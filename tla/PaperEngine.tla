---------------------------- MODULE PaperEngine ----------------------------
(***************************************************************************)
(* The matching engine of one instrument against the durable ledger. The   *)
(* engine decides from its own maps and then awaits the transaction that   *)
(* persists the decision; meanwhile requests commit placements and         *)
(* cancellations in the ledger and tell the engine afterwards, leases move *)
(* between processes, and a transaction fails or leaves its outcome open.  *)
(*                                                                         *)
(* #serialize lets one work item run at a time, so a node is either idle   *)
(* or in the middle of one match or one trade. The row locks make each     *)
(* ledger transaction one step; engine and ledger steps interleave freely. *)
(* The production wiring passes neither calendar nor emergency latch.      *)
(***************************************************************************)
EXTENDS Integers, Sequences, FiniteSetsExt

CONSTANTS
  Nodes,            \* API processes that compete for the market's lease
  Orders,           \* order ids
  Scenarios,        \* what the orders ask for, the books and trade prices the
                    \* provider may show them, and the bound maxFaults on
                    \* failed transactions, lost leases and crashes
  MaxDeviationBps,  \* price protection of a market-style order
  MaxTokens,        \* bound: leases granted
  MaxEvents         \* bound: market events shown

ASSUME Bounds == /\ MaxDeviationBps \in Nat /\ MaxTokens \in Nat /\ MaxEvents \in Nat
                 /\ \A s \in Scenarios : s.maxFaults \in Nat

\* Orders are named in the order of their placement.
ASSUME OrdersAssumption == Orders \subseteq Nat

\* Quantities, prices and volumes are naturals, as assertOrder and assertBook
\* require; a price is counted in the smallest step of its market.
Books == [bids : Seq([price : Nat, volume : Nat]), asks : Seq([price : Nat, volume : Nat])]

ASSUME ScenariosAssumption ==
  \A s \in Scenarios :
    /\ DOMAIN s.orders = Orders
    /\ \A o \in Orders : s.orders[o].quantity \in Nat /\ s.orders[o].price \in Nat
    /\ s.books \subseteq Books

None == "none"

\* A process identifies itself; none is called "none".
ASSUME NodesAssumption == None \notin Nodes

Matchable == {"OPEN", "PARTIALLY_FILLED"}
Terminal == {"FILLED", "CANCELLED", "EXPIRED", "REJECTED"}
Conditional == {"STOP", "TAKE_PROFIT"}

VARIABLES
  spec,    \* what each order id asks for; fixed
  feed,    \* the books, trades and fault bound of the scenario; fixed
  row,     \* orders table: status and filled_quantity
  sold,    \* fills table: shares filled per order
  fence,   \* leader_epochs: the newest fencing token
  holder,  \* the node whose session holds the market's advisory lock
  filler,  \* history: the token of the last committed fill
  node,    \* per process: its lease, gate, store, engine maps and work item
  calls,   \* per process: committed requests on their way to the engine
  astray,  \* history: orders whose engine copy the code lets drift from the row
  faults,  \* faults so far
  shown    \* market events shown so far

vars == <<spec, feed, row, sold, fence, holder, filler, node, calls, astray, faults, shown>>
fixed == <<spec, feed>>
ledger == <<row, sold, filler>>

Absent == [status |-> "absent", filled |-> 0]
Idle == [kind |-> "idle"]
NoBook == [token |-> 0]

\* An engine as constructed: empty maps, no lease, gate closed.
Fresh == [up |-> FALSE, held |-> 0, open |-> FALSE, version |-> 0,
          latest |-> <<0, 0>>, book |-> NoBook,
          orders |-> [o \in Orders |-> Absent],
          conditional |-> [o \in Orders |-> "absent"], work |-> Idle]

Init == /\ \E s \in Scenarios :
             /\ spec = s.orders
             /\ feed = [books |-> s.books, trades |-> s.trades, maxFaults |-> s.maxFaults]
        /\ row = [o \in Orders |-> Absent] /\ sold = [o \in Orders |-> 0]
        /\ fence = 0 /\ holder = None /\ filler = 0
        /\ node = [n \in Nodes |-> Fresh] /\ calls = [n \in Nodes |-> {}]
        /\ astray = {} /\ faults = 0 /\ shown = 0

Fault == faults < feed.maxFaults /\ faults' = faults + 1

-----------------------------------------------------------------------------
(* Execution of one order against one book.                                *)

Levels(s, book) == IF s.side = "BUY" THEN book.asks ELSE book.bids

\* The engine's "mid" is the best ask.
ReferencePrice(book) == book.asks[1].price

\* assertBook: two-sided, of positive levels with the best first on each side,
\* and not crossed, or the match throws.
Usable(book) ==
  /\ book.bids # <<>> /\ book.asks # <<>>
  /\ \A i \in DOMAIN book.bids : book.bids[i].price > 0 /\ book.bids[i].volume > 0
  /\ \A i \in DOMAIN book.asks : book.asks[i].price > 0 /\ book.asks[i].volume > 0
  /\ \A i, j \in DOMAIN book.bids : i < j => book.bids[i].price > book.bids[j].price
  /\ \A i, j \in DOMAIN book.asks : i < j => book.asks[i].price < book.asks[j].price
  /\ book.bids[1].price < book.asks[1].price

MarketStyle(s) == s.type \notin {"LIMIT"}

WithinLimit(s, price) ==
  s.type = "LIMIT" => IF s.side = "BUY" THEN price <= s.price ELSE price >= s.price

WithinProtection(price, mid) ==
  (IF price > mid THEN price - mid ELSE mid - price) * 10000 <= mid * MaxDeviationBps

Eligible(s, book, i) ==
  /\ WithinLimit(s, Levels(s, book)[i].price)
  /\ MarketStyle(s) => WithinProtection(Levels(s, book)[i].price, ReferencePrice(book))

\* A walk that leaves the limit to the protection band.
DepthUnlimited(s, book) == Len(Levels(s, book))

\* The levels the walk reaches: it stops at the first one out of bounds.
Depth(s, book) ==
  Max({k \in 0..Len(Levels(s, book)) : \A i \in 1..k : Eligible(s, book, i)})

\* What is left of the order after level i.
Remaining(s, book, wanted) ==
  LET left[i \in 0..Depth(s, book)] ==
        IF i = 0 THEN wanted
        ELSE left[i - 1] - Min({left[i - 1], Levels(s, book)[i].volume})
  IN left

\* assertOrder reads both quantities; a live order has something left.
Wanted(s, filled) == s.quantity - filled

\* calculateExecution: shares taken from each level in walk order, and in all.
CalculateExecution(s, book, filled) ==
  LET left == Remaining(s, book, Wanted(s, filled))
  IN [taken |-> [i \in 1..Depth(s, book) |-> left[i - 1] - left[i]],
      filledThisRun |-> left[0] - left[Depth(s, book)]]

\* matchOrder: the entry the order moves to. A market-style remainder is
\* cancelled at once; a limit order that took nothing is OPEN again.
MatchOrder(s, book, entry) ==
  LET execution == CalculateExecution(s, book, entry.filled)
      filled == entry.filled + execution.filledThisRun
  IN [filled |-> filled, taken |-> execution.taken,
      status |-> CASE filled >= s.quantity -> "FILLED"
                   [] filled < s.quantity /\ MarketStyle(s) -> "CANCELLED"
                   [] filled < s.quantity /\ ~MarketStyle(s) ->
                        IF execution.filledThisRun = 0 THEN "OPEN" ELSE "PARTIALLY_FILLED"]

\* evaluateConditional: a BUY stop and a SELL take-profit watch upward.
Crossed(s, price) ==
  LET upward == (s.side = "BUY") = (s.watch = "STOP")
  IN IF upward THEN price >= s.price ELSE price <= s.price

Group(o) == {p \in Orders : p = o \/ (spec[o].group # None /\ spec[p].group = spec[o].group)}
Waits(o) == spec[o].type \in Conditional \/ spec[o].group # None

-----------------------------------------------------------------------------
(* What the engine remembers while it awaits a transaction.                *)

\* Copies that take an error for a commit whose answer was lost.
SettledAhead(e) ==
  LET w == e.work
  IN IF w.outcome \in Terminal
     THEN [e EXCEPT !.orders[w.order] = [w.was EXCEPT !.status = w.outcome]]
     ELSE e

\* Copies that undo a failed trigger in one of the two maps only.
SettledHalf(e) ==
  LET w == e.work
  IN IF w.outcome = "committed" THEN e ELSE [e EXCEPT !.orders[w.order] = w.was]

\* The engine's copies once the answer is in. A terminal row is mirrored
\* exactly; any other error restores the copy it decided from.
Settled(e) ==
  LET w == e.work
      mirrored == [status |-> w.outcome,
                   filled |-> IF w.outcome = "FILLED" THEN spec[w.order].quantity ELSE w.was.filled]
  IN CASE w.outcome = "committed" -> e
       [] w.outcome = "error" /\ w.kind = "match" -> [e EXCEPT !.orders[w.order] = w.was]
       [] w.outcome = "error" /\ w.kind = "trade" ->
            [e EXCEPT !.orders[w.order] = w.was, !.conditional[w.order] = "PENDING_TRIGGER"]
       [] OTHER -> [e EXCEPT !.orders[w.order] = mirrored]

\* The copies the engine e will be left with: a transaction that is still to
\* run when the next lease is granted is refused.
Resting(e) ==
  IF e.work = Idle THEN e
  ELSE Settled([e EXCEPT !.work.outcome = IF @ = "pending" THEN "error" ELSE @])

\* The engine's copy says what the row says of an order still alive.
Mirrors(e, o) ==
  /\ row[o].status \in Matchable => e.orders[o] = row[o]
  /\ row[o].status = "PENDING_TRIGGER" => e.conditional[o] = "PENDING_TRIGGER"

-----------------------------------------------------------------------------
(* Leases and processes.                                                   *)

\* #restoreOpenOrders, before the lease is acquired: the rows as they are now.
\* A waiting order that is not a STOP or TAKE_PROFIT row is skipped.
Restored(n) ==
  LET watched == {o \in Orders : row[o].status = "PENDING_TRIGGER" /\ spec[o].type \in Conditional}
  IN [node[n] EXCEPT !.up = TRUE,
        !.orders = [o \in Orders |->
           IF row[o].status \in Matchable \/ o \in watched THEN row[o] ELSE Absent],
        !.conditional = [o \in Orders |->
           IF o \in watched THEN "PENDING_TRIGGER" ELSE "absent"]]

Boot(n) ==
  /\ ~node[n].up
  /\ node' = [node EXCEPT ![n] = Restored(n)]
  /\ UNCHANGED <<fixed, shown, ledger, fence, holder, calls, astray, faults>>

\* The first lease of a life, or a re-election, which restores nothing, not
\* even the copy that a transaction of the old lease is about to undo.
Acquire(n) ==
  /\ node[n].up /\ node[n].held = 0 /\ holder = None /\ fence < MaxTokens
  /\ fence' = fence + 1 /\ holder' = n
  /\ node' = [node EXCEPT ![n].held = fence + 1, ![n].version = 0]
  /\ astray' = astray \cup {o \in Orders : ~Mirrors(Resting(node[n]), o)}
  /\ UNCHANGED <<fixed, shown, ledger, calls, faults>>

OpenGate(n) ==
  /\ node[n].held # 0 /\ ~node[n].open
  /\ node' = [node EXCEPT ![n].open = TRUE]
  /\ UNCHANGED <<fixed, shown, ledger, fence, holder, calls, astray, faults>>

\* The session that held the lock dies; the process learns of it later.
LoseLock(n) ==
  /\ Fault /\ holder = n /\ holder' = None
  /\ UNCHANGED <<fixed, shown, ledger, fence, node, calls, astray>>

Notice(n) ==
  /\ node[n].held # 0 /\ holder # n
  /\ node' = [node EXCEPT ![n].held = 0, ![n].open = FALSE]
  /\ UNCHANGED <<fixed, shown, ledger, fence, holder, calls, astray, faults>>

\* A reconnection under the same lease: the gate closes and the store counts
\* its versions from zero again, in the same epoch.
Reconnect(n) ==
  /\ Fault /\ node[n].open
  /\ node' = [node EXCEPT ![n].open = FALSE, ![n].version = 0]
  /\ UNCHANGED <<fixed, shown, ledger, fence, holder, calls, astray>>

Crash(n) ==
  /\ Fault /\ node[n].up
  /\ node' = [node EXCEPT ![n] = Fresh] /\ calls' = [calls EXCEPT ![n] = {}]
  /\ holder' = IF holder = n THEN None ELSE holder
  /\ UNCHANGED <<fixed, shown, ledger, fence, astray>>

-----------------------------------------------------------------------------
(* Requests: the ledger first, the engine after the commit.                *)

\* #placeSingle and #placeOco commit the rows. A process that no longer holds
\* the lock still commits them, but the new leader is not told.
Place(n, o) ==
  /\ node[n].open /\ row[o].status = "absent" /\ o = Min(Group(o))
  /\ \A p \in Orders : p < o => row[p].status # "absent"
  /\ row' = [p \in Orders |->
       IF p \in Group(o)
       THEN [status |-> IF Waits(o) THEN "PENDING_TRIGGER" ELSE "OPEN", filled |-> 0]
       ELSE row[p]]
  /\ calls' = [calls EXCEPT ![n] = @ \cup {<<"place", o>>}]
  /\ astray' = IF holder = n THEN astray ELSE astray \cup Group(o)
  /\ UNCHANGED <<fixed, shown, sold, fence, holder, filler, node, faults>>

\* createOrderCancellation, step 1: every live leg, in one transaction.
CancelLedger(n, o) ==
  /\ node[n].open /\ row[o].status \notin Terminal \cup {"absent"}
  /\ LET legs == {p \in Group(o) : row[p].status \notin Terminal}
     IN /\ row' = [p \in Orders |->
                     IF p \in legs THEN [row[p] EXCEPT !.status = "CANCELLED"] ELSE row[p]]
        /\ calls' = [calls EXCEPT ![n] = @ \cup {<<"cancel", p>> : p \in legs}]
  /\ UNCHANGED <<fixed, shown, sold, fence, holder, filler, node, astray, faults>>

Done(n, call) == calls' = [calls EXCEPT ![n] = @ \ {call}]

Registered(e, o) ==
  [e EXCEPT
     !.conditional = [p \in Orders |->
        IF p \in Group(o) THEN "PENDING_TRIGGER" ELSE e.conditional[p]],
     !.orders = [p \in Orders |->
        IF p \in Group(o) THEN [status |-> "PENDING_TRIGGER", filled |-> 0] ELSE e.orders[p]],
     !.work = IF e.work.kind = "trade" THEN [e.work EXCEPT !.todo = e.work.todo \cup Group(o)]
              ELSE e.work]

\* registerConditionalOrder does not queue: it may land in the middle of a
\* trade, whose loop over the live map then visits it.
EngineRegister(n, o) ==
  /\ <<"place", o>> \in calls[n] /\ Waits(o)
  /\ node' = [node EXCEPT ![n] = Registered(node[n], o)]
  /\ Done(n, <<"place", o>>)
  /\ UNCHANGED <<fixed, shown, ledger, fence, holder, astray, faults>>

\* createOrderCancellation, step 2: the engine drops the order. A conditional
\* order stays in the map the triggers are evaluated from.
EngineCancel(n, o) ==
  /\ <<"cancel", o>> \in calls[n] /\ node[n].work = Idle
  /\ LET entry == node[n].orders[o]
     IN node' = [node EXCEPT ![n].orders[o] =
          IF entry.status \in Terminal \cup {"absent"} THEN entry
          ELSE [entry EXCEPT !.status = "CANCELLED"]]
  /\ Done(n, <<"cancel", o>>)
  /\ UNCHANGED <<fixed, shown, ledger, fence, holder, astray, faults>>

-----------------------------------------------------------------------------
(* Market events and the work items they start.                            *)

\* The orders the loop of e's work item still acts on; it passes over the rest.
Acting(e) ==
  LET w == e.work
  IN CASE w.kind = "match" ->
            {o \in w.todo : /\ e.held = w.env.token
                            /\ LET m == MatchOrder(spec[o], w.env.payload, e.orders[o])
                               IN m.filled # e.orders[o].filled \/ m.status # e.orders[o].status}
       [] w.kind = "trade" ->
            {o \in w.todo : /\ e.open /\ e.conditional[o] = "PENDING_TRIGGER"
                            /\ Crossed(spec[o], w.env.payload)}

\* The engine moves its own copy first and then awaits the transaction.
InFlight(w, o, was, next) ==
  [kind |-> w.kind, env |-> w.env, todo |-> w.todo \ {o},
   order |-> o, was |-> was, next |-> next, outcome |-> "pending"]

FillStarts(e, o) ==
  LET m == MatchOrder(spec[o], e.work.env.payload, e.orders[o])
  IN [e EXCEPT !.orders[o] = [status |-> m.status, filled |-> m.filled],
               !.work = InFlight(e.work, o, e.orders[o], m)]

TriggerStarts(e, o) ==
  [e EXCEPT !.conditional[o] = "TRIGGERED",
            !.orders[o] = [e.orders[o] EXCEPT !.status = "TRIGGERED"],
            !.work = InFlight(e.work, o, [e.orders[o] EXCEPT !.status = "PENDING_TRIGGER"],
                              [status |-> "FILLED", filled |-> spec[o].quantity])]

\* The loop runs without awaiting to its next transaction or to its end. Its
\* order is that in which the orders reached the map, which requests racing to
\* the engine leave open.
Advance(e) ==
  IF Acting(e) = {} THEN {[e EXCEPT !.work = Idle]}
  ELSE {IF e.work.kind = "match" THEN FillStarts(e, o) ELSE TriggerStarts(e, o) :
          o \in Acting(e)}

\* #matchBook: nothing while the gate is exclusive, and a book that does not
\* pass assertBook throws before the first order is touched.
MatchBook(e, env) ==
  IF e.open /\ Usable(env.payload)
  THEN Advance([e EXCEPT !.work =
         [kind |-> "match", env |-> env,
          todo |-> {o \in Orders : e.orders[o].status \in Matchable}]])
  ELSE {e}

\* placeImmediateOrder: the order joins the map and the cached book, if any,
\* is matched against every open order.
EnginePlace(n, o) ==
  /\ <<"place", o>> \in calls[n] /\ ~Waits(o) /\ node[n].work = Idle
  /\ LET e == [node[n] EXCEPT !.orders[o] = [status |-> "OPEN", filled |-> 0]]
     IN \E after \in IF e.book = NoBook THEN {e} ELSE MatchBook(e, e.book) :
          node' = [node EXCEPT ![n] = after]
  /\ Done(n, <<"place", o>>)
  /\ UNCHANGED <<fixed, shown, ledger, fence, holder, astray, faults>>

\* applyEvent and envelope: the store stamps the event with its lease.
Envelope(e, payload) ==
  [payload |-> payload, token |-> e.held, version |-> e.version + 1]

\* #rememberEnvelope: newer than everything seen before.
Accepts(e, env) ==
  \/ env.token > e.latest[1]
  \/ env.token = e.latest[1] /\ env.version > e.latest[2]

\* The engine that has accepted the event, and what it keeps of the envelope.
Remembered(e, payload) ==
  LET env == Envelope(e, payload)
  IN [e EXCEPT !.version = @ + 1, !.latest = <<env.token, env.version>>]

Stamp(e, payload) == [payload |-> payload, token |-> e.held]

\* An event reaches the front of the chain. One stamped under a lease the node
\* has lost since is dropped there and changes nothing: it is no step.
Event(n, payload, handled) ==
  /\ node[n].held # 0 /\ node[n].work = Idle
  /\ shown < MaxEvents /\ shown' = shown + 1
  /\ \E after \in IF Accepts(node[n], Envelope(node[n], payload))
                  THEN handled
                  ELSE {[node[n] EXCEPT !.version = @ + 1]} :
       node' = [node EXCEPT ![n] = after]
  /\ UNCHANGED <<fixed, ledger, fence, holder, calls, astray, faults>>

OnOrderBook(n, book) ==
  LET env == Stamp(node[n], book)
  IN Event(n, book, MatchBook([Remembered(node[n], book) EXCEPT !.book = env], env))

OnTrade(n, price) ==
  Event(n, price,
        Advance([Remembered(node[n], price) EXCEPT
                   !.work = [kind |-> "trade", env |-> Stamp(node[n], price), todo |-> Orders]]))

-----------------------------------------------------------------------------
(* The transactions.                                                       *)

Answer(n, outcome) ==
  node' = [node EXCEPT ![n].work.outcome = outcome]

\* persistFill writes the absolute quantity the engine computed and inserts
\* the executed shares; ack is what the engine hears of a commit.
CommitFill(n, ack) ==
  LET w == node[n].work
      o == w.order
  IN /\ row' = [row EXCEPT ![o] = [status |-> w.next.status, filled |-> w.next.filled]]
     /\ sold' = [sold EXCEPT ![o] = @ + w.next.filled - w.was.filled]
     /\ filler' = w.env.token
     /\ Answer(n, ack)

\* A fill that trusts the token the engine checked before it queued.
PersistFillUnfenced(n, ack) ==
  LET status == row[node[n].work.order].status
  IN IF status \in Terminal THEN Answer(n, status) /\ UNCHANGED ledger ELSE CommitFill(n, ack)

PersistFill(n, ack) ==
  LET w == node[n].work
      status == row[w.order].status
  IN CASE status \in Terminal -> Answer(n, status) /\ UNCHANGED ledger
       [] status \notin Terminal /\ fence # w.env.token -> Answer(n, "error") /\ UNCHANGED ledger
       [] OTHER -> CommitFill(n, ack)

\* persistTrigger checks the token first, returns quietly from a terminal row
\* and otherwise fills the whole order and cancels its sibling.
PersistTrigger(n, ack) ==
  LET w == node[n].work
      o == w.order
  IN CASE fence # w.env.token -> Answer(n, "error") /\ UNCHANGED ledger
       [] fence = w.env.token /\ row[o].status \in Terminal -> Answer(n, ack) /\ UNCHANGED ledger
       [] OTHER -> /\ row' = [p \in Orders |->
                        CASE p = o -> [status |-> "FILLED", filled |-> spec[o].quantity]
                          [] p # o /\ p \in Group(o) /\ row[p].status \notin Terminal ->
                               [row[p] EXCEPT !.status = "CANCELLED"]
                          [] OTHER -> row[p]]
                   /\ sold' = [sold EXCEPT ![o] = @ + spec[o].quantity]
                   /\ filler' = w.env.token
                   /\ Answer(n, ack)

Persist(n, ack) ==
  IF node[n].work.kind = "match" THEN PersistFill(n, ack) ELSE PersistTrigger(n, ack)

Persisting(n) == node[n].work # Idle /\ node[n].work.outcome = "pending"

Transact(n) ==
  /\ Persisting(n) /\ Persist(n, "committed")
  /\ UNCHANGED <<fixed, shown, fence, holder, calls, astray, faults>>

\* The database refuses or the connection dies before the commit.
TransactFails(n) ==
  /\ Fault /\ Persisting(n) /\ Answer(n, "error")
  /\ UNCHANGED <<fixed, shown, ledger, fence, holder, calls, astray>>

\* The commit went through and its acknowledgement did not: the engine takes
\* the error for "nothing was committed".
AckLost(n) ==
  /\ Fault /\ Persisting(n) /\ Persist(n, "error")
  /\ astray' = astray \cup {node[n].work.order}
  /\ UNCHANGED <<fixed, shown, fence, holder, calls>>

\* The loop goes on, except that an error ends a match (but not a trade).
Resume(n) ==
  LET w == node[n].work
      e == Settled(node[n])
  IN /\ w # Idle /\ w.outcome # "pending"
     /\ \E after \in IF w.kind = "match" /\ w.outcome = "error" THEN {[e EXCEPT !.work = Idle]}
                     ELSE Advance([e EXCEPT !.work =
                            [kind |-> w.kind, env |-> w.env, todo |-> w.todo]]) :
          node' = [node EXCEPT ![n] = after]
     /\ UNCHANGED <<fixed, shown, ledger, fence, holder, calls, astray, faults>>

-----------------------------------------------------------------------------

Next == \E n \in Nodes :
  \/ Boot(n) \/ Acquire(n) \/ OpenGate(n) \/ LoseLock(n) \/ Notice(n) \/ Reconnect(n)
  \/ Crash(n)
  \/ Transact(n) \/ TransactFails(n) \/ AckLost(n) \/ Resume(n)
  \/ \E b \in feed.books : OnOrderBook(n, b)
  \/ \E t \in feed.trades : OnTrade(n, t)
  \/ \E o \in Orders : \/ Place(n, o) \/ CancelLedger(n, o) \/ EngineRegister(n, o)
                       \/ EngineCancel(n, o) \/ EnginePlace(n, o)

Spec == Init /\ [][Next]_vars

-----------------------------------------------------------------------------
(* Properties.                                                             *)

\* The shares recorded in the fills table are the filled quantity of the order
\* row and never more than was ordered, whatever fails between the engine's
\* decision and its transaction, for every order the leader's copy of which
\* was right when it took the lease and no acknowledgement of which was lost.
\* (The row is overwritten with the engine's absolute quantity.)
FillsAddUp ==
  \A o \in Orders \ astray : sold[o] = row[o].filled /\ sold[o] <= spec[o].quantity

\* Within one leadership the engine never loses sight of a live order: at
\* rest, its copy has the status and quantity of the row, after failed
\* transactions, refused tokens, reconnections and races with requests.
LiveOrdersMirrored ==
  \A n \in Nodes, o \in Orders \ astray :
    /\ holder = n /\ node[n].held = fence /\ node[n].work = Idle
    /\ <<"place", Min(Group(o))>> \notin calls[n]
    => Mirrors(node[n], o)

\* A deposed leader that still believes in its lease never adds a fill after
\* its successor has: the tokens of committed fills never go back.
FillsFollowTheFence == [][filler' >= filler]_vars

\* The sum of the first n terms of f.
SumOf(f, n) ==
  LET sum[i \in 0..n] == IF i = 0 THEN 0 ELSE sum[i - 1] + f[i]
  IN sum[n]

\* What taking way from the first n levels comes to.
Cost(way, levels, n) == SumOf([i \in 1..n |-> way[i] * levels[i].price], n)

\* The walk is the best execution the rules allow: no other way to take
\* shares from levels within the limit and the protection band takes more of
\* the order, or as many at a better price.
BestExecution ==
  \A n \in Nodes : node[n].work.kind = "match" /\ Persisting(n) =>
    LET w == node[n].work
        s == spec[w.order]
        levels == Levels(s, w.env.payload)
        end == Len(levels)
        top == Max({levels[i].volume : i \in 1..end})
        ways == {way \in [1..end -> 0..top] : \A i \in 1..end :
                   /\ way[i] <= levels[i].volume
                   /\ way[i] > 0 => Eligible(s, w.env.payload, i)}
        taken == w.next.taken
        reach == Len(taken)
    IN /\ \A i \in 1..reach : taken[i] > 0 => Eligible(s, w.env.payload, i)
       /\ \A way \in ways : SumOf(way, end) <= Wanted(s, w.was.filled) =>
            \/ SumOf(way, end) < SumOf(taken, reach)
            \/ /\ SumOf(way, end) = SumOf(taken, reach)
               /\ IF s.side = "BUY" THEN Cost(way, levels, end) >= Cost(taken, levels, reach)
                  ELSE Cost(way, levels, end) <= Cost(taken, levels, reach)
=============================================================================
