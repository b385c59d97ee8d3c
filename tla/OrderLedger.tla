---------------------------- MODULE OrderLedger ----------------------------
(***************************************************************************)
(* One session's ledger in apps/paper-api: wallets, positions, orders, OCO *)
(* groups, reservations, idempotency claims, the account sequence and the  *)
(* fencing tokens, and every transaction that writes them.                 *)
(*                                                                         *)
(* Every writer first locks the session row FOR UPDATE, so the mutations   *)
(* of one session are serial and each is one atomic action here.  A        *)
(* transaction that throws rolls back and changes nothing: its conditions  *)
(* are the action's guards.                                                *)
(*                                                                         *)
(* Cash is counted in twentieths of a price unit, which makes the core's   *)
(* 1.05 price-protection multiplier exact (20 and 21 twentieths).          *)
(***************************************************************************)
EXTENDS Sums

CONSTANTS
    Orders,         \* order ids
    Groups,         \* OCO group ids
    Keys,           \* idempotency keys of placement requests
    Quotes,         \* FX quote ids, claimed in the same table as "fx-quote:<id>"
    Markets,        \* markets; a market also names the wallet of its currency
    Symbols,        \* instruments; a symbol also names its position
    None,           \* SQL null
    MarketOf,       \* the market a symbol trades on
    Prices,         \* prices the market may show
    MaxQuantity,    \* largest order quantity
    Fee,            \* the market's fee model, by side, price and quantity
    QuoteTerms,     \* what a quote converts
    Opening,        \* balances the session starts with
    MaxToken,       \* bound on the fencing tokens handed out
    MaxSequence     \* bound on the account sequence

Assets == Markets \cup Symbols
Owners == Orders \cup Groups
Quantities == 1 .. MaxQuantity
Sides == {"BUY", "SELL"}

Terminal == {"FILLED", "CANCELLED"}
Live == {"OPEN", "PARTIALLY_FILLED", "PENDING_TRIGGER"}
Immediate == {"MARKET", "LIMIT"}
Conditional == {"STOP", "TAKE_PROFIT"}
LegTypes == {"LIMIT", "STOP", "TAKE_PROFIT"}

Terms == [side : Sides, type : Immediate \cup Conditional, symbol : Symbols,
          quantity : Quantities, price : Prices,
          group : Groups \cup {None}, key : Keys]

ASSUME ConstantsAssumption ==
    /\ IsFiniteSet(Orders) /\ IsFiniteSet(Groups)
    /\ Orders \cap Groups = {} /\ Markets \cap Symbols = {}
    /\ Keys \cap Quotes = {}
    /\ None \notin Assets \cup Groups /\ None \notin Terms
    /\ MarketOf \in [Symbols -> Markets]
    /\ Prices \subseteq Nat \ {0}
    /\ MaxQuantity \in Nat \ {0}
    /\ Fee \in [Sides \X Prices \X Quantities -> Nat]
    /\ QuoteTerms \in [Quotes -> [from : Markets, to : Markets,
                                  source : Nat, target : Nat]]
    /\ \A x \in Quotes : QuoteTerms[x].from # QuoteTerms[x].to
    /\ Opening \in [Assets -> Nat]
    /\ MaxToken \in Nat /\ MaxSequence \in Nat

VARIABLES
    balance,        \* wallets and positions: total, available, reserved
    terms,          \* an order's immutable columns, None before it is placed
    status,         \* orders.status
    filled,         \* orders.filled_quantity
    fills,          \* quantity of the order's rows in the table fills
    winner,         \* orders.is_oco_winner
    groups,         \* oco_groups.status
    reservations,   \* the reservation row of an order or a group
    claims,         \* idempotency keys COMPLETED so far
    event,          \* the last outbox event about an order
    sequence,       \* the account sequence
    fence           \* leader_epochs.fencing_token of each market

rows == <<balance, terms, status, filled, fills, winner, groups,
          reservations, claims, event, sequence>>
vars == <<rows, fence>>

Event == [type : {"NONE", "ORDER_PLACED", "ORDER_FILLED", "ORDER_CANCELLED"},
          status : Terminal \cup Live \cup {"NONE"}, filled : Nat]

Say(type) == [type |-> type, status |-> "NONE", filled |-> 0]
SayFilledInFull(s, n) == [type |-> "ORDER_FILLED", status |-> "FILLED", filled |-> n]
SayFilled(s, n) == [type |-> "ORDER_FILLED", status |-> s, filled |-> n]

(***************************************************************************)
(* Amounts.                                                                *)
(***************************************************************************)
Notional(p, q) == 20 * p * q

\* What a BUY of q at p reserves before fees: the limit notional, or the
\* reference notional with the protection multiplier 1.05.
PlannedBuyCash(type, p, q) ==
    IF type = "LIMIT" THEN Notional(p, q) ELSE 21 * p * q

FeeOf(side, p, q) == IF q = 0 THEN 0 ELSE Fee[side, p, q]

\* The cash or shares a single order reserves when it is placed.
PlannedAmount(side, type, p, q) ==
    IF side = "BUY" THEN PlannedBuyCash(type, p, q) + FeeOf("BUY", p, q)
                    ELSE q

LargerOf(x, y) == IF x > y THEN x ELSE y

\* An OCO pair shares one reservation, sized without fees.
PlannedOcoAmount(side, first, second, q) ==
    IF side = "BUY"
    THEN LargerOf(PlannedBuyCash(first.type, first.price, q),
                  PlannedBuyCash(second.type, second.price, q))
    ELSE q

\* The asset an order spends, and the one it brings in.
SpentAsset(t) == IF t.side = "BUY" THEN MarketOf[t.symbol] ELSE t.symbol
BoughtAsset(t) == IF t.side = "BUY" THEN t.symbol ELSE MarketOf[t.symbol]

OwnerIgnoringGroup(o) == o

\* The owner of the reservation an order draws on.
OwnerOf(o) == IF terms[o].group = None THEN o ELSE terms[o].group

RestingWhateverStatus(o) ==
    terms[o] # None /\ terms[o].type \in Immediate /\ terms[o].group = None

\* Immediate orders rest in an engine's book; conditional ones and OCO legs are
\* watched for their trigger.  The ledger writes neither once it is terminal.
Resting(o) == /\ terms[o] # None
              /\ terms[o].type \in Immediate /\ terms[o].group = None
              /\ status[o] \notin Terminal
Watched(o) == /\ terms[o] # None
              /\ terms[o].type \in Conditional \/ terms[o].group # None
              /\ status[o] \notin Terminal

Legs(g) == {o \in Orders : terms[o] # None /\ terms[o].group = g}
CoveredAlone(o) == {o}
Covered(o) == IF terms[o].group = None THEN {o} ELSE Legs(terms[o].group)

\* Unreleased amounts held against an asset, by owner.
Held(a) == [r \in Owners |->
              IF reservations[r].released \/ reservations[r].asset # a
              THEN 0 ELSE reservations[r].amount]

(***************************************************************************)
(* Balance movements.                                                      *)
(***************************************************************************)
Reserved(b, x) ==
    [total |-> b.total, available |-> b.available - x,
     reserved |-> b.reserved + x]

Released(b, x) ==
    [total |-> b.total, available |-> b.available + x,
     reserved |-> b.reserved - x]

CreditedTwice(b, x) ==
    [total |-> b.total + 2 * x, available |-> b.available + 2 * x,
     reserved |-> b.reserved]

Credited(b, x) ==
    [total |-> b.total + x, available |-> b.available + x,
     reserved |-> b.reserved]

Debited(b, x) ==
    [total |-> b.total - x, available |-> b.available - x,
     reserved |-> b.reserved]

PlanWithoutShortfall(b, remaining, consumed, terminal, desired) ==
    [total |-> b.total - consumed, available |-> b.available - consumed,
     reserved |-> b.reserved, left |-> remaining, shortfall |-> 0]

PlanKeepingReservation(b, remaining, consumed, terminal, desired) ==
    [total     |-> b.total - consumed,
     available |-> b.available, reserved |-> b.reserved - consumed,
     left      |-> remaining, shortfall |-> 0]

\* planSettlement: the consumed amount leaves the reservation first and then
\* available; a terminal fill gives back what is left of the reservation, a
\* partial one what exceeds the exposure that remains.
PlanSettlement(b, remaining, consumed, terminal, desired) ==
    LET fromReservation == IF consumed < remaining THEN consumed ELSE remaining
        left == remaining - fromReservation
        back == IF terminal THEN left
                ELSE IF left > desired THEN left - desired ELSE 0
    IN  [total     |-> b.total - consumed,
         available |-> b.available - (consumed - fromReservation) + back,
         reserved  |-> b.reserved - fromReservation - back,
         left      |-> left - back,
         shortfall |-> consumed - fromReservation]

\* remainingExposure: what a LIMIT order still needs after filling up to n.
RemainingExposure(t, n) ==
    IF t.quantity = n THEN 0
    ELSE IF t.side = "SELL" THEN t.quantity - n
    ELSE Notional(t.price, t.quantity - n)
           + FeeOf("BUY", t.price, t.quantity - n)

\* settleFill: q units of order o change hands at price p, after which the
\* order stands at n filled units.
Settle(o, p, q, n, terminal) ==
    LET t == terms[o]
        r == reservations[OwnerOf(o)]
        consumed == IF t.side = "BUY" THEN Notional(p, q) + FeeOf("BUY", p, q)
                                      ELSE q
        gained == IF t.side = "BUY" THEN q
                                    ELSE Notional(p, q) - FeeOf("SELL", p, q)
        plan == PlanSettlement(balance[SpentAsset(t)],
                               IF r.released THEN 0 ELSE r.amount,
                               consumed, terminal, RemainingExposure(t, n))
    IN  /\ balance[SpentAsset(t)].available >= plan.shortfall
        /\ plan.reserved >= 0 /\ plan.total >= 0
        /\ gained >= 0
        /\ balance' = [balance EXCEPT
             ![SpentAsset(t)] = [total |-> plan.total,
                                 available |-> plan.available,
                                 reserved |-> plan.reserved],
             ![BoughtAsset(t)] = Credited(@, gained)]
        /\ reservations' =
             IF r.released THEN reservations
             ELSE [reservations EXCEPT ![OwnerOf(o)] =
                     [asset |-> r.asset, amount |-> plan.left,
                      released |-> terminal]]

(***************************************************************************)
(* Initial state: a session that may hold cash and shares and has no order *)
(* live.                                                                   *)
(***************************************************************************)
Init ==
    /\ balance = [a \in Assets |-> [total |-> Opening[a],
                                    available |-> Opening[a], reserved |-> 0]]
    /\ terms = [o \in Orders |-> None]
    /\ status = [o \in Orders |-> "NONE"]
    /\ filled = [o \in Orders |-> 0]
    /\ fills = [o \in Orders |-> 0]
    /\ winner = [o \in Orders |-> FALSE]
    /\ groups = [g \in Groups |-> "NONE"]
    /\ reservations = [r \in Owners |->
                         [asset |-> None, amount |-> 0, released |-> TRUE]]
    /\ claims = {}
    /\ event = [o \in Orders |-> Say("NONE")]
    /\ sequence = 0
    /\ fence = [m \in Markets |-> 0]

(***************************************************************************)
(* Placement.                                                              *)
(***************************************************************************)

\* The claim and the reservation both placements take: the key is fresh and
\* the balance covers the amount.
ClaimAndReserve(k, owner, a, amount) ==
    /\ k \notin claims
    /\ sequence < MaxSequence
    /\ balance[a].available >= amount
    /\ claims' = claims \cup {k}
    /\ balance' = [balance EXCEPT ![a] = Reserved(@, amount)]
    /\ reservations' = [reservations EXCEPT ![owner] =
                          [asset |-> a, amount |-> amount, released |-> FALSE]]
    /\ sequence' = sequence + 1

PlaceSingle(o, k, side, type, s, p, q) ==
    LET t == [side |-> side, type |-> type, symbol |-> s, quantity |-> q,
              price |-> p, group |-> None, key |-> k]
    IN  /\ status[o] = "NONE"
        /\ ClaimAndReserve(k, o, SpentAsset(t), PlannedAmount(side, type, p, q))
        /\ terms' = [terms EXCEPT ![o] = t]
        /\ status' = [status EXCEPT ![o] =
                        IF type \in Conditional THEN "PENDING_TRIGGER"
                                                ELSE "OPEN"]
        /\ event' = [event EXCEPT ![o] = Say("ORDER_PLACED")]
        /\ UNCHANGED <<filled, fills, winner, groups, fence>>

\* first and second give each leg's type and price; only the first leg is
\* named by the ORDER_PLACED event.
PlaceOco(o1, o2, g, k, side, s, q, first, second) ==
    LET t(leg) == [side |-> side, type |-> leg.type, symbol |-> s,
                   quantity |-> q, price |-> leg.price, group |-> g, key |-> k]
    IN  /\ o1 # o2 /\ status[o1] = "NONE" /\ status[o2] = "NONE"
        /\ groups[g] = "NONE"
        /\ ClaimAndReserve(k, g, SpentAsset(t(first)),
                           PlannedOcoAmount(side, first, second, q))
        /\ terms' = [terms EXCEPT ![o1] = t(first), ![o2] = t(second)]
        /\ status' = [status EXCEPT ![o1] = "PENDING_TRIGGER",
                                    ![o2] = "PENDING_TRIGGER"]
        /\ groups' = [groups EXCEPT ![g] = "ACTIVE"]
        /\ event' = [event EXCEPT ![o1] = Say("ORDER_PLACED")]
        /\ UNCHANGED <<filled, fills, winner, fence>>

(***************************************************************************)
(* Fills.                                                                  *)
(***************************************************************************)

\* matchOrder: the status after a match that brings the order to n units, q
\* of them now.
NextStatus(t, n, q) ==
    IF n >= t.quantity THEN "FILLED"
    ELSE IF t.type = "MARKET" THEN "CANCELLED"
    ELSE IF q = 0 THEN "OPEN"
    ELSE "PARTIALLY_FILLED"

\* A book level a LIMIT order may take.
Crosses(t, p) ==
    \/ t.type = "MARKET"
    \/ t.side = "BUY" /\ p <= t.price
    \/ t.side = "SELL" /\ p >= t.price

\* persistFill: an engine that believes e units of o are filled reports q more
\* at price p under a fencing token.  The row takes the engine's figure, not
\* its own plus q.  A match of no quantity is only reported when it changes
\* the engine's status, which takes a MARKET order or an earlier partial fill.
PersistFill(o, token, e, q, p) ==
    LET t == terms[o]
        next == NextStatus(t, e + q, q)
    IN  /\ sequence < MaxSequence
        /\ Resting(o)
        /\ token = fence[MarketOf[t.symbol]]
        /\ e + q <= t.quantity /\ e < t.quantity
        /\ q = 0 => t.type = "MARKET" \/ e > 0
        /\ q > 0 => Crosses(t, p)
        /\ filled' = [filled EXCEPT ![o] = e + q]
        /\ status' = [status EXCEPT ![o] = next]
        /\ fills' = [fills EXCEPT ![o] = @ + q]
        /\ Settle(o, p, q, e + q, next \in Terminal)
        /\ event' = [event EXCEPT ![o] = SayFilled(next, e + q)]
        /\ sequence' = sequence + 1
        /\ UNCHANGED <<terms, winner, groups, claims, fence>>

\* evaluateConditional; a LIMIT leg of an OCO is watched as a TAKE_PROFIT.
Triggers(t, p) ==
    IF (t.side = "BUY") = (t.type = "STOP") THEN p >= t.price
                                            ELSE p <= t.price

\* persistTrigger: the whole order fills at the reference price; the other leg
\* of its group is cancelled and the group resolved with it.
PersistTrigger(o, token, p) ==
    LET t == terms[o]
        siblings == {x \in Covered(o) \ {o} : status[x] \notin Terminal}
    IN  /\ sequence < MaxSequence
        /\ Watched(o)
        /\ token = fence[MarketOf[t.symbol]]
        /\ Triggers(t, p)
        /\ filled' = [filled EXCEPT ![o] = t.quantity]
        /\ fills' = [fills EXCEPT ![o] = @ + t.quantity]
        /\ winner' = [winner EXCEPT ![o] = t.group # None]
        /\ status' = [x \in Orders |-> IF x = o THEN "FILLED"
                                       ELSE IF x \in siblings THEN "CANCELLED"
                                       ELSE status[x]]
        /\ groups' = [g \in Groups |-> IF g = t.group /\ groups[g] = "ACTIVE"
                                       THEN "RESOLVED" ELSE groups[g]]
        /\ Settle(o, p, t.quantity, t.quantity, TRUE)
        /\ event' = [x \in Orders |->
                       IF x = o THEN SayFilled("FILLED", t.quantity)
                       ELSE IF x \in siblings THEN Say("ORDER_CANCELLED")
                       ELSE event[x]]
        /\ sequence' = sequence + 1 + Cardinality(siblings)
                         + (IF t.group = None THEN 0 ELSE 1)
        /\ UNCHANGED <<terms, claims, fence>>

(***************************************************************************)
(* Cancellation, by the user or by an operator: every leg that is not      *)
(* terminal is cancelled and the whole reservation goes back to available. *)
(***************************************************************************)
Cancel(o) ==
    LET r == reservations[OwnerOf(o)]
        cancelled == {x \in Covered(o) : status[x] \notin Terminal}
    IN  /\ sequence < MaxSequence
        /\ status[o] \in Live
        /\ r.released \/ balance[r.asset].reserved >= r.amount
        /\ status' = [x \in Orders |-> IF x \in cancelled THEN "CANCELLED"
                                                          ELSE status[x]]
        /\ groups' = [g \in Groups |->
                        IF g = terms[o].group /\ groups[g] = "ACTIVE"
                        THEN "RESOLVED" ELSE groups[g]]
        /\ balance' = IF r.released THEN balance
                      ELSE [balance EXCEPT ![r.asset] = Released(@, r.amount)]
        /\ reservations' = [reservations EXCEPT ![OwnerOf(o)].released = TRUE]
        /\ event' = [x \in Orders |-> IF x \in cancelled
                                      THEN Say("ORDER_CANCELLED") ELSE event[x]]
        /\ sequence' = sequence + Cardinality(cancelled)
        /\ UNCHANGED <<terms, filled, fills, winner, claims, fence>>

(***************************************************************************)
(* Currency conversion: a quote is claimed once and moves cash between     *)
(* wallets.                                                                *)
(***************************************************************************)
FxConvert(x) ==
    LET c == QuoteTerms[x]
    IN  /\ x \notin claims
        /\ sequence < MaxSequence
        /\ balance[c.from].available >= c.source
        /\ claims' = claims \cup {x}
        /\ balance' = [balance EXCEPT ![c.from] = Debited(@, c.source),
                                      ![c.to] = Credited(@, c.target)]
        /\ sequence' = sequence + 1
        /\ UNCHANGED <<terms, status, filled, fills, winner, groups,
                       reservations, event, fence>>

\* A new leader's acquisition raises the market's fencing token.
BumpFence(m) ==
    /\ fence[m] < MaxToken
    /\ fence' = [fence EXCEPT ![m] = @ + 1]
    /\ UNCHANGED rows

PlaceSomeOrder ==
    \E o \in Orders, k \in Keys, side \in Sides, s \in Symbols,
       p \in Prices, q \in Quantities :
         \E type \in Immediate \cup Conditional :
            PlaceSingle(o, k, side, type, s, p, q)

PlaceSomeOco ==
    \E o1, o2 \in Orders, g \in Groups, k \in Keys, side \in Sides,
       s \in Symbols, q \in Quantities :
         \E first, second \in [type : LegTypes, price : Prices] :
            PlaceOco(o1, o2, g, k, side, s, q, first, second)

PersistSomeFill ==
    \E o \in Orders, token \in 0 .. MaxToken, p \in Prices :
        \E e, q \in 0 .. MaxQuantity : PersistFill(o, token, e, q, p)

PersistSomeTrigger ==
    \E o \in Orders, token \in 0 .. MaxToken, p \in Prices :
        PersistTrigger(o, token, p)

Next ==
    \/ PlaceSomeOrder
    \/ PlaceSomeOco
    \/ PersistSomeFill
    \/ PersistSomeTrigger
    \/ \E o \in Orders : Cancel(o)
    \/ \E x \in Quotes : FxConvert(x)
    \/ \E m \in Markets : BumpFence(m)

Spec == Init /\ [][Next]_vars

(***************************************************************************)
(* Properties.                                                             *)
(***************************************************************************)

\* Every column has its type: amounts are never negative, whatever the
\* interleaving of placements, fills, cancellations and conversions.
TypeOK ==
    /\ balance \in [Assets -> [total : Nat, available : Nat, reserved : Nat]]
    /\ terms \in [Orders -> Terms \cup {None}]
    /\ status \in [Orders -> Terminal \cup Live \cup {"NONE"}]
    /\ filled \in [Orders -> 0 .. MaxQuantity]
    /\ fills \in [Orders -> Nat]
    /\ winner \in [Orders -> BOOLEAN]
    /\ groups \in [Groups -> {"NONE", "ACTIVE", "RESOLVED"}]
    /\ reservations \in [Owners -> [asset : Assets \cup {None}, amount : Nat,
                                    released : BOOLEAN]]
    /\ claims \subseteq Keys \cup Quotes
    /\ event \in [Orders -> Event]
    /\ sequence \in Nat
    /\ fence \in [Markets -> 0 .. MaxToken]

\* verifyLedgerInvariants, which startup runs before it serves: a balance is
\* its available and reserved parts, and the reserved part is exactly what
\* the unreleased reservations against it add up to.
LedgerReconciles ==
    \A a \in Assets :
        /\ balance[a].total = balance[a].available + balance[a].reserved
        /\ balance[a].reserved = Total(Held(a))

\* A single order has an unreleased reservation exactly while it is live, and
\* an OCO group exactly while it is ACTIVE: nothing stays reserved for an
\* order that ended, and no live order runs unreserved.
ReservationsFollowOrders ==
    /\ \A o \in Orders :
          ~ reservations[o].released
             <=> status[o] \in Live /\ terms[o].group = None
    /\ \A g \in Groups : ~ reservations[g].released <=> groups[g] = "ACTIVE"

\* One-cancels-other: an ACTIVE group has two pending legs; a RESOLVED one has
\* only terminal legs, and a leg filled exactly if it is the group's winner,
\* of which there is at most one.
OcoResolution ==
    \A g \in Groups :
        /\ groups[g] = "ACTIVE" =>
              /\ Cardinality(Legs(g)) = 2
              /\ \A o \in Legs(g) : status[o] = "PENDING_TRIGGER"
        /\ groups[g] = "RESOLVED" =>
              /\ \A o \in Legs(g) : status[o] \in Terminal
              /\ \A o \in Legs(g) : winner[o] <=> status[o] = "FILLED"
              /\ \A o, x \in Legs(g) : winner[o] /\ winner[x] => o = x

\* A client that follows the outbox knows every order: the last event about an
\* order says the status and the quantity its row holds.  Only the second leg
\* of a pending OCO has no event of its own yet.
EventsTellRows ==
    \A o \in Orders :
        CASE event[o].type = "NONE" ->
               \/ status[o] = "NONE"
               \/ status[o] = "PENDING_TRIGGER" /\ terms[o].group # None
          [] event[o].type = "ORDER_PLACED" ->
               status[o] \in {"OPEN", "PENDING_TRIGGER"} /\ filled[o] = 0
          [] event[o].type = "ORDER_FILLED" ->
               status[o] = event[o].status /\ filled[o] = event[o].filled
          [] event[o].type = "ORDER_CANCELLED" -> status[o] = "CANCELLED"

Filled(side, s) ==
    [o \in Orders |-> IF terms[o] # None /\ terms[o].side = side
                                         /\ terms[o].symbol = s
                      THEN fills[o] ELSE 0]

\* Shares come from fills only: a position holds what the session opened with
\* and bought, less what it sold, summed over the rows of the fills table.
SharesConserved ==
    \A s \in Symbols :
        balance[s].total + Total(Filled("SELL", s))
            = Opening[s] + Total(Filled("BUY", s))

\* A terminal order never changes again: no later fill, trigger or cancel
\* moves its status, its quantity or its fill rows.
TerminalIsFinal ==
    [][\A o \in Orders : status[o] \in Terminal =>
          /\ status'[o] = status[o]
          /\ filled'[o] = filled[o]
          /\ fills'[o] = fills[o]]_vars

=============================================================================
