---------------------------- MODULE LedgerLocks ----------------------------
(***************************************************************************)
(* The ledger transactions of one account, statement by statement.         *)
(*                                                                         *)
(* OrderLedger takes every ledger transaction as one atomic step.  This    *)
(* module opens them up: placements, OCO placements, cancellations, fills, *)
(* triggers, conversions and session touches are the sequences of row      *)
(* locks, unique-key claims and reads their code performs, run             *)
(* concurrently under PostgreSQL's row-lock conflicts, with the lock-order *)
(* guard of db/lock-order.ts watching the ones that go through the         *)
(* UnitOfWork and the bounded retries of both transaction runners.         *)
(*                                                                         *)
(* The rows of different sessions are disjoint, so one session suffices.   *)
(* A row is addressed by its place in the global order, the rank of its    *)
(* table and its key, compared as the guard compares (rank, key).          *)
(***************************************************************************)
EXTENDS Naturals, Sequences, FiniteSets

CONSTANTS
    Tx,             \* the requests and engine callbacks running concurrently
    Requests,       \* the commands they may carry
    Legs,           \* the legs of the order's OCO pair, ascending; itself alone otherwise
    Cash,           \* the orders whose reservation is in cash (a wallet)
    MarketOf,       \* the market of each order: 1 settles in KRW, 2 in USD
    FirstSequence,  \* the last account sequence allocated before the model starts
    MaxRetries,     \* UnitOfWork retries
    MaxAttempts,    \* runSessionTransaction attempts
    MaxFaults       \* bound on driver errors

ASSUME BoundsAssumption ==
    {FirstSequence, MaxRetries, MaxAttempts, MaxFaults} \subseteq Nat

Orders == DOMAIN Legs
Grouped(o) == Len(Legs[o]) > 1
LegSet(o) == {Legs[o][i] : i \in 1..Len(Legs[o])}

ASSUME LegsAssumption ==
    /\ Orders \subseteq Nat /\ MarketOf \in [Orders -> {1, 2}]
    /\ \A o \in Orders :
          /\ Legs[o] \in Seq(Orders) /\ Len(Legs[o]) \in 1..2
          /\ Grouped(o) => Legs[o][1] < Legs[o][2]
          /\ o \in LegSet(o) /\ \A leg \in LegSet(o) : Legs[leg] = Legs[o]

\* The commands whose outcome is stored under the key they carry; 0 is no key.
Stores(r) == r.kind \in {"place", "oco", "convert"}

ASSUME RequestsAssumption ==
    \A r \in Requests :
        /\ r.kind \in {"place", "oco", "convert", "cancel", "touch", "fill", "trigger", "expire"}
        /\ r.kind \in {"cancel", "fill", "trigger"} => r.order \in Orders
        /\ r.key \in Nat /\ (Stores(r) <=> r.key /= 0)

VARIABLES
    request,    \* what each transaction was asked to do
    tx,         \* its open database transaction
    answer,     \* what its caller was told; "none" while it runs
    ledger,     \* the committed rows the transactions decide on
    effects,    \* how often the command of each has been committed
    faults
vars == <<request, tx, answer, ledger, effects, faults>>

----------------------------------------------------------------------------
(* Places in the lock order *)

LedgerLockOrderKeysFirst ==
    <<"idempotency_requests", "anonymous_sessions", "wallets", "positions",
      "oco_groups", "orders", "reservations", "outbox_events">>
LedgerLockOrder ==
    <<"anonymous_sessions", "idempotency_requests", "wallets", "positions",
      "oco_groups", "orders", "reservations", "outbox_events">>

Rank(table) == CHOOSE i \in 1..Len(LedgerLockOrder) : LedgerLockOrder[i] = table

KeyShare == 1
NoKeyUpdate == 2
ForUpdate == 3

\* String order of rendered keys: the first difference decides, a prefix is smaller.
KeyPrecedes(a, b) ==
    \/ \E i \in 1..Len(b) :
           /\ i <= Len(a) /\ a[i] < b[i]
           /\ \A j \in 1..(i - 1) : a[j] = b[j]
    \/ Len(a) < Len(b) /\ \A j \in 1..Len(a) : a[j] = b[j]

Place(table, key) == <<Rank(table), key>>
Precedes(a, b) == a[1] < b[1] \/ (a[1] = b[1] /\ KeyPrecedes(a[2], b[2]))

\* Zero-padding makes the string order of sequence keys the numeric order.
SequenceLockKey(n) == <<n \div 10, n % 10>>

\* 'o' sorts above every character of a uuid, so the winner's slot of a group
\* is behind all order rows.
OrderKey(o) == <<0, o>>
OcoWinnerClaimKey(g) == <<1, g>>

Row(table, key, mode) == [do |-> "row", at |-> Place(table, key), mode |-> mode]
Claim(table, key) == [do |-> "claim", at |-> Place(table, key), mode |-> ForUpdate]
Do(what) == [do |-> what, at |-> <<>>, mode |-> KeyShare]

Session(mode) == Row("anonymous_sessions", <<1>>, mode)
Order(o, mode) == Row("orders", OrderKey(o), mode)
Group(o, mode) == Row("oco_groups", <<Legs[o][1]>>, mode)
Reservation(o, mode) == Row("reservations", <<Legs[o][1]>>, mode)
Wallet(currency, mode) == Row("wallets", <<currency>>, mode)
Position(market, mode) == Row("positions", <<market>>, mode)
Balance(cash, market, mode) == IF cash THEN Wallet(market, mode) ELSE Position(market, mode)

----------------------------------------------------------------------------
(* The statements of each operation.  Opening(r) runs up to the read the   *)
(* command is decided on, Rest(r, ...) is what follows.                    *)

\* The first statement of runSessionTransaction.
PinSessionSkipped == <<>>
PinSession == <<Session(ForUpdate)>>

\* Both balances whatever the side, wallets before positions.
LockBalances(o) == <<Wallet(MarketOf[o], ForUpdate), Position(MarketOf[o], ForUpdate)>>

LockLegs(o) ==
    (IF Grouped(o) THEN <<Group(o, ForUpdate)>> ELSE <<>>)
        \o [i \in 1..Len(Legs[o]) |-> Order(Legs[o][i], ForUpdate)]

\* Claiming the key writes the index entry, then the foreign key pins the session.
BeginIdempotent(k) == <<Claim("idempotency_requests", <<k>>), Session(KeyShare)>>
CompleteIdempotent(k) == <<Row("idempotency_requests", <<k>>, NoKeyUpdate)>>

AllocateSequence == <<Session(KeyShare), Do("allocate")>>
AppendOutbox == <<Do("publish"), Session(KeyShare)>>

\* A reservation moves the locked balance; its row pins its parents.
Reserve(cash, market) == <<Balance(cash, market, ForUpdate), Balance(cash, market, NoKeyUpdate)>>
RecordReservation(parent) == <<Session(KeyShare), parent>>
Release(o) ==
    <<Balance(o \in Cash, MarketOf[o], NoKeyUpdate), Session(KeyShare),
      Reservation(o, NoKeyUpdate)>>
MoveCash(currency) == <<Wallet(currency, NoKeyUpdate)>>

InsertGroup == <<Session(KeyShare)>>
InsertOrder(group) == <<Session(KeyShare)>> \o group

\* The winner slot is claimed after the row is locked and before the next row.
UpdateOrder(o) ==
    <<Order(o, NoKeyUpdate)>>
        \o (IF Grouped(o)
            THEN <<Claim("orders", OcoWinnerClaimKey(Legs[o][1]))>> ELSE <<>>)

InsertFill(o) == <<Order(o, KeyShare), Session(KeyShare)>>

SettleFill(o) ==
    LET m == MarketOf[o] IN
    <<Reservation(o, ForUpdate)>>
        \o (IF o \in Cash
            THEN <<Wallet(m, ForUpdate), Reservation(o, NoKeyUpdate), Position(m, NoKeyUpdate)>>
            ELSE <<Position(m, ForUpdate), Reservation(o, NoKeyUpdate), Wallet(m, NoKeyUpdate)>>)

Repeat(n, steps) == [i \in 1..(n * Len(steps)) |-> steps[((i - 1) % Len(steps)) + 1]]

\* lockBalances, then the order: cancellations take them in the same order.
FillOpening(r) ==
    PinSession \o LockBalances(r.order) \o <<Order(r.order, ForUpdate), Do("decide")>>
FillRest(r) ==
    <<Order(r.order, NoKeyUpdate)>> \o AllocateSequence \o InsertFill(r.order)
        \o SettleFill(r.order) \o AppendOutbox

TriggerOpening(r) ==
    PinSession \o LockBalances(r.order) \o LockLegs(r.order)
        \o <<Order(r.order, ForUpdate), Do("decide")>>
TriggerRest(r, open) ==
    LET siblings == (LegSet(r.order) \ {r.order}) \cap open
    IN UpdateOrder(r.order) \o AllocateSequence \o InsertFill(r.order)
         \o SettleFill(r.order) \o AppendOutbox
         \o (IF Grouped(r.order) THEN <<Group(r.order, NoKeyUpdate)>> ELSE <<>>)
         \o Repeat(Cardinality(siblings) + (IF Grouped(r.order) THEN 1 ELSE 0),
                   AllocateSequence \o AppendOutbox)

PlaceOpeningShared(r) ==
    <<Session(KeyShare), Do("active")>> \o BeginIdempotent(r.key) \o <<Do("decide")>>
PlaceOpening(r) ==
    <<Session(ForUpdate), Do("active")>> \o BeginIdempotent(r.key) \o <<Do("decide")>>
PlaceRest(r) ==
    CompleteIdempotent(r.key) \o Reserve(r.cash, 1)
        \o InsertOrder(<<>>) \o RecordReservation(Order(90 + r.key, KeyShare))
        \o AllocateSequence \o AppendOutbox

\* The pair shares one reservation, recorded against the group.
OcoRest(r) ==
    LET group == Row("oco_groups", <<90 + r.key>>, KeyShare)
    IN CompleteIdempotent(r.key) \o Reserve(r.cash, 1)
         \o InsertGroup \o Repeat(2, InsertOrder(<<group>>)) \o RecordReservation(group)
         \o AllocateSequence \o AppendOutbox

\* Both wallets are locked KRW before USD, whichever way the cash goes.
ConvertRest(r) ==
    CompleteIdempotent(r.key)
        \o <<Wallet(1, ForUpdate), Wallet(2, ForUpdate)>> \o MoveCash(1) \o MoveCash(2)
        \o AllocateSequence \o AppendOutbox

\* The legs and the candidate reservations are read before anything is locked;
\* the balances are locked from those keys.
CancelLocks(r, candidates) ==
    (IF candidates = {} THEN <<>> ELSE <<Balance(r.order \in Cash, MarketOf[r.order], ForUpdate)>>)
        \o LockLegs(r.order) \o <<Do("decide")>>
CancelOpening == <<Do("peek"), Session(ForUpdate), Do("active"), Do("balances")>>

\* Every live leg is updated, the group resolved, the reservation re-read
\* under its lock and released, and one event published for each leg.
UpdateIfLive(o, open) == IF o \in open THEN UpdateOrder(o) ELSE <<>>
UpdateLegs(legs, open) ==
    UpdateIfLive(legs[1], open)
        \o (IF Len(legs) = 2 THEN UpdateIfLive(legs[2], open) ELSE <<>>)

ResolveOcoGroup(o) == <<Group(o, NoKeyUpdate)>>

CancelRest(r, open, candidates, settled) ==
    LET o == r.order IN
    UpdateLegs(Legs[o], open)
        \o (IF Grouped(o) THEN ResolveOcoGroup(o) ELSE <<>>)
        \o (IF candidates = {} THEN <<>> ELSE <<Reservation(o, ForUpdate)>>)
        \o (IF candidates \ settled = {} THEN <<>>
            ELSE Release(o))
        \o Repeat(Cardinality(LegSet(o) \cap open), AllocateSequence \o AppendOutbox)

\* What a key is bound to: the body.  A cancellation has none, whatever order it names.
CanonicalRequestHash(r) == IF r.kind = "cancel" THEN <<>> ELSE <<r.kind, r.cash>>
Stored(r) == [key |-> r.key, hash |-> CanonicalRequestHash(r)]
KeyTaken(r) == \E row \in ledger.completed : row.key = r.key

\* The transactions that go through the UnitOfWork and its lock-order guard.
Guarded(r) == r.kind \notin {"fill", "trigger"}

Opening(r) ==
    CASE r.kind = "fill" -> FillOpening(r)
      [] r.kind = "trigger" -> TriggerOpening(r)
      [] r.kind = "cancel" -> CancelOpening
      [] r.kind = "touch" -> <<Session(ForUpdate), Session(NoKeyUpdate)>>
      [] r.kind = "expire" -> <<Session(NoKeyUpdate)>>
      [] OTHER -> PlaceOpening(r)

Rest(r, open, candidates, settled) ==
    CASE r.kind = "fill" -> FillRest(r)
      [] r.kind = "trigger" -> TriggerRest(r, open)
      [] r.kind = "place" -> PlaceRest(r)
      [] r.kind = "oco" -> OcoRest(r)
      [] r.kind = "convert" -> ConvertRest(r)
      [] OTHER -> CancelRest(r, open, candidates, settled)

----------------------------------------------------------------------------
(* One transaction *)

NoTx == [open |-> FALSE, todo |-> <<>>, held |-> {}, claimed |-> {}, last |-> <<>>,
         candidates |-> {}, decided |-> FALSE, saw |-> <<>>, sequences |-> <<>>,
         attempt |-> 0]

Init ==
    /\ request \in [Tx -> Requests]
    /\ tx = [t \in Tx |-> NoTx]
    /\ answer = [t \in Tx |-> "none"]
    /\ ledger = [active |-> TRUE, completed |-> {}, open |-> Orders, settled |-> {},
                 sequence |-> FirstSequence]
    /\ effects = [t \in Tx |-> 0]
    /\ faults = 0

Attempt(t, n) == [NoTx EXCEPT !.open = TRUE, !.todo = Opening(request[t]), !.attempt = n]

Begin(t) ==
    /\ ~tx[t].open /\ answer[t] = "none"
    /\ tx' = [tx EXCEPT ![t] = Attempt(t, 1)]
    /\ UNCHANGED <<request, answer, ledger, effects, faults>>

\* What the next statement asks for, with the place of a dynamic outbox key.
Demand(t) ==
    LET d == Head(tx[t].todo) IN
    IF d.do = "publish"
    THEN Claim("outbox_events", SequenceLockKey(tx[t].sequences[Len(tx[t].sequences)]))
    ELSE d

Wants(t) == tx[t].open /\ tx[t].todo /= <<>> /\ Demand(t).do \in {"row", "claim"}

\* PostgreSQL's row-lock conflicts; a claim waits for an uncommitted equal entry.
Conflicts(held, wanted) == held + wanted >= 4
BlockedBy(t, u) ==
    /\ u /= t /\ tx[u].open /\ Wants(t)
    /\ LET d == Demand(t) IN
       IF d.do = "claim" THEN d.at \in tx[u].claimed
       ELSE \E h \in tx[u].held : h.at = d.at /\ Conflicts(h.mode, d.mode)

\* Already held at least as strongly, or already claimed: nothing is acquired.
AcquiresNothing(t, d) ==
    IF d.do = "claim" THEN d.at \in tx[t].claimed
    ELSE \E h \in tx[t].held : h.at = d.at /\ h.mode >= d.mode

\* refuseIfBackwards, and the refusal to strengthen a lock already held.
Refused(t, d) ==
    /\ Guarded(request[t]) /\ ~AcquiresNothing(t, d)
    /\ \/ d.do = "row" /\ \E h \in tx[t].held : h.at = d.at
       \/ tx[t].last /= <<>> /\ Precedes(d.at, tx[t].last)

End(t, said) ==
    /\ tx' = [tx EXCEPT ![t] = NoTx]
    /\ answer' = [answer EXCEPT ![t] = said]

\* The statement is done and what it asked for is held, unless it was already.
Acquired(t, d) ==
    [tx[t] EXCEPT !.todo = Tail(@),
                  !.last = IF AcquiresNothing(t, d) THEN @ ELSE d.at,
                  !.held = IF d.do = "row" THEN @ \cup {[at |-> d.at, mode |-> d.mode]} ELSE @,
                  !.claimed = IF d.do = "claim" THEN @ \cup {d.at} ELSE @]

Acquire(t) ==
    /\ Wants(t) /\ \A u \in Tx : ~BlockedBy(t, u)
    /\ LET d == Demand(t) IN
       IF Refused(t, d) THEN End(t, "violation")
       ELSE tx' = [tx EXCEPT ![t] = Acquired(t, d)] /\ UNCHANGED answer
    /\ UNCHANGED <<request, ledger, effects, faults>>

At(t, what) == tx[t].open /\ tx[t].todo /= <<>> /\ Head(tx[t].todo).do = what

\* findOcoLegs and findOrderReservations, outside any lock.
Peek(t) ==
    /\ At(t, "peek")
    /\ tx' = [tx EXCEPT ![t].todo = Tail(@),
                        ![t].candidates = {Legs[request[t].order][1]} \ ledger.settled]
    /\ UNCHANGED <<request, answer, ledger, effects, faults>>

LockCandidates(t) ==
    /\ At(t, "balances")
    /\ tx' = [tx EXCEPT ![t].todo = CancelLocks(request[t], tx[t].candidates)]
    /\ UNCHANGED <<request, answer, ledger, effects, faults>>

\* The session must be ACTIVE.
CheckActive(t) ==
    /\ At(t, "active")
    /\ IF ledger.active
       THEN tx' = [tx EXCEPT ![t].todo = Tail(@)] /\ UNCHANGED answer
       ELSE End(t, "ACCOUNT_READ_ONLY")
    /\ UNCHANGED <<request, ledger, effects, faults>>

\* A key completed for the same body is replayed, a consumed quote refused, a
\* terminal order left alone; anything else goes ahead on what was read.
Decide(t) ==
    /\ At(t, "decide")
    /\ LET r == request[t] IN
       IF Stores(r) /\ KeyTaken(r)
       THEN End(t, CASE r.kind = "convert" -> "QUOTE_CONSUMED"
                     [] r.kind /= "convert" /\ Stored(r) \in ledger.completed -> "replayed"
                     [] OTHER -> "IDEMPOTENCY_CONFLICT")
       ELSE IF r.kind \in {"fill", "trigger", "cancel"} /\ r.order \notin ledger.open
       THEN End(t, "terminal")
       ELSE /\ tx' = [tx EXCEPT ![t] =
                  [@ EXCEPT !.decided = TRUE, !.saw = ledger,
                            !.todo = Rest(r, ledger.open, tx[t].candidates, ledger.settled)]]
            /\ UNCHANGED answer
    /\ UNCHANGED <<request, ledger, effects, faults>>

\* coalesce(max(account_sequence), 0) + 1 over the rows this transaction sees.
Allocate(t) ==
    /\ At(t, "allocate")
    /\ tx' = [tx EXCEPT ![t].todo = Tail(@),
                        ![t].sequences = Append(@, ledger.sequence + Len(@) + 1)]
    /\ UNCHANGED <<request, answer, ledger, effects, faults>>

----------------------------------------------------------------------------
(* Commit, errors and retries *)

Closes(t) ==
    LET r == request[t] IN
    CASE r.kind = "fill" -> IF r.whole THEN {r.order} ELSE {}
      [] r.kind \in {"trigger", "cancel"} -> LegSet(r.order)
      [] OTHER -> {}

Settles(t) ==
    IF request[t].kind = "cancel" THEN tx[t].candidates
    ELSE IF Closes(t) = {} THEN {} ELSE {Legs[request[t].order][1]}

Applied(t) ==
    LET r == request[t] IN
    [ledger EXCEPT
        !.active = @ /\ r.kind /= "expire",
        !.completed = IF Stores(r) THEN @ \cup {Stored(r)} ELSE @,
        !.open = @ \ Closes(t),
        !.settled = @ \cup Settles(t),
        !.sequence = @ + Len(tx[t].sequences)]

ReadyToCommit(t) == tx[t].open /\ tx[t].todo = <<>>

Commit(t) ==
    /\ ReadyToCommit(t)
    /\ ledger' = Applied(t)
    /\ effects' = [effects EXCEPT ![t] = @ + 1]
    /\ End(t, "done")
    /\ UNCHANGED <<request, faults>>

\* What the runner does with an error: sent says the commit had been sent.
MayRetryAnything(t, retryable) ==
    tx[t].attempt < (IF Guarded(request[t]) THEN MaxRetries + 1 ELSE MaxAttempts)
MayRetry(t, retryable) ==
    /\ retryable
    /\ tx[t].attempt < (IF Guarded(request[t]) THEN MaxRetries + 1 ELSE MaxAttempts)

Fail(t, retryable, sent) ==
    IF MayRetry(t, retryable)
    THEN /\ tx' = [tx EXCEPT ![t] = Attempt(t, @.attempt + 1)]
         /\ UNCHANGED answer
    ELSE End(t, IF retryable /\ Guarded(request[t]) THEN "SERVICE_UNAVAILABLE"
                ELSE IF sent /\ Guarded(request[t]) THEN "unknown" ELSE "failed")

\* 40001 or 40P01, or any other driver error, before the commit is sent.
StatementFails(t) ==
    /\ tx[t].open /\ faults < MaxFaults
    /\ faults' = faults + 1
    /\ \E retryable \in BOOLEAN : Fail(t, retryable, FALSE)
    /\ UNCHANGED <<request, ledger, effects>>

\* The connection breaks with the commit sent: it took effect or it did not.
CommitLost(t) ==
    /\ ReadyToCommit(t) /\ faults < MaxFaults
    /\ faults' = faults + 1
    /\ Fail(t, FALSE, TRUE)
    /\ \/ UNCHANGED <<ledger, effects>>
       \/ ledger' = Applied(t) /\ effects' = [effects EXCEPT ![t] = @ + 1]
    /\ UNCHANGED request

LedgerStep(t) ==
    \/ Acquire(t) \/ Peek(t) \/ LockCandidates(t) \/ CheckActive(t) \/ Decide(t)
    \/ Allocate(t) \/ Commit(t) \/ StatementFails(t) \/ CommitLost(t)

Next == \E t \in Tx : Begin(t) \/ LedgerStep(t)

Spec == Init /\ [][Next]_vars

----------------------------------------------------------------------------
(* Properties *)

\* No set of transactions waits on itself: requests and engine callbacks of
\* one account never deadlock, because each takes the session row exclusively
\* before anything it can wait for (lock-order.ts).
NoWaitCycle ==
    \A S \in SUBSET Tx :
        S /= {} => \E t \in S : \A u \in S : ~BlockedBy(t, u)

\* No request is turned away by the lock-order guard: every UnitOfWork
\* operation, whatever it finds, locks and claims down LEDGER_LOCK_ORDER.
NeverRefused == \A t \in Tx : answer[t] /= "violation"

\* What a transaction decided on, and the sequences it allocated, still stand
\* until it ends: this is what lets OrderLedger treat it as one step.
DecisionsHold ==
    \A t \in Tx :
        /\ tx[t].decided =>
               LET r == request[t]
                   read == IF r.order = 0 THEN {} ELSE LegSet(r.order)
               IN /\ tx[t].saw.open \cap read = ledger.open \cap read
                  /\ tx[t].saw.settled \cap read = ledger.settled \cap read
                  /\ ~KeyTaken(r)
                  /\ Guarded(r) => ledger.active
        /\ tx[t].sequences /= <<>> => tx[t].sequences[1] = ledger.sequence + 1
=============================================================================
