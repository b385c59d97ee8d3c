----------------------------- MODULE HttpEdgeProofs -----------------------------
(***************************************************************************)
(* The ledger transactions of an account never wait for each other in a    *)
(* circle, what one of them decided on still stands when it commits, and    *)
(* none is turned away for the order in which it locks and claims.         *)
(* The HTTP edge adds nothing to what they may do, its gate counts what it *)
(* admitted whatever settles it, and a reply tells what happened to the    *)
(* ledger: for every set of requests, transactions and processes.          *)
(*                                                                         *)
(* Every transaction takes the session row, and conflicts with any other   *)
(* that does, before it locks, claims, decides or writes anything.         *)
(* From then on what it has executed and what it still has to do are a path *)
(* through the lock order, on which nothing is taken that is before.        *)
(***************************************************************************)
EXTENDS HttpEdge, Integers, SequenceTheorems, FiniteSetTheorems, WellFoundedInduction,
        TLAPS

-----------------------------------------------------------------------------
(* The first statements of every transaction.                              *)

SessionAt == Session(KeyShare).at

\* What is left to do before the session row is locked.
Door(r) == {Opening(r)} \cup (IF r.kind = "cancel" THEN {Tail(Opening(r))} ELSE {})

\* What is left to do before the session was seen ACTIVE, of a transaction
\* that must see it so; a touch and an expiry decide nothing.
Early(r) ==
    CASE r.kind = "cancel" -> {Opening(r), Tail(Opening(r)), Tail(Tail(Opening(r)))}
      [] r.kind \in {"touch", "expire"} -> {Opening(r), Tail(Opening(r)), <<>>}
      [] OTHER -> {Opening(r), Tail(Opening(r))}

LEMMA SessionStatement ==
    ASSUME NEW m
    PROVE  Session(m) = [do |-> "row", at |-> SessionAt, mode |-> m]
BY DEF Session, SessionAt, Row

\* A concatenation starts with the start of its first part.
LEMMA ConcatHead ==
    ASSUME NEW S, NEW s \in Seq(S), s # <<>>, NEW t \in Seq(S)
    PROVE  /\ s \o t \in Seq(S) /\ s \o t # <<>>
           /\ Head(s \o t) = Head(s) /\ Tail(s \o t) = Tail(s) \o t
<1>1. /\ s \o t \in Seq(S) /\ Len(s \o t) = Len(s) + Len(t)
      /\ \A i \in 1 .. (Len(s) + Len(t)) :
            (s \o t)[i] = IF i <= Len(s) THEN s[i] ELSE t[i - Len(s)]
  BY ConcatProperties
<1>2. Len(s) \in Nat /\ Len(s) > 0 /\ Len(t) \in Nat
  OBVIOUS
<1>3. s \o t # <<>> /\ Head(s \o t) = Head(s)
  BY <1>1, <1>2
<1>4. /\ Tail(s \o t) \in Seq(S) /\ Len(Tail(s \o t)) = Len(s) + Len(t) - 1
      /\ \A i \in 1 .. (Len(s) + Len(t) - 1) : Tail(s \o t)[i] = (s \o t)[i + 1]
  BY <1>1, <1>3, HeadTailProperties
<1>5. /\ Tail(s) \in Seq(S) /\ Len(Tail(s)) = Len(s) - 1
      /\ \A i \in 1 .. (Len(s) - 1) : Tail(s)[i] = s[i + 1]
  BY <1>2, HeadTailProperties
<1>6. /\ Tail(s) \o t \in Seq(S) /\ Len(Tail(s) \o t) = Len(s) + Len(t) - 1
      /\ \A i \in 1 .. (Len(s) + Len(t) - 1) :
            (Tail(s) \o t)[i] = IF i <= Len(s) - 1 THEN Tail(s)[i] ELSE t[i - (Len(s) - 1)]
  BY <1>2, <1>5, ConcatProperties
<1>7. ASSUME NEW i \in 1 .. (Len(s) + Len(t) - 1)
      PROVE  Tail(s \o t)[i] = (Tail(s) \o t)[i]
  <2>1. i + 1 \in 1 .. (Len(s) + Len(t)) /\ (i + 1) - Len(s) = i - (Len(s) - 1)
    BY <1>2
  <2>2. Tail(s \o t)[i] = IF i + 1 <= Len(s) THEN s[i + 1] ELSE t[(i + 1) - Len(s)]
    BY <1>1, <1>4, <2>1
  <2>3. (Tail(s) \o t)[i] = IF i <= Len(s) - 1 THEN s[i + 1] ELSE t[i - (Len(s) - 1)]
    BY <1>2, <1>5, <1>6
  <2> QED
    BY <1>2, <2>1, <2>2, <2>3
<1>8. Tail(s \o t) = Tail(s) \o t
  BY <1>2, <1>4, <1>6, <1>7, SeqEqual
<1> QED
  BY <1>1, <1>3, <1>8

\* The first statements of each kind of transaction.
LEMMA FillStarts ==
    ASSUME NEW r \in Requests, r.kind = "fill"
    PROVE  Opening(r) # <<>> /\ Head(Opening(r)) = Session(ForUpdate)
<1> DEFINE S == {Session(ForUpdate), Wallet(MarketOf[r.order], ForUpdate),
                 Position(MarketOf[r.order], ForUpdate), Order(r.order, ForUpdate), Do("decide")}
<1>1. /\ PinSession \in Seq(S) /\ PinSession # <<>> /\ Head(PinSession) = Session(ForUpdate)
      /\ LockBalances(r.order) \in Seq(S)
      /\ <<Order(r.order, ForUpdate), Do("decide")>> \in Seq(S)
  BY DEF LockBalances, PinSession
<1>2. Opening(r) = (PinSession \o LockBalances(r.order))
                     \o <<Order(r.order, ForUpdate), Do("decide")>>
  BY DEF Opening, FillOpening
<1> HIDE DEF S
<1> QED
  BY <1>1, <1>2, ConcatHead

LEMMA TriggerStarts ==
    ASSUME NEW r \in Requests, r.kind = "trigger"
    PROVE  Opening(r) # <<>> /\ Head(Opening(r)) = Session(ForUpdate)
<1> DEFINE L == Legs[r.order]
           locks == [i \in 1..Len(L) |-> Order(L[i], ForUpdate)]
           S == {Session(ForUpdate), Wallet(MarketOf[r.order], ForUpdate),
                 Position(MarketOf[r.order], ForUpdate), Group(r.order, ForUpdate),
                 Order(r.order, ForUpdate), Do("decide")}
                \cup {Order(L[i], ForUpdate) : i \in 1..Len(L)}
<1>1. r.order \in Orders /\ Len(L) \in Nat
  BY LegsAssumption, RequestsAssumption
<1>2. locks \in Seq(S)
  BY <1>1
<1>3. (IF Grouped(r.order) THEN <<Group(r.order, ForUpdate)>> ELSE <<>>) \in Seq(S)
  <2>1. <<Group(r.order, ForUpdate)>> \in Seq(S) /\ <<>> \in Seq(S)
    OBVIOUS
  <2> HIDE DEF S
  <2> QED
    BY <2>1
<1>4. LockLegs(r.order) \in Seq(S)
  <2> HIDE DEF S, locks
  <2>1. LockLegs(r.order)
          = (IF Grouped(r.order) THEN <<Group(r.order, ForUpdate)>> ELSE <<>>) \o locks
    BY DEF LockLegs, locks
  <2> QED
    BY <1>2, <1>3, <2>1, ConcatProperties
<1>5. /\ PinSession \in Seq(S) /\ PinSession # <<>> /\ Head(PinSession) = Session(ForUpdate)
      /\ LockBalances(r.order) \in Seq(S)
      /\ <<Order(r.order, ForUpdate), Do("decide")>> \in Seq(S)
  BY DEF LockBalances, PinSession
<1>6. Opening(r) = ((PinSession \o LockBalances(r.order)) \o LockLegs(r.order))
                     \o <<Order(r.order, ForUpdate), Do("decide")>>
  BY DEF Opening, TriggerOpening
<1> HIDE DEF S, locks
<1> QED
  BY <1>4, <1>5, <1>6, ConcatHead

LEMMA PlaceStarts ==
    ASSUME NEW r \in Requests, Stores(r)
    PROVE  /\ Opening(r) # <<>> /\ Head(Opening(r)) = Session(ForUpdate)
           /\ Tail(Opening(r)) # <<>> /\ Head(Tail(Opening(r))) = Do("active")
<1> DEFINE S == {Session(ForUpdate), Do("active"), Claim("idempotency_requests", <<r.key>>),
                 Session(KeyShare), Do("decide")}
           first == <<Session(ForUpdate), Do("active")>>
           then == <<Do("active")>>
           begin == BeginIdempotent(r.key)
           last == <<Do("decide")>>
<1>1. /\ first \in Seq(S) /\ first # <<>> /\ Head(first) = Session(ForUpdate)
      /\ Tail(first) = then /\ then \in Seq(S) /\ then # <<>> /\ Head(then) = Do("active")
      /\ last \in Seq(S) /\ begin \in Seq(S)
  BY DEF BeginIdempotent
<1>2. Opening(r) = (first \o begin) \o last
  BY DEF Opening, PlaceOpening, Stores
<1> HIDE DEF S, first, then, begin, last
<1>3. /\ first \o begin \in Seq(S) /\ first \o begin # <<>>
      /\ Head(first \o begin) = Session(ForUpdate)
      /\ Tail(first \o begin) = then \o begin
  BY <1>1, ConcatHead
<1>4. /\ then \o begin \in Seq(S) /\ then \o begin # <<>>
      /\ Head(then \o begin) = Do("active")
  BY <1>1, ConcatHead
<1>5. /\ Opening(r) # <<>> /\ Head(Opening(r)) = Session(ForUpdate)
      /\ Tail(Opening(r)) = (then \o begin) \o last
  <2> DEFINE f == first \o begin
  <2>1. f \in Seq(S) /\ f # <<>> /\ Head(f) = Session(ForUpdate) /\ Tail(f) = then \o begin
    BY <1>3
  <2>2. Opening(r) = f \o last
    BY <1>2
  <2> HIDE DEF f
  <2>3. f \o last # <<>> /\ Head(f \o last) = Head(f) /\ Tail(f \o last) = Tail(f) \o last
    <3>1. f \in Seq(S) /\ f # <<>> /\ last \in Seq(S)
      BY <1>1, <2>1
    <3> QED
      BY <3>1, ConcatHead, Zenon
  <2> QED
    BY <2>1, <2>2, <2>3, Zenon
<1>6. /\ (then \o begin) \o last # <<>>
      /\ Head((then \o begin) \o last) = Do("active")
  BY <1>1, <1>4, ConcatHead
<1> QED
  BY <1>5, <1>6

LEMMA CancelStarts ==
    ASSUME NEW r \in Requests, r.kind = "cancel"
    PROVE  LET s == Opening(r) IN
           /\ s # <<>> /\ Head(s) = Do("peek")
           /\ Tail(s) # <<>> /\ Head(Tail(s)) = Session(ForUpdate)
           /\ Tail(Tail(s)) # <<>> /\ Head(Tail(Tail(s))) = Do("active")
BY DEF Opening, CancelOpening

LEMMA SessionOnlyStarts ==
    ASSUME NEW r \in Requests, r.kind \in {"touch", "expire"}
    PROVE  LET s == Opening(r) IN
           /\ s # <<>>
           /\ Head(s) = Session(IF r.kind = "touch" THEN ForUpdate ELSE NoKeyUpdate)
           /\ IF r.kind = "touch" THEN Tail(s) = <<Session(NoKeyUpdate)>> ELSE Tail(s) = <<>>
BY DEF Opening

\* A transaction at the door asks for the session row, or reads without a lock
\* and is still at the door.
LEMMA AtTheDoor ==
    ASSUME NEW r \in Requests, NEW s \in Door(r)
    PROVE  /\ s # <<>>
           /\ \/ \E m \in {NoKeyUpdate, ForUpdate} : Head(s) = Session(m)
              \/ Head(s) = Do("peek") /\ Tail(s) \in Door(r)
<1>1. CASE r.kind = "fill"
  BY <1>1, FillStarts DEF Door
<1>2. CASE r.kind = "trigger"
  BY <1>2, TriggerStarts DEF Door
<1>3. CASE Stores(r)
  BY <1>3, PlaceStarts DEF Door, Stores
<1>4. CASE r.kind = "cancel"
  BY <1>4, CancelStarts DEF Door
<1>5. CASE r.kind \in {"touch", "expire"}
  BY <1>5, SessionOnlyStarts DEF Door
<1> QED
  BY <1>1, <1>2, <1>3, <1>4, <1>5, RequestsAssumption DEF Stores

\* Before the session was seen ACTIVE nothing is decided or allocated.
LEMMA EarlyStatements ==
    ASSUME NEW r \in Requests, Guarded(r), NEW s \in Early(r)
    PROVE  /\ s # <<>> => Head(s).do \in {"row", "peek", "active"}
           /\ s # <<>> /\ Head(s).do \in {"row", "peek"} => Tail(s) \in Early(r)
<1>1. \A m : Session(m).do = "row"
  BY DEF Session, Row
<1>2. Do("active").do = "active" /\ Do("peek").do = "peek"
  BY DEF Do
<1>3. CASE Stores(r)
  <2>1. Early(r) = {Opening(r), Tail(Opening(r))}
    BY <1>3 DEF Early, Stores
  <2> QED
    BY <1>1, <1>2, <1>3, <2>1, PlaceStarts
<1>4. CASE r.kind = "cancel"
  <2>1. Early(r) = {Opening(r), Tail(Opening(r)), Tail(Tail(Opening(r)))}
    BY <1>4 DEF Early
  <2> QED
    BY <1>1, <1>2, <1>4, <2>1, CancelStarts
<1>5. CASE r.kind \in {"touch", "expire"}
  <2>1. Early(r) = {Opening(r), Tail(Opening(r)), <<>>}
    BY <1>5 DEF Early
  <2>2. Tail(<<Session(NoKeyUpdate)>>) = <<>> /\ Head(<<Session(NoKeyUpdate)>>) = Session(NoKeyUpdate)
    OBVIOUS
  <2>3. CASE r.kind = "touch"
    <3>1. Tail(Opening(r)) = <<Session(NoKeyUpdate)>> /\ Head(Opening(r)) = Session(ForUpdate)
      BY <2>3, SessionOnlyStarts
    <3> QED
      BY <1>1, <2>1, <2>2, <3>1
  <2>4. CASE r.kind = "expire"
    <3>1. Tail(Opening(r)) = <<>> /\ Head(Opening(r)) = Session(NoKeyUpdate)
      BY <2>4, SessionOnlyStarts
    <3> QED
      BY <1>1, <2>1, <3>1
  <2> QED
    BY <1>5, <2>3, <2>4
<1> QED
  BY <1>3, <1>4, <1>5, RequestsAssumption DEF Guarded, Stores

LEMMA DoorIsEarly ==
    ASSUME NEW r \in Requests, Guarded(r)
    PROVE  Door(r) \subseteq Early(r)
BY RequestsAssumption DEF Guarded, Door, Early
-----------------------------------------------------------------------------
(* The inductive invariant.                                                *)

\* The session row, in a mode that conflicts with every other such lock on it.
HoldsSession(x) == \E h \in x.held : h.at = SessionAt /\ h.mode \in {NoKeyUpdate, ForUpdate}

\* Nothing locked, claimed, decided or allocated yet.
Waiting(x, r) ==
    /\ x.held = {} /\ x.claimed = {} /\ ~x.decided /\ x.sequences = <<>>
    /\ x.todo \in Door(r)

Taken(led, r) == \E row \in led.completed : row.key = r.key

\* A transaction x of request r next to the committed rows led: it is at the
\* door or holds the session, and what it decided on and allocated are of led.
Sound(x, r, led) ==
    /\ DOMAIN x = DOMAIN NoTx
    /\ x.open => Waiting(x, r) \/ HoldsSession(x)
    /\ ~x.open => ~x.decided /\ x.sequences = <<>>
    /\ x.sequences \in Seq(Nat)
    /\ x.sequences /= <<>> => x.sequences[1] = led.sequence + 1
    /\ x.decided => x.saw = led /\ ~Taken(led, r)
    /\ x.open /\ Guarded(r) => led.active \/ (x.todo \in Early(r) /\ ~x.decided)

LedgerShaped ==
    /\ DOMAIN ledger = {"active", "completed", "open", "settled", "sequence"}
    /\ ledger.sequence \in Nat
    /\ \A row \in ledger.completed : row.key /= 0

\* One transaction at a time holds the session.
OneInSession ==
    \A t, u \in Tx :
        tx[t].open /\ HoldsSession(tx[t]) /\ tx[u].open /\ HoldsSession(tx[u]) => t = u

LocksInv ==
    /\ request \in [Tx -> Requests] /\ DOMAIN tx = Tx
    /\ LedgerShaped
    /\ \A t \in Tx : Sound(tx[t], request[t], ledger)
    /\ OneInSession

LEMMA SequenceNat == FirstSequence \in Nat
BY BoundsAssumption

\* An idle or ended transaction is sound next to any rows.
LEMMA NoTxSound ==
    ASSUME NEW r, NEW led
    PROVE  Sound(NoTx, r, led) /\ ~NoTx.open
BY DEF Sound, NoTx

\* So is one that is about to start over.
LEMMA AttemptSound ==
    ASSUME NEW r \in Requests, NEW led, NEW n,
           NEW x, x = [NoTx EXCEPT !.open = TRUE, !.todo = Opening(r), !.attempt = n]
    PROVE  Sound(x, r, led) /\ ~HoldsSession(x)
<1>1. /\ DOMAIN x = DOMAIN NoTx /\ x.open /\ x.todo = Opening(r)
      /\ x.held = {} /\ x.claimed = {} /\ ~x.decided /\ x.sequences = <<>>
  BY DEF NoTx
<1>2. Opening(r) \in Door(r)
  BY DEF Door
<1>3. Guarded(r) => Opening(r) \in Early(r)
  BY <1>2, DoorIsEarly
<1>4. Waiting(x, r) /\ ~HoldsSession(x)
  BY <1>1, <1>2 DEF Waiting, HoldsSession
<1>5. x.sequences \in Seq(Nat)
  <2>1. <<>> \in Seq(Nat)
    OBVIOUS
  <2> QED
    BY <1>1, <2>1, Zenon
<1> HIDE DEF NoTx
<1> QED
  BY <1>1, <1>3, <1>4, <1>5 DEF Sound

LEMMA InitLocksInv == Init => LocksInv
<1> SUFFICES ASSUME Init PROVE LocksInv
  OBVIOUS
<1>1. request \in [Tx -> Requests] /\ DOMAIN tx = Tx /\ \A t \in Tx : tx[t] = NoTx
  BY DEF Init
<1>2. LedgerShaped
  BY SequenceNat DEF Init, LedgerShaped
<1>3. \A t \in Tx : Sound(tx[t], request[t], ledger) /\ ~tx[t].open
  BY <1>1, NoTxSound
<1>4. OneInSession
  BY <1>3 DEF OneInSession
<1> QED
  BY <1>1, <1>2, <1>3, <1>4 DEF LocksInv

\* Another state of one transaction, the rows as they were.
LEMMA MoveKeeps ==
    ASSUME LocksInv, NEW t \in Tx, NEW x,
           tx' = [tx EXCEPT ![t] = x], UNCHANGED <<request, ledger>>,
           Sound(x, request[t], ledger),
           x.open /\ HoldsSession(x) =>
               \A u \in Tx \ {t} : ~(tx[u].open /\ HoldsSession(tx[u]))
    PROVE  LocksInv'
<1>1. DOMAIN tx' = Tx /\ tx'[t] = x /\ \A u \in Tx \ {t} : tx'[u] = tx[u]
  BY DEF LocksInv
<1>2. request' \in [Tx -> Requests] /\ LedgerShaped'
  BY DEF LocksInv, LedgerShaped
<1>3. \A u \in Tx : Sound(tx'[u], request'[u], ledger')
  BY <1>1 DEF LocksInv
<1>4. OneInSession'
  <2> SUFFICES ASSUME NEW a \in Tx, NEW b \in Tx,
                      tx'[a].open /\ HoldsSession(tx'[a]), tx'[b].open /\ HoldsSession(tx'[b])
               PROVE  a = b
    BY DEF OneInSession
  <2> QED
    BY <1>1 DEF LocksInv, OneInSession
<1> QED
  BY <1>1, <1>2, <1>3, <1>4 DEF LocksInv

\* A transaction that moves on after the first lock: the others are at the door.
LEMMA HolderMovesKeeps ==
    ASSUME LocksInv, NEW t \in Tx, NEW x,
           tx' = [tx EXCEPT ![t] = x], UNCHANGED <<request, ledger>>,
           tx[t].open, HoldsSession(tx[t]), Sound(x, request[t], ledger)
    PROVE  LocksInv'
<1>1. \A u \in Tx \ {t} : ~(tx[u].open /\ HoldsSession(tx[u]))
  BY DEF LocksInv, OneInSession
<1> QED
  BY <1>1, MoveKeeps

LEMMA EndKeeps ==
    ASSUME LocksInv, NEW t \in Tx, NEW said, End(t, said), UNCHANGED <<request, ledger>>
    PROVE  LocksInv'
BY NoTxSound, MoveKeeps DEF End

LEMMA AttemptKeeps ==
    ASSUME LocksInv, NEW t \in Tx, NEW n,
           tx' = [tx EXCEPT ![t] = Attempt(t, n)], UNCHANGED <<request, ledger>>
    PROVE  LocksInv'
<1>1. request[t] \in Requests
  BY DEF LocksInv
<1>2. Sound(Attempt(t, n), request[t], ledger) /\ ~HoldsSession(Attempt(t, n))
  BY <1>1, AttemptSound DEF Attempt
<1> QED
  BY <1>2, MoveKeeps

\* The commands stored under a key are those that carry one.
LEMMA AppliedShape ==
    ASSUME LocksInv, NEW t \in Tx, ledger' = Applied(t)
    PROVE  LedgerShaped'
<1>1. LedgerShaped /\ request[t] \in Requests /\ Len(tx[t].sequences) \in Nat
  BY DEF LocksInv, Sound
<1>2. Stores(request[t]) => request[t].key /= 0
  BY <1>1, RequestsAssumption
<1>3. Stored(request[t]).key = request[t].key
  BY DEF Stored
<1>4. DOMAIN ledger' = DOMAIN ledger
  BY DEF Applied
<1>5. ledger'.sequence = ledger.sequence + Len(tx[t].sequences)
  BY <1>1 DEF Applied, LedgerShaped
<1>6. ledger'.completed = IF Stores(request[t]) THEN ledger.completed \cup {Stored(request[t])}
                          ELSE ledger.completed
  BY <1>1 DEF Applied, LedgerShaped
<1> QED
  BY <1>1, <1>2, <1>3, <1>4, <1>5, <1>6 DEF LedgerShaped

\* A commit changes rows nobody else has read for good: the others are at the
\* door, or not there.
LEMMA CommitKeeps ==
    ASSUME LocksInv, NEW t \in Tx, NEW said, ReadyToCommit(t), End(t, said),
           ledger' = Applied(t), UNCHANGED request
    PROVE  LocksInv'
<1>1. request \in [Tx -> Requests] /\ DOMAIN tx = Tx
  BY DEF LocksInv
<1>2. tx[t].open /\ HoldsSession(tx[t])
  <2>1. Sound(tx[t], request[t], ledger) /\ request[t] \in Requests
    BY DEF LocksInv
  <2>2. tx[t].todo \notin Door(request[t])
    BY <2>1, AtTheDoor DEF ReadyToCommit
  <2> QED
    BY <2>1, <2>2 DEF ReadyToCommit, Sound, Waiting
<1>3. DOMAIN tx' = Tx /\ tx'[t] = NoTx /\ \A u \in Tx \ {t} : tx'[u] = tx[u]
  BY <1>1 DEF End
<1>4. ASSUME NEW u \in Tx \ {t} PROVE Sound(tx[u], request[u], ledger')
  <2>1. Sound(tx[u], request[u], ledger) /\ request[u] \in Requests
    BY DEF LocksInv
  <2>2. tx[u].open => ~HoldsSession(tx[u])
    BY <1>2 DEF LocksInv, OneInSession
  <2>3. ~tx[u].decided /\ tx[u].sequences = <<>>
    BY <2>1, <2>2 DEF Sound, Waiting
  <2>4. tx[u].open /\ Guarded(request[u]) => tx[u].todo \in Early(request[u])
    BY <2>1, <2>2, DoorIsEarly DEF Sound, Waiting
  <2> QED
    BY <2>1, <2>3, <2>4 DEF Sound
<1>5. \A u \in Tx : Sound(tx'[u], request'[u], ledger')
  BY <1>3, <1>4, NoTxSound
<1>6. ~tx'[t].open
  BY <1>3, NoTxSound
<1>7. OneInSession'
  <2> SUFFICES ASSUME NEW a \in Tx, NEW b \in Tx,
                      tx'[a].open /\ HoldsSession(tx'[a]), tx'[b].open /\ HoldsSession(tx'[b])
               PROVE  a = b
    BY DEF OneInSession
  <2> QED
    BY <1>3, <1>6 DEF LocksInv, OneInSession
<1>8. LedgerShaped'
  BY AppliedShape
<1> QED
  BY <1>1, <1>3, <1>5, <1>7, <1>8 DEF LocksInv

-----------------------------------------------------------------------------
(* The steps of one transaction.                                           *)

\* What the invariant says of an open transaction.
LEMMA OpenTx ==
    ASSUME LocksInv, NEW t \in Tx, tx[t].open
    PROVE  /\ request[t] \in Requests /\ Sound(tx[t], request[t], ledger)
           /\ DOMAIN tx[t] = DOMAIN NoTx
           /\ Waiting(tx[t], request[t]) \/ HoldsSession(tx[t])
BY DEF LocksInv, Sound

\* A transaction whose next statement is no row lock and not the peek is past
\* the door.
LEMMA PastTheDoor ==
    ASSUME LocksInv, NEW t \in Tx, tx[t].open, tx[t].todo /= <<>>,
           Head(tx[t].todo).do \notin {"row", "peek"}
    PROVE  HoldsSession(tx[t])
<1>1. Do("peek").do = "peek" /\ \A m : Session(m).do = "row"
  BY DEF Do, Session, Row
<1>2. tx[t].todo \notin Door(request[t])
  BY <1>1, OpenTx, AtTheDoor
<1> QED
  BY <1>2, OpenTx DEF Waiting

\* Past the check of the session, or before it and a statement nearer to it.
LEMMA TodoStaysEarly ==
    ASSUME LocksInv, NEW t \in Tx, tx[t].open, tx[t].todo /= <<>>,
           Head(tx[t].todo).do \in {"row", "peek"}
    PROVE  Guarded(request[t]) => ledger.active \/ (Tail(tx[t].todo) \in Early(request[t]) /\ ~tx[t].decided)
BY OpenTx, EarlyStatements DEF Sound

\* Past the check of the session.
LEMMA SeenActive ==
    ASSUME LocksInv, NEW t \in Tx, tx[t].open, tx[t].todo /= <<>>,
           Head(tx[t].todo).do \notin {"row", "peek", "active"}
    PROVE  Guarded(request[t]) => ledger.active
BY OpenTx, EarlyStatements DEF Sound

LEMMA AcquireKeeps ==
    ASSUME LocksInv, NEW t \in Tx, Acquire(t)
    PROVE  LocksInv'
<1> DEFINE d == Demand(t)
           h == Head(tx[t].todo)
           r == request[t]
           x == Acquired(t, d)
<1>1. /\ tx[t].open /\ tx[t].todo /= <<>> /\ d.do \in {"row", "claim"}
      /\ \A u \in Tx : ~BlockedBy(t, u)
      /\ UNCHANGED <<request, ledger>>
  BY DEF Acquire, Wants
<1>2. r \in Requests /\ Sound(tx[t], r, ledger) /\ DOMAIN tx[t] = DOMAIN NoTx
  BY <1>1, OpenTx
<1>3. CASE Refused(t, d)
  BY <1>1, <1>3, EndKeeps DEF Acquire
<1>4. CASE ~Refused(t, d)
  <2>1. tx' = [tx EXCEPT ![t] = x]
    BY <1>4 DEF Acquire
  <2>2. /\ DOMAIN x = DOMAIN NoTx /\ x.open /\ x.todo = Tail(tx[t].todo)
        /\ x.held = IF d.do = "row" THEN tx[t].held \cup {[at |-> d.at, mode |-> d.mode]}
                    ELSE tx[t].held
        /\ x.decided = tx[t].decided /\ x.saw = tx[t].saw /\ x.sequences = tx[t].sequences
    BY <1>1, <1>2 DEF NoTx, Acquired
  <2> HIDE DEF x
  <2>3. h.do \in {"row", "claim", "publish"} /\ (h.do /= "publish" => d = h)
    BY <1>1 DEF Demand
  <2>4. Guarded(r) => ledger.active \/ (x.todo \in Early(r) /\ ~x.decided)
    <3>1. CASE h.do = "row"
      BY <1>1, <2>2, <3>1, TodoStaysEarly
    <3>2. CASE h.do # "row"
      BY <1>1, <2>3, <3>2, SeenActive
    <3> QED
      BY <3>1, <3>2
  <2>5. CASE HoldsSession(tx[t])
    <3>1. HoldsSession(x)
      BY <2>2, <2>5 DEF HoldsSession
    <3>2. Sound(x, r, ledger)
      BY <1>2, <2>2, <2>4, <3>1 DEF Sound
    <3> QED
      BY <1>1, <2>1, <2>5, <3>2, HolderMovesKeeps
  <2>6. CASE ~HoldsSession(tx[t])
    <3>1. Waiting(tx[t], r)
      BY <1>1, <2>6, OpenTx
    <3>2. PICK m \in {NoKeyUpdate, ForUpdate} : h = Session(m)
      <4>1. Do("peek").do = "peek"
        BY DEF Do
      <4> QED
        BY <1>2, <2>3, <3>1, <4>1, AtTheDoor DEF Waiting
    <3>3. h.do = "row" /\ h.at = SessionAt /\ h.mode = m /\ d = h
      BY <2>3, <3>2, SessionStatement
    <3>4. HoldsSession(x)
      <4>1. [at |-> d.at, mode |-> d.mode] \in x.held
        BY <2>2, <3>3
      <4> QED
        BY <3>3, <4>1 DEF HoldsSession
    <3>5. ASSUME NEW u \in Tx \ {t}, tx[u].open, HoldsSession(tx[u]) PROVE FALSE
      <4>1. PICK k \in tx[u].held : k.at = SessionAt /\ k.mode \in {NoKeyUpdate, ForUpdate}
        BY <3>5 DEF HoldsSession
      <4>2. Conflicts(k.mode, d.mode)
        BY <3>3, <4>1 DEF Conflicts, NoKeyUpdate, ForUpdate
      <4>3. Wants(t)
        BY DEF Acquire
      <4>4. BlockedBy(t, u)
        BY <3>3, <3>5, <4>1, <4>2, <4>3 DEF BlockedBy
      <4> QED
        BY <1>1, <4>4
    <3>6. Sound(x, r, ledger)
      BY <1>2, <2>2, <2>4, <3>4 DEF Sound
    <3> QED
      BY <1>1, <2>1, <3>5, <3>6, MoveKeeps
  <2> QED
    BY <2>5, <2>6
<1> QED
  BY <1>3, <1>4

LEMMA PeekKeeps ==
    ASSUME LocksInv, NEW t \in Tx, Peek(t)
    PROVE  LocksInv'
<1> DEFINE r == request[t]
           x == tx'[t]
<1>1. /\ tx[t].open /\ tx[t].todo /= <<>> /\ Head(tx[t].todo).do = "peek"
      /\ UNCHANGED <<request, ledger>>
  BY DEF Peek, At
<1>2. r \in Requests /\ Sound(tx[t], r, ledger) /\ DOMAIN tx[t] = DOMAIN NoTx /\ DOMAIN tx = Tx
  BY <1>1, OpenTx DEF LocksInv
<1>3. /\ tx' = [tx EXCEPT ![t] = x]
      /\ DOMAIN x = DOMAIN NoTx /\ x.open /\ x.todo = Tail(tx[t].todo) /\ x.held = tx[t].held
      /\ x.claimed = tx[t].claimed
      /\ x.decided = tx[t].decided /\ x.saw = tx[t].saw /\ x.sequences = tx[t].sequences
  BY <1>1, <1>2 DEF Peek, NoTx
<1> HIDE DEF x
<1>4. Guarded(r) => ledger.active \/ (x.todo \in Early(r) /\ ~x.decided)
  BY <1>1, <1>3, TodoStaysEarly
<1>5. CASE HoldsSession(tx[t])
  <2>1. HoldsSession(x)
    BY <1>3, <1>5 DEF HoldsSession
  <2>2. Sound(x, r, ledger)
    BY <1>2, <1>3, <1>4, <2>1 DEF Sound
  <2> QED
    BY <1>1, <1>3, <1>5, <2>2, HolderMovesKeeps
<1>6. CASE ~HoldsSession(tx[t])
  <2>1. Waiting(tx[t], r)
    BY <1>1, <1>6, OpenTx
  <2>2. x.todo \in Door(r)
    <3>1. \A m : Session(m).do = "row"
      BY DEF Session, Row
    <3> QED
      BY <1>1, <1>2, <1>3, <2>1, <3>1, AtTheDoor DEF Waiting
  <2>3. Waiting(x, r) /\ ~HoldsSession(x)
    BY <1>3, <2>1, <2>2 DEF Waiting, HoldsSession
  <2>4. Sound(x, r, ledger)
    BY <1>2, <1>3, <1>4, <2>3 DEF Sound
  <2> QED
    BY <1>1, <1>3, <2>3, <2>4, MoveKeeps
<1> QED
  BY <1>5, <1>6

\* A step of a transaction past the door that leaves its locks alone.
LEMMA PastStepKeeps ==
    ASSUME LocksInv, NEW t \in Tx, NEW x, UNCHANGED <<request, ledger>>,
           tx[t].open, tx[t].todo /= <<>>,
           Head(tx[t].todo).do \notin {"row", "peek"},
           tx' = [tx EXCEPT ![t] = x],
           DOMAIN x = DOMAIN NoTx, x.open, x.held = tx[t].held,
           x.sequences \in Seq(Nat),
           x.sequences /= <<>> => x.sequences[1] = ledger.sequence + 1,
           x.decided => x.saw = ledger /\ ~Taken(ledger, request[t]),
           Guarded(request[t]) => ledger.active
    PROVE  LocksInv'
<1>1. HoldsSession(tx[t])
  BY PastTheDoor
<1>2. HoldsSession(x)
  BY <1>1 DEF HoldsSession
<1>3. Sound(x, request[t], ledger)
  BY <1>2 DEF Sound
<1> QED
  BY <1>1, <1>3, HolderMovesKeeps

LEMMA LockCandidatesKeeps ==
    ASSUME LocksInv, NEW t \in Tx, LockCandidates(t)
    PROVE  LocksInv'
<1> DEFINE x == [tx[t] EXCEPT !.todo = CancelLocks(request[t], tx[t].candidates)]
<1>1. /\ tx[t].open /\ tx[t].todo /= <<>> /\ Head(tx[t].todo).do = "balances"
      /\ UNCHANGED <<request, ledger>> /\ tx' = [tx EXCEPT ![t] = x]
  BY DEF LockCandidates, At
<1>2. Sound(tx[t], request[t], ledger) /\ (Guarded(request[t]) => ledger.active)
  BY <1>1, OpenTx, SeenActive
<1>3. /\ DOMAIN x = DOMAIN NoTx /\ x.open /\ x.held = tx[t].held
      /\ x.decided = tx[t].decided /\ x.saw = tx[t].saw /\ x.sequences = tx[t].sequences
  BY <1>1, <1>2 DEF Sound, NoTx
<1> HIDE DEF x
<1> QED
  BY <1>1, <1>2, <1>3, PastStepKeeps DEF Sound

LEMMA CheckActiveKeeps ==
    ASSUME LocksInv, NEW t \in Tx, CheckActive(t)
    PROVE  LocksInv'
<1> DEFINE x == [tx[t] EXCEPT !.todo = Tail(tx[t].todo)]
<1>1. /\ tx[t].open /\ tx[t].todo /= <<>> /\ Head(tx[t].todo).do = "active"
      /\ UNCHANGED <<request, ledger>>
  BY DEF CheckActive, At
<1>2. CASE ~ledger.active
  BY <1>1, <1>2, EndKeeps DEF CheckActive
<1>3. CASE ledger.active
  <2>1. tx' = [tx EXCEPT ![t] = x]
    BY <1>3 DEF CheckActive
  <2>2. Sound(tx[t], request[t], ledger)
    BY <1>1, OpenTx
  <2>3. /\ DOMAIN x = DOMAIN NoTx /\ x.open /\ x.held = tx[t].held
        /\ x.decided = tx[t].decided /\ x.saw = tx[t].saw /\ x.sequences = tx[t].sequences
    BY <1>1, <2>2 DEF Sound, NoTx
  <2> HIDE DEF x
  <2> QED
    BY <1>1, <1>3, <2>1, <2>2, <2>3, PastStepKeeps DEF Sound
<1> QED
  BY <1>2, <1>3

\* Nobody has decided on the key: a command without one cannot find it stored.
LEMMA DecideKeeps ==
    ASSUME LocksInv, NEW t \in Tx, Decide(t)
    PROVE  LocksInv'
<1> DEFINE r == request[t]
           todo == Rest(r, ledger.open, tx[t].candidates, ledger.settled)
           x == [tx[t] EXCEPT !.decided = TRUE, !.saw = ledger, !.todo = todo]
           taken == Stores(r) /\ KeyTaken(r)
           dead == r.kind \in {"fill", "trigger", "cancel"} /\ r.order \notin ledger.open
<1>1. /\ tx[t].open /\ tx[t].todo /= <<>> /\ Head(tx[t].todo).do = "decide"
      /\ UNCHANGED <<request, ledger>>
  BY DEF Decide, At
<1>2. r \in Requests /\ Sound(tx[t], r, ledger) /\ (Guarded(r) => ledger.active)
  BY <1>1, OpenTx, SeenActive
<1>3. CASE taken \/ dead
  <2> DEFINE code == CASE r.kind = "convert" -> "QUOTE_CONSUMED"
                       [] r.kind /= "convert" /\ Stored(r) \in ledger.completed -> "replayed"
                       [] OTHER -> "IDEMPOTENCY_CONFLICT"
  <2>0. End(t, code) \/ End(t, "terminal")
    BY <1>3 DEF Decide
  <2> HIDE DEF code
  <2>1. PICK said : End(t, said)
    BY <2>0
  <2> QED
    BY <1>1, <2>1, EndKeeps
<1>4. CASE ~taken /\ ~dead
  <2>1. tx' = [tx EXCEPT ![t] = x]
    BY <1>4 DEF Decide
  <2>2. ~Taken(ledger, r)
    <3>1. CASE Stores(r)
      BY <1>4, <3>1 DEF Taken, KeyTaken
    <3>2. CASE ~Stores(r)
      BY <1>2, <3>2, RequestsAssumption DEF LocksInv, LedgerShaped, Taken
    <3> QED
      BY <3>1, <3>2
  <2> HIDE DEF todo
  <2>3. /\ DOMAIN x = DOMAIN NoTx /\ x.open /\ x.held = tx[t].held
        /\ x.decided /\ x.saw = ledger /\ x.sequences = tx[t].sequences
    BY <1>1, <1>2 DEF Sound, NoTx
  <2> HIDE DEF x
  <2> QED
    BY <1>1, <1>2, <2>1, <2>2, <2>3, PastStepKeeps DEF Sound
<1> QED
  BY <1>3, <1>4

\* The first sequence allocated follows the last one committed.
LEMMA AllocateKeeps ==
    ASSUME LocksInv, NEW t \in Tx, Allocate(t)
    PROVE  LocksInv'
<1> DEFINE s == tx[t].sequences
           n == ledger.sequence + Len(s) + 1
           x == tx'[t]
<1>1. /\ tx[t].open /\ tx[t].todo /= <<>> /\ Head(tx[t].todo).do = "allocate"
      /\ UNCHANGED <<request, ledger>>
  BY DEF Allocate, At
<1>2. /\ Sound(tx[t], request[t], ledger) /\ (Guarded(request[t]) => ledger.active)
      /\ DOMAIN tx = Tx /\ ledger.sequence \in Nat
  BY <1>1, OpenTx, SeenActive DEF LocksInv, LedgerShaped
<1>3. /\ tx' = [tx EXCEPT ![t] = x]
      /\ DOMAIN x = DOMAIN NoTx /\ x.open /\ x.held = tx[t].held
      /\ x.decided = tx[t].decided /\ x.saw = tx[t].saw /\ x.sequences = Append(s, n)
  BY <1>1, <1>2 DEF Allocate, Sound, NoTx
<1> HIDE DEF x
<1>4. s \in Seq(Nat) /\ n \in Nat /\ (s = <<>> => n = ledger.sequence + 1)
      /\ (s /= <<>> => s[1] = ledger.sequence + 1)
  BY <1>2 DEF Sound
<1> HIDE DEF s, n
<1>5. Append(s, n) \in Seq(Nat) /\ Append(s, n)[1] = ledger.sequence + 1
  BY <1>4, AppendProperties
<1> QED
  BY <1>1, <1>2, <1>3, <1>5, PastStepKeeps DEF Sound

\* An error rolls back and starts over, or gives up.
LEMMA FailKeeps ==
    ASSUME LocksInv, NEW t \in Tx, NEW retryable, NEW sent, Fail(t, retryable, sent),
           UNCHANGED <<request, ledger>>
    PROVE  LocksInv'
<1>1. CASE MayRetry(t, retryable)
  <2>1. tx' = [tx EXCEPT ![t] = Attempt(t, tx[t].attempt + 1)]
    BY <1>1 DEF Fail
  <2> QED
    BY <2>1, AttemptKeeps
<1>2. CASE ~MayRetry(t, retryable)
  <2>1. PICK said : End(t, said)
    BY <1>2 DEF Fail
  <2> QED
    BY <2>1, EndKeeps
<1> QED
  BY <1>1, <1>2

LEMMA CommitLostKeeps ==
    ASSUME LocksInv, NEW t \in Tx, CommitLost(t)
    PROVE  LocksInv'
<1>1. ReadyToCommit(t) /\ Fail(t, FALSE, TRUE) /\ UNCHANGED request
  BY DEF CommitLost
<1>2. CASE UNCHANGED ledger
  BY <1>1, <1>2, FailKeeps
<1>3. CASE ledger' = Applied(t)
  <2>1. PICK said : End(t, said)
    BY <1>1 DEF Fail, MayRetry
  <2> QED
    BY <1>1, <1>3, <2>1, CommitKeeps
<1> QED
  BY <1>2, <1>3 DEF CommitLost

LEMMA NextKeeps == LocksInv /\ [Next]_vars => LocksInv'
<1> SUFFICES ASSUME LocksInv, [Next]_vars PROVE LocksInv'
  OBVIOUS
<1>1. CASE UNCHANGED vars
  BY <1>1 DEF vars, LocksInv, LedgerShaped, OneInSession
<1>2. ASSUME NEW t \in Tx, Begin(t) PROVE LocksInv'
  BY <1>2, AttemptKeeps DEF Begin
<1>3. ASSUME NEW t \in Tx, LedgerStep(t) PROVE LocksInv'
  <2>1. CASE Acquire(t)
    BY <2>1, AcquireKeeps
  <2>2. CASE Peek(t)
    BY <2>2, PeekKeeps
  <2>3. CASE LockCandidates(t)
    BY <2>3, LockCandidatesKeeps
  <2>4. CASE CheckActive(t)
    BY <2>4, CheckActiveKeeps
  <2>5. CASE Decide(t)
    BY <2>5, DecideKeeps
  <2>6. CASE Allocate(t)
    BY <2>6, AllocateKeeps
  <2>7. CASE Commit(t)
    BY <2>7, CommitKeeps DEF Commit
  <2>8. CASE StatementFails(t)
    BY <2>8, FailKeeps DEF StatementFails
  <2>9. CASE CommitLost(t)
    BY <2>9, CommitLostKeeps
  <2> QED
    BY <1>3, <2>1, <2>2, <2>3, <2>4, <2>5, <2>6, <2>7, <2>8, <2>9 DEF LedgerStep
<1> QED
  BY <1>1, <1>2, <1>3 DEF Next

-----------------------------------------------------------------------------
(* The theorems.                                                           *)

\* At every moment each open transaction is still at the door, with nothing
\* locked or decided, or it alone holds the session row.
THEOREM LocksInvariant == Spec => []LocksInv
<1>1. Init => LocksInv
  BY InitLocksInv
<1>2. LocksInv /\ [Next]_vars => LocksInv'
  BY NextKeeps
<1> QED
  BY <1>1, <1>2, PTL DEF Spec

\* Only the transaction in the session can be in another's way.
LEMMA HolderBlocks ==
    ASSUME LocksInv, NEW t \in Tx, NEW u \in Tx, BlockedBy(t, u)
    PROVE  tx[u].open /\ HoldsSession(tx[u])
<1>1. tx[u].open /\ ~(tx[u].held = {} /\ tx[u].claimed = {})
  BY DEF BlockedBy
<1> QED
  BY <1>1, OpenTx DEF Waiting

\* Requests and engine callbacks on one account never deadlock, however many
\* there are and whatever they ask for: lock-order.ts, the order lockBalances,
\* lockLegs and the idempotency claim keep, and the session row before them.
THEOREM NoDeadlock == Spec => []NoWaitCycle
<1>1. LocksInv => NoWaitCycle
  <2> SUFFICES ASSUME LocksInv, NEW S \in SUBSET Tx, S /= {}
               PROVE  \E t \in S : \A u \in S : ~BlockedBy(t, u)
    BY DEF NoWaitCycle
  <2>1. CASE \E t \in S : tx[t].open /\ HoldsSession(tx[t])
    <3>1. PICK t \in S : tx[t].open /\ HoldsSession(tx[t])
      BY <2>1
    <3>2. ASSUME NEW u \in S, BlockedBy(t, u) PROVE FALSE
      <4>1. tx[u].open /\ HoldsSession(tx[u]) /\ u /= t
        BY <3>2, HolderBlocks DEF BlockedBy
      <4> QED
        BY <3>1, <4>1 DEF LocksInv, OneInSession
    <3> QED
      BY <3>2
  <2>2. CASE ~\E t \in S : tx[t].open /\ HoldsSession(tx[t])
    BY <2>2, HolderBlocks
  <2> QED
    BY <2>1, <2>2
<1> QED
  BY <1>1, LocksInvariant, PTL

\* What a command was decided on, and the sequences it allocated, still stand
\* until it ends, whoever commits in between: this is why OrderLedger may take
\* the whole transaction as one step.
THEOREM DecisionsAlwaysHold == Spec => []DecisionsHold
<1>1. LocksInv => DecisionsHold
  <2> SUFFICES ASSUME LocksInv, NEW t \in Tx
               PROVE  /\ tx[t].decided =>
                            /\ tx[t].saw = ledger /\ ~KeyTaken(request[t])
                            /\ Guarded(request[t]) => ledger.active
                      /\ tx[t].sequences /= <<>> => tx[t].sequences[1] = ledger.sequence + 1
    BY DEF DecisionsHold
  <2>1. Sound(tx[t], request[t], ledger)
    BY DEF LocksInv
  <2> QED
    BY <2>1 DEF Sound, Taken, KeyTaken
<1> QED
  BY <1>1, LocksInvariant, PTL

-----------------------------------------------------------------------------
(* The lock-order guard.  A statement fits behind those in T if it acquires *)
(* nothing they have not acquired, or takes a row or an index entry that is *)
(* not before any of theirs and that none of them holds in a weaker mode.   *)

Words == {"row", "claim", "peek", "active", "balances", "decide", "allocate", "publish"}
Addresses == {<<>>} \cup ((1 .. 8) \X Seq(Nat))
Statements == [do : Words, at : Addresses, mode : 1 .. 3]
Parts(p) == {p[i] : i \in 1 .. Len(p)}

Covered(d, T) ==
    /\ d.do = "row" => \E e \in T : e.do = "row" /\ e.at = d.at /\ e.mode >= d.mode
    /\ d.do = "claim" => \E e \in T : e.do = "claim" /\ e.at = d.at
    /\ d.do /= "publish"

NotBefore(d, T) ==
    \A e \in T : e.do /= "publish" /\ (e.at /= <<>> => ~Precedes(d.at, e.at))

Fits(d, T) ==
    \/ Covered(d, T)
    \/ /\ d.do \in {"row", "claim"} /\ NotBefore(d, T)
       /\ d.do = "row" => \A e \in T : e.do = "row" => e.at /= d.at
    \/ /\ d.do = "publish"
       /\ \E e \in T : e.do = "allocate"
       /\ \A e \in T : e.at /= <<>> => e.at[1] < 8

\* Each statement of p fits behind T and the statements before it.
Runs(p, T) ==
    /\ p \in Seq(Statements)
    /\ \A i \in 1 .. Len(p) : Fits(p[i], T \cup {p[j] : j \in 1 .. (i - 1)})

LEMMA OneRuns ==
    ASSUME NEW T, NEW d \in Statements, Fits(d, T)
    PROVE  Runs(<<d>>, T) /\ Parts(<<d>>) = {d}
<1>1. <<d>> \in Seq(Statements) /\ Len(<<d>>) = 1 /\ <<d>>[1] = d
  OBVIOUS
<1>2. {<<d>>[j] : j \in 1 .. (1 - 1)} = {} /\ T \cup {} = T
  OBVIOUS
<1>3. 1 .. 1 = {1}
  OBVIOUS
<1> HIDE DEF Fits
<1> QED
  BY <1>1, <1>2, <1>3 DEF Runs, Parts

LEMMA NothingRuns ==
    ASSUME NEW T
    PROVE  Runs(<<>>, T) /\ Parts(<<>>) = {}
BY DEF Runs, Parts

LEMMA JoinedParts ==
    ASSUME NEW p \in Seq(Statements), NEW q \in Seq(Statements)
    PROVE  Parts(p \o q) = Parts(p) \cup Parts(q)
<1> DEFINE m == Len(p)
           n == Len(q)
           c == p \o q
<1>1. m \in Nat /\ n \in Nat
  OBVIOUS
<1>2. /\ c \in Seq(Statements) /\ Len(c) = m + n
      /\ \A i \in 1 .. (m + n) : c[i] = IF i <= m THEN p[i] ELSE q[i - m]
  BY ConcatProperties
<1> HIDE DEF c
<1>3. Parts(c) = Parts(p) \cup Parts(q)
  <2>1. ASSUME NEW d \in Parts(c) PROVE d \in Parts(p) \cup Parts(q)
    <3>1. PICK i \in 1 .. (m + n) : d = c[i]
      BY <1>2 DEF Parts
    <3>2. CASE i <= m
      <4>1. i \in 1 .. m /\ d = p[i]
        BY <1>1, <1>2, <3>1, <3>2
      <4> QED
        BY <4>1 DEF Parts
    <3>3. CASE ~(i <= m)
      <4>1. i - m \in 1 .. n /\ d = q[i - m]
        BY <1>1, <1>2, <3>1, <3>3
      <4> QED
        BY <4>1 DEF Parts
    <3> QED
      BY <3>2, <3>3
  <2>2. ASSUME NEW d \in Parts(p) PROVE d \in Parts(c)
    <3>1. PICK i \in 1 .. m : d = p[i]
      BY DEF Parts
    <3>2. i \in 1 .. (m + n) /\ i <= m
      BY <1>1
    <3> QED
      BY <1>2, <3>1, <3>2 DEF Parts
  <2>3. ASSUME NEW d \in Parts(q) PROVE d \in Parts(c)
    <3>1. PICK i \in 1 .. n : d = q[i]
      BY DEF Parts
    <3>2. m + i \in 1 .. (m + n) /\ ~(m + i <= m) /\ (m + i) - m = i
      BY <1>1
    <3> QED
      BY <1>2, <3>1, <3>2 DEF Parts
  <2> QED
    BY <2>1, <2>2, <2>3
<1> QED
  BY <1>3 DEF c

LEMMA JoinedRuns ==
    ASSUME NEW T, NEW p, NEW q, Runs(p, T), Runs(q, T \cup Parts(p))
    PROVE  Runs(p \o q, T) /\ Parts(p \o q) = Parts(p) \cup Parts(q)
<1> DEFINE m == Len(p)
           n == Len(q)
           c == p \o q
<1>1. p \in Seq(Statements) /\ q \in Seq(Statements) /\ m \in Nat /\ n \in Nat
  BY DEF Runs
<1>2. /\ c \in Seq(Statements) /\ Len(c) = m + n
      /\ \A i \in 1 .. (m + n) : c[i] = IF i <= m THEN p[i] ELSE q[i - m]
  BY <1>1, ConcatProperties
<1> HIDE DEF c
<1>3. Parts(c) = Parts(p) \cup Parts(q)
  BY <1>1, JoinedParts DEF c
<1>4. ASSUME NEW i \in 1 .. (m + n) PROVE Fits(c[i], T \cup {c[j] : j \in 1 .. (i - 1)})
  <2>1. CASE i <= m
    <3>0. c[i] = p[i] /\ \A j \in 1 .. (i - 1) : c[j] = p[j]
      BY <1>1, <1>2, <2>1
    <3>1. c[i] = p[i] /\ {c[j] : j \in 1 .. (i - 1)} = {p[j] : j \in 1 .. (i - 1)}
      BY <3>0
    <3>2. i \in 1 .. m
      BY <1>1, <2>1
    <3> QED
      BY <3>1, <3>2 DEF Runs
  <2>2. CASE ~(i <= m)
    <3> DEFINE k == i - m
    <3>1. k \in 1 .. n /\ c[i] = q[k]
      BY <1>1, <1>2, <2>2
    <3>2. {c[j] : j \in 1 .. (i - 1)} = Parts(p) \cup {q[j] : j \in 1 .. (k - 1)}
      <4>1. ASSUME NEW j \in 1 .. (i - 1)
            PROVE  c[j] \in Parts(p) \cup {q[l] : l \in 1 .. (k - 1)}
        <5>1. j \in 1 .. (m + n) /\ (j <= m \/ j - m \in 1 .. (k - 1))
          BY <1>1
        <5> QED
          BY <1>1, <1>2, <5>1 DEF Parts
      <4>2. ASSUME NEW d \in Parts(p) PROVE d \in {c[j] : j \in 1 .. (i - 1)}
        <5>1. PICK j \in 1 .. m : d = p[j]
          BY DEF Parts
        <5>2. j \in 1 .. (m + n) /\ j <= m /\ j \in 1 .. (i - 1)
          BY <1>1, <2>2
        <5> QED
          BY <1>2, <5>1, <5>2
      <4>3. ASSUME NEW l \in 1 .. (k - 1) PROVE q[l] \in {c[j] : j \in 1 .. (i - 1)}
        <5>1. /\ m + l \in 1 .. (m + n) /\ ~(m + l <= m) /\ (m + l) - m = l
              /\ m + l \in 1 .. (i - 1)
          BY <1>1, <3>1
        <5> QED
          BY <1>2, <5>1
      <4> QED
        BY <4>1, <4>2, <4>3
    <3>3. T \cup {c[j] : j \in 1 .. (i - 1)} = (T \cup Parts(p)) \cup {q[j] : j \in 1 .. (k - 1)}
      BY <3>2
    <3> QED
      BY <3>1, <3>3 DEF Runs
  <2> QED
    BY <2>1, <2>2
<1> QED
  BY <1>2, <1>3, <1>4 DEF Runs, c

\* The statements of p followed by q, as one fact.
Composes(p, q) == Parts(p \o q) = Parts(p) \cup Parts(q)

LEMMA RunsCompose ==
    ASSUME NEW T, NEW p, NEW q, Runs(p, T), Runs(q, T \cup Parts(p))
    PROVE  Composes(p, q)
<1>1. p \in Seq(Statements) /\ q \in Seq(Statements)
  BY DEF Runs
<1> QED
  BY <1>1, JoinedParts DEF Composes

\* A program of statements that acquire nothing runs behind whatever holds for them.
LEMMA CoveredRuns ==
    ASSUME NEW T, NEW p \in Seq(Statements), \A i \in 1 .. Len(p) : Covered(p[i], T)
    PROVE  Runs(p, T)
<1>1. ASSUME NEW d, NEW U, T \subseteq U, Covered(d, T) PROVE Covered(d, U)
  BY <1>1 DEF Covered
<1> QED
  BY <1>1 DEF Runs, Fits

\* The next statement is executed.
LEMMA RunsOn ==
    ASSUME NEW T, NEW p, Runs(p, T), p /= <<>>
    PROVE  /\ Head(p) \in Statements /\ Fits(Head(p), T)
           /\ Runs(Tail(p), T \cup {Head(p)})
           /\ Parts(p) = {Head(p)} \cup Parts(Tail(p))
<1> DEFINE t == Tail(p)
           d == Head(p)
<1>1. p \in Seq(Statements) /\ Len(p) \in Nat \ {0} /\ d = p[1]
  BY DEF Runs
<1>2. /\ t \in Seq(Statements) /\ Len(t) = Len(p) - 1
      /\ \A i \in 1 .. (Len(p) - 1) : t[i] = p[i + 1]
  BY <1>1, HeadTailProperties
<1> HIDE DEF t, d
<1>3. d \in Statements /\ Fits(d, T)
  <2>1. 1 \in 1 .. Len(p) /\ {p[j] : j \in 1 .. (1 - 1)} = {}
    BY <1>1
  <2>2. Fits(p[1], T \cup {})
    BY <2>1 DEF Runs
  <2>3. T \cup {} = T
    OBVIOUS
  <2> QED
    BY <1>1, <2>1, <2>2, <2>3
<1>4. Parts(p) = {d} \cup Parts(t)
  <2>1. ASSUME NEW i \in 1 .. Len(p) PROVE p[i] \in {d} \cup Parts(t)
    <3>1. i = 1 \/ (i - 1 \in 1 .. (Len(p) - 1) /\ (i - 1) + 1 = i)
      BY <1>1
    <3> QED
      BY <1>1, <1>2, <3>1 DEF Parts
  <2>2. ASSUME NEW i \in 1 .. Len(t) PROVE t[i] \in Parts(p)
    <3>1. i + 1 \in 1 .. Len(p)
      BY <1>1, <1>2
    <3> QED
      BY <1>2, <3>1 DEF Parts
  <2>3. d \in Parts(p)
    BY <1>1 DEF Parts
  <2> QED
    BY <2>1, <2>2, <2>3 DEF Parts
<1>5. ASSUME NEW i \in 1 .. Len(t)
      PROVE  Fits(t[i], (T \cup {d}) \cup {t[j] : j \in 1 .. (i - 1)})
  <2>1. i + 1 \in 1 .. Len(p) /\ t[i] = p[i + 1]
    BY <1>1, <1>2
  <2>2. {p[j] : j \in 1 .. ((i + 1) - 1)} = {d} \cup {t[j] : j \in 1 .. (i - 1)}
    <3>1. ASSUME NEW j \in 1 .. ((i + 1) - 1) PROVE p[j] \in {d} \cup {t[l] : l \in 1 .. (i - 1)}
      <4>1. j = 1 \/ (j - 1 \in 1 .. (i - 1) /\ j - 1 \in 1 .. (Len(p) - 1) /\ (j - 1) + 1 = j)
        BY <1>1, <1>2
      <4> QED
        BY <1>1, <1>2, <4>1
    <3>2. ASSUME NEW j \in 1 .. (i - 1) PROVE t[j] \in {p[l] : l \in 1 .. ((i + 1) - 1)}
      <4>1. j \in 1 .. (Len(p) - 1) /\ j + 1 \in 1 .. ((i + 1) - 1)
        BY <1>1, <1>2
      <4> QED
        BY <1>2, <4>1
    <3>3. d \in {p[l] : l \in 1 .. ((i + 1) - 1)}
      BY <1>1
    <3> QED
      BY <3>1, <3>2, <3>3
  <2>3. T \cup {p[j] : j \in 1 .. ((i + 1) - 1)} = (T \cup {d}) \cup {t[j] : j \in 1 .. (i - 1)}
    BY <2>2
  <2> QED
    BY <2>1, <2>3 DEF Runs
<1> QED
  BY <1>2, <1>3, <1>4, <1>5 DEF Runs, t, d

LEMMA Ranks ==
    /\ Rank("anonymous_sessions") = 1 /\ Rank("idempotency_requests") = 2
    /\ Rank("wallets") = 3 /\ Rank("positions") = 4 /\ Rank("oco_groups") = 5
    /\ Rank("orders") = 6 /\ Rank("reservations") = 7 /\ Rank("outbox_events") = 8
BY DEF Rank, LedgerLockOrder

\* A row lock on key k of the table of rank n, in mode m; a claim there.
Lock(n, k, m) == [do |-> "row", at |-> <<n, k>>, mode |-> m]
Slot(n, k) == [do |-> "claim", at |-> <<n, k>>, mode |-> 3]

LEMMA LockIs ==
    ASSUME NEW n \in 1 .. 8, NEW k \in Seq(Nat), NEW m \in 1 .. 3
    PROVE  /\ Lock(n, k, m) \in Statements /\ Lock(n, k, m).do = "row"
           /\ Lock(n, k, m).at = <<n, k>> /\ Lock(n, k, m).mode = m
           /\ Slot(n, k) \in Statements /\ Slot(n, k).do = "claim"
           /\ Slot(n, k).at = <<n, k>>
           /\ <<n, k>> /= <<>>
BY DEF Lock, Slot, Statements, Words, Addresses

LEMMA DoIs ==
    ASSUME NEW w \in Words
    PROVE  Do(w) \in Statements /\ Do(w).do = w /\ Do(w).at = <<>>
BY DEF Do, Statements, Addresses, KeyShare

LEMMA KeysAre ==
    /\ <<1>> \in Seq(Nat) /\ <<2>> \in Seq(Nat)
    /\ \A k \in Nat : <<k>> \in Seq(Nat) /\ OrderKey(k) \in Seq(Nat) /\ OcoWinnerClaimKey(k) \in Seq(Nat)
BY DEF OrderKey, OcoWinnerClaimKey

LEMMA StatementsAre ==
    /\ \A m : Session(m) = Lock(1, <<1>>, m)
    /\ \A m, k : Row("idempotency_requests", k, m) = Lock(2, k, m)
    /\ \A m, k : Row("oco_groups", k, m) = Lock(5, k, m)
    /\ \A m, c : Wallet(c, m) = Lock(3, <<c>>, m) /\ Position(c, m) = Lock(4, <<c>>, m)
    /\ \A m, o : Order(o, m) = Lock(6, OrderKey(o), m)
    /\ \A m, o : Group(o, m) = Lock(5, <<Legs[o][1]>>, m)
    /\ \A m, o : Reservation(o, m) = Lock(7, <<Legs[o][1]>>, m)
    /\ \A k : Claim("idempotency_requests", k) = Slot(2, k)
    /\ \A k : Claim("orders", k) = Slot(6, k)
    /\ \A k : Claim("outbox_events", k) = Slot(8, k)
    /\ KeyShare = 1 /\ NoKeyUpdate = 2 /\ ForUpdate = 3
BY Ranks DEF Session, Row, Wallet, Position, Order, Group, Reservation, Claim, Place, Lock,
             Slot, KeyShare, NoKeyUpdate, ForUpdate

\* A higher rank is behind, whatever the keys.
LEMMA HigherRank ==
    ASSUME NEW a, NEW b, a[1] \in Nat, b[1] \in Nat, a[1] > b[1]
    PROVE  ~Precedes(a, b)
BY DEF Precedes

LEMMA SamePlace ==
    ASSUME NEW n \in Nat, NEW k \in Seq(Nat)
    PROVE  ~Precedes(<<n, k>>, <<n, k>>)
BY DEF Precedes, KeyPrecedes

\* Within a rank: the higher number, and the winner's slot after the orders.
LEMMA SameRank ==
    ASSUME NEW n \in Nat, NEW i \in Nat, NEW j \in Nat, i <= j
    PROVE  /\ ~Precedes(<<n, <<j>>>>, <<n, <<i>>>>)
           /\ ~Precedes(<<n, OrderKey(j)>>, <<n, OrderKey(i)>>)
           /\ \A g, o \in Nat : ~Precedes(<<n, OcoWinnerClaimKey(g)>>, <<n, OrderKey(o)>>)
<1>1. ~KeyPrecedes(<<j>>, <<i>>)
  BY DEF KeyPrecedes
<1>2. ~KeyPrecedes(OrderKey(j), OrderKey(i))
  <2>1. /\ Len(OrderKey(i)) = 2 /\ Len(OrderKey(j)) = 2
        /\ OrderKey(i)[1] = 0 /\ OrderKey(i)[2] = i /\ OrderKey(j)[1] = 0 /\ OrderKey(j)[2] = j
    BY DEF OrderKey
  <2>2. 1 .. 2 = {1, 2}
    OBVIOUS
  <2> QED
    BY <2>1, <2>2 DEF KeyPrecedes
<1>3. ASSUME NEW g \in Nat, NEW o \in Nat PROVE ~KeyPrecedes(OcoWinnerClaimKey(g), OrderKey(o))
  <2>1. /\ Len(OrderKey(o)) = 2 /\ Len(OcoWinnerClaimKey(g)) = 2
        /\ OrderKey(o)[1] = 0 /\ OcoWinnerClaimKey(g)[1] = 1
    BY DEF OrderKey, OcoWinnerClaimKey
  <2>2. 1 .. 2 = {1, 2} /\ 1 .. (1 - 1) = {} /\ 1 .. (2 - 1) = {1}
    OBVIOUS
  <2> QED
    BY <2>1, <2>2 DEF KeyPrecedes
<1> QED
  BY <1>1, <1>2, <1>3 DEF Precedes

LEMMA LegsAre ==
    ASSUME NEW o \in Orders
    PROVE  /\ o \in Nat /\ MarketOf[o] \in {1, 2}
           /\ Legs[o] \in Seq(Orders) /\ Len(Legs[o]) \in {1, 2}
           /\ Legs[o][1] \in Orders /\ Legs[o][1] \in Nat
           /\ Len(Legs[o]) = 2 => Legs[o][2] \in Orders /\ Legs[o][2] \in Nat /\ Legs[o][1] < Legs[o][2]
<1>1. /\ o \in Nat /\ MarketOf[o] \in {1, 2} /\ Orders \subseteq Nat
      /\ Legs[o] \in Seq(Orders) /\ Len(Legs[o]) \in 1 .. 2
      /\ Len(Legs[o]) > 1 => Legs[o][1] < Legs[o][2]
  BY LegsAssumption DEF Grouped
<1>2. \A i \in 1 .. Len(Legs[o]) : Legs[o][i] \in Orders
  BY <1>1
<1>3. Len(Legs[o]) \in {1, 2} /\ 1 \in 1 .. Len(Legs[o])
  BY <1>1
<1>4. Legs[o][1] \in Orders
  BY <1>2, <1>3
<1>5. ASSUME Len(Legs[o]) = 2 PROVE Legs[o][2] \in Orders
  BY <1>2, <1>5
<1> DEFINE l == Legs[o]
<1>6. l \in Seq(Orders) /\ Len(l) \in {1, 2} /\ l[1] \in Orders /\ Orders \subseteq Nat
  BY <1>1, <1>3, <1>4
<1>7. Len(l) = 2 => l[2] \in Orders /\ l[1] < l[2]
  BY <1>1, <1>5
<1> HIDE DEF l
<1>8. l[1] \in Nat /\ (Len(l) = 2 => l[2] \in Nat)
  BY <1>6, <1>7
<1> QED
  BY <1>1, <1>6, <1>7, <1>8 DEF l

-----------------------------------------------------------------------------
(* The programs of the UnitOfWork, piece by piece.                         *)

\* Everything in T is at rank n or before it, and nothing is published yet.
Upto(T, n) ==
    \A e \in T : /\ e.do /= "publish"
                 /\ e.at /= <<>> => e.at[1] \in Nat /\ e.at[1] <= n

\* The session row is held exclusively.
InSession(T) == Lock(1, <<1>>, 3) \in T

Plain(p) == \A d \in Parts(p) : d.do \in {"row", "claim", "allocate", "publish"}

\* p runs behind T and takes nothing beyond rank n.
Leads(p, T, n) == Runs(p, T) /\ Plain(p) /\ Upto(T \cup Parts(p), n)

LEMMA DoFits ==
    ASSUME NEW T, NEW w \in {"peek", "active", "balances", "decide", "allocate"}
    PROVE  Fits(Do(w), T)
BY DoIs DEF Fits, Covered, Words

LEMMA LockFits ==
    ASSUME NEW T, NEW n \in Nat, NEW m \in 1 .. 8, NEW k \in Seq(Nat), NEW x \in 1 .. 3,
           Upto(T, n), n < m
    PROVE  Fits(Lock(m, k, x), T) /\ Fits(Slot(m, k), T)
<1>1. ASSUME NEW e \in T, e.at /= <<>> PROVE ~Precedes(<<m, k>>, e.at)
  <2>1. e.at[1] \in Nat /\ e.at[1] < m
    BY <1>1 DEF Upto
  <2> QED
    BY <2>1, HigherRank
<1>2. ASSUME NEW e \in T PROVE e.do /= "publish" /\ e.at /= <<m, k>>
  <2>1. e.at = <<m, k>> => e.at /= <<>> /\ e.at[1] = m
    OBVIOUS
  <2> QED
    BY <2>1 DEF Upto
<1> DEFINE d == Lock(m, k, x)
           s == Slot(m, k)
<1>3. d.do = "row" /\ d.at = <<m, k>> /\ s.do = "claim" /\ s.at = <<m, k>>
  BY LockIs, Zenon
<1> HIDE DEF d, s
<1>4. NotBefore(d, T) /\ NotBefore(s, T) /\ \A e \in T : e.at /= d.at
  BY <1>1, <1>2, <1>3 DEF NotBefore
<1>5. Fits(d, T) /\ Fits(s, T)
  BY <1>3, <1>4 DEF Fits
<1> QED
  BY <1>5 DEF d, s

LEMMA HeldFits ==
    ASSUME NEW T, NEW n \in 1 .. 8, NEW k \in Seq(Nat), NEW x \in 1 .. 3, NEW y \in 1 .. 3, x <= y,
           Lock(n, k, y) \in T
    PROVE  Fits(Lock(n, k, x), T) /\ Covered(Lock(n, k, x), T)
<1>1. /\ Lock(n, k, x).do = "row" /\ Lock(n, k, x).at = <<n, k>> /\ Lock(n, k, x).mode = x
      /\ Lock(n, k, y).do = "row" /\ Lock(n, k, y).at = <<n, k>> /\ Lock(n, k, y).mode = y
  BY LockIs
<1> HIDE DEF Lock
<1>2. Covered(Lock(n, k, x), T)
  BY <1>1 DEF Covered
<1> QED
  BY <1>2 DEF Fits

LEMMA UptoMore ==
    ASSUME NEW T, NEW n \in Nat, NEW d, Upto(T, n), d.do /= "publish",
           d.at = <<>> \/ (d.at[1] \in Nat /\ d.at[1] <= n)
    PROVE  Upto(T \cup {d}, n)
BY DEF Upto

LEMMA UptoHigher ==
    ASSUME NEW T, NEW m \in Nat, NEW n \in Nat, m <= n, Upto(T, m)
    PROVE  Upto(T, n)
BY DEF Upto

\* One row lock.
LEMMA LockLeads ==
    ASSUME NEW T, NEW n \in Nat, NEW m \in 1 .. 8, NEW k \in Seq(Nat), NEW x \in 1 .. 3,
           Upto(T, n), Fits(Lock(m, k, x), T), m <= n
    PROVE  Leads(<<Lock(m, k, x)>>, T, n) /\ Parts(<<Lock(m, k, x)>>) = {Lock(m, k, x)}
<1> DEFINE d == Lock(m, k, x)
<1>1. d \in Statements /\ d.do = "row" /\ d.at[1] = m /\ m \in Nat
  <2>1. d \in Statements /\ d.do = "row" /\ d.at = <<m, k>>
    BY LockIs, Zenon
  <2> QED
    BY <2>1
<1> HIDE DEF d
<1>2. Runs(<<d>>, T) /\ Parts(<<d>>) = {d}
  BY <1>1, OneRuns DEF d
<1>3. Upto(T \cup {d}, n)
  <2>1. d.do /= "publish" /\ d.at[1] \in Nat /\ d.at[1] <= n
    BY <1>1
  <2> QED
    BY <2>1, UptoMore
<1> QED
  BY <1>1, <1>2, <1>3 DEF Leads, Plain, d

LEMMA SlotLeads ==
    ASSUME NEW T, NEW n \in Nat, NEW m \in 1 .. 8, NEW k \in Seq(Nat),
           Upto(T, n), Fits(Slot(m, k), T), m <= n
    PROVE  Leads(<<Slot(m, k)>>, T, n) /\ Parts(<<Slot(m, k)>>) = {Slot(m, k)}
<1> DEFINE d == Slot(m, k)
<1>1. d \in Statements /\ d.do = "claim" /\ d.at[1] = m /\ m \in Nat
  BY LockIs
<1> HIDE DEF d
<1>2. Runs(<<d>>, T) /\ Parts(<<d>>) = {d}
  BY <1>1, OneRuns DEF d
<1>3. Upto(T \cup {d}, n)
  <2>1. d.do /= "publish" /\ d.at[1] \in Nat /\ d.at[1] <= n
    BY <1>1
  <2> QED
    BY <2>1, UptoMore
<1> QED
  BY <1>1, <1>2, <1>3 DEF Leads, Plain, d

LEMMA NothingLeads ==
    ASSUME NEW T, NEW n, Upto(T, n)
    PROVE  Leads(<<>>, T, n) /\ Parts(<<>>) = {}
<1>1. T \cup {} = T
  OBVIOUS
<1> QED
  BY <1>1, NothingRuns DEF Leads, Plain

LEMMA JoinedLeads ==
    ASSUME NEW T, NEW p, NEW q, NEW m, NEW n, Leads(p, T, m), Leads(q, T \cup Parts(p), n)
    PROVE  Leads(p \o q, T, n) /\ Parts(p \o q) = Parts(p) \cup Parts(q)
<1>1. Runs(p, T) /\ Runs(q, T \cup Parts(p))
  BY DEF Leads
<1>2. Composes(p, q)
  BY <1>1, RunsCompose
<1>3. Parts(p \o q) = Parts(p) \cup Parts(q)
  BY <1>2 DEF Composes
<1>4. Runs(p \o q, T)
  BY <1>1, JoinedRuns
<1>5. (T \cup Parts(p)) \cup Parts(q) = T \cup Parts(p \o q)
  BY <1>3
<1> QED
  BY <1>3, <1>4, <1>5 DEF Leads, Plain

LEMMA LeadsCompose ==
    ASSUME NEW T, NEW p, NEW q, NEW m, NEW n, Leads(p, T, m), Leads(q, T \cup Parts(p), n)
    PROVE  Composes(p, q)
BY RunsCompose DEF Leads

\* Two statements in a row.
LEMMA PairRuns ==
    ASSUME NEW T, NEW a \in Statements, NEW b \in Statements, Fits(a, T), Fits(b, T \cup {a})
    PROVE  Runs(<<a, b>>, T) /\ Parts(<<a, b>>) = {a, b}
<1>1. <<a, b>> \in Seq(Statements) /\ Len(<<a, b>>) = 2 /\ <<a, b>>[1] = a /\ <<a, b>>[2] = b
  OBVIOUS
<1>2. 1 .. 2 = {1, 2} /\ 1 .. (1 - 1) = {} /\ 1 .. (2 - 1) = {1}
  OBVIOUS
<1>3. /\ {<<a, b>>[j] : j \in 1 .. (1 - 1)} = {} /\ T \cup {} = T
      /\ {<<a, b>>[j] : j \in 1 .. (2 - 1)} = {a}
  BY <1>1, <1>2
<1>4. Parts(<<a, b>>) = {a, b}
  BY <1>1, <1>2 DEF Parts
<1> HIDE DEF Fits
<1> QED
  BY <1>1, <1>2, <1>3, <1>4 DEF Runs

LEMMA PairLeads ==
    ASSUME NEW T, NEW n \in Nat, NEW a \in Statements, NEW b \in Statements, Upto(T, n),
           Fits(a, T), Fits(b, T \cup {a}),
           a.do \in {"row", "claim", "allocate"}, b.do \in {"row", "claim", "allocate"},
           a.at = <<>> \/ a.at[1] <= n, b.at = <<>> \/ b.at[1] <= n
    PROVE  Leads(<<a, b>>, T, n) /\ Parts(<<a, b>>) = {a, b}
<1>1. Runs(<<a, b>>, T) /\ Parts(<<a, b>>) = {a, b}
  BY PairRuns
<1>2. ASSUME NEW d \in {a, b} PROVE d.at = <<>> \/ (d.at[1] \in Nat /\ d.at[1] <= n)
  <2>1. d.at = <<>> \/ d.at \in (1 .. 8) \X Seq(Nat)
    BY DEF Statements, Addresses
  <2> QED
    BY <2>1
<1>3. Upto(T \cup {a, b}, n)
  BY <1>2 DEF Upto
<1> QED
  BY <1>1, <1>3 DEF Leads, Plain

\* What a statement that moves no balance needs: the session row is held.
LEMMA SessionFits ==
    ASSUME NEW T, InSession(T), NEW m \in 1 .. 3
    PROVE  Fits(Session(m), T) /\ Covered(Session(m), T) /\ Session(m) \in Statements
<1>1. Session(m) = Lock(1, <<1>>, m) /\ <<1>> \in Seq(Nat)
  BY StatementsAre, KeysAre
<1>2. Fits(Lock(1, <<1>>, m), T) /\ Covered(Lock(1, <<1>>, m), T)
  <2>1. Lock(1, <<1>>, 3) \in T /\ 1 \in 1 .. 8 /\ 3 \in 1 .. 3 /\ m <= 3
    BY DEF InSession
  <2> QED
    BY <1>1, <2>1, HeldFits
<1>3. Lock(1, <<1>>, m) \in Statements
  <2>1. 1 \in 1 .. 8
    OBVIOUS
  <2> QED
    BY <1>1, <2>1, LockIs, Zenon
<1> QED
  BY <1>1, <1>2, <1>3

LEMMA PinIs ==
    /\ Session(KeyShare) \in Statements /\ Session(KeyShare).do = "row"
    /\ Session(KeyShare).at = <<1, <<1>>>> /\ Session(KeyShare).at[1] = 1
    /\ Do("allocate") \in Statements /\ Do("allocate").do = "allocate" /\ Do("allocate").at = <<>>
    /\ Do("publish") \in Statements /\ Do("publish").do = "publish" /\ Do("publish").at = <<>>
<1>1. Session(KeyShare) = Lock(1, <<1>>, 1) /\ <<1>> \in Seq(Nat)
  BY StatementsAre, KeysAre
<1>2. Lock(1, <<1>>, 1) \in Statements /\ Lock(1, <<1>>, 1).do = "row" /\ Lock(1, <<1>>, 1).at = <<1, <<1>>>>
  <2>1. 1 \in 1 .. 8 /\ 1 \in 1 .. 3
    OBVIOUS
  <2> QED
    BY <1>1, <2>1, LockIs, Zenon
<1>3. "allocate" \in Words /\ "publish" \in Words
  BY DEF Words
<1> QED
  BY <1>1, <1>2, <1>3, DoIs

\* A balance is one row at rank 3 or 4.
LEMMA BalanceIs ==
    ASSUME NEW cash, NEW market \in Nat
    PROVE  \E n \in 3 .. 4 : \A m : Balance(cash, market, m) = Lock(n, <<market>>, m)
<1>1. CASE cash
  BY <1>1, StatementsAre DEF Balance
<1>2. CASE ~cash
  BY <1>2, StatementsAre DEF Balance
<1> QED
  BY <1>1, <1>2

\* A sequence is allocated and its event published, n times.
Event == AllocateSequence \o AppendOutbox

LEMMA EventIs ==
    /\ Event \in Seq(Statements) /\ Len(Event) = 4
    /\ Event[1] = Session(KeyShare) /\ Event[2] = Do("allocate")
    /\ Event[3] = Do("publish") /\ Event[4] = Session(KeyShare)
<1>1. Session(KeyShare) \in Statements /\ Do("allocate") \in Statements /\ Do("publish") \in Statements
  BY PinIs
<1>2. /\ AllocateSequence \in Seq(Statements) /\ Len(AllocateSequence) = 2
      /\ AllocateSequence[1] = Session(KeyShare) /\ AllocateSequence[2] = Do("allocate")
      /\ AppendOutbox \in Seq(Statements) /\ Len(AppendOutbox) = 2
      /\ AppendOutbox[1] = Do("publish") /\ AppendOutbox[2] = Session(KeyShare)
  BY <1>1 DEF AllocateSequence, AppendOutbox
<1>3. /\ Event \in Seq(Statements) /\ Len(Event) = 2 + 2
      /\ \A i \in 1 .. (2 + 2) : Event[i] = IF i <= 2 THEN AllocateSequence[i] ELSE AppendOutbox[i - 2]
  <2> HIDE DEF AllocateSequence, AppendOutbox
  <2>1. AllocateSequence \in Seq(Statements) /\ AppendOutbox \in Seq(Statements)
    BY <1>2
  <2>2. /\ Event \in Seq(Statements) /\ Len(Event) = Len(AllocateSequence) + Len(AppendOutbox)
        /\ \A i \in 1 .. (Len(AllocateSequence) + Len(AppendOutbox)) :
              Event[i] = IF i <= Len(AllocateSequence) THEN AllocateSequence[i]
                         ELSE AppendOutbox[i - Len(AllocateSequence)]
    BY <2>1, ConcatProperties, Zenon DEF Event
  <2> QED
    BY <1>2, <2>2
<1> QED
  BY <1>2, <1>3

LEMMA EventsRun ==
    ASSUME NEW T, NEW n \in Nat, InSession(T), Upto(T, 7)
    PROVE  LET p == Repeat(n, Event) IN Runs(p, T) /\ Plain(p)
<1> DEFINE p == Repeat(n, Event)
           q(i) == {p[j] : j \in 1 .. (i - 1)}
<1>1. p = [i \in 1 .. (n * 4) |-> Event[((i - 1) % 4) + 1]]
  BY EventIs DEF Repeat
<1>2. ASSUME NEW i \in 1 .. (n * 4)
      PROVE  /\ p[i] \in {Session(KeyShare), Do("allocate"), Do("publish")}
             /\ p[i] = Do("publish") => i > 1 /\ p[i - 1] = Do("allocate")
  <2>1. ((i - 1) % 4) + 1 \in {1, 2, 3, 4} /\ i \in Nat \ {0}
    OBVIOUS
  <2>2. p[i] \in {Session(KeyShare), Do("allocate"), Do("publish")}
    BY <1>1, <2>1, EventIs
  <2>3. ASSUME p[i] = Do("publish") PROVE i > 1 /\ p[i - 1] = Do("allocate")
    <3>1. Session(KeyShare).do = "row" /\ Do("allocate").do = "allocate" /\ Do("publish").do = "publish"
      BY DoIs DEF Session, Row, Words
    <3>2. ((i - 1) % 4) + 1 = 3
      BY <1>1, <2>1, <2>3, <3>1, EventIs
    <3>3. i > 1 /\ i - 1 \in 1 .. (n * 4) /\ (((i - 1) - 1) % 4) + 1 = 2
      BY <2>1, <3>2
    <3>4. p[i - 1] = Event[(((i - 1) - 1) % 4) + 1]
      BY <1>1, <3>3
    <3> QED
      BY <3>3, <3>4, EventIs
  <2> QED
    BY <2>2, <2>3
<1>3. n * 4 \in Nat /\ DOMAIN p = 1 .. (n * 4)
  BY <1>1
<1>4. /\ Session(KeyShare) \in Statements /\ Session(KeyShare).do = "row"
      /\ Session(KeyShare).at = <<1, <<1>>>> /\ Session(KeyShare).at[1] = 1
      /\ Do("allocate") \in Statements /\ Do("allocate").do = "allocate" /\ Do("allocate").at = <<>>
      /\ Do("publish") \in Statements /\ Do("publish").do = "publish" /\ Do("publish").at = <<>>
  BY PinIs
<1>5. p \in Seq(Statements) /\ Len(p) = n * 4
  <2>1. \A i \in 1 .. (n * 4) : p[i] \in Statements
    BY <1>2, <1>4
  <2>2. p = [i \in 1 .. (n * 4) |-> p[i]]
    BY <1>1
  <2> HIDE DEF p
  <2> QED
    BY <1>3, <2>1, <2>2
<1> HIDE DEF p
<1>6. ASSUME NEW i \in 1 .. (n * 4) PROVE Fits(p[i], T \cup q(i))
  <2>1. CASE p[i] = Session(KeyShare)
    <3>1. InSession(T \cup q(i))
      BY DEF InSession
    <3>2. KeyShare \in 1 .. 3
      BY DEF KeyShare
    <3> QED
      BY <2>1, <3>1, <3>2, SessionFits
  <2>2. CASE p[i] = Do("allocate")
    BY <2>2, DoFits
  <2>3. CASE p[i] = Do("publish")
    <3>1. i > 1 /\ i - 1 \in 1 .. (i - 1) /\ p[i - 1] = Do("allocate")
      BY <1>2, <2>3
    <3>2. \E e \in T \cup q(i) : e.do = "allocate"
      BY <1>4, <3>1
    <3>3. ASSUME NEW e \in T \cup q(i), e.at /= <<>> PROVE e.at[1] < 8
      <4>1. CASE e \in T
        BY <3>3, <4>1 DEF Upto
      <4>2. CASE e \in q(i)
        <5>1. PICK j \in 1 .. (i - 1) : e = p[j]
          BY <4>2
        <5>2. j \in 1 .. (n * 4)
          BY <1>3
        <5> QED
          BY <1>2, <1>4, <3>3, <5>1, <5>2
      <4> QED
        BY <3>3, <4>1, <4>2
    <3> QED
      BY <1>4, <2>3, <3>2, <3>3 DEF Fits
  <2> QED
    BY <1>2, <2>1, <2>2, <2>3
<1>7. Runs(p, T)
  BY <1>5, <1>6 DEF Runs
<1>8. Plain(p)
  BY <1>2, <1>4, <1>5 DEF Plain, Parts
<1> QED
  BY <1>7, <1>8 DEF p

\* Nothing follows the statement that is answered by the rest of the program.
Closed(p) == \A i \in 1 .. Len(p) : p[i].do \in {"balances", "decide"} => i = Len(p)

LEMMA ClosedBy ==
    ASSUME NEW p \in Seq(Statements), \A d \in Parts(p) : d.do \notin {"balances", "decide"},
           NEW d \in Statements
    PROVE  Closed(p \o <<d>>)
<1>1. <<d>> \in Seq(Statements) /\ Len(<<d>>) = 1 /\ Len(p) \in Nat
  OBVIOUS
<1>2. /\ Len(p \o <<d>>) = Len(p) + 1
      /\ \A i \in 1 .. (Len(p) + 1) :
            (p \o <<d>>)[i] = IF i <= Len(p) THEN p[i] ELSE <<d>>[i - Len(p)]
  BY <1>1, ConcatProperties
<1>3. ASSUME NEW i \in 1 .. (Len(p) + 1), (p \o <<d>>)[i].do \in {"balances", "decide"}
      PROVE  i = Len(p) + 1
  <2>1. CASE i <= Len(p)
    <3>1. (p \o <<d>>)[i] = p[i] /\ i \in 1 .. Len(p)
      BY <1>1, <1>2, <2>1
    <3>2. p[i] \in Parts(p)
      BY <3>1 DEF Parts
    <3> QED
      BY <1>3, <3>1, <3>2
  <2> QED
    BY <1>1, <2>1
<1> QED
  BY <1>2, <1>3 DEF Closed

\* What a placement, a pair or a conversion has done when it decides.
Bound(r) ==
    {Session(ForUpdate), Do("active"), Claim("idempotency_requests", <<r.key>>),
     Session(KeyShare), Do("decide")}

LEMMA BoundFacts ==
    ASSUME NEW r \in Requests, NEW T \in SUBSET Bound(r)
    PROVE  /\ T \subseteq Statements
           /\ Claim("idempotency_requests", <<r.key>>).at = <<2, <<r.key>>>>
           /\ \A e \in T : /\ e.do /= "publish"
                           /\ e.at /= <<>> => \/ e.at = <<1, <<1>>>> /\ e.do = "row"
                                              \/ e.at = <<2, <<r.key>>>> /\ e.do = "claim"
           /\ Upto(T, 2)
<1>1. r.key \in Nat /\ <<r.key>> \in Seq(Nat) /\ <<1>> \in Seq(Nat)
  BY RequestsAssumption, KeysAre
<1>2. /\ Session(ForUpdate) = Lock(1, <<1>>, 3) /\ Session(KeyShare) = Lock(1, <<1>>, 1)
      /\ Claim("idempotency_requests", <<r.key>>) = Slot(2, <<r.key>>)
  BY StatementsAre
<1>3. /\ 1 \in 1 .. 8 /\ 2 \in 1 .. 8 /\ 1 \in 1 .. 3 /\ 3 \in 1 .. 3
  OBVIOUS
<1>4. /\ Lock(1, <<1>>, 3) \in Statements /\ Lock(1, <<1>>, 3).do = "row"
      /\ Lock(1, <<1>>, 3).at = <<1, <<1>>>>
  BY <1>1, <1>3, LockIs, Zenon
<1>5. /\ Lock(1, <<1>>, 1) \in Statements /\ Lock(1, <<1>>, 1).do = "row"
      /\ Lock(1, <<1>>, 1).at = <<1, <<1>>>>
  BY <1>1, <1>3, LockIs, Zenon
<1>6. /\ Slot(2, <<r.key>>) \in Statements /\ Slot(2, <<r.key>>).do = "claim"
      /\ Slot(2, <<r.key>>).at = <<2, <<r.key>>>>
  BY <1>1, <1>3, LockIs, Zenon
<1>7. "active" \in Words /\ "decide" \in Words
  BY DEF Words
<1>8. /\ Do("active") \in Statements /\ Do("active").do = "active" /\ Do("active").at = <<>>
      /\ Do("decide") \in Statements /\ Do("decide").do = "decide" /\ Do("decide").at = <<>>
  BY <1>7, DoIs
<1> HIDE DEF Bound
<1>9. ASSUME NEW e \in T
      PROVE  /\ e \in Statements /\ e.do /= "publish"
             /\ e.at /= <<>> => \/ e.at = <<1, <<1>>>> /\ e.do = "row"
                                \/ e.at = <<2, <<r.key>>>> /\ e.do = "claim"
  <2>1. e \in Bound(r)
    OBVIOUS
  <2> QED
    BY <1>2, <1>4, <1>5, <1>6, <1>8, <2>1 DEF Bound
<1>10. Upto(T, 2)
  BY <1>9 DEF Upto
<1> QED
  BY <1>2, <1>6, <1>9, <1>10

LEMMA FirstFits ==
    ASSUME NEW d, d.do = "row"
    PROVE  Fits(d, {})
BY DEF Fits, NotBefore

LEMMA PlaceOpeningRuns ==
    ASSUME NEW r \in Requests, Stores(r)
    PROVE  Runs(Opening(r), {}) /\ Closed(Opening(r)) /\ Parts(Opening(r)) = Bound(r)
<1> DEFINE a == Session(ForUpdate)
           b == Do("active")
           c == Claim("idempotency_requests", <<r.key>>)
           d == Session(KeyShare)
           e == Do("decide")
<1>1. Opening(r) = (<<a, b>> \o <<c, d>>) \o <<e>>
  BY DEF Opening, PlaceOpening, Stores, BeginIdempotent
<1>2. {a, b, c, d, e} \subseteq Statements /\ Bound(r) = {a, b, c, d, e}
  BY BoundFacts DEF Bound
<1>3. /\ a = Lock(1, <<1>>, 3) /\ d = Lock(1, <<1>>, 1) /\ c = Slot(2, <<r.key>>)
      /\ a.do = "row" /\ d.do = "row" /\ b.do = "active" /\ e.do = "decide" /\ c.do = "claim"
      /\ <<r.key>> \in Seq(Nat) /\ <<1>> \in Seq(Nat)
  BY StatementsAre, KeysAre, RequestsAssumption DEF Session, Claim, Row, Do
<1>4. /\ a.at = <<1, <<1>>>> /\ b.at = <<>>
  BY <1>3 DEF Lock, Do
<1>5. KeyShare \in 1 .. 3
  BY DEF KeyShare
<1> HIDE DEF a, b, c, d, e
<1>6. Fits(a, {})
  BY <1>3, FirstFits
<1>7. Fits(b, {} \cup {a})
  BY DoFits DEF b
<1>8. Runs(<<a, b>>, {}) /\ Parts(<<a, b>>) = {a, b}
  BY <1>2, <1>6, <1>7, PairRuns
<1>9. Upto({a, b}, 1)
  BY <1>3, <1>4 DEF Upto
<1>10. Fits(c, {a, b})
  <2>1. 1 \in Nat /\ 2 \in 1 .. 8 /\ 1 \in 1 .. 3 /\ 1 < 2
    OBVIOUS
  <2> QED
    BY <1>3, <1>9, <2>1, LockFits, Zenon
<1>11. Fits(d, {a, b} \cup {c})
  <2>1. InSession({a, b} \cup {c})
    BY <1>3 DEF InSession
  <2> QED
    BY <1>5, <2>1, SessionFits DEF d
<1>12. Runs(<<c, d>>, {a, b}) /\ Parts(<<c, d>>) = {c, d}
  BY <1>2, <1>10, <1>11, PairRuns
<1>13. {} \cup Parts(<<a, b>>) = {a, b}
  BY <1>8
<1>14. /\ Runs(<<a, b>> \o <<c, d>>, {})
       /\ Parts(<<a, b>> \o <<c, d>>) = Parts(<<a, b>>) \cup Parts(<<c, d>>)
  BY <1>8, <1>12, <1>13, JoinedRuns
<1>15. Fits(e, {} \cup Parts(<<a, b>> \o <<c, d>>))
  BY DoFits DEF e
<1>16. Runs(<<e>>, {} \cup Parts(<<a, b>> \o <<c, d>>)) /\ Parts(<<e>>) = {e}
  BY <1>2, <1>15, OneRuns
<1>17. /\ Runs((<<a, b>> \o <<c, d>>) \o <<e>>, {})
       /\ Parts((<<a, b>> \o <<c, d>>) \o <<e>>) = Parts(<<a, b>> \o <<c, d>>) \cup Parts(<<e>>)
  BY <1>14, <1>16, JoinedRuns
<1>18. Closed((<<a, b>> \o <<c, d>>) \o <<e>>)
  <2>1. <<a, b>> \o <<c, d>> \in Seq(Statements)
    BY <1>14 DEF Runs
  <2>2. \A x \in Parts(<<a, b>> \o <<c, d>>) : x.do \notin {"balances", "decide"}
    BY <1>3, <1>8, <1>12, <1>14
  <2> QED
    BY <1>2, <2>1, <2>2, ClosedBy
<1>19. Parts(<<a, b>> \o <<c, d>>) \cup Parts(<<e>>) = Bound(r)
  BY <1>2, <1>8, <1>12, <1>14, <1>16
<1> QED
  BY <1>1, <1>17, <1>18, <1>19

\* The last event of a command.
LEMMA EventEnds ==
    ASSUME NEW T, NEW p, Leads(p, T, 7), InSession(T)
    PROVE  /\ Runs((p \o AllocateSequence) \o AppendOutbox, T)
           /\ Plain((p \o AllocateSequence) \o AppendOutbox)
<1> DEFINE s == Session(KeyShare)
           a == Do("allocate")
           b == Do("publish")
           U == T \cup Parts(p)
<1>1. /\ s \in Statements /\ s.do = "row" /\ s.at /= <<>> /\ s.at[1] = 1
      /\ a \in Statements /\ a.do = "allocate" /\ a.at = <<>>
      /\ b \in Statements /\ b.do = "publish" /\ b.at = <<>>
  BY PinIs
<1>2. AllocateSequence = <<s, a>> /\ AppendOutbox = <<b, s>>
  BY DEF AllocateSequence, AppendOutbox
<1>3. Runs(p, T) /\ Plain(p) /\ Upto(U, 7)
  BY DEF Leads
<1>4. Fits(s, U) /\ Fits(s, ((U \cup {s, a}) \cup {b}))
  <2>1. InSession(U) /\ InSession(((U \cup {s, a}) \cup {b})) /\ KeyShare \in 1 .. 3
    BY DEF InSession, KeyShare
  <2> QED
    BY <2>1, SessionFits
<1>5. Fits(a, U \cup {s})
  BY DoFits
<1>6. Fits(b, U \cup {s, a})
  <2>1. \E e \in U \cup {s, a} : e.do = "allocate"
    BY <1>1
  <2>2. \A e \in U \cup {s, a} : e.at /= <<>> => e.at[1] < 8
    BY <1>1, <1>3 DEF Upto
  <2> QED
    BY <1>1, <2>1, <2>2 DEF Fits
<1> HIDE DEF s, a, b
<1>7. Runs(<<s, a>>, U) /\ Parts(<<s, a>>) = {s, a}
  <2>1. s \in Statements /\ a \in Statements /\ Fits(s, U) /\ Fits(a, U \cup {s})
    BY <1>1, <1>4, <1>5
  <2> HIDE DEF U
  <2> QED
    BY <2>1, PairRuns, Zenon
<1>8. Runs(<<b, s>>, U \cup {s, a}) /\ Parts(<<b, s>>) = {b, s}
  <2> DEFINE W == U \cup {s, a}
  <2>1. Fits(b, W) /\ Fits(s, W \cup {b})
    BY <1>4, <1>6
  <2>2. b \in Statements /\ s \in Statements
    BY <1>1
  <2> HIDE DEF W
  <2>3. Runs(<<b, s>>, W) /\ Parts(<<b, s>>) = {b, s}
    BY <2>1, <2>2, PairRuns, Zenon
  <2> QED
    BY <2>3 DEF W
<1>9. Runs(p \o <<s, a>>, T) /\ Parts(p \o <<s, a>>) = Parts(p) \cup Parts(<<s, a>>)
  BY <1>3, <1>7, JoinedRuns
<1>10. T \cup Parts(p \o <<s, a>>) = U \cup {s, a}
  BY <1>7, <1>9
<1>11. /\ Runs((p \o <<s, a>>) \o <<b, s>>, T)
       /\ Parts((p \o <<s, a>>) \o <<b, s>>) = Parts(p \o <<s, a>>) \cup Parts(<<b, s>>)
  BY <1>8, <1>9, <1>10, JoinedRuns
<1>12. Plain((p \o <<s, a>>) \o <<b, s>>)
  BY <1>1, <1>3, <1>7, <1>8, <1>9, <1>11 DEF Plain
<1> QED
  BY <1>2, <1>11, <1>12

\* The record under the key was claimed by this transaction.
LEMMA CompleteLeads ==
    ASSUME NEW r \in Requests
    PROVE  Leads(CompleteIdempotent(r.key), Bound(r), 2)
<1> DEFINE k == <<r.key>>
           T == Bound(r)
<1>1. k \in Seq(Nat) /\ CompleteIdempotent(r.key) = <<Lock(2, k, 2)>>
  BY KeysAre, StatementsAre, RequestsAssumption DEF CompleteIdempotent
<1>2. /\ Upto(T, 2)
      /\ \A e \in T : /\ e.do /= "publish"
                      /\ e.at /= <<>> => \/ e.at = <<1, <<1>>>> /\ e.do = "row"
                                         \/ e.at = <<2, k>> /\ e.do = "claim"
  BY BoundFacts
<1> HIDE DEF k, T
<1>3. /\ 2 \in 1 .. 8 /\ 2 \in 1 .. 3 /\ 2 \in Nat /\ 2 <= 2
  OBVIOUS
<1>4. Lock(2, k, 2).do = "row" /\ Lock(2, k, 2).at = <<2, k>> /\ <<2, k>> /= <<>>
  BY <1>1, <1>3, LockIs, Zenon
<1>5. ~Precedes(<<2, k>>, <<1, <<1>>>>) /\ ~Precedes(<<2, k>>, <<2, k>>)
  <2>1. <<2, k>>[1] = 2 /\ <<1, <<1>>>>[1] = 1
    OBVIOUS
  <2> QED
    BY <1>1, <2>1, HigherRank, SamePlace
<1>6. NotBefore(Lock(2, k, 2), T)
  BY <1>2, <1>4, <1>5 DEF NotBefore
<1>7. \A e \in T : e.do = "row" => e.at /= <<2, k>>
  <2>1. <<1, <<1>>>> /= <<2, k>>
    OBVIOUS
  <2> QED
    BY <1>2, <1>4, <2>1
<1>8. Fits(Lock(2, k, 2), T)
  BY <1>4, <1>6, <1>7 DEF Fits
<1> QED
  <2>1. Leads(<<Lock(2, k, 2)>>, T, 2)
    BY <1>1, <1>2, <1>3, <1>8, LockLeads
  <2> QED
    BY <1>1, <2>1 DEF T

\* A reservation takes one balance.
LEMMA ReserveLeads ==
    ASSUME NEW T, NEW cash, Upto(T, 2)
    PROVE  Leads(Reserve(cash, 1), T, 4)
<1>1. PICK n \in 3 .. 4 : \A m : Balance(cash, 1, m) = Lock(n, <<1>>, m)
  BY BalanceIs
<1> DEFINE a == Lock(n, <<1>>, 3)
           b == Lock(n, <<1>>, 2)
<1>2. Reserve(cash, 1) = <<a, b>>
  BY <1>1 DEF Reserve, ForUpdate, NoKeyUpdate
<1>0. <<1>> \in Seq(Nat)
  BY KeysAre
<1>3. <<1>> \in Seq(Nat) /\ n \in 1 .. 8 /\ n \in Nat /\ 2 < n /\ n <= 4
      /\ 2 \in 1 .. 3 /\ 3 \in 1 .. 3 /\ 2 \in Nat /\ 2 <= 3 /\ 4 \in Nat
  BY <1>0
<1>4. /\ a \in Statements /\ a.do = "row" /\ a.at[1] = n
      /\ b \in Statements /\ b.do = "row" /\ b.at[1] = n
  <2>1. /\ a \in Statements /\ a.do = "row" /\ a.at = <<n, <<1>>>>
        /\ b \in Statements /\ b.do = "row" /\ b.at = <<n, <<1>>>>
    BY <1>3, LockIs, Zenon
  <2> HIDE DEF a, b
  <2> QED
    BY <2>1
<1>5. Fits(a, T)
  BY <1>3, LockFits, Zenon
<1>6. Fits(b, T \cup {a})
  BY <1>3, HeldFits
<1>7. Upto(T, 4)
  BY UptoHigher
<1> HIDE DEF a, b
<1>8. Leads(<<a, b>>, T, 4)
  BY <1>3, <1>4, <1>5, <1>6, <1>7, PairLeads
<1> QED
  BY <1>2, <1>8

\* Statements that touch the session row only.
LEMMA PinLeads ==
    ASSUME NEW T, NEW n \in Nat, n >= 1, Upto(T, n), InSession(T)
    PROVE  Leads(<<Session(KeyShare)>>, T, n) /\ Parts(<<Session(KeyShare)>>) = {Session(KeyShare)}
<1> DEFINE s == Session(KeyShare)
<1>1. s \in Statements /\ s.do = "row" /\ s.at[1] = 1
  BY PinIs
<1>2. Fits(s, T)
  <2>1. KeyShare \in 1 .. 3
    BY DEF KeyShare
  <2> QED
    BY <2>1, SessionFits
<1> HIDE DEF s
<1>3. Runs(<<s>>, T) /\ Parts(<<s>>) = {s}
  BY <1>1, <1>2, OneRuns
<1>4. Upto(T \cup {s}, n)
  BY <1>1 DEF Upto
<1>5. Leads(<<s>>, T, n) /\ Parts(<<s>>) = {s}
  BY <1>1, <1>3, <1>4 DEF Leads, Plain
<1> QED
  BY <1>5 DEF s

\* A row inserted below the session pins the session and its parent.
LEMMA RecordLeads ==
    ASSUME NEW T, NEW n \in 1 .. 7, NEW k \in Seq(Nat), Upto(T, n), InSession(T),
           Fits(Lock(n, k, 1), T \cup {Session(KeyShare)})
    PROVE  /\ Leads(<<Session(KeyShare), Lock(n, k, 1)>>, T, n)
           /\ Parts(<<Session(KeyShare), Lock(n, k, 1)>>) = {Session(KeyShare), Lock(n, k, 1)}
<1> DEFINE s == Session(KeyShare)
           d == Lock(n, k, 1)
<1>1. s \in Statements /\ s.do = "row" /\ s.at[1] = 1
  BY PinIs
<1>2. n \in 1 .. 8 /\ n \in Nat /\ 1 \in 1 .. 3 /\ 1 <= n
  OBVIOUS
<1>3. d \in Statements /\ d.do = "row" /\ d.at[1] = n
  BY <1>2, LockIs
<1>4. Fits(s, T)
  <2>1. KeyShare \in 1 .. 3
    BY DEF KeyShare
  <2> QED
    BY <2>1, SessionFits
<1> HIDE DEF s, d
<1>5. Leads(<<s, d>>, T, n) /\ Parts(<<s, d>>) = {s, d}
  BY <1>1, <1>2, <1>3, <1>4, PairLeads DEF s, d
<1> QED
  BY <1>5 DEF s, d

LEMMA LeadsHigher ==
    ASSUME NEW T, NEW p, NEW m \in Nat, NEW n \in Nat, m <= n, Leads(p, T, m)
    PROVE  Leads(p, T, n)
BY UptoHigher DEF Leads

\* The same with the joined program named, and the session still held after it.
LEMMA ThenLeads ==
    ASSUME NEW T, NEW p, NEW q, NEW m, NEW n, InSession(T), Leads(p, T, m),
           \A U : InSession(U) /\ Upto(U, m) => Leads(q, U, n)
    PROVE  Leads(p \o q, T, n)
<1>1. InSession(T \cup Parts(p)) /\ Upto(T \cup Parts(p), m)
  BY DEF Leads, InSession
<1>2. Leads(q, T \cup Parts(p), n)
  BY <1>1
<1> QED
  BY <1>2, JoinedLeads

LEMMA BoundHolds ==
    ASSUME NEW r
    PROVE  InSession(Bound(r))
BY StatementsAre DEF InSession, Bound

\* The completed record, then the balance of the reservation.
LEMMA CompleteReserve ==
    ASSUME NEW r \in Requests
    PROVE  Leads(CompleteIdempotent(r.key) \o Reserve(r.cash, 1), Bound(r), 4)
BY CompleteLeads, ReserveLeads, BoundHolds, ThenLeads

LEMMA PlaceRestRuns ==
    ASSUME NEW r \in Requests
    PROVE  Runs(PlaceRest(r), Bound(r)) /\ Plain(PlaceRest(r))
<1> DEFINE T == Bound(r)
           a == CompleteIdempotent(r.key) \o Reserve(r.cash, 1)
           b == InsertOrder(<<>>)
           o == 90 + r.key
           c == RecordReservation(Order(o, KeyShare))
<1>1. PlaceRest(r) = (((a \o b) \o c) \o AllocateSequence) \o AppendOutbox
  BY DEF PlaceRest
<1>2. InSession(T) /\ Leads(a, T, 4)
  BY BoundHolds, CompleteReserve
<1>3. ASSUME NEW U, InSession(U), Upto(U, 4) PROVE Leads(b, U, 4)
  <2>1. Leads(<<Session(KeyShare)>>, U, 4)
    BY <1>3, PinLeads
  <2>2. Leads(<<>>, U \cup Parts(<<Session(KeyShare)>>), 4)
    BY <2>1, NothingLeads DEF Leads
  <2>3. b = <<Session(KeyShare)>> \o <<>>
    BY DEF InsertOrder
  <2> QED
    BY <2>1, <2>2, <2>3, JoinedLeads
<1>4. ASSUME NEW U, InSession(U), Upto(U, 4) PROVE Leads(c, U, 6)
  <2>0. r.key \in Nat
    BY RequestsAssumption
  <2>1. o \in Nat /\ OrderKey(o) \in Seq(Nat)
    <3>1. o \in Nat
      BY <2>0
    <3> HIDE DEF o
    <3> QED
      BY <3>1, KeysAre
  <2> DEFINE k == OrderKey(o)
  <2>2. c = <<Session(KeyShare), Lock(6, k, 1)>>
    BY StatementsAre DEF RecordReservation
  <2>3. Upto(U \cup {Session(KeyShare)}, 4)
    BY <1>4, PinIs DEF Upto
  <2>4. 6 \in 1 .. 7 /\ 6 \in 1 .. 8 /\ 6 \in Nat /\ 1 \in 1 .. 3 /\ 4 < 6 /\ 4 \in Nat /\ 4 <= 6
    OBVIOUS
  <2>5. k \in Seq(Nat)
    BY <2>1
  <2> HIDE DEF k
  <2>6. Fits(Lock(6, k, 1), U \cup {Session(KeyShare)})
    BY <2>3, <2>4, <2>5, LockFits, Zenon
  <2>7. Upto(U, 6)
    BY <1>4, <2>4, UptoHigher, Zenon
  <2>8. Leads(<<Session(KeyShare), Lock(6, k, 1)>>, U, 6)
    BY <1>4, <2>4, <2>5, <2>6, <2>7, RecordLeads, Zenon
  <2> QED
    BY <2>2, <2>8
<1> HIDE DEF T, a, b, c
<1>5. Leads(a \o b, T, 4)
  BY <1>2, <1>3, ThenLeads
<1>6. Leads((a \o b) \o c, T, 6)
  BY <1>2, <1>4, <1>5, ThenLeads
<1>7. Leads((a \o b) \o c, T, 7)
  BY <1>6, LeadsHigher
<1> QED
  BY <1>1, <1>2, <1>7, EventEnds DEF T

LEMMA PairParts ==
    ASSUME NEW a, NEW b
    PROVE  Parts(<<a, b>>) = {a, b}
<1>1. Len(<<a, b>>) = 2 /\ <<a, b>>[1] = a /\ <<a, b>>[2] = b /\ 1 .. 2 = {1, 2}
  OBVIOUS
<1> QED
  BY <1>1 DEF Parts

\* Two rows of one table, the first before the second.
LEMMA LocksLead ==
    ASSUME NEW T, NEW m \in Nat, NEW n \in 1 .. 8, m < n, Upto(T, m),
           NEW k \in Seq(Nat), NEW l \in Seq(Nat), k /= l, ~Precedes(<<n, l>>, <<n, k>>),
           NEW x \in 1 .. 3, NEW y \in 1 .. 3
    PROVE  Leads(<<Lock(n, k, x), Lock(n, l, y)>>, T, n)
<1> DEFINE one == Lock(n, k, x)
           two == Lock(n, l, y)
<1>1. n \in Nat /\ m <= n
  OBVIOUS
<1>2. Fits(one, T)
  BY LockFits
<1>3. /\ one \in Statements /\ one.do = "row" /\ one.at = <<n, k>>
      /\ two \in Statements /\ two.do = "row" /\ two.at = <<n, l>>
  BY LockIs
<1>4. Fits(Lock(n, l, y), T)
  BY LockFits
<1>5. /\ <<n, l>> /= <<n, k>> /\ ~Precedes(<<n, l>>, <<n, k>>)
  OBVIOUS
<1>6. \A e \in T : /\ e.do /= "publish" /\ e.at /= <<n, l>>
                   /\ e.at /= <<>> => ~Precedes(<<n, l>>, e.at)
  <2> SUFFICES ASSUME NEW e \in T
               PROVE  /\ e.do /= "publish" /\ e.at /= <<n, l>>
                      /\ e.at /= <<>> => ~Precedes(<<n, l>>, e.at)
    OBVIOUS
  <2>1. e.do /= "publish" /\ (e.at /= <<>> => e.at[1] \in Nat /\ e.at[1] <= m)
    BY DEF Upto
  <2> DEFINE p == <<n, l>>
  <2>2. p[1] = n /\ p /= <<>>
    OBVIOUS
  <2> HIDE DEF p
  <2>3. e.at /= p
    BY <1>1, <2>1, <2>2
  <2>4. e.at /= <<>> => ~Precedes(p, e.at)
    BY <1>1, <2>1, <2>2, HigherRank
  <2> QED
    BY <2>1, <2>3, <2>4 DEF p
<1> HIDE DEF one, two
<1>7. Fits(two, T \cup {one})
  BY <1>3, <1>5, <1>6 DEF Fits, NotBefore
<1>8. Upto(T, n)
  BY <1>1, UptoHigher
<1>9. Runs(<<one, two>>, T) /\ Parts(<<one, two>>) = {one, two}
  <2>1. one \in Statements /\ two \in Statements /\ Fits(one, T)
    BY <1>2, <1>3 DEF one
  <2> QED
    BY <1>7, <2>1, PairRuns
<1>10. Upto(T \cup {one, two}, n)
  <2>1. ASSUME NEW e \in {one, two} PROVE e.do /= "publish" /\ e.at[1] \in Nat /\ e.at[1] <= n
    BY <1>1, <1>3
  <2> QED
    BY <1>8, <2>1 DEF Upto
<1>11. Plain(<<one, two>>)
  BY <1>3, <1>9 DEF Plain
<1> QED
  BY <1>9, <1>10, <1>11 DEF Leads, one, two

LEMMA ConvertRestRuns ==
    ASSUME NEW r \in Requests
    PROVE  Runs(ConvertRest(r), Bound(r)) /\ Plain(ConvertRest(r))
<1> DEFINE T == Bound(r)
           a == CompleteIdempotent(r.key)
           w == Lock(3, <<1>>, 3)
           v == Lock(3, <<2>>, 3)
           b == <<w, v>>
           c == MoveCash(1)
           d == MoveCash(2)
<1>1. ConvertRest(r) = ((((a \o b) \o c) \o d) \o AllocateSequence) \o AppendOutbox
  BY StatementsAre DEF ConvertRest
<1>2. InSession(T) /\ Leads(a, T, 2)
  BY BoundHolds, CompleteLeads
<1>3. <<1>> \in Seq(Nat) /\ <<2>> \in Seq(Nat)
  BY KeysAre
<1>4. c = <<Lock(3, <<1>>, 2)>> /\ d = <<Lock(3, <<2>>, 2)>>
  BY StatementsAre DEF MoveCash
<1>5. /\ w \in Statements /\ w.do = "row" /\ w.at = <<3, <<1>>>>
      /\ v \in Statements /\ v.do = "row" /\ v.at = <<3, <<2>>>>
  <2>1. 3 \in 1 .. 8 /\ 3 \in 1 .. 3
    OBVIOUS
  <2> QED
    BY <1>3, <2>1, LockIs, Zenon
<1>6. ASSUME NEW U, InSession(U), Upto(U, 2) PROVE Leads(b, U, 3) /\ Parts(b) = {w, v}
  <2> DEFINE k == <<1>>
             l == <<2>>
  <2>1. ~Precedes(<<3, l>>, <<3, k>>)
    <3>1. 1 \in Nat /\ 2 \in Nat /\ 3 \in Nat /\ 1 <= 2
      OBVIOUS
    <3> QED
      BY <3>1, SameRank, Zenon
  <2>2. k /= l /\ k \in Seq(Nat) /\ l \in Seq(Nat)
    BY <1>3
  <2> HIDE DEF k, l
  <2>3. 2 \in Nat /\ 3 \in 1 .. 8 /\ 3 \in 1 .. 3 /\ 2 < 3
    OBVIOUS
  <2>4. Leads(<<Lock(3, k, 3), Lock(3, l, 3)>>, U, 3)
    BY <1>6, <2>1, <2>2, <2>3, LocksLead, Zenon
  <2> HIDE DEF w, v
  <2>5. Parts(<<w, v>>) = {w, v}
    BY PairParts
  <2> QED
    BY <2>4, <2>5 DEF k, l, w, v
<1>7. ASSUME NEW U, w \in U, v \in U, Upto(U, 3)
      PROVE  Leads(c, U, 3) /\ Leads(d, U, 3)
  <2>1. 3 \in 1 .. 8 /\ 2 \in 1 .. 3 /\ 3 \in 1 .. 3 /\ 2 <= 3 /\ 3 \in Nat /\ 3 <= 3
    OBVIOUS
  <2>2. Fits(Lock(3, <<1>>, 2), U) /\ Fits(Lock(3, <<2>>, 2), U)
    BY <1>3, <1>7, <2>1, HeldFits
  <2>3. Leads(<<Lock(3, <<1>>, 2)>>, U, 3)
    BY <1>3, <1>7, <2>1, <2>2, LockLeads
  <2>4. Leads(<<Lock(3, <<2>>, 2)>>, U, 3)
    BY <1>3, <1>7, <2>1, <2>2, LockLeads
  <2> QED
    BY <1>4, <2>3, <2>4
<1> HIDE DEF T, a, b, c, d, w, v
<1>8. Leads(b, T \cup Parts(a), 3) /\ Parts(b) = {w, v}
  BY <1>2, <1>6 DEF Leads, InSession
<1>9. Leads(a \o b, T, 3) /\ Parts(a \o b) = Parts(a) \cup Parts(b)
  BY <1>2, <1>8, JoinedLeads
<1>10. w \in T \cup Parts(a \o b) /\ v \in T \cup Parts(a \o b) /\ Upto(T \cup Parts(a \o b), 3)
  BY <1>8, <1>9 DEF Leads
<1>11. Leads((a \o b) \o c, T, 3) /\ Parts((a \o b) \o c) = Parts(a \o b) \cup Parts(c)
  <2>1. Leads(a \o b, T, 3) /\ Leads(c, T \cup Parts(a \o b), 3)
    BY <1>7, <1>9, <1>10
  <2>2. Leads((a \o b) \o c, T, 3)
    BY <2>1, JoinedLeads
  <2>3. Composes(a \o b, c)
    BY <2>1, LeadsCompose
  <2>4. Parts((a \o b) \o c) = Parts(a \o b) \cup Parts(c)
    BY <2>3 DEF Composes
  <2> QED
    BY <2>2, <2>4
<1>12. Leads(d, T \cup Parts((a \o b) \o c), 3)
  BY <1>7, <1>10, <1>11 DEF Leads
<1>13. Leads(((a \o b) \o c) \o d, T, 3)
  BY <1>11, <1>12, JoinedLeads
<1>14. Leads(((a \o b) \o c) \o d, T, 7)
  BY <1>13, LeadsHigher
<1> QED
  BY <1>1, <1>2, <1>14, EventEnds DEF T

\* Twice the same two statements.
LEMMA RepeatTwice ==
    ASSUME NEW a \in Statements, NEW b \in Statements
    PROVE  Repeat(2, <<a>> \o <<b>>) = <<a, b>> \o <<a, b>>
<1> DEFINE s == <<a>> \o <<b>>
           q == <<a, b>> \o <<a, b>>
<1>1. Len(s) = 2 /\ s[1] = a /\ s[2] = b
  OBVIOUS
<1>2. <<a, b>> \in Seq(Statements) /\ Len(<<a, b>>) = 2 /\ <<a, b>>[1] = a /\ <<a, b>>[2] = b
  OBVIOUS
<1>3. /\ q \in Seq(Statements) /\ Len(q) = 4
      /\ q[1] = a /\ q[2] = b /\ q[3] = a /\ q[4] = b
  OBVIOUS
<1>4. Repeat(2, s) = [i \in 1 .. (2 * Len(s)) |-> s[((i - 1) % Len(s)) + 1]]
  BY DEF Repeat
<1> HIDE DEF s, q
<1>5. Repeat(2, s) = [i \in 1 .. 4 |-> s[((i - 1) % 2) + 1]]
  BY <1>1, <1>4
<1>6. ASSUME NEW i \in 1 .. 4 PROVE s[((i - 1) % 2) + 1] = q[i]
  BY <1>1, <1>3
<1>7. q = [i \in 1 .. 4 |-> q[i]]
  BY <1>3
<1>8. Repeat(2, s) = q
  BY <1>5, <1>6, <1>7
<1> QED
  BY <1>8 DEF s, q

\* The parent of an inserted row is held by this transaction.
LEMMA HeldRecordLeads ==
    ASSUME NEW T, NEW n \in 1 .. 7, NEW k \in Seq(Nat), Upto(T, n), InSession(T),
           Lock(n, k, 1) \in T
    PROVE  Leads(<<Session(KeyShare), Lock(n, k, 1)>>, T, n)
<1>1. n \in 1 .. 8 /\ 1 \in 1 .. 3 /\ 1 <= 1 /\ Lock(n, k, 1) \in T \cup {Session(KeyShare)}
  OBVIOUS
<1>2. Fits(Lock(n, k, 1), T \cup {Session(KeyShare)})
  BY <1>1, HeldFits, Zenon
<1> QED
  BY <1>2, RecordLeads

LEMMA OcoRestRuns ==
    ASSUME NEW r \in Requests
    PROVE  Runs(OcoRest(r), Bound(r)) /\ Plain(OcoRest(r))
<1> DEFINE T == Bound(r)
           a == CompleteIdempotent(r.key) \o Reserve(r.cash, 1)
           o == 90 + r.key
           k == <<o>>
           s == Session(KeyShare)
           g == Lock(5, k, 1)
           q == <<s, g>>
<1>1. OcoRest(r) = (((((a \o <<s>>) \o (q \o q)) \o q) \o AllocateSequence) \o AppendOutbox)
  <2>1. Row("oco_groups", k, KeyShare) = g
    BY StatementsAre
  <2>2. s \in Statements /\ g \in Statements
    <3>1. r.key \in Nat
      BY RequestsAssumption
    <3>2. o \in Nat
      BY <3>1
    <3>3. k \in Seq(Nat)
      BY <3>2, KeysAre
    <3>4. 5 \in 1 .. 8 /\ 1 \in 1 .. 3
      OBVIOUS
    <3> HIDE DEF k
    <3> QED
      BY <3>3, <3>4, LockIs, PinIs, Zenon
  <2> HIDE DEF s, g
  <2>3. Repeat(2, <<s>> \o <<g>>) = q \o q
    BY <2>2, RepeatTwice
  <2>4. /\ InsertOrder(<<g>>) = <<s>> \o <<g>> /\ InsertGroup = <<s>> /\ RecordReservation(g) = q
    BY DEF InsertOrder, InsertGroup, RecordReservation, s
  <2> HIDE DEF q
  <2> QED
    BY <2>1, <2>3, <2>4 DEF OcoRest
<1>2. InSession(T) /\ Leads(a, T, 4)
  BY BoundHolds, CompleteReserve
<1>3. k \in Seq(Nat)
  <2>1. r.key \in Nat
    BY RequestsAssumption
  <2>2. o \in Nat
    BY <2>1
  <2> HIDE DEF o
  <2> QED
    BY <2>2, KeysAre
<1>4. 5 \in 1 .. 7 /\ 5 \in 1 .. 8 /\ 5 \in Nat /\ 1 \in 1 .. 3 /\ 4 < 5 /\ 4 \in Nat /\ 4 <= 5
  OBVIOUS
<1> HIDE DEF T, a, k
<1>5. ASSUME NEW U, InSession(U), Upto(U, 4) PROVE Leads(<<s>>, U, 4)
  BY <1>5, PinLeads
<1>6. ASSUME NEW U, InSession(U), Upto(U, 4) PROVE Leads(q, U, 5)
  <2>1. Upto(U \cup {s}, 4)
    BY <1>6, PinIs DEF Upto
  <2>2. Fits(g, U \cup {s})
    BY <1>3, <1>4, <2>1, LockFits, Zenon
  <2>3. Upto(U, 5)
    BY <1>4, <1>6, UptoHigher, Zenon
  <2> QED
    BY <1>3, <1>4, <1>6, <2>2, <2>3, RecordLeads, Zenon
<1>7. ASSUME NEW U, InSession(U), Upto(U, 5), g \in U PROVE Leads(q, U, 5)
  BY <1>3, <1>4, <1>7, HeldRecordLeads, Zenon
<1>8. Parts(q) = {s, g}
  <2> HIDE DEF s, g
  <2> QED
    BY PairParts
<1> HIDE DEF s, g, q
<1>9. Leads(a \o <<s>>, T, 4)
  BY <1>2, <1>5, ThenLeads
<1> DEFINE U == T \cup Parts(a \o <<s>>)
<1>10. InSession(U) /\ Upto(U, 4)
  BY <1>2, <1>9 DEF InSession, Leads
<1> HIDE DEF U
<1>11. Leads(q, U, 5) /\ g \in U \cup Parts(q) /\ InSession(U \cup Parts(q)) /\ Upto(U \cup Parts(q), 5)
  BY <1>6, <1>8, <1>10 DEF InSession, Leads
<1>12. Leads(q \o q, U, 5) /\ Parts(q \o q) = {s, g}
  <2>1. Leads(q, U \cup Parts(q), 5)
    BY <1>7, <1>11
  <2> QED
    BY <1>8, <1>11, <2>1, JoinedLeads
<1>13. /\ Leads((a \o <<s>>) \o (q \o q), T, 5)
       /\ T \cup Parts((a \o <<s>>) \o (q \o q)) = U \cup {s, g}
  <2> DEFINE b == a \o <<s>>
             c == q \o q
  <2>1. Leads(b, T, 4) /\ Leads(c, T \cup Parts(b), 5) /\ Parts(c) = {s, g} /\ U = T \cup Parts(b)
    BY <1>9, <1>12 DEF U
  <2> HIDE DEF b, c
  <2>2. Leads(b \o c, T, 5) /\ Parts(b \o c) = Parts(b) \cup Parts(c)
    BY <2>1, JoinedLeads
  <2>3. T \cup Parts(b \o c) = U \cup {s, g}
    BY <2>1, <2>2
  <2> QED
    BY <2>2, <2>3 DEF b, c
<1>14. Leads(q, U \cup {s, g}, 5)
  <2>1. U \cup {s, g} = U \cup Parts(q)
    BY <1>8
  <2> QED
    BY <1>7, <1>11, <2>1
<1>15. Leads(((a \o <<s>>) \o (q \o q)) \o q, T, 5)
  BY <1>13, <1>14, JoinedLeads
<1>16. Leads(((a \o <<s>>) \o (q \o q)) \o q, T, 7)
  BY <1>15, LeadsHigher
<1> QED
  BY <1>1, <1>2, <1>16, EventEnds DEF T

-----------------------------------------------------------------------------
(* A cancellation.                                                         *)

\* What a cancellation of the pair g has asked for before the reservation.
Near(g) ==
    {e \in Statements :
        /\ e.do /= "publish"
        /\ \/ e.at = <<>> \/ e.at[1] <= 5
           \/ \E i \in Nat : e.at = <<6, OrderKey(i)>>
           \/ e.do = "claim" /\ e.at = <<6, OcoWinnerClaimKey(g)>>}

LEMMA StatementAt ==
    ASSUME NEW e \in Statements, e.at /= <<>>
    PROVE  e.at[1] \in Nat /\ e.at[1] \in 1 .. 8
<1>1. e.at \in (1 .. 8) \X Seq(Nat)
  BY DEF Statements, Addresses
<1> QED
  BY <1>1

LEMMA NearUpto ==
    ASSUME NEW g, NEW T \in SUBSET Near(g)
    PROVE  Upto(T, 6)
<1> SUFFICES ASSUME NEW e \in T
             PROVE  e.do /= "publish" /\ (e.at /= <<>> => e.at[1] \in Nat /\ e.at[1] <= 6)
  BY DEF Upto
<1>1. e \in Statements /\ e.do /= "publish"
  BY DEF Near
<1>2. CASE e.at = <<>>
  BY <1>1, <1>2
<1>3. CASE e.at /= <<>> /\ e.at[1] <= 5
  <2>1. e.at[1] \in Nat
    BY <1>1, <1>3, StatementAt
  <2> QED
    BY <1>1, <1>3, <2>1
<1>4. CASE \E i \in Nat : e.at = <<6, OrderKey(i)>>
  BY <1>1, <1>4
<1>5. CASE e.at = <<6, OcoWinnerClaimKey(g)>>
  BY <1>1, <1>5
<1> QED
  BY <1>2, <1>3, <1>4, <1>5 DEF Near

\* The winner's slot is behind the orders, and behind itself.
LEMMA WinnerFits ==
    ASSUME NEW g \in Nat, NEW T \in SUBSET Near(g)
    PROVE  Fits(Slot(6, OcoWinnerClaimKey(g)), T)
<1> DEFINE k == OcoWinnerClaimKey(g)
           d == Slot(6, k)
<1>1. k \in Seq(Nat)
  BY KeysAre
<1>2. d.do = "claim" /\ d.at = <<6, k>>
  <2>1. 6 \in 1 .. 8 /\ 3 \in 1 .. 3
    OBVIOUS
  <2> HIDE DEF k
  <2> QED
    BY <1>1, <2>1, LockIs, Zenon
<1>3. ASSUME NEW e \in T PROVE e.do /= "publish" /\ (e.at /= <<>> => ~Precedes(<<6, k>>, e.at))
  <2>1. e \in Statements /\ e.do /= "publish"
    BY DEF Near
  <2> DEFINE p == <<6, k>>
  <2>2. p[1] = 6
    OBVIOUS
  <2>3. CASE e.at /= <<>> /\ e.at[1] <= 5
    <3>1. e.at[1] \in Nat
      BY <2>1, <2>3, StatementAt
    <3> HIDE DEF p
    <3>2. ~Precedes(p, e.at)
      BY <2>2, <2>3, <3>1, HigherRank
    <3> QED
      BY <2>1, <3>2 DEF p
  <2>4. CASE \E i \in Nat : e.at = <<6, OrderKey(i)>>
    <3>1. PICK i \in Nat : e.at = <<6, OrderKey(i)>>
      BY <2>4
    <3>2. 6 \in Nat /\ i <= i
      OBVIOUS
    <3>3. ~Precedes(<<6, k>>, <<6, OrderKey(i)>>)
      BY <3>2, SameRank
    <3> QED
      BY <2>1, <3>1, <3>3
  <2>5. CASE e.at = <<6, k>>
    <3>1. ~Precedes(<<6, k>>, <<6, k>>)
      <4>1. 6 \in Nat
        OBVIOUS
      <4> HIDE DEF k
      <4> QED
        BY <1>1, <4>1, SamePlace, Zenon
    <3> QED
      BY <2>1, <2>5, <3>1
  <2> HIDE DEF k
  <2> QED
    BY <2>1, <2>3, <2>4, <2>5 DEF Near, k
<1> HIDE DEF d, k
<1>4. Fits(d, T)
  BY <1>2, <1>3 DEF Fits, NotBefore
<1> QED
  BY <1>4 DEF d, k

\* A program of row locks that are all held.
LEMMA CoveredLeads ==
    ASSUME NEW T, NEW n \in Nat, NEW p \in Seq(Statements), Upto(T, n),
           \A d \in Parts(p) : d.do = "row" /\ Covered(d, T)
    PROVE  Leads(p, T, n)
<1>1. Runs(p, T)
  <2>1. \A i \in 1 .. Len(p) : p[i] \in Parts(p)
    BY DEF Parts
  <2> QED
    BY <2>1, CoveredRuns
<1>2. Plain(p)
  BY DEF Plain
<1>3. Upto(T \cup Parts(p), n)
  BY DEF Upto, Covered
<1> QED
  BY <1>1, <1>2, <1>3 DEF Leads

\* The rows of a leg's pair are those of the pair.
LEMMA LegIs ==
    ASSUME NEW o \in Orders, NEW leg \in LegSet(o)
    PROVE  leg \in Orders /\ leg \in Nat /\ Legs[leg] = Legs[o] /\ (Grouped(leg) <=> Grouped(o))
<1>1. leg \in Orders
  BY LegsAssumption DEF LegSet
<1> QED
  BY <1>1, LegsAssumption DEF Grouped

LEMMA LastLeads ==
    ASSUME NEW T, NEW n \in 1 .. 8, NEW k \in Seq(Nat), NEW x \in 1 .. 3, Upto(T, n)
    PROVE  /\ Fits(Lock(n, k, x), T) => Leads(<<Lock(n, k, x)>>, T, n)
           /\ Fits(Slot(n, k), T) => Leads(<<Slot(n, k)>>, T, n)
<1>1. n \in Nat /\ n <= n
  OBVIOUS
<1> QED
  BY <1>1, LockLeads, SlotLeads

LEMMA OneParts ==
    ASSUME NEW a
    PROVE  Parts(<<a>>) = {a}
<1>1. Len(<<a>>) = 1 /\ <<a>>[1] = a /\ 1 .. 1 = {1}
  OBVIOUS
<1> QED
  BY <1>1 DEF Parts

LEMMA UpdateLeads ==
    ASSUME NEW o \in Orders, NEW leg \in LegSet(o), NEW T \in SUBSET Near(Legs[o][1]),
           Lock(6, OrderKey(leg), 3) \in T
    PROVE  Leads(UpdateOrder(leg), T, 6) /\ Parts(UpdateOrder(leg)) \subseteq Near(Legs[o][1])
<1> DEFINE g == Legs[o][1]
           k == OrderKey(leg)
           w == OcoWinnerClaimKey(g)
           d == Lock(6, k, 2)
           e == Slot(6, w)
<1>1. g \in Nat /\ leg \in Nat /\ Legs[leg] = Legs[o] /\ (Grouped(leg) <=> Grouped(o))
  BY LegIs, LegsAre
<1>2. k \in Seq(Nat) /\ w \in Seq(Nat)
  BY <1>1, KeysAre
<1>3. 6 \in 1 .. 8 /\ 2 \in 1 .. 3 /\ 3 \in 1 .. 3 /\ 2 <= 3 /\ 6 \in Nat /\ 6 <= 6
  OBVIOUS
<1>4. UpdateOrder(leg) = IF Grouped(o) THEN <<d>> \o <<e>> ELSE <<d>>
  <2>1. UpdateOrder(leg) = <<d>> \o (IF Grouped(o) THEN <<e>> ELSE <<>>)
    BY <1>1, StatementsAre DEF UpdateOrder
  <2> HIDE DEF d, e
  <2>2. <<d>> \o <<>> = <<d>>
    OBVIOUS
  <2> QED
    BY <2>1, <2>2
<1>5. Upto(T, 6)
  BY NearUpto
<1>6. /\ d \in Statements /\ d.do = "row" /\ d.at = <<6, OrderKey(leg)>>
      /\ e \in Statements /\ e.do = "claim" /\ e.at = <<6, OcoWinnerClaimKey(Legs[o][1])>>
  <2>1. /\ Lock(6, k, 2) \in Statements /\ Lock(6, k, 2).do = "row" /\ Lock(6, k, 2).at = <<6, k>>
        /\ Slot(6, w) \in Statements /\ Slot(6, w).do = "claim" /\ Slot(6, w).at = <<6, w>>
    <3> HIDE DEF k, w
    <3> QED
      BY <1>2, <1>3, LockIs, Zenon
  <2> QED
    BY <2>1
<1> HIDE DEF k
<1>7. Leads(<<d>>, T, 6) /\ Parts(<<d>>) = {d}
  <2>1. Fits(Lock(6, k, 2), T)
    BY <1>2, <1>3, HeldFits, Zenon DEF k
  <2>2. Leads(<<Lock(6, k, 2)>>, T, 6)
    BY <1>2, <1>3, <1>5, <2>1, LastLeads, Zenon
  <2> QED
    BY <2>2, OneParts
<1> HIDE DEF d, e
<1>8. {d} \in SUBSET Near(Legs[o][1]) /\ {e} \in SUBSET Near(Legs[o][1])
  BY <1>1, <1>6 DEF Near
<1>9. T \cup {d} \in SUBSET Near(Legs[o][1])
  BY <1>8
<1>10. Leads(<<e>>, T \cup Parts(<<d>>), 6) /\ Parts(<<e>>) = {e}
  <2> DEFINE U == T \cup {d}
  <2>1. Upto(U, 6) /\ Fits(Slot(6, w), U)
    BY <1>1, <1>9, NearUpto, WinnerFits
  <2>2. U = T \cup Parts(<<d>>)
    BY <1>7
  <2> HIDE DEF U, w
  <2>3. Leads(<<Slot(6, w)>>, U, 6)
    BY <1>2, <1>3, <2>1, LastLeads, Zenon
  <2> QED
    BY <2>2, <2>3, OneParts DEF e
<1>11. Leads(<<d>> \o <<e>>, T, 6) /\ Parts(<<d>> \o <<e>>) = Parts(<<d>>) \cup Parts(<<e>>)
  <2> DEFINE b == <<d>>
             c == <<e>>
  <2>1. Leads(b, T, 6) /\ Leads(c, T \cup Parts(b), 6)
    BY <1>7, <1>10
  <2> HIDE DEF b, c
  <2>2. Leads(b \o c, T, 6)
    BY <2>1, JoinedLeads
  <2>3. Composes(b, c)
    BY <2>1, LeadsCompose
  <2>4. Parts(b \o c) = Parts(b) \cup Parts(c)
    BY <2>3 DEF Composes
  <2> QED
    BY <2>2, <2>4 DEF b, c
<1> HIDE DEF g
<1>12. CASE Grouped(o)
  BY <1>4, <1>7, <1>8, <1>10, <1>11, <1>12
<1>13. CASE ~Grouped(o)
  BY <1>4, <1>7, <1>8, <1>13
<1> QED
  BY <1>12, <1>13

LEMMA UpdateIfLiveLeads ==
    ASSUME NEW o \in Orders, NEW leg \in LegSet(o), NEW T \in SUBSET Near(Legs[o][1]), NEW open,
           Lock(6, OrderKey(leg), 3) \in T
    PROVE  /\ Leads(UpdateIfLive(leg, open), T, 6)
           /\ T \cup Parts(UpdateIfLive(leg, open)) \in SUBSET Near(Legs[o][1])
<1>1. CASE leg \in open
  BY <1>1, UpdateLeads DEF UpdateIfLive
<1>2. CASE leg \notin open
  <2>1. Leads(<<>>, T, 6) /\ Parts(<<>>) = {}
    BY NearUpto, NothingLeads
  <2> QED
    BY <1>2, <2>1 DEF UpdateIfLive
<1> QED
  BY <1>1, <1>2

\* The legs are locked, so updating them claims nothing but the winner's slot.
LEMMA UpdateLegsLead ==
    ASSUME NEW o \in Orders, NEW T \in SUBSET Near(Legs[o][1]), NEW open,
           \A leg \in LegSet(o) : Lock(6, OrderKey(leg), 3) \in T
    PROVE  /\ Leads(UpdateLegs(Legs[o], open), T, 6)
           /\ T \cup Parts(UpdateLegs(Legs[o], open)) \in SUBSET Near(Legs[o][1])
<1> DEFINE L == Legs[o]
           G == Near(L[1])
           a == UpdateIfLive(L[1], open)
           b == IF Len(L) = 2 THEN UpdateIfLive(L[2], open) ELSE <<>>
           U == T \cup Parts(a)
<1>1. Len(L) \in {1, 2} /\ L[1] \in LegSet(o) /\ (Len(L) = 2 => L[2] \in LegSet(o))
  BY LegsAre DEF LegSet
<1>2. Leads(a, T, 6) /\ U \in SUBSET G
  BY <1>1, UpdateIfLiveLeads
<1>3. Leads(b, U, 6) /\ U \cup Parts(b) \in SUBSET G
  <2>1. CASE Len(L) = 2
    <3>1. Lock(6, OrderKey(L[2]), 3) \in U /\ L[2] \in LegSet(o)
      BY <1>1, <2>1
    <3> HIDE DEF U
    <3> QED
      BY <1>2, <2>1, <3>1, UpdateIfLiveLeads
  <2>2. CASE Len(L) /= 2
    <3>1. b = <<>>
      BY <2>2
    <3> HIDE DEF U, b
    <3>2. Leads(<<>>, U, 6) /\ Parts(<<>>) = {}
      BY <1>2, NearUpto, NothingLeads
    <3> QED
      BY <1>2, <3>1, <3>2
  <2> QED
    BY <2>1, <2>2
<1>4. UpdateLegs(L, open) = a \o b
  BY DEF UpdateLegs
<1> HIDE DEF a, b, L, G
<1>5. Leads(a \o b, T, 6)
  BY <1>2, <1>3, JoinedLeads
<1>6. Parts(a \o b) = Parts(a) \cup Parts(b)
  <2>1. Composes(a, b)
    BY <1>2, <1>3, LeadsCompose
  <2> QED
    BY <2>1 DEF Composes
<1>7. T \cup Parts(a \o b) = U \cup Parts(b)
  BY <1>6
<1> QED
  BY <1>3, <1>4, <1>5, <1>7 DEF L, G

\* What a cancellation that locked from the candidates c holds when it decides.
Pair(r, c) ==
    {Lock(1, <<1>>, 3)}
        \cup (IF c = {} THEN {} ELSE {Balance(r.order \in Cash, MarketOf[r.order], 3)})
        \cup (IF Grouped(r.order) THEN {Lock(5, <<Legs[r.order][1]>>, 3)} ELSE {})
        \cup {Lock(6, OrderKey(leg), 3) : leg \in LegSet(r.order)}

\* An optional piece of a program.
\* Balances, group and legs are locked in that order.
LEMMA LockLegsLead ==
    ASSUME NEW o \in Orders, NEW T, Upto(T, 4)
    PROVE  /\ Leads(LockLegs(o), T, 6)
           /\ Parts(LockLegs(o)) = (IF Grouped(o) THEN {Lock(5, <<Legs[o][1]>>, 3)} ELSE {})
                                     \cup {Lock(6, OrderKey(leg), 3) : leg \in LegSet(o)}
<1> DEFINE L == Legs[o]
           k == <<L[1]>>
           g == Lock(5, k, 3)
           a == IF Grouped(o) THEN <<g>> ELSE <<>>
           b == [i \in 1 .. Len(L) |-> Order(L[i], ForUpdate)]
           U == T \cup Parts(a)
<1>1. /\ Len(L) \in {1, 2} /\ L[1] \in Nat /\ (Len(L) = 2 => L[2] \in Nat /\ L[1] < L[2])
      /\ (Grouped(o) <=> Len(L) = 2)
  <2>1. /\ Len(L) \in {1, 2} /\ L[1] \in Nat /\ (Len(L) = 2 => L[2] \in Nat /\ L[1] < L[2])
    BY LegsAre
  <2> DEFINE z == Len(L)
  <2>2. Grouped(o) = (z > 1)
    BY DEF Grouped
  <2>3. z \in {1, 2}
    BY <2>1
  <2> HIDE DEF z
  <2>4. Grouped(o) <=> z = 2
    <3>1. CASE z = 1
      <4>1. ~(z > 1) /\ z /= 2
        BY <3>1
      <4> QED
        BY <2>2, <4>1, Zenon
    <3>2. CASE z = 2
      <4>1. z > 1
        BY <3>2
      <4> QED
        BY <2>2, <3>2, <4>1, Zenon
    <3> QED
      BY <2>3, <3>1, <3>2
  <2> QED
    BY <2>1, <2>4 DEF z
<1>2. k \in Seq(Nat) /\ OrderKey(L[1]) \in Seq(Nat) /\ (Len(L) = 2 => OrderKey(L[2]) \in Seq(Nat))
  BY <1>1, KeysAre
<1>3. LockLegs(o) = a \o b
  BY StatementsAre DEF LockLegs
<1>4. /\ 4 \in Nat /\ 5 \in Nat /\ 6 \in Nat /\ 5 \in 1 .. 8 /\ 6 \in 1 .. 8 /\ 3 \in 1 .. 3
      /\ 4 < 5 /\ 4 <= 5 /\ 5 < 6 /\ 5 <= 6
  OBVIOUS
<1>5. Upto(T, 5)
  BY <1>4, UptoHigher, Zenon
<1>6. Leads(a, T, 5)
  <2>1. Leads(<<g>>, T, 5)
    <3> HIDE DEF k
    <3>1. Fits(Lock(5, k, 3), T)
      BY <1>2, <1>4, LockFits, Zenon
    <3> QED
      BY <1>2, <1>4, <1>5, <3>1, LastLeads, Zenon
  <2>2. Grouped(o) \in BOOLEAN
    BY DEF Grouped
  <2> HIDE DEF g
  <2> QED
    BY <1>5, <2>1, NothingLeads
<1>7. Parts(a) = IF Grouped(o) THEN {g} ELSE {}
  <2> HIDE DEF g
  <2> QED
    BY OneParts, NothingRuns
<1>8. Upto(U, 5)
  BY <1>6 DEF Leads
<1> DEFINE x == Lock(6, OrderKey(L[1]), 3)
           y == Lock(6, OrderKey(L[2]), 3)
<1>9. \A i : Order(L[i], ForUpdate) = Lock(6, OrderKey(L[i]), 3)
  BY StatementsAre
<1>10. b = IF Len(L) = 2 THEN <<x, y>> ELSE <<x>>
  <2>1. CASE Len(L) = 2
    <3>1. 1 .. Len(L) = {1, 2}
      BY <2>1
    <3> HIDE DEF L
    <3> QED
      BY <1>9, <2>1, <3>1
  <2>2. CASE Len(L) = 1
    <3>1. 1 .. Len(L) = {1}
      BY <2>2
    <3> HIDE DEF L
    <3> QED
      BY <1>9, <2>2, <3>1
  <2> QED
    BY <1>1, <2>1, <2>2
<1>11. Parts(b) = {Lock(6, OrderKey(leg), 3) : leg \in LegSet(o)}
  <2>1. Len(b) = Len(L) /\ \A i \in 1 .. Len(L) : b[i] = Lock(6, OrderKey(L[i]), 3)
    BY <1>1, <1>9
  <2> HIDE DEF b
  <2> QED
    BY <2>1 DEF Parts, LegSet
<1>12. Leads(b, U, 6)
  <2> HIDE DEF U
  <2>1. CASE Len(L) = 2
    <3> DEFINE i == OrderKey(L[1])
               j == OrderKey(L[2])
    <3>1. i /= j
      BY <1>1, <2>1 DEF OrderKey
    <3>2. ~Precedes(<<6, j>>, <<6, i>>)
      <4>1. L[1] \in Nat /\ L[2] \in Nat /\ L[1] <= L[2]
        BY <1>1, <2>1
      <4> QED
        BY <1>4, <4>1, SameRank, Zenon
    <3>3. i \in Seq(Nat) /\ j \in Seq(Nat)
      BY <1>2, <2>1
    <3> HIDE DEF i, j
    <3>4. Leads(<<Lock(6, i, 3), Lock(6, j, 3)>>, U, 6)
      BY <1>4, <1>8, <3>1, <3>2, <3>3, LocksLead, Zenon
    <3> QED
      BY <1>10, <2>1, <3>4 DEF i, j
  <2>2. CASE Len(L) = 1
    <3> DEFINE i == OrderKey(L[1])
    <3>1. i \in Seq(Nat)
      BY <1>2
    <3> HIDE DEF i
    <3>2. Fits(Lock(6, i, 3), U)
      BY <1>4, <1>8, <3>1, LockFits, Zenon
    <3>3. Upto(U, 6)
      BY <1>4, <1>8, UptoHigher, Zenon
    <3>4. Leads(<<Lock(6, i, 3)>>, U, 6)
      BY <1>4, <3>1, <3>2, <3>3, LastLeads, Zenon
    <3> QED
      BY <1>10, <2>2, <3>4 DEF i
  <2> QED
    BY <1>1, <2>1, <2>2
<1> HIDE DEF a, b
<1>13. Leads(a \o b, T, 6) /\ Parts(a \o b) = Parts(a) \cup Parts(b)
  <2>1. Leads(a \o b, T, 6)
    BY <1>6, <1>12, JoinedLeads
  <2>2. Composes(a, b)
    BY <1>6, <1>12, LeadsCompose
  <2>3. Parts(a \o b) = Parts(a) \cup Parts(b)
    BY <2>2 DEF Composes
  <2> QED
    BY <2>1, <2>3
<1> QED
  BY <1>3, <1>7, <1>11, <1>13

\* What the session row allows before a cancellation locks anything else.
LEMMA CancelLocksRun ==
    ASSUME NEW r \in Requests, r.order \in Orders, NEW c, NEW T, Upto(T, 1)
    PROVE  LET p == CancelLocks(r, c) IN
           /\ Runs(p, T) /\ Closed(p)
           /\ Parts(p) = (Pair(r, c) \ {Lock(1, <<1>>, 3)}) \cup {Do("decide")}
<1> DEFINE o == r.order
           m == MarketOf[o]
           d == Balance(o \in Cash, m, 3)
           a == IF c = {} THEN <<>> ELSE <<d>>
           b == LockLegs(o)
           e == Do("decide")
           U == T \cup Parts(a)
<1>1. m \in Nat /\ <<m>> \in Seq(Nat)
  <2>1. m \in {1, 2}
    BY LegsAre
  <2> HIDE DEF m
  <2>2. m \in Nat
    BY <2>1
  <2> QED
    BY <2>2, KeysAre
<1>2. PICK n \in 3 .. 4 : \A x : Balance(o \in Cash, m, x) = Lock(n, <<m>>, x)
  BY <1>1, BalanceIs
<1>3. CancelLocks(r, c) = (a \o b) \o <<e>>
  BY DEF CancelLocks, ForUpdate
<1>4. /\ n \in 1 .. 8 /\ n \in Nat /\ 1 \in Nat /\ 1 < n /\ n <= 4 /\ 4 \in Nat /\ 3 \in 1 .. 3
      /\ 1 <= 4
  OBVIOUS
<1>5. Upto(T, 4)
  BY <1>4, UptoHigher, Zenon
<1>6. Leads(<<d>>, T, 4)
  <2> DEFINE k == <<m>>
  <2>1. k \in Seq(Nat) /\ d = Lock(n, k, 3)
    BY <1>1, <1>2
  <2> HIDE DEF k, d
  <2>2. Fits(Lock(n, k, 3), T)
    BY <1>4, <2>1, LockFits, Zenon
  <2>3. Leads(<<Lock(n, k, 3)>>, T, 4)
    BY <1>4, <1>5, <2>1, <2>2, LockLeads, Zenon
  <2> QED
    BY <2>1, <2>3
<1>7. Leads(a, T, 4) /\ Parts(a) = IF c = {} THEN {} ELSE {d}
  <2> HIDE DEF d
  <2> QED
    BY <1>5, <1>6, NothingLeads, OneParts
<1>8. Upto(U, 4)
  BY <1>7 DEF Leads
<1>9. /\ Leads(b, U, 6)
      /\ Parts(b) = (IF Grouped(o) THEN {Lock(5, <<Legs[o][1]>>, 3)} ELSE {})
                      \cup {Lock(6, OrderKey(leg), 3) : leg \in LegSet(o)}
  BY <1>8, LockLegsLead
<1>10. e \in Statements /\ e.do = "decide" /\ \A V : Fits(e, V)
  BY DoIs, DoFits DEF Words
<1> HIDE DEF a, b, e, d
<1>11. Leads(a \o b, T, 6)
  BY <1>7, <1>9, JoinedLeads
<1>12. Parts(a \o b) = Parts(a) \cup Parts(b)
  <2>1. Composes(a, b)
    BY <1>7, <1>9, LeadsCompose
  <2> QED
    BY <2>1 DEF Composes
<1> DEFINE q == a \o b
<1>13. Runs(q, T) /\ Plain(q) /\ q \in Seq(Statements)
  BY <1>11 DEF Leads, Runs
<1> HIDE DEF q
<1>14. Runs(<<e>>, T \cup Parts(q)) /\ Parts(<<e>>) = {e}
  BY <1>10, OneRuns
<1>15. Runs(q \o <<e>>, T)
  BY <1>13, <1>14, JoinedRuns
<1>16. Parts(q \o <<e>>) = Parts(q) \cup {e}
  <2>1. Composes(q, <<e>>)
    BY <1>13, <1>14, RunsCompose
  <2>2. Parts(q \o <<e>>) = Parts(q) \cup Parts(<<e>>)
    BY <2>1 DEF Composes
  <2> QED
    BY <1>14, <2>2
<1>17. Closed(q \o <<e>>)
  BY <1>10, <1>13, ClosedBy DEF Plain
<1>18. Parts(q) = Pair(r, c) \ {Lock(1, <<1>>, 3)}
  <2> DEFINE B == IF c = {} THEN {} ELSE {d}
             G == IF Grouped(o) THEN {Lock(5, <<Legs[o][1]>>, 3)} ELSE {}
             L == {Lock(6, OrderKey(leg), 3) : leg \in LegSet(o)}
             s == Lock(1, <<1>>, 3)
  <2>1. Parts(q) = (B \cup G) \cup L
    BY <1>7, <1>9, <1>12 DEF q
  <2>2. Pair(r, c) = (({s} \cup B) \cup G) \cup L
    BY DEF Pair, d
  <2>3. s \notin B /\ s \notin G /\ s \notin L
    <3>1. s.at[1] = 1
      BY DEF Lock
    <3>2. \A x \in B : x.at[1] = n
      <4>1. d = Lock(n, <<m>>, 3)
        BY <1>2 DEF d
      <4>2. d.at[1] = n
        BY <4>1 DEF Lock
      <4> HIDE DEF d
      <4> QED
        BY <4>2
    <3>3. \A x \in G : x.at[1] = 5
      BY DEF Lock
    <3>4. \A x \in L : x.at[1] = 6
      BY DEF Lock
    <3> HIDE DEF B, G, L, s
    <3> QED
      BY <3>1, <3>2, <3>3, <3>4
  <2> HIDE DEF B, G, L, s
  <2>4. Parts(q) = Pair(r, c) \ {s}
    BY <2>1, <2>2, <2>3
  <2> QED
    BY <2>4 DEF s
<1> QED
  BY <1>3, <1>15, <1>16, <1>17, <1>18 DEF q, e

\* All that a cancellation has asked for when it decides.
SettledLegs(r, c) ==
    {Do("peek"), Session(ForUpdate), Do("active"), Do("balances"), Do("decide")} \cup Pair(r, c)

LEMMA SettledIs ==
    ASSUME NEW r \in Requests, r.order \in Orders, NEW c
    PROVE  /\ SettledLegs(r, c) \in SUBSET Near(Legs[r.order][1])
           /\ InSession(SettledLegs(r, c)) /\ Pair(r, c) \subseteq SettledLegs(r, c)
<1> DEFINE o == r.order
           m == MarketOf[o]
<1>1. m \in Nat /\ <<m>> \in Seq(Nat)
  <2>1. m \in {1, 2}
    BY LegsAre
  <2> HIDE DEF m
  <2>2. m \in Nat
    BY <2>1
  <2> QED
    BY <2>2, KeysAre
<1>2. PICK n \in 3 .. 4 : \A x : Balance(o \in Cash, m, x) = Lock(n, <<m>>, x)
  BY <1>1, BalanceIs
<1>3. Session(ForUpdate) = Lock(1, <<1>>, 3) /\ <<1>> \in Seq(Nat)
  BY StatementsAre, KeysAre
<1>4. ASSUME NEW j \in 1 .. 5, NEW k \in Seq(Nat)
      PROVE  Lock(j, k, 3) \in Near(Legs[r.order][1])
  <2>1. j \in 1 .. 8 /\ 3 \in 1 .. 3
    OBVIOUS
  <2>2. Lock(j, k, 3) \in Statements /\ Lock(j, k, 3).do = "row" /\ Lock(j, k, 3).at = <<j, k>>
    BY <2>1, LockIs
  <2> DEFINE d == Lock(j, k, 3)
  <2> HIDE DEF d
  <2>3. d \in Statements /\ d.do = "row" /\ d.at[1] = j
    BY <2>2 DEF d
  <2>4. d \in Near(Legs[r.order][1])
    BY <2>3 DEF Near
  <2> QED
    BY <2>4 DEF d
<1>5. ASSUME NEW leg \in LegSet(o) PROVE Lock(6, OrderKey(leg), 3) \in Near(Legs[r.order][1])
  <2> DEFINE k == OrderKey(leg)
             d == Lock(6, k, 3)
  <2>1. leg \in Nat /\ k \in Seq(Nat)
    BY LegIs, KeysAre
  <2>2. 6 \in 1 .. 8 /\ 3 \in 1 .. 3
    OBVIOUS
  <2>3. d \in Statements /\ d.do = "row" /\ d.at = <<6, k>>
    <3> HIDE DEF k
    <3> QED
      BY <2>1, <2>2, LockIs, Zenon
  <2> HIDE DEF d
  <2>4. d \in Near(Legs[r.order][1])
    BY <2>1, <2>3 DEF Near
  <2> QED
    BY <2>4 DEF d
<1>6. ASSUME NEW w \in {"peek", "active", "balances", "decide"}
      PROVE  Do(w) \in Near(Legs[r.order][1])
  <2>1. w \in Words /\ w /= "publish"
    BY DEF Words
  <2> QED
    BY <2>1, DoIs DEF Near
<1>7. Balance(o \in Cash, m, 3) \in Near(Legs[r.order][1])
  <2> DEFINE k == <<m>>
  <2>1. n \in 1 .. 5 /\ k \in Seq(Nat)
    BY <1>1
  <2>2. Balance(o \in Cash, m, 3) = Lock(n, k, 3)
    BY <1>2
  <2> HIDE DEF k
  <2> QED
    BY <1>4, <2>1, <2>2
<1>8. Lock(1, <<1>>, 3) \in Near(Legs[r.order][1])
  <2>1. 1 \in 1 .. 5
    OBVIOUS
  <2> QED
    BY <1>3, <1>4, <2>1, Zenon
<1>9. Lock(5, <<Legs[o][1]>>, 3) \in Near(Legs[r.order][1])
  <2>1. Legs[o][1] \in Nat /\ 5 \in 1 .. 5
    BY LegsAre
  <2>2. <<Legs[o][1]>> \in Seq(Nat)
    BY <2>1, KeysAre, Zenon
  <2> QED
    BY <1>4, <2>1, <2>2, Zenon
<1>10. Pair(r, c) \subseteq Near(Legs[r.order][1])
  BY <1>5, <1>7, <1>8, <1>9 DEF Pair
<1>11. SettledLegs(r, c) \subseteq Near(Legs[r.order][1])
  BY <1>3, <1>6, <1>8, <1>10 DEF SettledLegs
<1>12. InSession(SettledLegs(r, c))
  BY <1>3 DEF SettledLegs, InSession
<1> QED
  BY <1>11, <1>12 DEF SettledLegs

LEMMA LegsFinite ==
    ASSUME NEW o \in Orders, NEW open
    PROVE  Cardinality(LegSet(o) \cap open) \in Nat
<1> DEFINE L == Legs[o]
<1>1. Len(L) \in {1, 2}
  BY LegsAre
<1>2. LegSet(o) \cap open \subseteq {L[1]} \cup {L[2]}
  BY <1>1 DEF LegSet
<1>3. IsFiniteSet({L[1]} \cup {L[2]})
  <2>1. IsFiniteSet({L[1]}) /\ IsFiniteSet({L[2]})
    BY FS_Singleton
  <2> QED
    BY <2>1, FS_Union
<1> QED
  BY <1>2, <1>3, FS_Subset, FS_CardinalityType

LEMMA PlainJoined ==
    ASSUME NEW T, NEW p, NEW q, Runs(p, T), Runs(q, T \cup Parts(p)), Plain(p), Plain(q)
    PROVE  Plain(p \o q)
<1>1. Composes(p, q)
  BY RunsCompose
<1>2. Parts(p \o q) = Parts(p) \cup Parts(q)
  BY <1>1 DEF Composes
<1> QED
  BY <1>2 DEF Plain

\* Behind the locks of its opening a cancellation takes the reservation only.
LEMMA CancelRestRuns ==
    ASSUME NEW r \in Requests, r.order \in Orders, NEW c, NEW open, NEW settled
    PROVE  LET p == CancelRest(r, open, c, settled) IN Runs(p, SettledLegs(r, c)) /\ Plain(p)
<1> DEFINE o == r.order
           g == Legs[o][1]
           k == <<g>>
           m == MarketOf[o]
           T == SettledLegs(r, c)
           p1 == UpdateLegs(Legs[o], open)
           p2 == IF Grouped(o) THEN ResolveOcoGroup(o) ELSE <<>>
           d == Lock(7, k, 3)
           p3 == IF c = {} THEN <<>> ELSE <<d>>
           p4 == IF c \ settled = {} THEN <<>> ELSE Release(o)
           n == Cardinality(LegSet(o) \cap open)
           p5 == Repeat(n, Event)
           q2 == p1 \o p2
           q3 == q2 \o p3
           q4 == q3 \o p4
<1>1. CancelRest(r, open, c, settled) = q4 \o p5
  BY StatementsAre DEF CancelRest, Event
<1>2. /\ T \in SUBSET Near(g) /\ InSession(T) /\ Pair(r, c) \subseteq T
      /\ Upto(T, 6)
  BY SettledIs, NearUpto
<1>3. g \in Nat /\ k \in Seq(Nat)
  BY LegsAre, KeysAre
<1>4. /\ 5 \in 1 .. 8 /\ 7 \in 1 .. 8 /\ 2 \in 1 .. 3 /\ 3 \in 1 .. 3 /\ 2 <= 3
      /\ 6 \in Nat /\ 7 \in Nat /\ 6 < 7 /\ 6 <= 7
  OBVIOUS
<1>5. Leads(p1, T, 6)
  <2>1. \A leg \in LegSet(o) : Lock(6, OrderKey(leg), 3) \in T
    BY <1>2 DEF Pair
  <2> QED
    BY <1>2, <2>1, UpdateLegsLead
<1> HIDE DEF p1, T
<1> DEFINE U == T \cup Parts(p1)
<1>6. Upto(U, 6) /\ InSession(U) /\ Pair(r, c) \subseteq U
  BY <1>2, <1>5 DEF Leads, InSession
<1> HIDE DEF U
<1>7. Leads(p2, U, 6)
  <2>1. ASSUME Grouped(o) PROVE Leads(ResolveOcoGroup(o), U, 6)
    <3>1. ResolveOcoGroup(o) = <<Lock(5, k, 2)>>
      BY StatementsAre DEF ResolveOcoGroup
    <3>2. Lock(5, k, 3) \in U
      BY <1>6, <2>1 DEF Pair
    <3> HIDE DEF k
    <3>3. Fits(Lock(5, k, 2), U) /\ Covered(Lock(5, k, 2), U)
      BY <1>3, <1>4, <3>2, HeldFits, Zenon
    <3>4. Lock(5, k, 2) \in Statements /\ Lock(5, k, 2).do = "row"
      BY <1>3, <1>4, LockIs, Zenon
    <3> DEFINE b == Lock(5, k, 2)
    <3> HIDE DEF b
    <3>5. <<b>> \in Seq(Statements) /\ Parts(<<b>>) = {b}
      BY <3>4, OneParts DEF b
    <3>6. Leads(<<b>>, U, 6)
      BY <1>4, <1>6, <3>3, <3>4, <3>5, CoveredLeads DEF b
    <3> QED
      BY <3>1, <3>6 DEF b
  <2>2. CASE Grouped(o)
    BY <2>1, <2>2
  <2>3. CASE ~Grouped(o)
    BY <1>6, <2>3, NothingLeads
  <2> QED
    BY <2>2, <2>3
<1> HIDE DEF p2
<1>8. Leads(q2, T, 6)
  BY <1>5, <1>7, JoinedLeads DEF U
<1> HIDE DEF q2
<1> DEFINE V == T \cup Parts(q2)
<1>9. Upto(V, 6) /\ InSession(V) /\ Pair(r, c) \subseteq V
  BY <1>2, <1>8 DEF Leads, InSession
<1> HIDE DEF V
<1>10. Upto(V, 7)
  BY <1>4, <1>9, UptoHigher, Zenon
<1>11. Leads(p3, V, 7) /\ (c /= {} => Parts(p3) = {d})
  <2>1. Fits(Lock(7, k, 3), V)
    <3> HIDE DEF k
    <3> QED
      BY <1>3, <1>4, <1>9, LockFits, Zenon
  <2>2. Leads(<<Lock(7, k, 3)>>, V, 7)
    <3> HIDE DEF k
    <3> QED
      BY <1>3, <1>4, <1>10, <2>1, LastLeads, Zenon
  <2> HIDE DEF d
  <2>3. Parts(<<d>>) = {d}
    BY OneParts
  <2>4. Leads(<<d>>, V, 7)
    BY <2>2 DEF d
  <2> QED
    BY <1>10, <2>3, <2>4, NothingLeads
<1> HIDE DEF p3
<1>12. Leads(q3, T, 7) /\ (c /= {} => d \in T \cup Parts(q3))
  <2>1. Leads(q3, T, 7)
    BY <1>8, <1>11, JoinedLeads DEF V
  <2>2. Composes(q2, p3)
    BY <1>8, <1>11, LeadsCompose DEF V
  <2>3. Parts(q3) = Parts(q2) \cup Parts(p3)
    BY <2>2 DEF Composes
  <2> HIDE DEF q3, d
  <2> QED
    BY <1>11, <2>1, <2>3
<1> HIDE DEF q3
<1> DEFINE W == T \cup Parts(q3)
<1>13. Upto(W, 7) /\ InSession(W) /\ Pair(r, c) \subseteq W /\ (c /= {} => d \in W)
  BY <1>2, <1>12 DEF Leads, InSession
<1> HIDE DEF W
<1>14. Leads(p4, W, 7)
  <2>1. ASSUME c /= {} PROVE Leads(Release(o), W, 7)
    <3>1. m \in Nat /\ <<m>> \in Seq(Nat)
      <4>1. m \in {1, 2}
        BY LegsAre
      <4> HIDE DEF m
      <4>2. m \in Nat
        BY <4>1
      <4> QED
        BY <4>2, KeysAre
    <3>2. PICK i \in 3 .. 4 : \A x : Balance(o \in Cash, m, x) = Lock(i, <<m>>, x)
      BY <3>1, BalanceIs
    <3> DEFINE l == <<m>>
               a == Lock(i, l, 2)
               s == Session(KeyShare)
               b == Lock(7, k, 2)
    <3>3. Release(o) = <<a, s, b>>
      BY <3>2, StatementsAre DEF Release
    <3>4. Lock(i, l, 3) \in W /\ l \in Seq(Nat)
      BY <1>13, <2>1, <3>1, <3>2 DEF Pair
    <3>5. i \in 1 .. 8 /\ 1 \in 1 .. 3
      OBVIOUS
    <3>6. Covered(a, W) /\ a \in Statements /\ a.do = "row"
      <4> HIDE DEF l
      <4>1. Covered(a, W)
        BY <1>4, <3>4, <3>5, HeldFits, Zenon
      <4>2. a \in Statements /\ a.do = "row"
        BY <1>4, <3>4, <3>5, LockIs, Zenon
      <4> QED
        BY <4>1, <4>2
    <3>7. Covered(b, W) /\ b \in Statements /\ b.do = "row"
      <4>1. Lock(7, k, 3) \in W
        BY <1>13, <2>1
      <4> HIDE DEF k
      <4>2. Covered(b, W)
        BY <1>3, <1>4, <4>1, HeldFits, Zenon
      <4>3. b \in Statements /\ b.do = "row"
        BY <1>3, <1>4, LockIs, Zenon
      <4> QED
        BY <4>2, <4>3
    <3>8. Covered(s, W) /\ s \in Statements /\ s.do = "row"
      <4>1. KeyShare \in 1 .. 3
        BY DEF KeyShare
      <4> QED
        BY <1>13, <4>1, SessionFits, PinIs
    <3> HIDE DEF a, b, s
    <3>9. <<a, s, b>> \in Seq(Statements) /\ Parts(<<a, s, b>>) = {a, s, b}
      <4>1. /\ Len(<<a, s, b>>) = 3 /\ 1 .. 3 = {1, 2, 3}
            /\ <<a, s, b>>[1] = a /\ <<a, s, b>>[2] = s /\ <<a, s, b>>[3] = b
        OBVIOUS
      <4> QED
        BY <3>6, <3>7, <3>8, <4>1 DEF Parts
    <3> DEFINE p == <<a, s, b>>
    <3>10. p \in Seq(Statements) /\ \A x \in Parts(p) : x.do = "row" /\ Covered(x, W)
      BY <3>6, <3>7, <3>8, <3>9
    <3> HIDE DEF p
    <3>11. Leads(p, W, 7)
      BY <1>4, <1>13, <3>10, CoveredLeads
    <3> QED
      BY <3>3, <3>11 DEF p
  <2>2. CASE c \ settled = {}
    BY <1>13, <2>2, NothingLeads
  <2>3. CASE c \ settled /= {}
    <3>1. c /= {}
      BY <2>3
    <3> QED
      BY <2>1, <2>3, <3>1
  <2> QED
    BY <2>2, <2>3
<1> HIDE DEF p4
<1>15. Leads(q4, T, 7)
  BY <1>12, <1>14, JoinedLeads DEF W
<1> HIDE DEF q4
<1>16. Upto(T \cup Parts(q4), 7) /\ InSession(T \cup Parts(q4))
  BY <1>2, <1>15 DEF Leads, InSession
<1>17. n \in Nat
  BY LegsFinite
<1> HIDE DEF n
<1>18. Runs(p5, T \cup Parts(q4)) /\ Plain(p5)
  BY <1>16, <1>17, EventsRun
<1> HIDE DEF p5
<1>19. Runs(q4 \o p5, T)
  BY <1>15, <1>18, JoinedRuns DEF Leads
<1>20. Plain(q4 \o p5)
  BY <1>15, <1>18, PlainJoined DEF Leads
<1> QED
  BY <1>1, <1>19, <1>20 DEF T

\* What a cancellation does before it locks anything but the session.
Read == {Do("peek"), Session(ForUpdate), Do("active"), Do("balances")}

LEMMA SessionLocks ==
    /\ Session(ForUpdate) = Lock(1, <<1>>, 3) /\ Session(NoKeyUpdate) = Lock(1, <<1>>, 2)
    /\ \A m \in {2, 3} : /\ Lock(1, <<1>>, m) \in Statements /\ Lock(1, <<1>>, m).do = "row"
                         /\ Lock(1, <<1>>, m).at = <<1, <<1>>>>
<1>1. <<1>> \in Seq(Nat) /\ 1 \in 1 .. 8 /\ \A m \in {2, 3} : m \in 1 .. 3
  BY KeysAre
<1>2. \A m \in {2, 3} : /\ Lock(1, <<1>>, m) \in Statements /\ Lock(1, <<1>>, m).do = "row"
                         /\ Lock(1, <<1>>, m).at = <<1, <<1>>>>
  BY <1>1, LockIs, Zenon
<1> QED
  BY <1>2, StatementsAre

LEMMA CancelOpeningRuns ==
    ASSUME NEW r \in Requests, r.kind = "cancel"
    PROVE  Runs(Opening(r), {}) /\ Closed(Opening(r)) /\ Parts(Opening(r)) = Read
<1> DEFINE a == Do("peek")
           b == Session(ForUpdate)
           c == Do("active")
           d == Do("balances")
           p == <<a, b>> \o <<c>>
           none == {}
<1>1. Opening(r) = p \o <<d>>
  BY DEF Opening, CancelOpening
<1>2. /\ a \in Statements /\ a.do = "peek" /\ a.at = <<>>
      /\ c \in Statements /\ c.do = "active"
      /\ d \in Statements /\ d.do = "balances"
      /\ b \in Statements /\ b.do = "row"
  BY DoIs, SessionLocks DEF Words
<1>3. Read = {a, b, c, d}
  BY DEF Read
<1>4. Fits(a, {}) /\ (\A T : Fits(c, T) /\ Fits(d, T))
  BY DoFits
<1> HIDE DEF a, b, c, d
<1>5. Fits(a, none) /\ Fits(b, none \cup {a})
  BY <1>2, <1>4 DEF Fits, NotBefore
<1> HIDE DEF none
<1>6. Runs(<<a, b>>, none)
  BY <1>2, <1>4, <1>5, PairRuns
<1>7. Parts(<<a, b>>) = {a, b} /\ Parts(<<c>>) = {c} /\ Parts(<<d>>) = {d}
  BY PairParts, OneParts
<1>8. \A T : Runs(<<c>>, T) /\ Runs(<<d>>, T)
  BY <1>2, <1>4, OneRuns
<1>9. Runs(p, none)
  BY <1>6, <1>8, JoinedRuns
<1>10. Parts(p) = {a, b, c}
  <2>1. Parts(p) = Parts(<<a, b>>) \cup Parts(<<c>>)
    BY <1>6, <1>8, JoinedParts DEF Runs
  <2> HIDE DEF p
  <2> QED
    BY <1>7, <2>1
<1> HIDE DEF p
<1>11. Runs(p \o <<d>>, none)
  BY <1>8, <1>9, JoinedRuns
<1>12. Parts(p \o <<d>>) = Parts(p) \cup Parts(<<d>>)
  BY <1>8, <1>9, JoinedParts DEF Runs
<1>13. Closed(p \o <<d>>)
  <2>1. p \in Seq(Statements)
    BY <1>9 DEF Runs
  <2>2. \A x \in Parts(p) : x.do \notin {"balances", "decide"}
    BY <1>2, <1>10
  <2> QED
    BY <1>2, <2>1, <2>2, ClosedBy
<1>14. Parts(p) \cup Parts(<<d>>) = {a, b, c, d}
  BY <1>7, <1>10
<1> QED
  BY <1>1, <1>3, <1>11, <1>12, <1>13, <1>14 DEF none

LEMMA SessionOpeningRuns ==
    ASSUME NEW r \in Requests, r.kind \in {"touch", "expire"}
    PROVE  Runs(Opening(r), {}) /\ Plain(Opening(r))
<1> DEFINE a == Session(ForUpdate)
           b == Session(NoKeyUpdate)
<1>1. /\ a \in Statements /\ a.do = "row" /\ b \in Statements /\ b.do = "row"
      /\ a = Lock(1, <<1>>, 3)
  BY SessionLocks
<1>2. Fits(b, {a})
  <2>1. InSession({a}) /\ NoKeyUpdate \in 1 .. 3
    BY <1>1 DEF InSession, NoKeyUpdate
  <2> QED
    BY <2>1, SessionFits
<1> HIDE DEF a, b
<1>3. Fits(a, {}) /\ Fits(b, {}) /\ Fits(b, {} \cup {a})
  BY <1>1, <1>2, FirstFits
<1>4. CASE r.kind = "touch"
  <2>1. Opening(r) = <<a, b>>
    BY <1>4 DEF Opening, a, b
  <2>2. Runs(<<a, b>>, {})
    BY <1>1, <1>3, PairRuns
  <2>3. Parts(<<a, b>>) = {a, b}
    BY PairParts
  <2> QED
    BY <1>1, <2>1, <2>2, <2>3 DEF Plain
<1>5. CASE r.kind = "expire"
  <2>1. Opening(r) = <<b>>
    BY <1>5 DEF Opening, b
  <2>2. Runs(<<b>>, {}) /\ Parts(<<b>>) = {b}
    BY <1>1, <1>3, OneRuns, OneParts
  <2> QED
    BY <1>1, <2>1, <2>2 DEF Plain
<1> QED
  BY <1>4, <1>5

-----------------------------------------------------------------------------
(* The path a transaction has taken.                                       *)

Latest(x) == x.sequences[Len(x.sequences)]

\* T is what the transaction x has executed: it holds the rows and the index
\* entries T asked for, the last one acquired is one of them, and what it has
\* left to do runs behind T.
Trail(x, led, T) ==
    /\ T \subseteq Statements
    /\ x.held = {[at |-> e.at, mode |-> e.mode] : e \in {f \in T : f.do = "row"}}
    /\ \A e \in T : e.do = "claim" => e.at \in x.claimed
    /\ x.last /= <<>> =>
           \/ \E e \in T : x.last = e.at
           \/ /\ x.sequences /= <<>> /\ \E e \in T : e.do = "publish"
              /\ \E n \in Nat : x.last = <<8, SequenceLockKey(n)>> /\ n <= Latest(x)
    /\ (\E e \in T : e.do = "allocate") => x.sequences /= <<>>
    /\ x.sequences \in Seq(Nat)
    /\ x.sequences /= <<>> => Latest(x) <= led.sequence + Len(x.sequences)
    /\ Runs(x.todo, T)

\* It has still to decide on what T and the rest of its opening read, or has
\* decided and only locks and publishes.
Stage(x, r, T) ==
    \/ Plain(x.todo)
    \/ Closed(x.todo) /\ Stores(r) /\ T \cup Parts(x.todo) = Bound(r)
    \/ Closed(x.todo) /\ r.kind = "cancel" /\ T \cup Parts(x.todo) = Read
    \/ /\ Closed(x.todo) /\ r.kind = "cancel"
       /\ T \cup Parts(x.todo) = SettledLegs(r, x.candidates)
       /\ \A d \in Parts(x.todo) : d.do \notin {"peek", "balances"}

Path(x, r, led) == \E T : Trail(x, led, T) /\ Stage(x, r, T)

\* The keys of outbox events ascend with the sequence.
LEMMA SequencesAscend ==
    ASSUME NEW m \in Nat, NEW n \in Nat, n <= m
    PROVE  ~Precedes(<<8, SequenceLockKey(m)>>, <<8, SequenceLockKey(n)>>)
<1> DEFINE a == SequenceLockKey(m)
           b == SequenceLockKey(n)
<1>1. /\ Len(a) = 2 /\ Len(b) = 2 /\ a[1] = m \div 10 /\ a[2] = m % 10
      /\ b[1] = n \div 10 /\ b[2] = n % 10
  BY DEF SequenceLockKey
<1>2. ~(m \div 10 < n \div 10) /\ ~(m \div 10 = n \div 10 /\ m % 10 < n % 10)
  OBVIOUS
<1>3. 1 .. 2 = {1, 2} /\ 1 .. (2 - 1) = {1}
  OBVIOUS
<1> HIDE DEF a, b
<1>4. ~KeyPrecedes(a, b)
  BY <1>1, <1>2, <1>3 DEF KeyPrecedes
<1>5. ~Precedes(<<8, a>>, <<8, b>>)
  BY <1>4 DEF Precedes
<1> QED
  BY <1>5 DEF a, b

\* A transaction on its path is not turned away.
LEMMA NotTurnedAway ==
    ASSUME NEW t, NEW led, NEW T, Trail(tx[t], led, T), tx[t].todo /= <<>>,
           Demand(t).do \in {"row", "claim"}
    PROVE  ~Refused(t, Demand(t))
<1> DEFINE x == tx[t]
           d == Head(x.todo)
<1>1. d \in Statements /\ Fits(d, T)
  BY RunsOn DEF Trail
<1>2. /\ x.held = {[at |-> e.at, mode |-> e.mode] : e \in {f \in T : f.do = "row"}}
      /\ \A e \in T : e.do = "claim" => e.at \in x.claimed
      /\ x.last /= <<>> =>
             \/ \E e \in T : x.last = e.at
             \/ /\ x.sequences /= <<>> /\ \E e \in T : e.do = "publish"
                /\ \E n \in Nat : x.last = <<8, SequenceLockKey(n)>> /\ n <= Latest(x)
      /\ (\E e \in T : e.do = "allocate") => x.sequences /= <<>>
      /\ x.sequences \in Seq(Nat)
  BY DEF Trail
<1>3. Demand(t) = IF d.do = "publish" THEN Slot(8, SequenceLockKey(Latest(x))) ELSE d
  BY StatementsAre DEF Demand, Latest
<1> HIDE DEF x, d
<1>4. CASE d.do /= "publish" /\ Covered(d, T)
  <2>1. Demand(t) = d
    BY <1>3, <1>4
  <2>2. ASSUME d.do = "row" PROVE \E h \in x.held : h.at = d.at /\ h.mode >= d.mode
    <3>1. PICK e \in T : e.do = "row" /\ e.at = d.at /\ e.mode >= d.mode
      BY <1>4, <2>2 DEF Covered
    <3> DEFINE h == [at |-> e.at, mode |-> e.mode]
    <3>2. h \in x.held /\ h.at = e.at /\ h.mode = e.mode
      BY <1>2, <3>1
    <3> QED
      BY <3>1, <3>2
  <2>3. ASSUME d.do = "claim" PROVE d.at \in x.claimed
    BY <1>2, <1>4, <2>3 DEF Covered
  <2>4. d.do \in {"row", "claim"} => AcquiresNothing(t, d)
    BY <2>2, <2>3 DEF AcquiresNothing, x
  <2> QED
    BY <2>1, <2>4 DEF Refused
<1>5. CASE d.do \in {"row", "claim"} /\ NotBefore(d, T) /\ (d.do = "row" => \A e \in T : e.do = "row" => e.at /= d.at)
  <2>1. Demand(t) = d
    BY <1>3, <1>5
  <2>2. x.last /= <<>> => ~Precedes(d.at, x.last)
    BY <1>2, <1>5 DEF NotBefore
  <2>3. ASSUME d.do = "row", NEW h \in x.held PROVE h.at /= d.at
    <3>1. PICK e \in {f \in T : f.do = "row"} : h = [at |-> e.at, mode |-> e.mode]
      BY <1>2
    <3>2. e \in T /\ e.do = "row" /\ h.at = e.at
      BY <3>1
    <3> QED
      BY <1>5, <2>3, <3>2
  <2> QED
    BY <2>1, <2>2, <2>3 DEF Refused, x
<1>6. CASE /\ d.do = "publish" /\ \E e \in T : e.do = "allocate"
           /\ \A e \in T : e.at /= <<>> => e.at[1] < 8
  <2> DEFINE n == Latest(x)
             k == SequenceLockKey(n)
             p == <<8, k>>
  <2>1. x.sequences /= <<>> /\ x.sequences \in Seq(Nat)
    BY <1>2, <1>6
  <2>2. n \in Nat
    BY <2>1 DEF Latest
  <2>3. Demand(t) = Slot(8, k) /\ Slot(8, k).do = "claim" /\ Slot(8, k).at = p
    BY <1>3, <1>6 DEF Slot
  <2>4. x.last /= <<>> => ~Precedes(p, x.last)
    <3>1. p[1] = 8
      OBVIOUS
    <3>2. ASSUME NEW e \in T, e.at /= <<>>, x.last = e.at PROVE ~Precedes(p, x.last)
      <4>1. e.at[1] < 8 /\ e.at[1] \in Nat
        <5>1. e \in Statements
          BY DEF Trail
        <5> QED
          BY <1>6, <3>2, <5>1, StatementAt
      <4> HIDE DEF p
      <4> QED
        BY <3>1, <3>2, <4>1, HigherRank
    <3>3. ASSUME NEW l \in Nat, x.last = <<8, SequenceLockKey(l)>>, l <= n PROVE ~Precedes(p, x.last)
      <4>1. ~Precedes(<<8, SequenceLockKey(n)>>, <<8, SequenceLockKey(l)>>)
        BY <2>2, <3>3, SequencesAscend
      <4> QED
        BY <3>3, <4>1
    <3> HIDE DEF p, n
    <3> QED
      BY <1>2, <3>2, <3>3 DEF n
  <2> HIDE DEF p, k, n
  <2> QED
    BY <2>3, <2>4 DEF Refused, x
<1> QED
  BY <1>1, <1>4, <1>5, <1>6 DEF Fits, Covered

\* One more statement of the path.
LEMMA TrailOn ==
    ASSUME NEW x, NEW y, NEW led, NEW T, Trail(x, led, T), x.todo /= <<>>, led.sequence \in Nat,
           NEW d, d = Head(x.todo), y.todo = Tail(x.todo),
           y.held = IF d.do = "row" THEN x.held \cup {[at |-> d.at, mode |-> d.mode]} ELSE x.held,
           x.claimed \subseteq y.claimed, d.do = "claim" => d.at \in y.claimed,
           \/ y.last = x.last
           \/ y.last = d.at
           \/ /\ d.do = "publish" /\ x.sequences /= <<>>
              /\ y.last = <<8, SequenceLockKey(Latest(x))>>,
           y.sequences = IF d.do = "allocate"
                         THEN Append(x.sequences, led.sequence + Len(x.sequences) + 1)
                         ELSE x.sequences
    PROVE  Trail(y, led, T \cup {d})
<1> DEFINE U == T \cup {d}
<1>1. d \in Statements /\ Runs(y.todo, U) /\ U \subseteq Statements
  BY RunsOn DEF Trail
<1>2. y.held = {[at |-> e.at, mode |-> e.mode] : e \in {f \in U : f.do = "row"}}
  BY DEF Trail
<1>3. \A e \in U : e.do = "claim" => e.at \in y.claimed
  BY DEF Trail
<1>4. y.sequences \in Seq(Nat)
  BY DEF Trail
<1>5. (\E e \in U : e.do = "allocate") => y.sequences /= <<>>
  <2>1. CASE d.do = "allocate"
    <3>1. x.sequences \in Seq(Nat) /\ led.sequence + Len(x.sequences) + 1 \in Nat
      BY DEF Trail
    <3> DEFINE n == led.sequence + Len(x.sequences) + 1
               s == x.sequences
    <3> HIDE DEF n, s
    <3>2. Append(s, n) /= <<>>
      <4>1. s \in Seq(Nat) /\ n \in Nat
        BY <3>1 DEF n, s
      <4> DEFINE z == Append(s, n)
      <4>2. Len(z) = Len(s) + 1 /\ Len(s) \in Nat
        BY <4>1
      <4> HIDE DEF z
      <4>3. z = <<>> => Len(z) = 0
        OBVIOUS
      <4>4. z /= <<>>
        BY <4>2, <4>3
      <4> QED
        BY <4>4 DEF z
    <3> QED
      BY <2>1, <3>2 DEF n, s
  <2>2. CASE d.do /= "allocate"
    BY <2>2 DEF Trail
  <2> QED
    BY <2>1, <2>2
<1>6. /\ y.sequences /= <<>> => Latest(y) <= led.sequence + Len(y.sequences)
      /\ x.sequences /= <<>> => y.sequences /= <<>> /\ Latest(x) <= Latest(y) /\ Latest(x) \in Nat
  <2>0. x.sequences \in Seq(Nat)
    BY DEF Trail
  <2>1. x.sequences /= <<>> => Latest(x) \in Nat
    BY <2>0 DEF Latest
  <2>2. CASE d.do = "allocate"
    <3> DEFINE n == led.sequence + Len(x.sequences) + 1
               s == Append(x.sequences, n)
    <3>1. n \in Nat /\ Len(s) = Len(x.sequences) + 1 /\ s[Len(x.sequences) + 1] = n
          /\ Len(x.sequences) \in Nat
      BY <2>0
    <3>2. y.sequences = s
      BY <2>2
    <3> HIDE DEF s
    <3>3. Latest(y) = n /\ Len(y.sequences) = Len(x.sequences) + 1 /\ y.sequences /= <<>>
      <4> HIDE DEF n
      <4>1. Len(y.sequences) = Len(x.sequences) + 1 /\ y.sequences[Len(x.sequences) + 1] = n
        BY <3>1, <3>2
      <4>2. y.sequences[Len(y.sequences)] = n
        BY <4>1
      <4> DEFINE z == y.sequences
      <4> HIDE DEF z
      <4>3. z = <<>> => Len(z) = 0
        OBVIOUS
      <4>4. z /= <<>>
        BY <3>1, <4>1, <4>3 DEF z
      <4>5. y.sequences /= <<>>
        BY <4>4 DEF z
      <4> QED
        BY <4>1, <4>2, <4>5 DEF Latest
    <3>4. x.sequences /= <<>> => Latest(x) <= led.sequence + Len(x.sequences)
      BY DEF Trail
    <3> QED
      BY <2>1, <3>1, <3>3, <3>4
  <2>3. CASE d.do /= "allocate"
    <3>1. y.sequences = x.sequences /\ Latest(y) = Latest(x)
      BY <2>3 DEF Latest
    <3>2. x.sequences /= <<>> => Latest(x) <= led.sequence + Len(x.sequences)
      BY DEF Trail
    <3> HIDE DEF U
    <3>3. x.sequences /= <<>> => Latest(x) <= Latest(y)
      BY <2>1, <3>1
    <3> QED
      BY <2>1, <3>1, <3>2, <3>3
  <2> QED
    BY <2>2, <2>3
<1>7. y.last /= <<>> =>
          \/ \E e \in U : y.last = e.at
          \/ /\ y.sequences /= <<>> /\ \E e \in U : e.do = "publish"
             /\ \E n \in Nat : y.last = <<8, SequenceLockKey(n)>> /\ n <= Latest(y)
  <2> SUFFICES ASSUME y.last /= <<>>
               PROVE  \/ \E e \in U : y.last = e.at
                      \/ /\ y.sequences /= <<>> /\ \E e \in U : e.do = "publish"
                         /\ \E n \in Nat : y.last = <<8, SequenceLockKey(n)>> /\ n <= Latest(y)
    OBVIOUS
  <2>1. CASE y.last = x.last
    <3>1. CASE \E e \in T : x.last = e.at
      BY <2>1, <3>1
    <3>2. CASE /\ x.sequences /= <<>> /\ \E e \in T : e.do = "publish"
               /\ \E n \in Nat : x.last = <<8, SequenceLockKey(n)>> /\ n <= Latest(x)
      <4>1. PICK n \in Nat : x.last = <<8, SequenceLockKey(n)>> /\ n <= Latest(x)
        BY <3>2
      <4>2. n <= Latest(y)
        <5>1. Latest(y) \in Nat
          BY <1>4, <1>6, <3>2 DEF Latest
        <5> QED
          BY <1>6, <3>2, <4>1, <5>1
      <4> QED
        BY <1>6, <2>1, <3>2, <4>1, <4>2
    <3> QED
      BY <2>1, <3>1, <3>2 DEF Trail
  <2>2. CASE y.last = d.at
    BY <2>2
  <2>3. CASE /\ d.do = "publish" /\ x.sequences /= <<>>
             /\ y.last = <<8, SequenceLockKey(Latest(x))>>
    BY <1>6, <2>3
  <2> QED
    BY <2>1, <2>2, <2>3
<1> HIDE DEF U
<1>8. Trail(y, led, U)
  BY <1>1, <1>2, <1>3, <1>4, <1>5, <1>6, <1>7 DEF Trail
<1> QED
  BY <1>8 DEF U

LEMMA ClosedOn ==
    ASSUME NEW p, NEW T, Runs(p, T), p /= <<>>, Closed(p)
    PROVE  /\ Closed(Tail(p))
           /\ Head(p).do \in {"balances", "decide"} => Tail(p) = <<>>
<1>1. p \in Seq(Statements) /\ Len(p) \in Nat \ {0} /\ Head(p) = p[1]
  BY DEF Runs
<1> DEFINE t == Tail(p)
           h == Head(p)
<1>2. /\ t \in Seq(Statements) /\ Len(t) = Len(p) - 1
      /\ \A i \in 1 .. (Len(p) - 1) : t[i] = p[i + 1]
  BY <1>1, HeadTailProperties
<1>3. h = p[1]
  BY <1>1
<1> HIDE DEF t, h
<1>4. Closed(t)
  <2> SUFFICES ASSUME NEW i \in 1 .. Len(t), t[i].do \in {"balances", "decide"} PROVE i = Len(t)
    BY DEF Closed
  <2>1. i + 1 \in 1 .. Len(p) /\ t[i] = p[i + 1]
    BY <1>1, <1>2
  <2>2. i + 1 = Len(p)
    BY <2>1 DEF Closed
  <2> QED
    BY <1>1, <1>2, <2>2
<1>5. ASSUME h.do \in {"balances", "decide"} PROVE t = <<>>
  <2>1. 1 \in 1 .. Len(p) /\ p[1].do \in {"balances", "decide"}
    BY <1>1, <1>3, <1>5
  <2>2. 1 = Len(p)
    BY <2>1 DEF Closed
  <2>3. t \in Seq(Statements) /\ Len(t) = 0
    BY <1>1, <1>2, <2>2
  <2> QED
    BY <2>3
<1> QED
  BY <1>4, <1>5 DEF t, h

LEMMA StageOn ==
    ASSUME NEW x, NEW y, NEW r, NEW led, NEW T, Trail(x, led, T), Stage(x, r, T), x.todo /= <<>>,
           NEW d, d = Head(x.todo), y.todo = Tail(x.todo),
           d.do /= "peek" => y.candidates = x.candidates
    PROVE  Stage(y, r, T \cup {d})
<1> DEFINE U == T \cup {d}
<1>1. Runs(x.todo, T) /\ Parts(x.todo) = {d} \cup Parts(y.todo)
  BY RunsOn DEF Trail
<1>2. U \cup Parts(y.todo) = T \cup Parts(x.todo)
  BY <1>1
<1>3. Closed(x.todo) => Closed(y.todo)
  BY <1>1, ClosedOn
<1> HIDE DEF U
<1>4. CASE Plain(x.todo)
  <2>1. Plain(y.todo)
    BY <1>1, <1>4 DEF Plain
  <2> QED
    BY <2>1 DEF Stage
<1>5. CASE Closed(x.todo) /\ Stores(r) /\ T \cup Parts(x.todo) = Bound(r)
  BY <1>2, <1>3, <1>5 DEF Stage, U
<1>6. CASE Closed(x.todo) /\ r.kind = "cancel" /\ T \cup Parts(x.todo) = Read
  BY <1>2, <1>3, <1>6 DEF Stage, U
<1>7. CASE /\ Closed(x.todo) /\ r.kind = "cancel"
           /\ T \cup Parts(x.todo) = SettledLegs(r, x.candidates)
           /\ \A e \in Parts(x.todo) : e.do \notin {"peek", "balances"}
  <2>1. d.do /= "peek" /\ \A e \in Parts(y.todo) : e.do \notin {"peek", "balances"}
    BY <1>1, <1>7
  <2>2. U \cup Parts(y.todo) = SettledLegs(r, y.candidates)
    BY <1>2, <1>7, <2>1
  <2>3. Stage(y, r, U)
    BY <1>3, <1>7, <2>1, <2>2 DEF Stage
  <2> QED
    BY <2>3 DEF U
<1> QED
  BY <1>4, <1>5, <1>6, <1>7 DEF Stage

\* The start of a transaction that goes through the UnitOfWork.
LEMMA AttemptPathIs ==
    ASSUME NEW r \in Requests, Guarded(r), NEW led, NEW n,
           NEW x, x = [NoTx EXCEPT !.open = TRUE, !.todo = Opening(r), !.attempt = n]
    PROVE  Path(x, r, led)
<1> DEFINE none == {}
<1>1. /\ x.todo = Opening(r) /\ x.held = {} /\ x.last = <<>> /\ x.sequences = <<>>
  BY DEF NoTx
<1>2. /\ Runs(Opening(r), none)
      /\ \/ Plain(Opening(r))
         \/ Closed(Opening(r)) /\ Stores(r) /\ Parts(Opening(r)) = Bound(r)
         \/ Closed(Opening(r)) /\ r.kind = "cancel" /\ Parts(Opening(r)) = Read
  <2>1. CASE Stores(r)
    BY <2>1, PlaceOpeningRuns
  <2>2. CASE r.kind = "cancel"
    BY <2>2, CancelOpeningRuns
  <2>3. CASE r.kind \in {"touch", "expire"}
    BY <2>3, SessionOpeningRuns
  <2> QED
    BY <2>1, <2>2, <2>3, RequestsAssumption DEF Guarded, Stores
<1>3. x.held = {[at |-> e.at, mode |-> e.mode] : e \in {f \in none : f.do = "row"}}
  BY <1>1
<1>4. <<>> \in Seq(Nat)
  OBVIOUS
<1>5. Trail(x, led, none)
  <2>1. none \subseteq Statements /\ \A e \in none : FALSE
    OBVIOUS
  <2> HIDE DEF none
  <2> QED
    BY <1>1, <1>2, <1>3, <1>4, <2>1 DEF Trail
<1>6. none \cup Parts(x.todo) = Parts(Opening(r))
  BY <1>1
<1>7. Stage(x, r, none)
  <2> HIDE DEF none
  <2> QED
    BY <1>1, <1>2, <1>6 DEF Stage
<1> QED
  BY <1>5, <1>7 DEF Path

LEMMA PathLater ==
    ASSUME NEW x, NEW r, NEW led, NEW new, Path(x, r, led),
           led.sequence \in Nat, new.sequence \in Nat, led.sequence <= new.sequence
    PROVE  Path(x, r, new)
<1>1. PICK T : Trail(x, led, T) /\ Stage(x, r, T)
  BY DEF Path
<1>2. x.sequences /= <<>> => Latest(x) <= new.sequence + Len(x.sequences)
  <2>1. /\ x.sequences \in Seq(Nat)
        /\ x.sequences /= <<>> => Latest(x) <= led.sequence + Len(x.sequences)
    BY <1>1 DEF Trail
  <2>2. x.sequences /= <<>> => Latest(x) \in Nat
    BY <2>1 DEF Latest
  <2> QED
    BY <2>1, <2>2
<1>3. Trail(x, new, T)
  BY <1>1, <1>2 DEF Trail
<1> QED
  BY <1>1, <1>3 DEF Path

-----------------------------------------------------------------------------
(* No request is turned away.                                              *)

PathInv ==
    /\ DOMAIN answer = Tx /\ NeverRefused
    /\ \A t \in Tx : tx[t].open /\ Guarded(request[t]) => Path(tx[t], request[t], ledger)

LEMMA InitPath == Init => PathInv
BY DEF Init, PathInv, NeverRefused, NoTx

\* Another state of one transaction, the rows as they were.
LEMMA MoveOnPath ==
    ASSUME LocksInv, PathInv, NEW t \in Tx, NEW x,
           tx' = [tx EXCEPT ![t] = x], UNCHANGED <<request, answer, ledger>>,
           x.open /\ Guarded(request[t]) => Path(x, request[t], ledger)
    PROVE  PathInv'
<1>1. DOMAIN tx' = Tx /\ tx'[t] = x /\ \A u \in Tx \ {t} : tx'[u] = tx[u]
  BY DEF LocksInv
<1>2. DOMAIN answer' = Tx /\ NeverRefused'
  BY DEF PathInv, NeverRefused
<1>3. ASSUME NEW u \in Tx, tx'[u].open, Guarded(request'[u])
      PROVE  Path(tx'[u], request'[u], ledger')
  <2>1. request' = request /\ ledger' = ledger
    OBVIOUS
  <2>2. CASE u = t
    BY <1>1, <1>3, <2>1, <2>2
  <2>3. CASE u /= t
    BY <1>1, <1>3, <2>1, <2>3 DEF PathInv
  <2> QED
    BY <2>2, <2>3
<1> QED
  BY <1>2, <1>3 DEF PathInv

\* A transaction that has ended, whatever it has committed.
LEMMA EndOnPath ==
    ASSUME LocksInv, PathInv, NEW t \in Tx, NEW said, End(t, said), said /= "violation",
           UNCHANGED request, ledger'.sequence \in Nat, ledger.sequence <= ledger'.sequence
    PROVE  PathInv'
<1>1. /\ DOMAIN tx' = Tx /\ tx'[t] = NoTx /\ \A u \in Tx \ {t} : tx'[u] = tx[u]
      /\ DOMAIN answer' = Tx /\ answer'[t] = said /\ \A u \in Tx \ {t} : answer'[u] = answer[u]
  BY DEF LocksInv, PathInv, End
<1>2. ~NoTx.open /\ ledger.sequence \in Nat
  BY DEF NoTx, LocksInv, LedgerShaped
<1>3. NeverRefused'
  BY <1>1 DEF PathInv, NeverRefused
<1>4. ASSUME NEW u \in Tx, tx'[u].open, Guarded(request'[u])
      PROVE  Path(tx'[u], request'[u], ledger')
  <2>1. u /= t /\ tx'[u] = tx[u] /\ request'[u] = request[u]
    BY <1>1, <1>2, <1>4
  <2>2. Path(tx[u], request[u], ledger)
    BY <1>4, <2>1 DEF PathInv
  <2>3. Path(tx[u], request[u], ledger')
    BY <1>2, <2>2, PathLater
  <2> QED
    BY <2>1, <2>3
<1> QED
  BY <1>1, <1>3, <1>4 DEF PathInv

LEMMA SameRowsEnd ==
    ASSUME LocksInv, PathInv, NEW t \in Tx, NEW said, End(t, said), said /= "violation",
           UNCHANGED <<request, ledger>>
    PROVE  PathInv'
<1>1. ledger'.sequence \in Nat /\ ledger.sequence <= ledger'.sequence
  BY DEF LocksInv, LedgerShaped
<1> QED
  BY <1>1, EndOnPath

LEMMA AttemptOnPath ==
    ASSUME LocksInv, PathInv, NEW t \in Tx, NEW n,
           tx' = [tx EXCEPT ![t] = Attempt(t, n)], UNCHANGED <<request, answer, ledger>>
    PROVE  PathInv'
<1>1. request[t] \in Requests
  BY DEF LocksInv
<1>2. Guarded(request[t]) => Path(Attempt(t, n), request[t], ledger)
  BY <1>1, AttemptPathIs DEF Attempt
<1> QED
  BY <1>2, MoveOnPath

\* A transaction on its path executes one more statement and stays on it.
LEMMA OnPath ==
    ASSUME LocksInv, PathInv, NEW t \in Tx, tx[t].open, tx[t].todo /= <<>>, NEW y,
           tx' = [tx EXCEPT ![t] = y], UNCHANGED <<request, answer, ledger>>,
           \A T : Guarded(request[t]) /\ Trail(tx[t], ledger, T) /\ Stage(tx[t], request[t], T)
                    => Path(y, request[t], ledger)
    PROVE  PathInv'
<1>1. Guarded(request[t]) => Path(tx[t], request[t], ledger)
  BY DEF PathInv
<1>2. Guarded(request[t]) => Path(y, request[t], ledger)
  BY <1>1 DEF Path
<1> QED
  BY <1>2, MoveOnPath

LEMMA RecordIs ==
    ASSUME LocksInv, NEW t \in Tx
    PROVE  /\ DOMAIN tx[t] = {"open", "todo", "held", "claimed", "last", "candidates", "decided",
                              "saw", "sequences", "attempt"}
           /\ ledger.sequence \in Nat /\ request[t] \in Requests
BY DEF LocksInv, Sound, LedgerShaped, NoTx

LEMMA AcquireOnPath ==
    ASSUME LocksInv, PathInv, NEW t \in Tx, Acquire(t)
    PROVE  PathInv'
<1> DEFINE x == tx[t]
           d == Head(x.todo)
           a == Demand(t)
           y == Acquired(t, a)
<1>1. /\ x.open /\ x.todo /= <<>> /\ a.do \in {"row", "claim"}
      /\ UNCHANGED <<request, ledger>>
      /\ IF Refused(t, a) THEN End(t, "violation")
         ELSE tx' = [tx EXCEPT ![t] = y] /\ UNCHANGED answer
  BY DEF Acquire, Wants
<1>2. ~Refused(t, a)
  <2>1. CASE Guarded(request[t])
    <3>1. PICK T : Trail(tx[t], ledger, T)
      BY <1>1, <2>1 DEF PathInv, Path
    <3> QED
      BY <1>1, <3>1, NotTurnedAway
  <2>2. CASE ~Guarded(request[t])
    BY <2>2 DEF Refused
  <2> QED
    BY <2>1, <2>2
<1>3. /\ y.todo = Tail(x.todo) /\ y.sequences = x.sequences /\ y.candidates = x.candidates
      /\ y.last = IF AcquiresNothing(t, a) THEN x.last ELSE a.at
      /\ y.held = IF a.do = "row" THEN x.held \cup {[at |-> a.at, mode |-> a.mode]} ELSE x.held
      /\ y.claimed = IF a.do = "claim" THEN x.claimed \cup {a.at} ELSE x.claimed
  BY RecordIs DEF Acquired
<1>4. ASSUME NEW T, Trail(x, ledger, T), Stage(x, request[t], T) PROVE Path(y, request[t], ledger)
  <2>1. a = IF d.do = "publish" THEN Slot(8, SequenceLockKey(Latest(x))) ELSE d
    BY StatementsAre DEF Demand, Latest
  <2>2. d.do = "publish" => a.do = "claim" /\ a.at = <<8, SequenceLockKey(Latest(x))>>
    BY <2>1 DEF Slot
  <2>3. d.do /= "publish" => a = d
    BY <2>1
  <2>4. d \in Statements /\ Fits(d, T)
    BY <1>1, <1>4, RunsOn DEF Trail
  <2>5. d.do = "publish" => x.sequences /= <<>>
    <3>1. d.do = "publish" => \E e \in T : e.do = "allocate"
      BY <2>4 DEF Fits, Covered
    <3> QED
      BY <1>4, <3>1 DEF Trail
  <2> HIDE DEF a, d, x, y
  <2>6. /\ y.held = IF d.do = "row" THEN x.held \cup {[at |-> d.at, mode |-> d.mode]} ELSE x.held
        /\ x.claimed \subseteq y.claimed /\ (d.do = "claim" => d.at \in y.claimed)
        /\ d.do /= "allocate" /\ d.do /= "peek"
    <3>1. CASE d.do = "publish"
      BY <1>3, <2>2, <3>1
    <3>2. CASE d.do /= "publish"
      BY <1>1, <1>3, <2>3, <3>2
    <3> QED
      BY <3>1, <3>2
  <2>7. \/ y.last = x.last
        \/ y.last = d.at
        \/ /\ d.do = "publish" /\ x.sequences /= <<>>
           /\ y.last = <<8, SequenceLockKey(Latest(x))>>
    BY <1>3, <2>2, <2>3, <2>5
  <2>8. ledger.sequence \in Nat
    BY RecordIs
  <2>9. Trail(y, ledger, T \cup {d})
    BY <1>1, <1>3, <1>4, <2>6, <2>7, <2>8, TrailOn DEF d
  <2>10. Stage(y, request[t], T \cup {d})
    BY <1>1, <1>3, <1>4, StageOn DEF d
  <2> QED
    BY <2>9, <2>10 DEF Path
<1> HIDE DEF y, a
<1>5. tx' = [tx EXCEPT ![t] = y] /\ UNCHANGED answer
  BY <1>1, <1>2
<1> QED
  BY <1>1, <1>4, <1>5, OnPath DEF x

\* A statement that takes no lock.
LEMMA PlainStepOnPath ==
    ASSUME LocksInv, PathInv, NEW t \in Tx, tx[t].open, tx[t].todo /= <<>>, NEW y,
           tx' = [tx EXCEPT ![t] = y], UNCHANGED <<request, answer, ledger>>,
           NEW d, d = Head(tx[t].todo), d.do \in {"peek", "active", "allocate"},
           y.todo = Tail(tx[t].todo), y.held = tx[t].held, y.claimed = tx[t].claimed,
           y.last = tx[t].last, d.do /= "peek" => y.candidates = tx[t].candidates,
           y.sequences = IF d.do = "allocate"
                         THEN Append(tx[t].sequences,
                                     ledger.sequence + Len(tx[t].sequences) + 1)
                         ELSE tx[t].sequences
    PROVE  PathInv'
<1> DEFINE x == tx[t]
<1>1. ledger.sequence \in Nat
  BY RecordIs
<1>2. ASSUME NEW T, Trail(x, ledger, T), Stage(x, request[t], T) PROVE Path(y, request[t], ledger)
  <2>1. Trail(y, ledger, T \cup {d})
    BY <1>1, <1>2, TrailOn
  <2>2. Stage(y, request[t], T \cup {d})
    BY <1>2, StageOn
  <2> QED
    BY <2>1, <2>2 DEF Path
<1> QED
  BY <1>2, OnPath

LEMMA PeekOnPath ==
    ASSUME LocksInv, PathInv, NEW t \in Tx, Peek(t)
    PROVE  PathInv'
<1> DEFINE y == [tx[t] EXCEPT !.todo = Tail(@),
                              !.candidates = {Legs[request[t].order][1]} \ ledger.settled]
<1>1. /\ y.todo = Tail(tx[t].todo) /\ y.held = tx[t].held /\ y.claimed = tx[t].claimed
      /\ y.last = tx[t].last /\ y.sequences = tx[t].sequences
  BY RecordIs
<1>2. tx' = [tx EXCEPT ![t] = y]
  BY DEF Peek
<1>3. /\ tx[t].open /\ tx[t].todo /= <<>> /\ Head(tx[t].todo).do = "peek"
      /\ UNCHANGED <<request, answer, ledger>>
  BY DEF Peek, At
<1> HIDE DEF y
<1> QED
  BY <1>1, <1>2, <1>3, PlainStepOnPath

LEMMA CheckActiveOnPath ==
    ASSUME LocksInv, PathInv, NEW t \in Tx, CheckActive(t)
    PROVE  PathInv'
<1> DEFINE y == [tx[t] EXCEPT !.todo = Tail(@)]
<1>1. /\ y.todo = Tail(tx[t].todo) /\ y.held = tx[t].held /\ y.claimed = tx[t].claimed
      /\ y.last = tx[t].last /\ y.sequences = tx[t].sequences
      /\ y.candidates = tx[t].candidates
  BY RecordIs
<1>2. /\ tx[t].open /\ tx[t].todo /= <<>> /\ Head(tx[t].todo).do = "active"
      /\ UNCHANGED <<request, ledger>>
      /\ \/ tx' = [tx EXCEPT ![t] = y] /\ UNCHANGED answer
         \/ End(t, "ACCOUNT_READ_ONLY")
  BY DEF CheckActive, At
<1>3. CASE tx' = [tx EXCEPT ![t] = y] /\ UNCHANGED answer
  <2> HIDE DEF y
  <2> QED
    BY <1>1, <1>2, <1>3, PlainStepOnPath
<1>4. CASE End(t, "ACCOUNT_READ_ONLY")
  BY <1>2, <1>4, SameRowsEnd
<1> QED
  BY <1>2, <1>3, <1>4

LEMMA AllocateOnPath ==
    ASSUME LocksInv, PathInv, NEW t \in Tx, Allocate(t)
    PROVE  PathInv'
<1> DEFINE y == [tx[t] EXCEPT !.todo = Tail(@),
                              !.sequences = Append(@, ledger.sequence + Len(@) + 1)]
<1>1. /\ y.todo = Tail(tx[t].todo) /\ y.held = tx[t].held /\ y.claimed = tx[t].claimed
      /\ y.last = tx[t].last /\ y.candidates = tx[t].candidates
      /\ y.sequences = Append(tx[t].sequences, ledger.sequence + Len(tx[t].sequences) + 1)
  BY RecordIs
<1>2. tx' = [tx EXCEPT ![t] = y]
  BY DEF Allocate
<1>3. /\ tx[t].open /\ tx[t].todo /= <<>> /\ Head(tx[t].todo).do = "allocate"
      /\ UNCHANGED <<request, answer, ledger>>
  BY DEF Allocate, At
<1> HIDE DEF y
<1> QED
  BY <1>1, <1>2, <1>3, PlainStepOnPath

\* The statement whose result says what follows.
LEMMA TrailResumes ==
    ASSUME NEW x, NEW y, NEW led, NEW T, Trail(x, led, T), x.todo /= <<>>, led.sequence \in Nat,
           NEW d, d = Head(x.todo), d.do \in {"balances", "decide"},
           y.held = x.held, y.claimed = x.claimed, y.last = x.last, y.sequences = x.sequences,
           Runs(y.todo, T \cup {d})
    PROVE  Trail(y, led, T \cup {d})
<1> DEFINE z == [todo |-> Tail(x.todo), held |-> x.held, claimed |-> x.claimed, last |-> x.last,
                 sequences |-> x.sequences]
<1>1. /\ z.todo = Tail(x.todo) /\ z.held = x.held /\ z.claimed = x.claimed /\ z.last = x.last
      /\ z.sequences = x.sequences
  OBVIOUS
<1> HIDE DEF z
<1>2. Trail(z, led, T \cup {d})
  BY <1>1, TrailOn
<1>3. Latest(y) = Latest(z)
  BY <1>1 DEF Latest
<1> QED
  BY <1>1, <1>2, <1>3 DEF Trail

\* The last statement of the opening has been executed.
LEMMA OpeningEnds ==
    ASSUME NEW x, NEW led, NEW T, Trail(x, led, T), x.todo /= <<>>, Closed(x.todo),
           NEW d, d = Head(x.todo), d.do \in {"balances", "decide"}
    PROVE  T \cup Parts(x.todo) = T \cup {d}
<1>1. Tail(x.todo) = <<>> /\ Parts(x.todo) = {d} \cup Parts(Tail(x.todo))
  BY ClosedOn, RunsOn DEF Trail
<1> QED
  BY <1>1, NothingRuns

LEMMA DosAre ==
    ASSUME NEW r, NEW c
    PROVE  /\ \A e \in Bound(r) : e.do \notin {"balances", "peek"}
           /\ \A e \in Read : e.do /= "decide"
           /\ \A e \in Pair(r, c) : e.do = "row"
           /\ Upto(Read, 1)
<1>1. \A m : Session(m).do = "row" /\ Session(m).at = <<1, <<1>>>>
  BY StatementsAre DEF Lock
<1>2. \A w : Do(w).do = w /\ Do(w).at = <<>>
  BY DEF Do
<1>3. \A k : Claim("idempotency_requests", k).do = "claim"
  BY DEF Claim
<1>4. \A e \in Bound(r) : e.do \notin {"balances", "peek"}
  BY <1>1, <1>2, <1>3 DEF Bound
<1>5. \A e \in Read : e.do /= "decide"
  BY <1>1, <1>2 DEF Read
<1>6. Upto(Read, 1)
  BY <1>1, <1>2 DEF Read, Upto
<1>7. \A e \in Pair(r, c) : e.do = "row"
  <2>1. \A n, k, m : Lock(n, k, m).do = "row"
    BY DEF Lock
  <2>2. Balance(r.order \in Cash, MarketOf[r.order], 3).do = "row"
    BY DEF Balance, Wallet, Position, Row
  <2> QED
    BY <2>1, <2>2 DEF Pair
<1> QED
  BY <1>4, <1>5, <1>6, <1>7

LEMMA LockCandidatesOnPath ==
    ASSUME LocksInv, PathInv, NEW t \in Tx, LockCandidates(t)
    PROVE  PathInv'
<1> DEFINE x == tx[t]
           r == request[t]
           d == Head(x.todo)
           p == CancelLocks(r, x.candidates)
           y == [x EXCEPT !.todo = p]
<1>1. /\ x.open /\ x.todo /= <<>> /\ d.do = "balances"
      /\ UNCHANGED <<request, answer, ledger>>
  BY DEF LockCandidates, At
<1>2. tx' = [tx EXCEPT ![t] = y]
  BY DEF LockCandidates, LocksInv
<1>3. /\ y.todo = p /\ y.held = x.held /\ y.claimed = x.claimed /\ y.last = x.last
      /\ y.sequences = x.sequences /\ y.candidates = x.candidates
  BY RecordIs
<1> HIDE DEF y, p
<1>4. ASSUME NEW T, Trail(x, ledger, T), Stage(x, r, T) PROVE Path(y, r, ledger)
  <2> DEFINE U == T \cup {d}
  <2>1. d \in Parts(x.todo) /\ ledger.sequence \in Nat /\ r \in Requests
    BY <1>1, <1>4, RunsOn, RecordIs DEF Trail
  <2>2. r.kind = "cancel" /\ Closed(x.todo) /\ T \cup Parts(x.todo) = Read
    BY <1>1, <1>4, <2>1, DosAre DEF Stage, Plain
  <2>3. U = Read
    BY <1>1, <1>4, <2>2, OpeningEnds
  <2>4. r.order \in Orders
    BY <2>1, <2>2, RequestsAssumption
  <2> HIDE DEF U
  <2>5. /\ Runs(p, U) /\ Closed(p)
        /\ Parts(p) = (Pair(r, x.candidates) \ {Lock(1, <<1>>, 3)}) \cup {Do("decide")}
    BY <2>1, <2>3, <2>4, CancelLocksRun, DosAre DEF p
  <2>6. U \cup Parts(p) = SettledLegs(r, x.candidates)
    <3>1. Lock(1, <<1>>, 3) \in U
      BY <2>3, StatementsAre DEF Read
    <3>2. SettledLegs(r, x.candidates) = (Read \cup {Do("decide")}) \cup Pair(r, x.candidates)
      BY DEF SettledLegs, Read
    <3> QED
      BY <2>3, <2>5, <3>1, <3>2
  <2>7. \A e \in Parts(p) : e.do \notin {"peek", "balances"}
    BY <2>5, DosAre DEF Do
  <2>8. Stage(y, r, U)
    BY <1>3, <2>2, <2>5, <2>6, <2>7 DEF Stage
  <2>9. Trail(y, ledger, U)
    <3>1. Runs(y.todo, T \cup {d})
      BY <1>3, <2>5 DEF U
    <3>2. Trail(y, ledger, T \cup {d})
      BY <1>1, <1>3, <1>4, <2>1, <3>1, TrailResumes
    <3> QED
      BY <3>2 DEF U
  <2> QED
    BY <2>8, <2>9 DEF Path
<1> QED
  BY <1>1, <1>2, <1>4, OnPath

LEMMA DecideOnPath ==
    ASSUME LocksInv, PathInv, NEW t \in Tx, Decide(t)
    PROVE  PathInv'
<1> DEFINE x == tx[t]
           r == request[t]
           d == Head(x.todo)
           p == Rest(r, ledger.open, x.candidates, ledger.settled)
           y == [x EXCEPT !.decided = TRUE, !.saw = ledger, !.todo = p]
           said == CASE r.kind = "convert" -> "QUOTE_CONSUMED"
                     [] r.kind /= "convert" /\ Stored(r) \in ledger.completed -> "replayed"
                     [] OTHER -> "IDEMPOTENCY_CONFLICT"
<1>1. /\ x.open /\ x.todo /= <<>> /\ d.do = "decide" /\ UNCHANGED <<request, ledger>>
      /\ \/ End(t, said)
         \/ End(t, "terminal")
         \/ tx' = [tx EXCEPT ![t] = y] /\ UNCHANGED answer
  BY DEF Decide, At
<1>2. CASE End(t, said)
  <2>1. said /= "violation"
    OBVIOUS
  <2> HIDE DEF said
  <2> QED
    BY <1>1, <1>2, <2>1, SameRowsEnd
<1>3. CASE End(t, "terminal")
  BY <1>1, <1>3, SameRowsEnd
<1>4. CASE tx' = [tx EXCEPT ![t] = y] /\ UNCHANGED answer
  <2>1. /\ y.todo = p /\ y.held = x.held /\ y.claimed = x.claimed /\ y.last = x.last
        /\ y.sequences = x.sequences /\ y.candidates = x.candidates
    BY RecordIs
  <2> HIDE DEF y, p, said
  <2>2. ASSUME NEW T, Trail(x, ledger, T), Stage(x, r, T) PROVE Path(y, r, ledger)
    <3> DEFINE U == T \cup {d}
    <3>1. d \in Parts(x.todo) /\ ledger.sequence \in Nat /\ r \in Requests
      BY <1>1, <2>2, RunsOn, RecordIs DEF Trail
    <3>2. /\ Closed(x.todo)
          /\ \/ Stores(r) /\ T \cup Parts(x.todo) = Bound(r)
             \/ r.kind = "cancel" /\ T \cup Parts(x.todo) = SettledLegs(r, x.candidates)
      BY <1>1, <2>2, <3>1, DosAre DEF Stage, Plain
    <3>3. T \cup Parts(x.todo) = U
      BY <1>1, <2>2, <3>2, OpeningEnds
    <3> HIDE DEF U
    <3>4. Runs(p, U) /\ Plain(p)
      <4>1. CASE Stores(r) /\ U = Bound(r)
        <5>1. CASE r.kind = "place"
          BY <3>1, <4>1, <5>1, PlaceRestRuns DEF p, Rest
        <5>2. CASE r.kind = "oco"
          BY <3>1, <4>1, <5>2, OcoRestRuns DEF p, Rest
        <5>3. CASE r.kind = "convert"
          BY <3>1, <4>1, <5>3, ConvertRestRuns DEF p, Rest
        <5> QED
          BY <4>1, <5>1, <5>2, <5>3 DEF Stores
      <4>2. CASE r.kind = "cancel" /\ U = SettledLegs(r, x.candidates)
        <5>1. r.order \in Orders
          BY <3>1, <4>2, RequestsAssumption
        <5>2. p = CancelRest(r, ledger.open, x.candidates, ledger.settled)
          BY <4>2 DEF p, Rest
        <5> QED
          BY <3>1, <4>2, <5>1, <5>2, CancelRestRuns
      <4> QED
        BY <3>2, <3>3, <4>1, <4>2
    <3>5. Stage(y, r, U)
      BY <2>1, <3>4 DEF Stage
    <3>6. Trail(y, ledger, U)
      <4>1. Runs(y.todo, T \cup {d})
        BY <2>1, <3>4 DEF U
      <4>2. Trail(y, ledger, T \cup {d})
        BY <1>1, <2>1, <2>2, <3>1, <4>1, TrailResumes
      <4> QED
        BY <4>2 DEF U
    <3> QED
      BY <3>5, <3>6 DEF Path
  <2> QED
    BY <1>1, <1>4, <2>2, OnPath
<1> QED
  BY <1>1, <1>2, <1>3, <1>4

LEMMA AppliedSequence ==
    ASSUME LocksInv, NEW t \in Tx, ledger' = Applied(t)
    PROVE  ledger'.sequence \in Nat /\ ledger.sequence <= ledger'.sequence
<1>1. ledger.sequence \in Nat /\ Len(tx[t].sequences) \in Nat
  BY DEF LocksInv, LedgerShaped, Sound
<1>2. ledger'.sequence = ledger.sequence + Len(tx[t].sequences)
  BY DEF LocksInv, LedgerShaped, Applied
<1> QED
  BY <1>1, <1>2

LEMMA CommitOnPath ==
    ASSUME LocksInv, PathInv, NEW t \in Tx, Commit(t)
    PROVE  PathInv'
<1>1. End(t, "done") /\ ledger' = Applied(t) /\ UNCHANGED request
  BY DEF Commit
<1> QED
  BY <1>1, AppliedSequence, EndOnPath

LEMMA FailsOnPath ==
    ASSUME LocksInv, PathInv, NEW t \in Tx, StatementFails(t)
    PROVE  PathInv'
<1>1. PICK retryable \in BOOLEAN : Fail(t, retryable, FALSE)
  BY DEF StatementFails
<1>2. UNCHANGED <<request, ledger>>
  BY DEF StatementFails
<1>3. CASE MayRetry(t, retryable)
  <2>1. tx' = [tx EXCEPT ![t] = Attempt(t, tx[t].attempt + 1)] /\ UNCHANGED answer
    BY <1>1, <1>3 DEF Fail, LocksInv
  <2> QED
    BY <1>2, <2>1, AttemptOnPath
<1>4. CASE ~MayRetry(t, retryable)
  <2>1. PICK said \in {"SERVICE_UNAVAILABLE", "unknown", "failed"} : End(t, said)
    BY <1>1, <1>4 DEF Fail
  <2> QED
    BY <1>2, <2>1, SameRowsEnd
<1> QED
  BY <1>3, <1>4

LEMMA CommitLostOnPath ==
    ASSUME LocksInv, PathInv, NEW t \in Tx, CommitLost(t)
    PROVE  PathInv'
<1>1. PICK said \in {"SERVICE_UNAVAILABLE", "unknown", "failed"} : End(t, said)
  BY DEF CommitLost, Fail, MayRetry
<1>2. UNCHANGED request /\ (UNCHANGED ledger \/ ledger' = Applied(t))
  BY DEF CommitLost
<1>3. ledger'.sequence \in Nat /\ ledger.sequence <= ledger'.sequence
  BY <1>2, AppliedSequence DEF LocksInv, LedgerShaped
<1> QED
  BY <1>1, <1>2, <1>3, EndOnPath

LEMMA NextOnPath == LocksInv /\ PathInv /\ [Next]_vars => PathInv'
<1> SUFFICES ASSUME LocksInv, PathInv, [Next]_vars PROVE PathInv'
  OBVIOUS
<1>1. CASE UNCHANGED vars
  BY <1>1 DEF PathInv, NeverRefused, vars
<1>2. CASE Next
  <2>1. PICK t \in Tx : Begin(t) \/ LedgerStep(t)
    BY <1>2 DEF Next
  <2>2. CASE Begin(t)
    BY <2>2, AttemptOnPath DEF Begin
  <2>3. CASE LedgerStep(t)
    BY <2>3, AcquireOnPath, PeekOnPath, LockCandidatesOnPath, CheckActiveOnPath, DecideOnPath,
       AllocateOnPath, CommitOnPath, FailsOnPath, CommitLostOnPath DEF LedgerStep
  <2> QED
    BY <2>1, <2>2, <2>3
<1> QED
  BY <1>1, <1>2

\* The guard never refuses a statement of a session transaction, so no order,
\* cancel, conversion, fill or trigger fails for the order in which its own code
\* locks and claims (db/lock-order.ts refuseIfBackwards, acquireLock).
THEOREM NeverTurnedAway == Spec => []NeverRefused
<1>1. Init => LocksInv /\ PathInv
  BY InitLocksInv, InitPath
<1>2. (LocksInv /\ PathInv) /\ [Next]_vars => (LocksInv /\ PathInv)'
  BY NextKeeps, NextOnPath
<1>3. PathInv => NeverRefused
  BY DEF PathInv
<1> QED
  BY <1>1, <1>2, <1>3, PTL DEF Spec

-----------------------------------------------------------------------------
(* Settling the requests that are answered together.                       *)

Gates == [closed : BOOLEAN, inFlight : Int, admitted : SUBSET Tx]

\* A gate whose count is that of the requests it holds.
Counted(g) ==
    /\ g \in Gates
    /\ IsFiniteSet(g.admitted)
    /\ g.inFlight = Cardinality(g.admitted)

\* The gate with the requests of s settled.
Without(g, s) ==
    [g EXCEPT !.admitted = g.admitted \ s, !.inFlight = Cardinality(g.admitted \ s)]

LEMMA GateChange ==
    ASSUME NEW C, NEW I, NEW A, NEW g \in [closed : C, inFlight : I, admitted : A],
           NEW a \in A, NEW n \in I,
           NEW h, h = [g EXCEPT !.admitted = a, !.inFlight = n]
    PROVE  /\ h \in [closed : C, inFlight : I, admitted : A]
           /\ h.closed = g.closed /\ h.admitted = a /\ h.inFlight = n
OBVIOUS

LEMMA WithoutCounted ==
    ASSUME NEW g, Counted(g), NEW s
    PROVE  /\ Counted(Without(g, s))
           /\ Without(g, s).closed = g.closed
           /\ Without(g, s).admitted = g.admitted \ s
<1>1. IsFiniteSet(g.admitted \ s) /\ Cardinality(g.admitted \ s) \in Nat
  BY FS_Difference, FS_CardinalityType DEF Counted
<1> DEFINE a == g.admitted \ s
           n == Cardinality(a)
<1>2. IsFiniteSet(a) /\ n \in Int /\ a \in SUBSET Tx /\ g \in Gates
  BY <1>1 DEF Counted, Gates
<1>3. Without(g, s) = [g EXCEPT !.admitted = a, !.inFlight = n]
  BY DEF Without
<1> HIDE DEF a, n
<1>4. /\ Without(g, s) \in Gates
      /\ Without(g, s).closed = g.closed /\ Without(g, s).admitted = a
      /\ Without(g, s).inFlight = n
  BY <1>2, <1>3, GateChange, Zenon DEF Gates
<1> QED
  BY <1>2, <1>4 DEF Counted, a, n

\* Two counted gates are equal if they agree on what they admitted.
LEMMA GatesEqual ==
    ASSUME NEW g, NEW h, Counted(g), Counted(h), g.closed = h.closed, g.admitted = h.admitted
    PROVE  g = h
<1>1. g.inFlight = h.inFlight
  BY DEF Counted
<1> QED
  BY <1>1 DEF Counted, Gates

LEMMA SettleIs ==
    ASSUME NEW g, Counted(g), NEW t
    PROVE  Settle(g, t) = Without(g, {t})
<1> DEFINE h == Settle(g, t)
<1>1. IsFiniteSet(g.admitted) /\ g.inFlight = Cardinality(g.admitted) /\ g \in Gates
  BY DEF Counted
<1>2. /\ IsFiniteSet(g.admitted \ {t}) /\ Cardinality(g.admitted \ {t}) \in Nat
      /\ Cardinality(g.admitted \ {t})
           = IF t \in g.admitted THEN g.inFlight - 1 ELSE g.inFlight
  BY <1>1, FS_RemoveElement, FS_CardinalityType
<1>3. /\ h \in Gates
      /\ h.closed = g.closed /\ h.admitted = g.admitted \ {t}
      /\ h.inFlight = IF t \in g.admitted THEN g.inFlight - 1 ELSE g.inFlight
  <2>1. CASE t \in g.admitted
    <3>1. h = [g EXCEPT !.admitted = g.admitted \ {t}, !.inFlight = g.inFlight - 1]
      BY <2>1 DEF Settle
    <3>2. g.admitted \ {t} \in SUBSET Tx /\ g.inFlight - 1 \in Int
      BY <1>1 DEF Gates
    <3> QED
      BY <1>1, <2>1, <3>1, <3>2, GateChange, Zenon DEF Gates
  <2>2. CASE t \notin g.admitted
    BY <1>1, <2>2 DEF Settle, Gates
  <2> QED
    BY <2>1, <2>2
<1> HIDE DEF h
<1>4. Counted(h)
  <2>1. IsFiniteSet(h.admitted)
    BY <1>2, <1>3, Zenon
  <2>2. h.inFlight = Cardinality(h.admitted)
    BY <1>2, <1>3, Zenon
  <2> QED
    BY <1>3, <2>1, <2>2 DEF Counted
<1>5. /\ Counted(Without(g, {t})) /\ Without(g, {t}).closed = g.closed
      /\ Without(g, {t}).admitted = g.admitted \ {t}
  BY WithoutCounted, Zenon
<1>6. h = Without(g, {t})
  BY <1>3, <1>4, <1>5, GatesEqual, Zenon
<1> QED
  BY <1>6 DEF h

\* The second of two hooks settles nothing.
LEMMA SettleReplyIs ==
    ASSUME NEW g, Counted(g), NEW t, NEW code
    PROVE  SettleReply(g, t, code) = Without(g, {t})
<1> DEFINE h == Without(g, {t})
<1>1. Settle(g, t) = h /\ Counted(h) /\ h.admitted = g.admitted \ {t}
  BY SettleIs, WithoutCounted
<1>2. Settle(h, t) = Without(h, {t})
  BY <1>1, SettleIs
<1>3. Counted(Without(h, {t})) /\ Without(h, {t}).closed = h.closed
      /\ Without(h, {t}).admitted = h.admitted
  <2>1. h.admitted \ {t} = h.admitted
    BY <1>1, Zenon
  <2> HIDE DEF h
  <2> QED
    BY <1>1, <2>1, WithoutCounted, Zenon
<1>4. Settle(h, t) = h
  BY <1>1, <1>2, <1>3, GatesEqual
<1> QED
  BY <1>1, <1>4 DEF SettleReply

LEMMA WithoutOneMore ==
    ASSUME NEW g, Counted(g), NEW s, NEW x \in s
    PROVE  Without(Without(g, s \ {x}), {x}) = Without(g, s)
<1> DEFINE h == Without(g, s \ {x})
<1>1. Counted(h) /\ h.closed = g.closed /\ h.admitted = g.admitted \ (s \ {x})
  BY WithoutCounted
<1> HIDE DEF h
<1>2. /\ Counted(Without(h, {x})) /\ Without(h, {x}).closed = h.closed
      /\ Without(h, {x}).admitted = h.admitted \ {x}
  BY <1>1, WithoutCounted
<1>3. /\ Counted(Without(g, s)) /\ Without(g, s).closed = g.closed
      /\ Without(g, s).admitted = g.admitted \ s
  BY WithoutCounted
<1>4. Without(h, {x}) = Without(g, s)
  <2>1. (g.admitted \ (s \ {x})) \ {x} = g.admitted \ s
    OBVIOUS
  <2> QED
    BY <1>1, <1>2, <1>3, <2>1, GatesEqual
<1> QED
  BY <1>4 DEF h

LEMMA SettleOneMore ==
    ASSUME NEW g, Counted(g), NEW s, NEW x \in s, NEW code
    PROVE  SettleReply(Without(g, s \ {x}), x, code) = Without(g, s)
<1>1. Counted(Without(g, s \ {x}))
  BY WithoutCounted, Zenon
<1>2. SettleReply(Without(g, s \ {x}), x, code) = Without(Without(g, s \ {x}), {x})
  BY <1>1, SettleReplyIs, Zenon
<1> QED
  BY <1>2, WithoutOneMore, Zenon

LEMMA WithoutEmpty ==
    ASSUME NEW g, Counted(g)
    PROVE  Without(g, {}) = g
<1>1. /\ Counted(Without(g, {})) /\ Without(g, {}).closed = g.closed
      /\ Without(g, {}).admitted = g.admitted \ {}
  BY WithoutCounted
<1>2. g.admitted \ {} = g.admitted
  OBVIOUS
<1> QED
  BY <1>1, <1>2, GatesEqual

\* The fold of SettleReply over the subsets of G, as FoldSet defines it.
Folds(f, base, G, code) ==
    f = [s \in SUBSET G |->
            IF s = {} THEN base
            ELSE SettleReply(f[s \ {CHOOSE x \in s : TRUE}], CHOOSE x \in s : TRUE, code)]

\* A set of finite sets with a member has one that contains no other.
LEMMA SmallestSet ==
    ASSUME NEW S, IsFiniteSet(S), NEW T \in SUBSET SUBSET S, T # {}
    PROVE  \E x \in T : \A y \in T : ~ (y \subseteq x /\ y # x)
<1>1. T \subseteq FiniteSubsetsOf(S)
  BY FS_Subset DEF FiniteSubsetsOf
<1>2. PICK x \in T : \A y \in T : ~ (<<y, x>> \in StrictSubsetOrdering(S))
  BY <1>1, FS_StrictSubsetOrderingWellFounded, WFMin, Zenon
<1>3. ASSUME NEW y \in T, y \subseteq x, y # x PROVE FALSE
  <2>1. <<y, x>> \in StrictSubsetOrdering(S)
    BY <1>3 DEF StrictSubsetOrdering
  <2> QED
    BY <1>2, <2>1
<1> QED
  BY <1>3

LEMMA FoldExists ==
    ASSUME NEW g, Counted(g), NEW G, NEW code
    PROVE  \E f : Folds(f, g, G, code)
<1> DEFINE f == [s \in SUBSET G |-> Without(g, s)]
           h == [s \in SUBSET G |->
                   IF s = {} THEN g
                   ELSE SettleReply(f[s \ {CHOOSE x \in s : TRUE}], CHOOSE x \in s : TRUE, code)]
<1>1. ASSUME NEW s \in SUBSET G PROVE f[s] = h[s]
  <2>1. CASE s = {}
    BY <2>1, WithoutEmpty
  <2>2. CASE s # {}
    <3> DEFINE y == CHOOSE x \in s : TRUE
    <3>1. y \in s
      BY <2>2
    <3>2. h[s] = SettleReply(f[s \ {y}], y, code) /\ f[s \ {y}] = Without(g, s \ {y})
      BY <2>2
    <3> HIDE DEF y, f, h
    <3>3. SettleReply(Without(g, s \ {y}), y, code) = Without(g, s)
      BY <3>1, SettleOneMore
    <3> QED
      BY <3>2, <3>3 DEF f
  <2> QED
    BY <2>1, <2>2
<1>2. f = h
  BY <1>1
<1>3. Folds(f, g, G, code)
  BY <1>2 DEF Folds
<1> QED
  BY <1>3, Zenon

\* Whatever fold it is, and in whatever order it takes the requests, it settles
\* each of them once.
LEMMA FoldIs ==
    ASSUME NEW g, Counted(g), NEW G, IsFiniteSet(G), NEW code,
           NEW f, Folds(f, g, G, code)
    PROVE  f[G] = Without(g, G)
<1> DEFINE bad == {s \in SUBSET G : f[s] # Without(g, s)}
<1> SUFFICES ASSUME bad # {} PROVE FALSE
  OBVIOUS
<1>1. PICK s \in bad : \A r \in bad : ~ (r \subseteq s /\ r # s)
  <2>1. bad \in SUBSET SUBSET G
    OBVIOUS
  <2> HIDE DEF bad
  <2> QED
    BY <2>1, SmallestSet
<1>2. s \in SUBSET G /\ f[s] # Without(g, s)
  OBVIOUS
<1>3. f[s] = IF s = {} THEN g
             ELSE SettleReply(f[s \ {CHOOSE x \in s : TRUE}], CHOOSE x \in s : TRUE, code)
  BY <1>2 DEF Folds
<1>4. CASE s = {}
  BY <1>2, <1>3, <1>4, WithoutEmpty
<1>5. CASE s # {}
  <2> DEFINE y == CHOOSE x \in s : TRUE
  <2>1. y \in s
    BY <1>5
  <2>2. f[s] = SettleReply(f[s \ {y}], y, code)
    BY <1>3, <1>5
  <2> HIDE DEF y
  <2>3. s \ {y} \notin bad
    <3>1. s \ {y} \subseteq s /\ s \ {y} # s
      BY <2>1
    <3> HIDE DEF bad
    <3> QED
      BY <1>1, <3>1
  <2>4. f[s \ {y}] = Without(g, s \ {y})
    BY <1>2, <2>3
  <2>5. SettleReply(Without(g, s \ {y}), y, code) = Without(g, s)
    BY <2>1, SettleOneMore
  <2> QED
    BY <1>2, <2>2, <2>4, <2>5
<1> QED
  BY <1>4, <1>5

\* What Send makes of its gate.
Settled(g, G, code) == FoldSet(LAMBDA u, h : SettleReply(h, u, code), g, G)

LEMMA SettleAll ==
    ASSUME NEW g, Counted(g), NEW G, IsFiniteSet(G), NEW code
    PROVE  Settled(g, G, code) = Without(g, G)
<1>1. Settled(g, G, code) = (CHOOSE f : Folds(f, g, G, code))[G]
  BY DEF Settled, FoldSet, MapThenFoldSet, Folds
<1>2. Folds(CHOOSE f : Folds(f, g, G, code), g, G, code)
  BY FoldExists, Zenon
<1> QED
  BY <1>1, <1>2, FoldIs

-----------------------------------------------------------------------------
(* What a transaction did when its caller is told.                         *)

\* What is left to do before a command with a key is decided.
Undecided(r) ==
    LET s == <<Session(ForUpdate), Do("active"), Claim("idempotency_requests", <<r.key>>),
               Session(KeyShare), Do("decide")>>
    IN {SubSeq(s, i, 5) : i \in 1 .. 5}

LEMMA FiveStatements ==
    ASSUME NEW a, NEW b, NEW c, NEW d, NEW e
    PROVE  (<<a, b>> \o <<c, d>>) \o <<e>> = <<a, b, c, d, e>>
<1> DEFINE S == {a, b, c, d, e}
           f == <<a, b>> \o <<c, d>>
           l == <<e>>
           s == f \o l
           u == <<a, b, c, d, e>>
<1>1. /\ <<a, b>> \in Seq(S) /\ <<c, d>> \in Seq(S) /\ l \in Seq(S) /\ u \in Seq(S)
      /\ Len(u) = 5 /\ Len(l) = 1 /\ l[1] = e
  OBVIOUS
<1>2. f \in Seq(S) /\ Len(f) = 4 /\ f[1] = a /\ f[2] = b /\ f[3] = c /\ f[4] = d
  BY <1>1
<1> HIDE DEF S, f, l, u
<1>3. /\ s \in Seq(S) /\ Len(s) = 5
      /\ \A i \in 1 .. 5 : s[i] = IF i <= 4 THEN f[i] ELSE l[i - 4]
  <2>1. f \in Seq(S) /\ l \in Seq(S)
    BY <1>1, <1>2
  <2>2. /\ s \in Seq(S) /\ Len(s) = Len(f) + Len(l)
        /\ \A i \in 1 .. (Len(f) + Len(l)) : s[i] = IF i <= Len(f) THEN f[i] ELSE l[i - Len(f)]
    BY <2>1, ConcatProperties, Zenon
  <2> HIDE DEF s
  <2>3. Len(f) + Len(l) = 5 /\ Len(f) = 4
    BY <1>1, <1>2
  <2> QED
    BY <2>2, <2>3
<1>4. \A i \in 1 .. 5 : s[i] = u[i]
  <2> SUFFICES ASSUME NEW i \in 1 .. 5 PROVE s[i] = u[i]
    OBVIOUS
  <2>1. i = 1 \/ i = 2 \/ i = 3 \/ i = 4 \/ i = 5
    OBVIOUS
  <2>2. u[1] = a /\ u[2] = b /\ u[3] = c /\ u[4] = d /\ u[5] = e
    BY DEF u
  <2> QED
    BY <1>1, <1>2, <1>3, <2>1, <2>2
<1> HIDE DEF s
<1> QED
  BY <1>1, <1>3, <1>4, SeqEqual DEF s, u, f, l

LEMMA FromEachOfFive ==
    ASSUME NEW a, NEW b, NEW c, NEW d, NEW e, NEW i \in 1 .. 5
    PROVE  LET s == <<a, b, c, d, e>> IN
           /\ SubSeq(s, i, 5) # <<>>
           /\ Head(SubSeq(s, i, 5)) = s[i]
           /\ i < 5 => Tail(SubSeq(s, i, 5)) = SubSeq(s, i + 1, 5)
OBVIOUS

LEMMA AllOfFive ==
    ASSUME NEW a, NEW b, NEW c, NEW d, NEW e
    PROVE  SubSeq(<<a, b, c, d, e>>, 1, 5) = <<a, b, c, d, e>>
<1> DEFINE S == {a, b, c, d, e}
           u == <<a, b, c, d, e>>
<1>1. u \in Seq(S) /\ Len(u) = 5
  OBVIOUS
<1> HIDE DEF S, u
<1>2. /\ SubSeq(u, 1, 5) \in Seq(S) /\ Len(SubSeq(u, 1, 5)) = 5
      /\ \A i \in 1 .. 5 : SubSeq(u, 1, 5)[i] = u[i]
  BY <1>1
<1>3. SubSeq(u, 1, 5) = u
  BY <1>1, <1>2, SeqEqual
<1> QED
  BY <1>3 DEF u

LEMMA UndecidedStatements ==
    ASSUME NEW r \in Requests, Stores(r)
    PROVE  /\ Opening(r) \in Undecided(r)
           /\ \A s \in Undecided(r) :
                 /\ s # <<>> /\ Head(s).do \in {"row", "claim", "active", "decide"}
                 /\ Head(s).do # "decide" => Tail(s) \in Undecided(r)
<1> DEFINE a == Session(ForUpdate)
           b == Do("active")
           c == Claim("idempotency_requests", <<r.key>>)
           d == Session(KeyShare)
           e == Do("decide")
           u == <<a, b, c, d, e>>
<1>1. /\ a.do = "row" /\ b.do = "active" /\ c.do = "claim" /\ d.do = "row" /\ e.do = "decide"
  BY DEF Session, Row, Do, Claim
<1>2. Opening(r) = (<<a, b>> \o <<c, d>>) \o <<e>>
  BY DEF Opening, PlaceOpening, BeginIdempotent, Stores
<1>3. Undecided(r) = {SubSeq(u, i, 5) : i \in 1 .. 5}
  BY DEF Undecided
<1> HIDE DEF a, b, c, d, e
<1>4. Opening(r) = u
  BY <1>2, FiveStatements
<1>5. SubSeq(u, 1, 5) = u
  BY AllOfFive
<1>6. ASSUME NEW i \in 1 .. 5
      PROVE  /\ SubSeq(u, i, 5) # <<>>
             /\ Head(SubSeq(u, i, 5)).do \in {"row", "claim", "active", "decide"}
             /\ Head(SubSeq(u, i, 5)).do # "decide" =>
                   i < 5 /\ Tail(SubSeq(u, i, 5)) = SubSeq(u, i + 1, 5)
  <2>1. /\ SubSeq(u, i, 5) # <<>> /\ Head(SubSeq(u, i, 5)) = u[i]
        /\ i < 5 => Tail(SubSeq(u, i, 5)) = SubSeq(u, i + 1, 5)
    BY FromEachOfFive
  <2>2. i = 1 \/ i = 2 \/ i = 3 \/ i = 4 \/ i = 5
    OBVIOUS
  <2>3. u[1] = a /\ u[2] = b /\ u[3] = c /\ u[4] = d /\ u[5] = e
    OBVIOUS
  <2> HIDE DEF u
  <2>4. /\ u[i].do \in {"row", "claim", "active", "decide"}
        /\ u[i].do # "decide" => i # 5
    BY <1>1, <2>2, <2>3
  <2>5. i # 5 => i < 5
    BY <2>2
  <2> QED
    BY <2>1, <2>4, <2>5
<1> HIDE DEF u
<1>7. Opening(r) \in Undecided(r)
  BY <1>3, <1>4, <1>5
<1>8. ASSUME NEW s \in Undecided(r)
      PROVE  /\ s # <<>> /\ Head(s).do \in {"row", "claim", "active", "decide"}
             /\ Head(s).do # "decide" => Tail(s) \in Undecided(r)
  <2>1. PICK i \in 1 .. 5 : s = SubSeq(u, i, 5)
    BY <1>3
  <2>2. i < 5 => i + 1 \in 1 .. 5
    OBVIOUS
  <2> QED
    BY <1>3, <1>6, <2>1, <2>2
<1> QED
  BY <1>7, <1>8

\* The answers that deny the command.
Denials == {"ACCOUNT_READ_ONLY", "QUOTE_CONSUMED", "IDEMPOTENCY_CONFLICT", "SERVICE_UNAVAILABLE"}

\* What the answer a to request r says of the n commits of its command and of
\* the rows led.
AnswerTrue(a, n, r, led) ==
    /\ a \in {"none", "done", "replayed", "terminal", "violation", "unknown", "failed"}
             \cup Denials
    /\ a = "none" \/ a \in Denials => n = 0
    /\ a = "done" => n = 1
    /\ a = "replayed" => r.kind \in {"place", "oco"} /\ Stored(r) \in led.completed
    /\ a = "terminal" => r.order \notin led.open

Worked(x, a, n, r, led) ==
    /\ n \in {0, 1}
    /\ x.open => a = "none"
    /\ AnswerTrue(a, n, r, led)
    /\ Stores(r) /\ n = 1 => Stored(r) \in led.completed
    /\ x.open /\ Stores(r) /\ ~x.decided => x.todo \in Undecided(r)

\* Every key that is stored was stored by a command that took effect.
RowsExplained ==
    \A row \in ledger.completed :
        \E u \in Tx : effects[u] = 1 /\ Stores(request[u]) /\ Stored(request[u]) = row

OncePerKey ==
    \A t, u \in Tx :
        t # u /\ effects[t] = 1 /\ effects[u] = 1 /\ request[t].key = request[u].key
            => request[t].key = 0

WorkInv ==
    /\ DOMAIN answer = Tx /\ DOMAIN effects = Tx
    /\ \A t \in Tx : Worked(tx[t], answer[t], effects[t], request[t], ledger)
    /\ RowsExplained /\ OncePerKey

LEMMA InitWorkInv == Init => WorkInv
<1> SUFFICES ASSUME Init PROVE WorkInv
  OBVIOUS
<1>1. /\ DOMAIN answer = Tx /\ DOMAIN effects = Tx /\ ledger.completed = {}
      /\ \A t \in Tx : tx[t] = NoTx /\ answer[t] = "none" /\ effects[t] = 0
  BY DEF Init
<1>2. ~NoTx.open
  BY DEF NoTx
<1>3. \A t \in Tx : Worked(tx[t], answer[t], effects[t], request[t], ledger)
  BY <1>1, <1>2 DEF Worked, AnswerTrue, Denials
<1> QED
  BY <1>1, <1>3 DEF WorkInv, RowsExplained, OncePerKey

\* Another state of a transaction that is not answered.
LEMMA MoveWorks ==
    ASSUME LocksInv, WorkInv, NEW t \in Tx, NEW x, answer[t] = "none",
           tx' = [tx EXCEPT ![t] = x], UNCHANGED <<request, answer, ledger, effects>>,
           x.open /\ Stores(request[t]) /\ ~x.decided => x.todo \in Undecided(request[t])
    PROVE  WorkInv'
<1>1. DOMAIN tx = Tx
  BY DEF LocksInv
<1>2. tx'[t] = x /\ \A u \in Tx \ {t} : tx'[u] = tx[u]
  BY <1>1
<1>3. \A u \in Tx : Worked(tx'[u], answer'[u], effects'[u], request'[u], ledger')
  BY <1>2 DEF WorkInv, Worked
<1>4. RowsExplained' /\ OncePerKey'
  BY DEF WorkInv, RowsExplained, OncePerKey
<1> QED
  BY <1>3, <1>4 DEF WorkInv

\* A transaction ends without a commit.
LEMMA EndWorks ==
    ASSUME LocksInv, WorkInv, NEW t \in Tx, NEW said, End(t, said),
           UNCHANGED <<request, ledger, effects>>,
           AnswerTrue(said, effects[t], request[t], ledger)
    PROVE  WorkInv'
<1>1. DOMAIN tx = Tx /\ DOMAIN answer = Tx
  BY DEF LocksInv, WorkInv
<1>2. /\ tx'[t] = NoTx /\ \A u \in Tx \ {t} : tx'[u] = tx[u]
      /\ DOMAIN answer' = Tx /\ answer'[t] = said /\ \A u \in Tx \ {t} : answer'[u] = answer[u]
  BY <1>1 DEF End
<1>3. ~NoTx.open
  BY DEF NoTx
<1>4. \A u \in Tx : Worked(tx'[u], answer'[u], effects'[u], request'[u], ledger')
  BY <1>2, <1>3 DEF WorkInv, Worked
<1>5. RowsExplained' /\ OncePerKey'
  BY DEF WorkInv, RowsExplained, OncePerKey
<1> QED
  BY <1>2, <1>4, <1>5 DEF WorkInv

\* It ends with its commit sent and applied: nobody before it had the key.
LEMMA CommitWorks ==
    ASSUME LocksInv, WorkInv, NEW t \in Tx, NEW said \in {"done", "unknown", "failed"},
           ReadyToCommit(t), End(t, said), ledger' = Applied(t),
           effects' = [effects EXCEPT ![t] = @ + 1], UNCHANGED request
    PROVE  WorkInv'
<1> DEFINE r == request[t]
<1>1. /\ DOMAIN tx = Tx /\ DOMAIN answer = Tx /\ DOMAIN effects = Tx /\ r \in Requests
      /\ Sound(tx[t], r, ledger) /\ LedgerShaped
      /\ Worked(tx[t], answer[t], effects[t], r, ledger)
  BY DEF LocksInv, WorkInv
<1>2. tx[t].open /\ tx[t].todo = <<>> /\ effects[t] = 0
  BY <1>1 DEF ReadyToCommit, Worked, AnswerTrue
<1>3. /\ tx'[t] = NoTx /\ \A u \in Tx \ {t} : tx'[u] = tx[u]
      /\ DOMAIN answer' = Tx /\ answer'[t] = said /\ \A u \in Tx \ {t} : answer'[u] = answer[u]
      /\ DOMAIN effects' = Tx /\ effects'[t] = 1 /\ \A u \in Tx \ {t} : effects'[u] = effects[u]
  BY <1>1, <1>2 DEF End
<1>4. ~NoTx.open
  BY DEF NoTx
<1>5. /\ ledger'.completed = IF Stores(r) THEN ledger.completed \cup {Stored(r)}
                             ELSE ledger.completed
      /\ ledger'.open \subseteq ledger.open
  BY <1>1 DEF Applied, LedgerShaped
<1>6. Worked(tx'[t], answer'[t], effects'[t], request'[t], ledger')
  BY <1>3, <1>4, <1>5 DEF Worked, AnswerTrue, Denials
<1>7. ASSUME NEW u \in Tx \ {t}
      PROVE  Worked(tx'[u], answer'[u], effects'[u], request'[u], ledger')
  <2>1. Worked(tx[u], answer[u], effects[u], request[u], ledger)
    BY DEF WorkInv
  <2>2. AnswerTrue(answer[u], effects[u], request[u], ledger')
    BY <1>5, <2>1 DEF Worked, AnswerTrue
  <2> QED
    BY <1>3, <1>5, <2>1, <2>2 DEF Worked
<1>8. RowsExplained'
  <2> SUFFICES ASSUME NEW row \in ledger'.completed
               PROVE  \E u \in Tx : /\ effects'[u] = 1 /\ Stores(request[u])
                                    /\ Stored(request[u]) = row
    BY DEF RowsExplained
  <2>1. CASE row \in ledger.completed
    <3>1. PICK u \in Tx : effects[u] = 1 /\ Stores(request[u]) /\ Stored(request[u]) = row
      BY <2>1 DEF WorkInv, RowsExplained
    <3>2. effects'[u] = 1
      BY <1>3, <3>1
    <3> QED
      BY <3>1, <3>2
  <2>2. CASE row \notin ledger.completed
    BY <1>3, <1>5, <2>2
  <2> QED
    BY <2>1, <2>2
<1>9. ASSUME NEW u \in Tx \ {t}, effects[u] = 1, request[u].key = r.key, r.key # 0 PROVE FALSE
  <2>1. Stores(r) /\ Stores(request[u])
    BY <1>1, <1>9, RequestsAssumption DEF LocksInv
  <2>2. tx[t].decided
    BY <1>1, <1>2, <2>1, UndecidedStatements DEF Worked
  <2>3. Stored(request[u]) \in ledger.completed
    BY <1>9, <2>1 DEF WorkInv, Worked
  <2>4. Stored(request[u]).key = r.key
    BY <1>9 DEF Stored
  <2> QED
    BY <1>1, <2>2, <2>3, <2>4 DEF Sound, Taken
<1>10. OncePerKey'
  <2> SUFFICES ASSUME NEW a \in Tx, NEW b \in Tx, a # b, effects'[a] = 1, effects'[b] = 1,
                      request[a].key = request[b].key
               PROVE  request[a].key = 0
    BY DEF OncePerKey
  <2>1. CASE a = t
    BY <1>3, <1>9, <2>1
  <2>2. CASE b = t
    BY <1>3, <1>9, <2>2
  <2>3. CASE a # t /\ b # t
    BY <1>3, <2>3 DEF WorkInv, OncePerKey
  <2> QED
    BY <2>1, <2>2, <2>3
<1> QED
  BY <1>3, <1>6, <1>7, <1>8, <1>10 DEF WorkInv

\* An open transaction has not been answered and has committed nothing.
LEMMA OpenWork ==
    ASSUME WorkInv, NEW t \in Tx, tx[t].open
    PROVE  /\ answer[t] = "none" /\ effects[t] = 0
           /\ Worked(tx[t], answer[t], effects[t], request[t], ledger)
BY DEF WorkInv, Worked, AnswerTrue

LEMMA StaysUndecided ==
    ASSUME LocksInv, WorkInv, NEW t \in Tx, tx[t].open, tx[t].todo /= <<>>,
           Head(tx[t].todo).do # "decide", Stores(request[t]), ~tx[t].decided
    PROVE  /\ Tail(tx[t].todo) \in Undecided(request[t])
           /\ Head(tx[t].todo).do \in {"row", "claim", "active"}
BY OpenTx, OpenWork, UndecidedStatements DEF Worked

LEMMA AcquireWorks ==
    ASSUME LocksInv, WorkInv, NEW t \in Tx, Acquire(t)
    PROVE  WorkInv'
<1> DEFINE d == Demand(t)
           x == Acquired(t, d)
<1>1. /\ tx[t].open /\ tx[t].todo /= <<>> /\ d.do \in {"row", "claim"}
      /\ UNCHANGED <<request, ledger, effects>>
  BY DEF Acquire, Wants
<1>2. DOMAIN tx[t] = DOMAIN NoTx /\ answer[t] = "none" /\ effects[t] = 0
  BY <1>1, OpenTx, OpenWork
<1>3. CASE Refused(t, d)
  <2>1. AnswerTrue("violation", effects[t], request[t], ledger)
    BY DEF AnswerTrue, Denials
  <2> QED
    BY <1>1, <1>3, <2>1, EndWorks DEF Acquire
<1>4. CASE ~Refused(t, d)
  <2>1. tx' = [tx EXCEPT ![t] = x] /\ UNCHANGED answer
    BY <1>4 DEF Acquire
  <2>2. x.todo = Tail(tx[t].todo) /\ x.decided = tx[t].decided
    BY <1>2 DEF NoTx, Acquired
  <2> HIDE DEF x
  <2>3. Head(tx[t].todo).do # "decide"
    BY <1>1 DEF Demand
  <2> QED
    BY <1>1, <1>2, <2>1, <2>2, <2>3, StaysUndecided, MoveWorks
<1> QED
  BY <1>3, <1>4

LEMMA PeekWorks ==
    ASSUME LocksInv, WorkInv, NEW t \in Tx, Peek(t)
    PROVE  WorkInv'
<1> DEFINE x == tx'[t]
<1>1. /\ tx[t].open /\ tx[t].todo /= <<>> /\ Head(tx[t].todo).do = "peek"
      /\ UNCHANGED <<request, answer, ledger, effects>>
  BY DEF Peek, At
<1>2. DOMAIN tx[t] = DOMAIN NoTx /\ answer[t] = "none" /\ DOMAIN tx = Tx
  BY <1>1, OpenTx, OpenWork DEF LocksInv
<1>3. tx' = [tx EXCEPT ![t] = x] /\ x.decided = tx[t].decided
  BY <1>2 DEF Peek, NoTx
<1> HIDE DEF x
<1> QED
  BY <1>1, <1>2, <1>3, StaysUndecided, MoveWorks

LEMMA LockCandidatesWorks ==
    ASSUME LocksInv, WorkInv, NEW t \in Tx, LockCandidates(t)
    PROVE  WorkInv'
<1> DEFINE x == [tx[t] EXCEPT !.todo = CancelLocks(request[t], tx[t].candidates)]
<1>1. /\ tx[t].open /\ tx[t].todo /= <<>> /\ Head(tx[t].todo).do = "balances"
      /\ UNCHANGED <<request, answer, ledger, effects>> /\ tx' = [tx EXCEPT ![t] = x]
  BY DEF LockCandidates, At
<1>2. DOMAIN tx[t] = DOMAIN NoTx /\ answer[t] = "none"
  BY <1>1, OpenTx, OpenWork
<1>3. x.decided = tx[t].decided
  BY <1>2 DEF NoTx
<1> HIDE DEF x
<1> QED
  BY <1>1, <1>2, <1>3, StaysUndecided, MoveWorks

LEMMA CheckActiveWorks ==
    ASSUME LocksInv, WorkInv, NEW t \in Tx, CheckActive(t)
    PROVE  WorkInv'
<1> DEFINE x == [tx[t] EXCEPT !.todo = Tail(tx[t].todo)]
<1>1. /\ tx[t].open /\ tx[t].todo /= <<>> /\ Head(tx[t].todo).do = "active"
      /\ UNCHANGED <<request, ledger, effects>>
  BY DEF CheckActive, At
<1>2. DOMAIN tx[t] = DOMAIN NoTx /\ answer[t] = "none" /\ effects[t] = 0
  BY <1>1, OpenTx, OpenWork
<1>3. CASE ~ledger.active
  <2>1. AnswerTrue("ACCOUNT_READ_ONLY", effects[t], request[t], ledger)
    BY <1>2 DEF AnswerTrue, Denials
  <2> QED
    BY <1>1, <1>3, <2>1, EndWorks DEF CheckActive
<1>4. CASE ledger.active
  <2>1. tx' = [tx EXCEPT ![t] = x] /\ UNCHANGED answer
    BY <1>4 DEF CheckActive
  <2>2. x.todo = Tail(tx[t].todo) /\ x.decided = tx[t].decided
    BY <1>2 DEF NoTx
  <2> HIDE DEF x
  <2> QED
    BY <1>1, <1>2, <2>1, <2>2, StaysUndecided, MoveWorks
<1> QED
  BY <1>3, <1>4

LEMMA DecideWorks ==
    ASSUME LocksInv, WorkInv, NEW t \in Tx, Decide(t)
    PROVE  WorkInv'
<1> DEFINE r == request[t]
           x == [tx[t] EXCEPT !.decided = TRUE, !.saw = ledger,
                   !.todo = Rest(r, ledger.open, tx[t].candidates, ledger.settled)]
           taken == Stores(r) /\ KeyTaken(r)
           dead == r.kind \in {"fill", "trigger", "cancel"} /\ r.order \notin ledger.open
<1>1. /\ tx[t].open /\ UNCHANGED <<request, ledger, effects>>
  BY DEF Decide, At
<1>2. DOMAIN tx[t] = DOMAIN NoTx /\ answer[t] = "none" /\ effects[t] = 0
  BY <1>1, OpenTx, OpenWork
<1>3. CASE taken
  <2> DEFINE said == CASE r.kind = "convert" -> "QUOTE_CONSUMED"
                       [] r.kind /= "convert" /\ Stored(r) \in ledger.completed -> "replayed"
                       [] OTHER -> "IDEMPOTENCY_CONFLICT"
  <2>1. End(t, said)
    BY <1>3 DEF Decide
  <2>2. \/ said = "QUOTE_CONSUMED" \/ said = "IDEMPOTENCY_CONFLICT"
        \/ said = "replayed" /\ r.kind # "convert" /\ Stored(r) \in ledger.completed
    <3>1. CASE r.kind = "convert"
      BY <3>1
    <3>2. CASE r.kind # "convert"
      BY <3>2
    <3> QED
      BY <3>1, <3>2
  <2> HIDE DEF said
  <2>3. AnswerTrue(said, effects[t], r, ledger)
    BY <1>2, <1>3, <2>2 DEF AnswerTrue, Denials, Stores
  <2> QED
    BY <1>1, <2>1, <2>3, EndWorks
<1>4. CASE ~taken /\ dead
  <2>1. End(t, "terminal")
    BY <1>4 DEF Decide
  <2>2. AnswerTrue("terminal", effects[t], r, ledger)
    BY <1>4 DEF AnswerTrue, Denials
  <2> QED
    BY <1>1, <2>1, <2>2, EndWorks
<1>5. CASE ~taken /\ ~dead
  <2>1. tx' = [tx EXCEPT ![t] = x] /\ UNCHANGED answer
    BY <1>5 DEF Decide
  <2>2. x.decided
    BY <1>2 DEF NoTx
  <2> HIDE DEF x
  <2> QED
    BY <1>1, <1>2, <2>1, <2>2, MoveWorks
<1> QED
  BY <1>3, <1>4, <1>5

LEMMA AllocateWorks ==
    ASSUME LocksInv, WorkInv, NEW t \in Tx, Allocate(t)
    PROVE  WorkInv'
<1> DEFINE x == tx'[t]
<1>1. /\ tx[t].open /\ tx[t].todo /= <<>> /\ Head(tx[t].todo).do = "allocate"
      /\ UNCHANGED <<request, answer, ledger, effects>>
  BY DEF Allocate, At
<1>2. DOMAIN tx[t] = DOMAIN NoTx /\ answer[t] = "none" /\ DOMAIN tx = Tx
  BY <1>1, OpenTx, OpenWork DEF LocksInv
<1>3. tx' = [tx EXCEPT ![t] = x] /\ x.decided = tx[t].decided
  BY <1>2 DEF Allocate, NoTx
<1> HIDE DEF x
<1> QED
  BY <1>1, <1>2, <1>3, StaysUndecided, MoveWorks

LEMMA AttemptWorks ==
    ASSUME LocksInv, WorkInv, NEW t \in Tx, NEW n, answer[t] = "none",
           tx' = [tx EXCEPT ![t] = Attempt(t, n)],
           UNCHANGED <<request, answer, ledger, effects>>
    PROVE  WorkInv'
<1> DEFINE x == Attempt(t, n)
<1>1. x.todo = Opening(request[t])
  BY DEF Attempt, NoTx
<1>2. Stores(request[t]) => x.todo \in Undecided(request[t])
  BY <1>1, UndecidedStatements DEF LocksInv
<1> HIDE DEF x
<1> QED
  BY <1>2, MoveWorks DEF x

LEMMA StatementFailsWorks ==
    ASSUME LocksInv, WorkInv, NEW t \in Tx, StatementFails(t)
    PROVE  WorkInv'
<1>1. PICK retryable \in BOOLEAN : Fail(t, retryable, FALSE)
  BY DEF StatementFails
<1>2. tx[t].open /\ UNCHANGED <<request, ledger, effects>>
  BY DEF StatementFails
<1>3. answer[t] = "none" /\ effects[t] = 0
  BY <1>2, OpenWork
<1>4. CASE MayRetry(t, retryable)
  <2>1. tx' = [tx EXCEPT ![t] = Attempt(t, tx[t].attempt + 1)] /\ UNCHANGED answer
    BY <1>1, <1>4 DEF Fail
  <2> QED
    BY <1>2, <1>3, <2>1, AttemptWorks
<1>5. CASE ~MayRetry(t, retryable)
  <2>1. PICK said \in {"SERVICE_UNAVAILABLE", "failed"} : End(t, said)
    BY <1>1, <1>5 DEF Fail
  <2>2. AnswerTrue(said, effects[t], request[t], ledger)
    BY <1>3 DEF AnswerTrue, Denials
  <2> QED
    BY <1>2, <2>1, <2>2, EndWorks
<1> QED
  BY <1>4, <1>5

LEMMA CommitLostWorks ==
    ASSUME LocksInv, WorkInv, NEW t \in Tx, CommitLost(t)
    PROVE  WorkInv'
<1>1. ReadyToCommit(t) /\ UNCHANGED request
  BY DEF CommitLost
<1>2. PICK said \in {"unknown", "failed"} : End(t, said)
  BY DEF CommitLost, Fail, MayRetry
<1>3. CASE UNCHANGED <<ledger, effects>>
  <2>1. AnswerTrue(said, effects[t], request[t], ledger)
    BY DEF AnswerTrue, Denials
  <2> QED
    BY <1>1, <1>2, <1>3, <2>1, EndWorks
<1>4. CASE ledger' = Applied(t) /\ effects' = [effects EXCEPT ![t] = @ + 1]
  BY <1>1, <1>2, <1>4, CommitWorks
<1> QED
  BY <1>3, <1>4 DEF CommitLost

LEMMA LedgerStepWorks ==
    ASSUME LocksInv, WorkInv, NEW t \in Tx, LedgerStep(t)
    PROVE  WorkInv'
<1>1. CASE Acquire(t)
  BY <1>1, AcquireWorks
<1>2. CASE Peek(t)
  BY <1>2, PeekWorks
<1>3. CASE LockCandidates(t)
  BY <1>3, LockCandidatesWorks
<1>4. CASE CheckActive(t)
  BY <1>4, CheckActiveWorks
<1>5. CASE Decide(t)
  BY <1>5, DecideWorks
<1>6. CASE Allocate(t)
  BY <1>6, AllocateWorks
<1>7. CASE Commit(t)
  BY <1>7, CommitWorks DEF Commit
<1>8. CASE StatementFails(t)
  BY <1>8, StatementFailsWorks
<1>9. CASE CommitLost(t)
  BY <1>9, CommitLostWorks
<1> QED
  BY <1>1, <1>2, <1>3, <1>4, <1>5, <1>6, <1>7, <1>8, <1>9 DEF LedgerStep

LEMMA BeginWorks ==
    ASSUME LocksInv, WorkInv, NEW t \in Tx, Begin(t)
    PROVE  WorkInv'
BY AttemptWorks DEF Begin

\* What a ledger step of t leaves of the others, and never takes back.
LEMMA StepShape ==
    ASSUME LocksInv, WorkInv, NEW t \in Tx, LedgerStep(t)
    PROVE  /\ tx[t].open /\ request' = request
           /\ \A u \in Tx \ {t} : /\ tx'[u] = tx[u] /\ answer'[u] = answer[u]
                                  /\ effects'[u] = effects[u]
           /\ \A u \in Tx : effects[u] = 1 => effects'[u] = 1
           /\ ledger'.open \subseteq ledger.open
<1>1. DOMAIN tx = Tx /\ DOMAIN answer = Tx /\ DOMAIN effects = Tx /\ LedgerShaped
  BY DEF LocksInv, WorkInv
<1>2. ledger' = Applied(t) => ledger'.open \subseteq ledger.open
  BY <1>1 DEF Applied, LedgerShaped
<1>3. /\ tx[t].open /\ request' = request
      /\ \A u \in Tx \ {t} : /\ tx'[u] = tx[u] /\ answer'[u] = answer[u]
                             /\ effects'[u] = effects[u]
      /\ ledger'.open \subseteq ledger.open
  <2>1. CASE Acquire(t)
    BY <1>1, <2>1 DEF Acquire, Wants, End
  <2>2. CASE Peek(t)
    BY <1>1, <2>2 DEF Peek, At
  <2>3. CASE LockCandidates(t)
    BY <1>1, <2>3 DEF LockCandidates, At
  <2>4. CASE CheckActive(t)
    BY <1>1, <2>4 DEF CheckActive, At, End
  <2>5. CASE Decide(t)
    <3>1. tx[t].open /\ UNCHANGED <<request, ledger, effects>>
      BY <2>5 DEF Decide, At
    <3>2. \/ \E x : tx' = [tx EXCEPT ![t] = x] /\ UNCHANGED answer
          \/ \E said : End(t, said)
      BY <2>5 DEF Decide
    <3> QED
      BY <1>1, <3>1, <3>2 DEF End
  <2>6. CASE Allocate(t)
    BY <1>1, <2>6 DEF Allocate, At
  <2>7. CASE Commit(t)
    BY <1>1, <1>2, <2>7 DEF Commit, ReadyToCommit, End
  <2>8. CASE StatementFails(t)
    BY <1>1, <2>8 DEF StatementFails, Fail, End
  <2>9. CASE CommitLost(t)
    BY <1>1, <1>2, <2>9 DEF CommitLost, ReadyToCommit, Fail, End
  <2> QED
    BY <2>1, <2>2, <2>3, <2>4, <2>5, <2>6, <2>7, <2>8, <2>9 DEF LedgerStep
<1>4. \A u \in Tx : effects[u] = 1 => effects'[u] = 1
  BY <1>3, OpenWork
<1> QED
  BY <1>3, <1>4

-----------------------------------------------------------------------------
(* The gate and the replies.                                               *)

\* The requests a gate is waiting for.
Waiters(p) == {t \in arrived : Via(t) = p /\ reply[t] = "none" /\ t \notin aborted}

\* The edge's own answers, before any work and in place of it.
EdgeAnswers ==
    {"NOT_READY", "SESSION_EXPIRED", "CANCEL_ONLY", "IDEMPOTENCY_CONFLICT", "NOT_FOUND",
     "QUOTE_CONSUMED", "QUOTE_EXPIRED", "INSUFFICIENT_AVAILABLE_CASH", "opened"}
Refusals == {"CANCEL_ONLY", "ACCOUNT_READ_ONLY"}

\* Another command under t's key and of its body took effect.
Behind(t) ==
    \E u \in Tx : effects[u] = 1 /\ ReplayOf(t, u)

\* t follows u: they await one promise and get one answer.
Follows(t, u) ==
    /\ u \in Tx /\ leader[u] = u /\ Via(u) = Via(t) /\ reply[t] = reply[u]
    /\ t # u => /\ Keyed(request[t]) /\ Keyed(request[u]) /\ request[t].header = request[u].header
                /\ CanonicalRequestHash(request[t]) = CanonicalRequestHash(request[u])

RequestSound(t) ==
    /\ t \in arrived => FromClient(request[t])
    /\ t \notin arrived => leader[t] = Nobody /\ reply[t] = "none"
    /\ FromClient(request[t]) /\ leader[t] # t => ~tx[t].open /\ answer[t] = "none"
    /\ FromClient(request[t]) /\ reply[t] # "none" => ~tx[t].open
    /\ leader[t] # Nobody => Follows(t, leader[t])
    /\ leader[t] = t /\ reply[t] # "none" =>
          reply[t] = answer[t] \/ (answer[t] = "none" /\ reply[t] \in Refusals)
    /\ leader[t] = Nobody /\ reply[t] # "none" =>
          reply[t] \in EdgeAnswers \/ (reply[t] = "replayed" /\ Behind(t))

GatesSound ==
    /\ DOMAIN gate = Processes
    /\ \A p \in Processes : Counted(gate[p]) /\ gate[p].admitted = Waiters(p)

EdgeInv ==
    /\ LocksInv /\ WorkInv
    /\ arrived \subseteq Tx /\ IsFiniteSet(arrived) /\ aborted \subseteq arrived
    /\ DOMAIN leader = Tx /\ DOMAIN reply = Tx
    /\ \A t \in Tx : RequestSound(t)
    /\ GatesSound

\* The requests answered with t.
Sharing(t) == {t} \cup {u \in Tx : leader[u] = t /\ reply[u] = "none"}

LEMMA SendReplies ==
    ASSUME DOMAIN reply = Tx, NEW t, NEW code, Send(t, code)
    PROVE  /\ DOMAIN reply' = Tx
           /\ \A u \in Tx : reply'[u] = IF u \in Sharing(t) THEN code ELSE reply[u]
           /\ gate' = [gate EXCEPT ![Via(t)] = Settled(gate[Via(t)], Sharing(t), code)]
BY DEF Send, Sharing, Settled

\* Those that share a promise came in through one process.
LEMMA SharingIs ==
    ASSUME EdgeInv, NEW t \in Tx
    PROVE  /\ IsFiniteSet(Sharing(t)) /\ Sharing(t) \subseteq arrived \cup {t}
           /\ t \in Sharing(t)
           /\ \A u \in Sharing(t) : u \in Tx /\ Via(u) = Via(t)
           /\ \A u \in Sharing(t) \ {t} : leader[u] = t /\ reply[u] = "none"
           /\ leader[t] = Nobody => Sharing(t) = {t}
<1>1. Nobody # t
  BY EdgeAssumption
<1>2. ASSUME NEW u \in Tx, leader[u] = t
      PROVE  u \in arrived /\ Via(u) = Via(t) /\ leader[t] = t
  BY <1>1, <1>2 DEF EdgeInv, RequestSound, Follows
<1>3. Sharing(t) \subseteq arrived \cup {t}
  BY <1>2 DEF Sharing
<1>4. IsFiniteSet(arrived \cup {t})
  BY FS_AddElement DEF EdgeInv
<1>5. IsFiniteSet(Sharing(t))
  BY <1>3, <1>4, FS_Subset
<1> QED
  BY <1>1, <1>2, <1>3, <1>5 DEF Sharing

\* Answering settles every one of them at the gate, and nobody else.
LEMMA SendGates ==
    ASSUME EdgeInv, NEW t \in Tx, NEW code, code # "none", Send(t, code),
           request' = request, aborted' = aborted, arrived' = arrived \cup (arrived' \cap {t})
    PROVE  GatesSound'
<1> DEFINE G == Sharing(t)
<1>1. DOMAIN gate = Processes /\ \A p \in Processes : Counted(gate[p]) /\ gate[p].admitted = Waiters(p)
  BY DEF EdgeInv, GatesSound
<1>2. /\ IsFiniteSet(G) /\ t \in G /\ \A u \in G : Via(u) = Via(t)
  BY SharingIs
<1>3. /\ \A u \in Tx : reply'[u] = IF u \in G THEN code ELSE reply[u]
      /\ gate' = [gate EXCEPT ![Via(t)] = Settled(gate[Via(t)], G, code)]
  BY SendReplies DEF EdgeInv
<1> HIDE DEF G
<1>4. ASSUME NEW p \in Processes PROVE Waiters(p)' = Waiters(p) \ G
  <2>1. arrived \subseteq Tx /\ arrived' \subseteq arrived \cup {t} /\ arrived \subseteq arrived'
    BY DEF EdgeInv
  <2>2. \A u : Via(u)' = Via(u)
    BY DEF Via
  <2> QED
    BY <1>2, <1>3, <2>1, <2>2 DEF Waiters
<1>5. ASSUME NEW p \in Processes PROVE Counted(gate'[p]) /\ gate'[p].admitted = Waiters(p) \ G
  <2>1. CASE p = Via(t)
    <3>1. gate'[p] = Settled(gate[p], G, code)
      BY <1>1, <1>3, <2>1
    <3>2. gate'[p] = Without(gate[p], G)
      BY <1>1, <1>2, <3>1, SettleAll
    <3>3. /\ Counted(Without(gate[p], G))
          /\ Without(gate[p], G).admitted = gate[p].admitted \ G
      BY <1>1, WithoutCounted
    <3> QED
      BY <1>1, <3>2, <3>3
  <2>2. CASE p # Via(t)
    <3>1. gate'[p] = gate[p]
      BY <1>1, <1>3, <2>2
    <3>2. Waiters(p) \ G = Waiters(p)
      BY <1>2, <2>2 DEF Waiters
    <3> QED
      BY <1>1, <3>1, <3>2
  <2> QED
    BY <2>1, <2>2
<1>6. DOMAIN gate' = Processes
  BY <1>1, <1>3
<1> QED
  BY <1>4, <1>5, <1>6 DEF GatesSound

LEMMA StillVars ==
    ASSUME EdgeInv, UNCHANGED vars
    PROVE  LocksInv' /\ WorkInv'
<1>1. LocksInv'
  BY NextKeeps DEF EdgeInv
<1>2. WorkInv'
  BY DEF EdgeInv, vars, WorkInv, RowsExplained, OncePerKey
<1> QED
  BY <1>1, <1>2

\* A request that nobody leads is answered at the edge.
LEMMA AnswerKeeps ==
    ASSUME EdgeInv, NEW t \in Tx, NEW code, Send(t, code), UNCHANGED <<vars, leader, aborted>>,
           leader[t] = Nobody, FromClient(request[t]), arrived' = arrived \cup {t},
           code \in EdgeAnswers \/ (code = "replayed" /\ Behind(t))
    PROVE  EdgeInv'
<1>1. code # "none" /\ Nobody # t
  BY EdgeAssumption DEF EdgeAnswers
<1>2. UNCHANGED <<request, tx, answer, ledger, effects, leader, aborted>>
  BY DEF vars
<1>3. GatesSound'
  BY <1>1, <1>2, SendGates
<1>4. DOMAIN reply' = Tx /\ reply'[t] = code /\ \A u \in Tx \ {t} : reply'[u] = reply[u]
  BY SendReplies, SharingIs DEF EdgeInv
<1>5. IsFiniteSet(arrived') /\ arrived' \subseteq Tx /\ aborted' \subseteq arrived'
  BY <1>2, FS_AddElement DEF EdgeInv
<1>6. \A u : Behind(u)' <=> Behind(u)
  BY <1>2 DEF Behind, ReplayOf, Via
<1>7. RequestSound(t)'
  <2>1. RequestSound(t)
    BY DEF EdgeInv
  <2>2. Behind(t)' <=> Behind(t)
    BY <1>6
  <2> QED
    BY <1>1, <1>2, <1>4, <2>1, <2>2 DEF RequestSound
<1>8. ASSUME NEW u \in Tx \ {t} PROVE RequestSound(u)'
  <2>1. RequestSound(u)
    BY DEF EdgeInv
  <2>2. leader[u] # Nobody => leader[u] # t /\ leader[u] \in Tx
    BY <1>1, <2>1 DEF RequestSound, Follows
  <2>3. leader[u] # Nobody => Follows(u, leader[u])'
    BY <1>2, <1>4, <2>1, <2>2 DEF RequestSound, Follows, Via
  <2>4. Behind(u)' <=> Behind(u)
    BY <1>6
  <2> QED
    BY <1>2, <1>4, <2>1, <2>3, <2>4 DEF RequestSound
<1> QED
  BY <1>2, <1>3, <1>4, <1>5, <1>7, <1>8, StillVars DEF EdgeInv

\* Nothing changes but the gate.
LEMMA GateKeeps ==
    ASSUME EdgeInv, UNCHANGED <<vars, arrived, leader, reply>>, aborted' \subseteq arrived,
           GatesSound'
    PROVE  EdgeInv'
<1>1. UNCHANGED <<request, tx, answer, ledger, effects>>
  BY DEF vars
<1>2. ASSUME NEW u \in Tx PROVE RequestSound(u)'
  <2>1. RequestSound(u)
    BY DEF EdgeInv
  <2>2. Behind(u)' <=> Behind(u)
    BY <1>1 DEF Behind, ReplayOf, Via
  <2>3. leader[u] # Nobody => Follows(u, leader[u])'
    BY <1>1, <2>1 DEF RequestSound, Follows, Via
  <2> QED
    BY <1>1, <2>1, <2>2, <2>3 DEF RequestSound
<1> QED
  BY <1>2, StillVars DEF EdgeInv

\* The closed-check and the count are one hook.
LEMMA ArriveKeeps ==
    ASSUME EdgeInv, NEW t \in Tx, Arrive(t)
    PROVE  EdgeInv'
<1>1. /\ FromClient(request[t]) /\ t \notin arrived /\ arrived' = arrived \cup {t}
      /\ UNCHANGED <<vars, leader, aborted>> /\ leader[t] = Nobody /\ reply[t] = "none"
      /\ t \notin aborted
  BY DEF Arrive, EdgeInv, RequestSound
<1>2. CASE gate[Via(t)].closed
  <2>1. Send(t, "NOT_READY")
    BY <1>2 DEF Arrive
  <2> QED
    BY <1>1, <2>1, AnswerKeeps DEF EdgeAnswers
<1>3. CASE ~gate[Via(t)].closed
  <2> DEFINE v == Via(t)
             a == gate[v].admitted \cup {t}
             n == gate[v].inFlight + 1
  <2>1. /\ UNCHANGED <<request, tx, answer, ledger, effects, reply, leader, aborted>>
        /\ gate' = [gate EXCEPT ![v] = [gate[v] EXCEPT !.inFlight = n, !.admitted = a]]
    BY <1>1, <1>3 DEF Arrive, vars
  <2>2. DOMAIN gate = Processes /\ \A p \in Processes : Counted(gate[p]) /\ gate[p].admitted = Waiters(p)
    BY DEF EdgeInv, GatesSound
  <2>3. ASSUME NEW p \in Processes
        PROVE  Counted(gate'[p]) /\ gate'[p].admitted = Waiters(p)'
    <3>1. Waiters(p)' = IF p = v THEN Waiters(p) \cup {t} ELSE Waiters(p)
      BY <1>1, <2>1 DEF Waiters, Via
    <3>2. CASE p = v
      <4>1. gate'[p] = [gate[p] EXCEPT !.inFlight = n, !.admitted = a]
        BY <2>1, <2>2, <3>2
      <4>2. gate[p] \in Gates /\ IsFiniteSet(gate[p].admitted)
            /\ gate[p].inFlight = Cardinality(gate[p].admitted) /\ t \notin gate[p].admitted
        BY <1>1, <2>2 DEF Counted, Waiters
      <4>3. IsFiniteSet(a) /\ n = Cardinality(a)
        BY <3>2, <4>2, FS_AddElement
      <4>4. a \in SUBSET Tx /\ n \in Int
        BY <3>2, <4>2 DEF Gates
      <4>5. gate'[p] = [gate[p] EXCEPT !.admitted = a, !.inFlight = n]
        BY <4>1
      <4> HIDE DEF a, n
      <4>6. /\ gate'[p] \in Gates /\ gate'[p].admitted = a /\ gate'[p].inFlight = n
        BY <4>2, <4>4, <4>5, GateChange, Zenon DEF Gates
      <4>7. Counted(gate'[p])
        BY <4>3, <4>6 DEF Counted
      <4> QED
        BY <2>2, <3>1, <3>2, <4>6, <4>7 DEF a
    <3>3. CASE p # v
      <4>1. gate'[p] = gate[p]
        BY <2>1, <2>2, <3>3
      <4> QED
        BY <2>2, <3>1, <3>3, <4>1
    <3> QED
      BY <3>2, <3>3
  <2>4. GatesSound'
    BY <2>1, <2>2, <2>3 DEF GatesSound
  <2>5. ASSUME NEW u \in Tx PROVE RequestSound(u)'
    <3>1. RequestSound(u)
      BY DEF EdgeInv
    <3>2. Behind(u)' <=> Behind(u)
      BY <2>1 DEF Behind, ReplayOf, Via
    <3>3. leader[u] # Nobody => Follows(u, leader[u])'
      BY <2>1, <3>1 DEF RequestSound, Follows, Via
    <3> QED
      BY <1>1, <2>1, <3>1, <3>2, <3>3 DEF RequestSound
  <2>6. IsFiniteSet(arrived') /\ arrived' \subseteq Tx /\ aborted' \subseteq arrived'
    BY <1>1, FS_AddElement DEF EdgeInv
  <2> QED
    BY <1>1, <2>1, <2>4, <2>5, <2>6, StillVars DEF EdgeInv
<1> QED
  BY <1>2, <1>3

\* A client that hangs up is counted off, once.
LEMMA AbortKeeps ==
    ASSUME EdgeInv, NEW t \in Tx, Abort(t)
    PROVE  EdgeInv'
<1>1. /\ t \in arrived /\ reply[t] = "none" /\ t \notin aborted /\ aborted' = aborted \cup {t}
      /\ gate' = [gate EXCEPT ![Via(t)] = Settle(gate[Via(t)], t)]
      /\ UNCHANGED <<vars, arrived, leader, reply>>
  BY DEF Abort, Running
<1>2. DOMAIN gate = Processes /\ \A p \in Processes : Counted(gate[p]) /\ gate[p].admitted = Waiters(p)
  BY DEF EdgeInv, GatesSound
<1>3. UNCHANGED request
  BY <1>1 DEF vars
<1>4. ASSUME NEW p \in Processes
      PROVE  Counted(gate'[p]) /\ gate'[p].admitted = Waiters(p)'
  <2>1. Waiters(p)' = Waiters(p) \ {t}
    BY <1>1, <1>3 DEF Waiters, Via
  <2>2. CASE p = Via(t)
    <3>1. gate'[p] = Without(gate[p], {t})
      BY <1>1, <1>2, <2>2, SettleIs
    <3>2. /\ Counted(Without(gate[p], {t}))
          /\ Without(gate[p], {t}).admitted = gate[p].admitted \ {t}
      BY <1>2, WithoutCounted
    <3> QED
      BY <1>2, <2>1, <3>1, <3>2
  <2>3. CASE p # Via(t)
    <3>1. gate'[p] = gate[p] /\ t \notin Waiters(p)
      BY <1>1, <1>2, <2>3 DEF Waiters
    <3> QED
      BY <1>2, <2>1, <3>1
  <2> QED
    BY <2>2, <2>3
<1>5. GatesSound'
  BY <1>1, <1>2, <1>4 DEF GatesSound
<1> QED
  BY <1>1, <1>5, GateKeeps DEF EdgeInv

LEMMA CloseGateKeeps ==
    ASSUME EdgeInv, NEW p \in Processes, CloseGate(p)
    PROVE  EdgeInv'
<1>1. /\ gate' = [gate EXCEPT ![p] = [gate[p] EXCEPT !.closed = TRUE]]
      /\ UNCHANGED <<vars, arrived, leader, reply, aborted>>
  BY DEF CloseGate
<1>2. DOMAIN gate = Processes /\ \A q \in Processes : Counted(gate[q]) /\ gate[q].admitted = Waiters(q)
  BY DEF EdgeInv, GatesSound
<1>3. UNCHANGED request
  BY <1>1 DEF vars
<1>4. ASSUME NEW q \in Processes
      PROVE  Counted(gate'[q]) /\ gate'[q].admitted = Waiters(q)'
  <2>1. Waiters(q)' = Waiters(q)
    BY <1>1, <1>3 DEF Waiters, Via
  <2>2. CASE q = p
    <3>1. gate[q] \in Gates
      BY <1>2 DEF Counted
    <3>2. gate'[q] = [gate[q] EXCEPT !.closed = TRUE]
      BY <1>1, <1>2, <2>2
    <3>3. /\ gate'[q] \in Gates /\ gate'[q].admitted = gate[q].admitted
          /\ gate'[q].inFlight = gate[q].inFlight
      BY <3>1, <3>2 DEF Gates
    <3> QED
      BY <1>2, <2>1, <3>3 DEF Counted
  <2>3. CASE q # p
    <3>1. gate'[q] = gate[q]
      BY <1>1, <1>2, <2>3
    <3> QED
      BY <1>2, <2>1, <3>1
  <2> QED
    BY <2>2, <2>3
<1>5. GatesSound'
  BY <1>1, <1>2, <1>4 DEF GatesSound
<1> QED
  BY <1>1, <1>5, GateKeeps DEF EdgeInv

-----------------------------------------------------------------------------
(* From the session check to the transaction.                              *)

\* A request nobody leads leads nobody.
LEMMA LeadsNobody ==
    ASSUME EdgeInv, NEW t \in Tx, leader[t] = Nobody, NEW u \in Tx \ {t}
    PROVE  leader[u] # t /\ (leader[u] # Nobody => leader[u] \in Tx)
<1>1. Nobody # t
  BY EdgeAssumption
<1> QED
  BY <1>1 DEF EdgeInv, RequestSound, Follows

\* The others of a step that gives t a leader, and perhaps a reply.
LEMMA OthersKeep ==
    ASSUME EdgeInv, NEW t \in Tx, leader[t] = Nobody, NEW v, leader' = [leader EXCEPT ![t] = v],
           UNCHANGED <<request, answer, effects, arrived>>, DOMAIN reply' = Tx,
           \A u \in Tx \ {t} : tx'[u] = tx[u] /\ reply'[u] = reply[u],
           NEW u \in Tx \ {t}
    PROVE  RequestSound(u)'
<1>1. RequestSound(u) /\ DOMAIN leader = Tx
  BY DEF EdgeInv
<1>2. leader'[u] = leader[u] /\ leader[u] # t
  BY <1>1, LeadsNobody
<1>3. leader[u] # Nobody => /\ leader[u] \in Tx \ {t} /\ leader'[leader[u]] = leader[leader[u]]
                            /\ reply'[leader[u]] = reply[leader[u]]
  BY <1>1, <1>2, LeadsNobody
<1>4. leader[u] # Nobody => Follows(u, leader[u])'
  BY <1>1, <1>2, <1>3 DEF RequestSound, Follows, Via
<1>5. Behind(u)' <=> Behind(u)
  BY DEF Behind, ReplayOf, Via
<1> QED
  BY <1>1, <1>2, <1>4, <1>5 DEF RequestSound

LEMMA StartWorkKeeps ==
    ASSUME EdgeInv, NEW t \in Tx, Running(t), leader[t] = Nobody, StartWork(t),
           UNCHANGED <<arrived, aborted>>
    PROVE  EdgeInv'
<1>1. /\ Begin(t) /\ leader' = [leader EXCEPT ![t] = t] /\ UNCHANGED <<reply, gate>>
      /\ t \in arrived /\ reply[t] = "none" /\ FromClient(request[t])
  BY DEF StartWork, Lead, Running, EdgeInv, RequestSound
<1>2. UNCHANGED <<request, answer, ledger, effects>> /\ tx' = [tx EXCEPT ![t] = Attempt(t, 1)]
  BY <1>1 DEF Begin
<1>3. LocksInv' /\ WorkInv'
  BY <1>1, <1>2, AttemptKeeps, BeginWorks DEF EdgeInv
<1>4. \A u \in Tx \ {t} : tx'[u] = tx[u] /\ reply'[u] = reply[u]
  BY <1>1, <1>2 DEF EdgeInv, LocksInv
<1>5. DOMAIN leader' = Tx /\ DOMAIN reply' = Tx
  BY <1>1 DEF EdgeInv
<1>6. ASSUME NEW u \in Tx \ {t} PROVE RequestSound(u)'
  BY <1>1, <1>2, <1>4, <1>5, OthersKeep
<1>7. RequestSound(t)'
  <2>1. leader'[t] = t /\ t # Nobody /\ reply'[t] = "none"
    BY <1>1, EdgeAssumption DEF EdgeInv
  <2>2. Follows(t, t)'
    BY <1>1, <2>1 DEF Follows, Via
  <2> QED
    BY <1>1, <1>2, <2>1, <2>2 DEF RequestSound
<1>8. GatesSound'
  <2>1. \A p : Waiters(p)' = Waiters(p)
    BY <1>1, <1>2 DEF Waiters, Via
  <2> QED
    BY <1>1, <2>1 DEF EdgeInv, GatesSound
<1> QED
  BY <1>3, <1>5, <1>6, <1>7, <1>8 DEF EdgeInv

\* The reply to a request that gets its leader with it.
LEMMA LedReplyKeeps ==
    ASSUME EdgeInv, NEW t \in Tx, Running(t), leader[t] = Nobody,
           NEW v, leader' = [leader EXCEPT ![t] = v],
           UNCHANGED <<vars, arrived, aborted>>,
           \/ UNCHANGED <<reply, gate>>
           \/ \E code : code # "none" /\ Send(t, code),
           RequestSound(t)'
    PROVE  EdgeInv'
<1>1. UNCHANGED <<request, tx, answer, ledger, effects>>
  BY DEF vars
<1>2. LocksInv' /\ WorkInv'
  BY StillVars
<1>3. DOMAIN leader' = Tx
  BY DEF EdgeInv
<1>4. /\ DOMAIN reply' = Tx /\ \A u \in Tx \ {t} : reply'[u] = reply[u]
      /\ GatesSound'
  <2>1. CASE UNCHANGED <<reply, gate>>
    <3>1. \A p : Waiters(p)' = Waiters(p)
      BY <1>1, <2>1 DEF Waiters, Via
    <3> QED
      BY <2>1, <3>1 DEF EdgeInv, GatesSound
  <2>2. CASE \E code : code # "none" /\ Send(t, code)
    <3>1. PICK code : code # "none" /\ Send(t, code)
      BY <2>2
    <3>2. GatesSound'
      BY <1>1, <3>1, SendGates
    <3> QED
      BY <3>1, <3>2, SendReplies, SharingIs DEF EdgeInv
  <2> QED
    BY <2>1, <2>2
<1>5. ASSUME NEW u \in Tx \ {t} PROVE RequestSound(u)'
  BY <1>1, <1>4, OthersKeep
<1> QED
  BY <1>2, <1>3, <1>4, <1>5 DEF EdgeInv

LEMMA RefusedKeeps ==
    ASSUME EdgeInv, NEW t \in Tx, Running(t), leader[t] = Nobody, Lead(t),
           NEW code \in Refusals, Send(t, code), UNCHANGED <<vars, arrived, aborted>>
    PROVE  EdgeInv'
<1>1. UNCHANGED <<request, tx, answer, ledger, effects>> /\ code # "none"
  BY DEF vars, Refusals
<1>2. leader' = [leader EXCEPT ![t] = t] /\ leader'[t] = t /\ t # Nobody
  BY EdgeAssumption DEF Lead, EdgeInv
<1>3. reply'[t] = code /\ t \in Tx
  BY SendReplies, SharingIs DEF EdgeInv
<1>4. RequestSound(t)'
  <2>1. Follows(t, t)'
    BY <1>2, <1>3 DEF Follows, Via
  <2>2. RequestSound(t) /\ t \in arrived
    BY DEF EdgeInv, Running
  <2> QED
    BY <1>1, <1>2, <1>3, <2>1, <2>2 DEF RequestSound
<1> QED
  BY <1>1, <1>2, <1>4, LedReplyKeeps

\* A request with the key and the body of an earlier one awaits its promise.
LEMMA ShareKeeps ==
    ASSUME EdgeInv, NEW t \in Tx, Running(t), leader[t] = Nobody, Keyed(request[t]),
           NEW u \in Entry(t), ShareOrConflict(t, u), UNCHANGED <<arrived, aborted>>
    PROVE  EdgeInv'
<1>1. /\ t \in arrived /\ reply[t] = "none" /\ FromClient(request[t]) /\ RequestSound(t)
  BY DEF Running, EdgeInv, RequestSound
<1>2. /\ u \in Tx /\ leader[u] = u /\ Keyed(request[u]) /\ Via(u) = Via(t)
      /\ request[u].header = request[t].header /\ u # t
  BY EdgeAssumption DEF Entry
<1>3. CASE CanonicalRequestHash(request[u]) /= CanonicalRequestHash(request[t])
  <2>1. Send(t, "IDEMPOTENCY_CONFLICT") /\ UNCHANGED <<vars, leader>>
    BY <1>3 DEF ShareOrConflict, Answer
  <2>2. arrived' = arrived \cup {t}
    BY <1>1
  <2> QED
    BY <1>1, <2>1, <2>2, AnswerKeeps DEF EdgeAnswers
<1>4. CASE CanonicalRequestHash(request[u]) = CanonicalRequestHash(request[t])
  <2>1. /\ leader' = [leader EXCEPT ![t] = u] /\ UNCHANGED vars
        /\ IF reply[u] = "none" THEN UNCHANGED <<reply, gate>> ELSE Send(t, reply[u])
    BY <1>4 DEF ShareOrConflict
  <2>2. UNCHANGED <<request, tx, answer, ledger, effects>>
    BY <2>1 DEF vars
  <2>3. leader'[t] = u /\ leader'[u] = u /\ u # Nobody
    BY <1>2, <2>1, EdgeAssumption DEF EdgeInv
  <2>4. reply'[t] = reply[u] /\ reply'[u] = reply[u]
    <3>1. CASE reply[u] = "none"
      BY <1>1, <2>1, <3>1
    <3>2. CASE reply[u] # "none"
      BY <1>2, <2>1, <3>2, SendReplies, SharingIs DEF EdgeInv
    <3> QED
      BY <3>1, <3>2
  <2>5. Follows(t, u)'
    BY <1>2, <1>4, <2>2, <2>3, <2>4, Zenon DEF Follows, Via
  <2>6. RequestSound(t)'
    <3>1. ~tx'[t].open /\ answer'[t] = "none" /\ t \in arrived' /\ FromClient(request'[t])
      BY <1>1, <2>2, EdgeAssumption DEF RequestSound
    <3>2. Follows(t, leader[t])'
      BY <2>3, <2>5 DEF Follows, Via
    <3> QED
      BY <1>2, <2>3, <3>1, <3>2 DEF RequestSound
  <2>7. UNCHANGED <<reply, gate>> \/ \E code : code # "none" /\ Send(t, code)
    BY <2>1
  <2> QED
    BY <2>1, <2>6, <2>7, LedReplyKeeps
<1> QED
  BY <1>3, <1>4

\* A receipt is of a conversion that took effect.
LEMMA ReceiptIsBehind ==
    ASSUME EdgeInv, NEW t \in Tx, request[t].kind = "convert", HasReceipt(t)
    PROVE  Behind(t)
<1>1. PICK u \in Tx : /\ request[u].kind = "convert" /\ answer[u] = "done"
                      /\ request[u].header = request[t].header
  BY DEF HasReceipt, Converted
<1>2. effects[u] = 1
  BY <1>1 DEF EdgeInv, WorkInv, Worked, AnswerTrue
<1> QED
  BY <1>1, <1>2 DEF Behind, ReplayOf

LEMMA DispatchKeeps ==
    ASSUME EdgeInv, NEW t \in Tx, Dispatch(t)
    PROVE  EdgeInv'
<1> DEFINE r == request[t]
<1>1. /\ Running(t) /\ leader[t] = Nobody /\ UNCHANGED <<arrived, aborted>>
      /\ t \in arrived /\ FromClient(r) /\ arrived' = arrived \cup {t}
  BY DEF Dispatch, Running, EdgeInv, RequestSound
<1>2. ASSUME NEW code, Answer(t, code),
             code \in EdgeAnswers \/ (code = "replayed" /\ Behind(t))
      PROVE  EdgeInv'
  BY <1>1, <1>2, AnswerKeeps DEF Answer
<1>3. ASSUME StartWork(t) PROVE EdgeInv'
  BY <1>1, <1>3, StartWorkKeeps
<1>4. CASE r.kind = "touch"
  <2>1. StartWork(t) \/ Answer(t, "opened")
    BY <1>4 DEF Dispatch, StartTouch, Keyed
  <2> QED
    BY <1>2, <1>3, <2>1 DEF EdgeAnswers
<1>5. CASE r.kind /= "touch" /\ ~Authenticated
  <2>1. Answer(t, "SESSION_EXPIRED")
    BY <1>5 DEF Dispatch
  <2> QED
    BY <1>2, <2>1 DEF EdgeAnswers
<1>6. CASE r.kind = "convert" /\ Authenticated
  <2>1. StartConversion(t)
    BY <1>6 DEF Dispatch, Keyed
  <2>2. \/ \E code \in EdgeAnswers : Answer(t, code)
        \/ HasReceipt(t) /\ Answer(t, "replayed")
        \/ StartWork(t)
    BY <2>1 DEF StartConversion, EdgeAnswers
  <2>3. HasReceipt(t) => Behind(t)
    BY <1>6, ReceiptIsBehind
  <2> QED
    BY <1>2, <1>3, <2>2, <2>3
<1>7. CASE Keyed(r) /\ Authenticated
  <2>1. CASE Entry(t) = {}
    <3>1. \/ StartWork(t)
          \/ /\ Lead(t) /\ UNCHANGED vars
             /\ \E code \in Refusals : Send(t, code)
      BY <1>7, <2>1 DEF Dispatch, StartOrder, Keyed, Refusals
    <3> QED
      BY <1>1, <1>3, <3>1, RefusedKeeps
  <2>2. CASE Entry(t) # {}
    <3>1. PICK u \in Entry(t) : ShareOrConflict(t, u)
      BY <1>7, <2>2 DEF Dispatch, Keyed
    <3> QED
      BY <1>1, <1>7, <3>1, ShareKeeps
  <2> QED
    BY <2>1, <2>2
<1> QED
  BY <1>1, <1>4, <1>5, <1>6, <1>7 DEF FromClient, Keyed

\* A callback of the engine is nothing to the edge.
LEMMA CallbackKeeps ==
    ASSUME EdgeInv, NEW t \in Tx, BeginCallback(t)
    PROVE  EdgeInv'
<1>1. /\ ~FromClient(request[t]) /\ Begin(t) /\ UNCHANGED edge
      /\ UNCHANGED <<request, answer, ledger, effects>> /\ tx' = [tx EXCEPT ![t] = Attempt(t, 1)]
      /\ UNCHANGED <<gate, arrived, leader, reply, aborted>>
  BY DEF BeginCallback, Begin, edge
<1>2. LocksInv' /\ WorkInv'
  BY <1>1, AttemptKeeps, BeginWorks DEF EdgeInv
<1>3. \A u \in Tx \ {t} : tx'[u] = tx[u]
  BY <1>1
<1>4. ASSUME NEW u \in Tx PROVE RequestSound(u)'
  <2>1. RequestSound(u)
    BY DEF EdgeInv
  <2>2. Behind(u)' <=> Behind(u)
    BY <1>1 DEF Behind, ReplayOf, Via
  <2>3. leader[u] # Nobody => Follows(u, leader[u])'
    BY <1>1, <2>1 DEF RequestSound, Follows, Via
  <2>4. FromClient(request[u]) => tx'[u] = tx[u]
    BY <1>1, <1>3
  <2> QED
    BY <1>1, <2>1, <2>2, <2>3, <2>4 DEF RequestSound
<1>5. GatesSound'
  <2>1. \A p : Waiters(p)' = Waiters(p)
    BY <1>1 DEF Waiters, Via
  <2> QED
    BY <1>1, <2>1 DEF EdgeInv, GatesSound
<1> QED
  BY <1>1, <1>2, <1>4, <1>5 DEF EdgeInv

\* What every ledger step leaves true of the requests.
LEMMA StepFacts ==
    ASSUME EdgeInv, NEW t \in Tx, LedgerStep(t)
    PROVE  /\ LocksInv' /\ WorkInv' /\ tx[t].open /\ request' = request
           /\ \A u \in Tx \ {t} : tx'[u] = tx[u] /\ answer'[u] = answer[u]
           /\ \A u \in Tx : Behind(u) => Behind(u)'
           /\ FromClient(request[t]) => leader[t] = t /\ reply[t] = "none" /\ t \in arrived
           /\ answer'[t] # "none" => ~tx'[t].open
<1>1. LocksInv /\ WorkInv /\ RequestSound(t)
  BY DEF EdgeInv
<1>2. LocksInv'
  BY <1>1, NextKeeps DEF Next
<1>3. WorkInv'
  BY <1>1, LedgerStepWorks
<1>4. /\ tx[t].open /\ request' = request
      /\ \A u \in Tx \ {t} : tx'[u] = tx[u] /\ answer'[u] = answer[u]
      /\ \A u \in Tx : effects[u] = 1 => effects'[u] = 1
  BY <1>1, StepShape
<1>5. \A u \in Tx : Behind(u) => Behind(u)'
  BY <1>4 DEF Behind, ReplayOf, Via
<1>6. FromClient(request[t]) => leader[t] = t /\ reply[t] = "none" /\ t \in arrived
  BY <1>1, <1>4, EdgeAssumption DEF RequestSound
<1>7. answer'[t] # "none" => ~tx'[t].open
  BY <1>3 DEF WorkInv, Worked
<1> QED
  BY <1>2, <1>3, <1>4, <1>5, <1>6, <1>7

LEMMA QuietStepKeeps ==
    ASSUME EdgeInv, NEW t \in Tx, LedgerStep(t), UNCHANGED edge,
           answer'[t] = "none" \/ ~FromClient(request[t])
    PROVE  EdgeInv'
<1>1. UNCHANGED <<gate, arrived, leader, reply, aborted, request>>
  BY StepFacts DEF edge
<1>2. ASSUME NEW u \in Tx PROVE RequestSound(u)'
  <2>1. RequestSound(u)
    BY DEF EdgeInv
  <2>2. leader[u] # Nobody => Follows(u, leader[u])'
    BY <1>1, <2>1 DEF RequestSound, Follows, Via
  <2>3. CASE u # t
    BY <1>1, <2>1, <2>2, <2>3, StepFacts DEF RequestSound
  <2>4. CASE u = t
    BY <1>1, <2>1, <2>2, <2>4, StepFacts DEF RequestSound
  <2> QED
    BY <2>3, <2>4
<1>3. GatesSound'
  <2>1. \A p : Waiters(p)' = Waiters(p)
    BY <1>1 DEF Waiters, Via
  <2> QED
    BY <1>1, <2>1 DEF EdgeInv, GatesSound
<1> QED
  BY <1>1, <1>2, <1>3, StepFacts DEF EdgeInv

\* The work is done: its request and those that await its promise are answered.
LEMMA ReplyStepKeeps ==
    ASSUME EdgeInv, NEW t \in Tx, LedgerStep(t), FromClient(request[t]), answer'[t] # "none",
           Send(t, answer'[t]), UNCHANGED <<arrived, leader, aborted>>
    PROVE  EdgeInv'
<1> DEFINE G == Sharing(t)
           code == answer'[t]
<1>1. /\ request' = request /\ leader[t] = t /\ reply[t] = "none" /\ t \in arrived /\ ~tx'[t].open
      /\ tx[t].open
  BY StepFacts
<1>2. /\ t \in G /\ \A u \in G \ {t} : u \in Tx /\ leader[u] = t /\ reply[u] = "none"
      /\ G \subseteq Tx
  BY SharingIs
<1>3. DOMAIN reply' = Tx /\ \A u \in Tx : reply'[u] = IF u \in G THEN code ELSE reply[u]
  BY SendReplies DEF EdgeInv
<1>4. GatesSound'
  <2>1. arrived' = arrived \cup (arrived' \cap {t})
    OBVIOUS
  <2> QED
    BY <1>1, <2>1, SendGates
<1>5. \A u \in Tx : leader[u] = t <=> u \in G
  <2>1. ASSUME NEW u \in Tx, leader[u] = t PROVE u \in G
    <3>1. reply[u] = reply[t]
      BY <2>1, EdgeAssumption DEF EdgeInv, RequestSound, Follows
    <3> QED
      BY <1>1, <2>1, <3>1 DEF Sharing
  <2> QED
    BY <1>1, <1>2, <2>1
<1> HIDE DEF G, code
<1>6. RequestSound(t)'
  <2>1. reply'[t] = code /\ code # "none" /\ leader'[t] = t /\ t # Nobody
    BY <1>1, <1>2, <1>3, EdgeAssumption DEF code
  <2>2. Follows(t, leader[t])'
    BY <1>1, <2>1 DEF Follows, Via
  <2> QED
    BY <1>1, <2>1, <2>2 DEF RequestSound, code
<1>7. ASSUME NEW u \in Tx \ {t} PROVE RequestSound(u)'
  <2>1. RequestSound(u) /\ (Behind(u) => Behind(u)') /\ tx'[u] = tx[u] /\ answer'[u] = answer[u]
    BY StepFacts DEF EdgeInv
  <2>2. leader[u] # Nobody =>
          /\ leader[u] \in Tx /\ leader[leader[u]] = leader[u] /\ reply[u] = reply[leader[u]]
          /\ (u \in G <=> leader[u] \in G)
    BY <1>2, <1>5, <2>1 DEF RequestSound, Follows
  <2>3. leader[u] # Nobody => reply'[u] = reply'[leader[u]]
    BY <1>3, <2>2
  <2>4. leader[u] # Nobody => Follows(u, leader[u])'
    BY <1>1, <2>1, <2>2, <2>3 DEF RequestSound, Follows, Via
  <2>5. CASE u \in G
    <3>1. leader[u] = t /\ t # Nobody /\ u \in arrived
      BY <1>2, <2>1, <2>5, EdgeAssumption DEF RequestSound
    <3> QED
      BY <1>1, <2>1, <2>4, <3>1 DEF RequestSound
  <2>6. CASE u \notin G
    BY <1>1, <1>3, <2>1, <2>4, <2>6 DEF RequestSound
  <2> QED
    BY <2>5, <2>6
<1> QED
  BY <1>3, <1>4, <1>6, <1>7, StepFacts DEF EdgeInv

-----------------------------------------------------------------------------
(* The theorems.                                                           *)

LEMMA InitEdgeInv == EdgeInit => EdgeInv
<1> SUFFICES ASSUME EdgeInit PROVE EdgeInv
  OBVIOUS
<1>1. LocksInv /\ WorkInv
  BY InitLocksInv, InitWorkInv DEF EdgeInit
<1>2. /\ arrived = {} /\ aborted = {} /\ IsFiniteSet(arrived) /\ DOMAIN leader = Tx
      /\ DOMAIN reply = Tx /\ \A t \in Tx : leader[t] = Nobody /\ reply[t] = "none"
  BY FS_EmptySet DEF EdgeInit
<1>3. \A t \in Tx : ~tx[t].open /\ answer[t] = "none"
  BY DEF EdgeInit, Init, NoTx
<1>4. \A t \in Tx : RequestSound(t)
  BY <1>2, <1>3, EdgeAssumption DEF RequestSound
<1>5. ASSUME NEW p \in Processes PROVE Counted(gate[p]) /\ gate[p].admitted = Waiters(p)
  <2>1. gate[p] = [closed |-> FALSE, inFlight |-> 0, admitted |-> {}]
    BY DEF EdgeInit
  <2>2. Waiters(p) = {}
    BY <1>2 DEF Waiters
  <2>3. gate[p] \in Gates
    BY <2>1 DEF Gates
  <2>4. gate[p].inFlight = Cardinality({}) /\ IsFiniteSet({})
    BY <2>1, FS_EmptySet
  <2> QED
    BY <2>1, <2>2, <2>3, <2>4 DEF Counted
<1>6. GatesSound
  BY <1>5 DEF GatesSound, EdgeInit
<1> QED
  BY <1>1, <1>2, <1>4, <1>6 DEF EdgeInv

LEMMA EdgeNextKeeps == EdgeInv /\ [EdgeNext]_edgeVars => EdgeInv'
<1> SUFFICES ASSUME EdgeInv, [EdgeNext]_edgeVars PROVE EdgeInv'
  OBVIOUS
<1>1. CASE UNCHANGED edgeVars
  <2>1. UNCHANGED <<vars, gate, arrived, leader, reply, aborted, request>>
    BY <1>1 DEF edgeVars, edge, vars
  <2>2. GatesSound'
    <3>1. \A p : Waiters(p)' = Waiters(p)
      BY <2>1 DEF Waiters, Via
    <3> QED
      BY <2>1, <3>1 DEF EdgeInv, GatesSound
  <2> QED
    BY <2>1, <2>2, GateKeeps DEF EdgeInv
<1>2. ASSUME NEW t \in Tx, Arrive(t) PROVE EdgeInv'
  BY <1>2, ArriveKeeps
<1>3. ASSUME NEW t \in Tx, Abort(t) PROVE EdgeInv'
  BY <1>3, AbortKeeps
<1>4. ASSUME NEW t \in Tx, Dispatch(t) PROVE EdgeInv'
  BY <1>4, DispatchKeeps
<1>5. ASSUME NEW t \in Tx, BeginCallback(t) PROVE EdgeInv'
  BY <1>5, CallbackKeeps
<1>6. ASSUME NEW t \in Tx, LedgerStepOrReply(t) PROVE EdgeInv'
  BY <1>6, QuietStepKeeps, ReplyStepKeeps DEF LedgerStepOrReply
<1>7. ASSUME NEW p \in Processes, CloseGate(p) PROVE EdgeInv'
  BY <1>7, CloseGateKeeps
<1> QED
  BY <1>1, <1>2, <1>3, <1>4, <1>5, <1>6, <1>7 DEF EdgeNext

\* The gates count what they wait for, and every reply is of the request it
\* answers, of the one it shares the work of, or of the edge itself.
THEOREM EdgeInvariant == EdgeSpec => []EdgeInv
<1>1. EdgeInit => EdgeInv
  BY InitEdgeInv
<1>2. EdgeInv /\ [EdgeNext]_edgeVars => EdgeInv'
  BY EdgeNextKeeps
<1> QED
  BY <1>1, <1>2, PTL DEF EdgeSpec

\* The HTTP routes do nothing to the ledger but run its transactions: what
\* holds of LedgerLocks holds under the edge.
THEOREM EdgeImplementsLedger == EdgeSpec => Spec
<1>1. EdgeInit => Init
  BY DEF EdgeInit
<1>2. ASSUME EdgeInv, [EdgeNext]_edgeVars PROVE [Next]_vars
  <2>1. CASE UNCHANGED edgeVars
    BY <2>1 DEF edgeVars
  <2>2. ASSUME NEW t \in Tx, Arrive(t) PROVE UNCHANGED vars
    BY <2>2 DEF Arrive
  <2>3. ASSUME NEW t \in Tx, Abort(t) PROVE UNCHANGED vars
    BY <2>3 DEF Abort
  <2>4. ASSUME NEW t \in Tx, Dispatch(t) PROVE Begin(t) \/ UNCHANGED vars
    <3>1. FromClient(request[t]) /\ Running(t)
      BY <1>2, <2>4 DEF Dispatch, Running, EdgeInv, RequestSound
    <3>2. CASE request[t].kind = "touch"
      <4>1. StartTouch(t)
        BY <2>4, <3>2 DEF Dispatch, Keyed
      <4> QED
        BY <4>1 DEF StartTouch, StartWork, Answer
    <3>3. CASE request[t].kind # "touch" /\ ~Authenticated
      <4>1. Answer(t, "SESSION_EXPIRED")
        BY <2>4, <3>3 DEF Dispatch
      <4> QED
        BY <4>1 DEF Answer
    <3>4. CASE request[t].kind = "convert" /\ Authenticated
      <4>1. StartConversion(t)
        BY <2>4, <3>4 DEF Dispatch, Keyed
      <4> QED
        BY <4>1 DEF StartConversion, StartWork, Answer
    <3>5. CASE Keyed(request[t]) /\ Authenticated
      <4>1. StartOrder(t) \/ \E u \in Entry(t) : ShareOrConflict(t, u)
        BY <2>4, <3>5 DEF Dispatch, Keyed
      <4> QED
        BY <4>1 DEF StartOrder, StartWork, ShareOrConflict, Answer
    <3> QED
      BY <3>1, <3>2, <3>3, <3>4, <3>5 DEF FromClient, Keyed
  <2>5. ASSUME NEW t \in Tx, BeginCallback(t) PROVE Begin(t)
    BY <2>5 DEF BeginCallback
  <2>6. ASSUME NEW t \in Tx, LedgerStepOrReply(t) PROVE LedgerStep(t)
    BY <2>6 DEF LedgerStepOrReply
  <2>7. ASSUME NEW p \in Processes, CloseGate(p) PROVE UNCHANGED vars
    BY <2>7 DEF CloseGate
  <2> QED
    BY <1>2, <2>1, <2>2, <2>3, <2>4, <2>5, <2>6, <2>7 DEF EdgeNext, Next
<1> QED
  BY <1>1, <1>2, EdgeInvariant, PTL DEF EdgeSpec, Spec

\* Requests and engine callbacks never deadlock, under the edge as without it.
THEOREM NoDeadlockAtTheEdge == EdgeSpec => []NoWaitCycle
BY EdgeImplementsLedger, NoDeadlock, PTL

\* Decisions stand until they are committed, under the edge as without it.
THEOREM DecisionsHoldAtTheEdge == EdgeSpec => []DecisionsHold
BY EdgeImplementsLedger, DecisionsAlwaysHold, PTL

\* The lock-order guard refuses nothing, under the edge as without it.
THEOREM NeverTurnedAwayAtTheEdge == EdgeSpec => []NeverRefused
BY EdgeImplementsLedger, NeverTurnedAway, PTL

\* A closed gate that counts nothing in flight has no handler running but those
\* whose client hung up, whichever of the response, error and abort hooks
\* settled what (request-admission-gate.ts).
THEOREM DrainTellsTheTruth == EdgeSpec => []DrainedMeansDone
<1>1. EdgeInv => DrainedMeansDone
  <2> SUFFICES ASSUME EdgeInv, NEW p \in Processes, gate[p].inFlight = 0,
                      NEW t \in Tx, Running(t), Via(t) = p, t \notin aborted
               PROVE  FALSE
    BY DEF DrainedMeansDone
  <2>1. Counted(gate[p]) /\ gate[p].admitted = Waiters(p)
    BY DEF EdgeInv, GatesSound
  <2>2. t \in gate[p].admitted
    BY <2>1 DEF Waiters, Running
  <2>3. IsFiniteSet(gate[p].admitted) /\ Cardinality(gate[p].admitted) = 0
    BY <2>1 DEF Counted
  <2> QED
    BY <2>2, <2>3, FS_EmptySet
<1> QED
  BY <1>1, EdgeInvariant, PTL

\* The status of a reply.
LEMMA StatusOf ==
    ASSUME NEW t
    PROVE  /\ Status(t) \in {200, 201} <=> reply[t] \in {"done", "replayed", "terminal", "opened"}
           /\ Status(t) \in {401, 404, 409, 503} =>
                reply[t] \in ConflictCodes \cup {"SERVICE_UNAVAILABLE", "NOT_READY",
                                                 "SESSION_EXPIRED", "NOT_FOUND"}
<1>1. CASE reply[t] \in {"done", "replayed", "terminal", "opened"}
  BY <1>1 DEF Status
<1>2. CASE reply[t] \notin {"done", "replayed", "terminal", "opened"}
  <2>1. Status(t) \in {500, HttpStatusFor(reply[t])}
    BY <1>2 DEF Status
  <2>2. HttpStatusFor(reply[t]) \in {409, 503, 401, 404, 500}
    BY DEF HttpStatusFor, ConflictCodes
  <2>3. HttpStatusFor(reply[t]) # 500 =>
          reply[t] \in ConflictCodes \cup {"SERVICE_UNAVAILABLE", "NOT_READY",
                                           "SESSION_EXPIRED", "NOT_FOUND"}
    BY DEF HttpStatusFor
  <2> QED
    BY <1>2, <2>1, <2>2, <2>3
<1> QED
  BY <1>1, <1>2

\* What an answer of the ledger says of the request that did the work.
LEMMA WorkTellsTheTruth ==
    ASSUME EdgeInv, NEW w \in Tx, leader[w] = w, reply[w] # "none"
    PROVE  /\ reply[w] = "done" => effects[w] = 1
           /\ reply[w] = "terminal" => request[w].order \notin ledger.open
           /\ reply[w] = "replayed" => request[w].kind \in {"place", "oco"} /\ Behind(w)
           /\ reply[w] # "opened"
           /\ reply[w] \in ConflictCodes \cup {"SERVICE_UNAVAILABLE", "NOT_READY",
                                               "SESSION_EXPIRED", "NOT_FOUND"}
                => effects[w] = 0
<1>1. AnswerTrue(answer[w], effects[w], request[w], ledger)
  BY DEF EdgeInv, WorkInv, Worked
<1>2. reply[w] = answer[w] \/ (answer[w] = "none" /\ reply[w] \in Refusals)
  BY DEF EdgeInv, RequestSound
<1>3. CASE reply[w] = answer[w]
  <2>1. reply[w] = "replayed" => Behind(w)
    <3> SUFFICES ASSUME reply[w] = "replayed" PROVE Behind(w)
      OBVIOUS
    <3>1. Stored(request[w]) \in ledger.completed
      BY <1>1, <1>3 DEF AnswerTrue
    <3>2. PICK u \in Tx : effects[u] = 1 /\ Stored(request[u]) = Stored(request[w])
      BY <3>1 DEF EdgeInv, WorkInv, RowsExplained
    <3>3. /\ request[u].key = request[w].key
          /\ CanonicalRequestHash(request[u]) = CanonicalRequestHash(request[w])
      BY <3>2 DEF Stored
    <3>4. request[w].kind # "convert"
      BY <1>1, <1>3 DEF AnswerTrue
    <3> QED
      BY <3>2, <3>3, <3>4 DEF Behind, ReplayOf
  <2> QED
    BY <1>1, <1>3, <2>1 DEF AnswerTrue, Denials, ConflictCodes, Stores
<1>4. CASE answer[w] = "none" /\ reply[w] \in Refusals
  BY <1>1, <1>4 DEF AnswerTrue, Refusals
<1> QED
  BY <1>2, <1>3, <1>4

\* A status tells what happened to the ledger, whoever did the work and however
\* often it was retried: OrderService, FxService, IdempotencyService and the
\* error handler above the UnitOfWork.  A conversion answered by the receipt its
\* Idempotency-Key has (FxService.exchange) tells of that receipt's conversion,
\* which may be of another quote than the one sent.
THEOREM RepliesTellTheTruth == EdgeSpec => []RepliesAreTrue
<1>1. EdgeInv => RepliesAreTrue
  <2> SUFFICES ASSUME EdgeInv, NEW t \in Tx
               PROVE  /\ effects[t] <= 1
                      /\ \A u \in Tx \ {t} :
                           request[t].key /= 0 /\ request[u].key = request[t].key
                               => effects[t] + effects[u] <= 1
                      /\ reply[t] /= "none" =>
                           LET w == IF leader[t] = Nobody THEN t ELSE leader[t]
                               status == Status(t)
                           IN /\ status \in {200, 201} =>
                                    \/ effects[w] = 1
                                    \/ reply[t] = "opened"
                                    \/ reply[t] = "terminal" /\ request[w].order \notin ledger.open
                                    \/ /\ reply[t] = "replayed"
                                       /\ \E u \in Tx : effects[u] = 1 /\ ReplayOf(t, u)
                              /\ status \in {401, 404, 409, 503} => effects[t] = 0 /\ effects[w] = 0
    BY DEF RepliesAreTrue
  <2>1. \A u \in Tx : effects[u] \in {0, 1} /\ (answer[u] = "none" => effects[u] = 0)
    BY DEF EdgeInv, WorkInv, Worked, AnswerTrue
  <2>2. ASSUME NEW u \in Tx \ {t}, request[t].key /= 0, request[u].key = request[t].key
        PROVE  effects[t] + effects[u] <= 1
    <3>1. ~(effects[t] = 1 /\ effects[u] = 1)
      BY <2>2 DEF EdgeInv, WorkInv, OncePerKey
    <3> QED
      BY <2>1, <3>1
  <2> DEFINE w == IF leader[t] = Nobody THEN t ELSE leader[t]
             denied == ConflictCodes \cup {"SERVICE_UNAVAILABLE", "NOT_READY",
                                           "SESSION_EXPIRED", "NOT_FOUND"}
  <2>3. ASSUME reply[t] /= "none"
        PROVE  /\ reply[t] \in {"done", "replayed", "terminal", "opened"} =>
                    \/ effects[w] = 1 \/ reply[t] = "opened"
                    \/ reply[t] = "terminal" /\ request[w].order \notin ledger.open
                    \/ reply[t] = "replayed" /\ Behind(t)
               /\ reply[t] \in denied => effects[t] = 0 /\ effects[w] = 0
    <3>1. RequestSound(t) /\ t \in arrived /\ FromClient(request[t]) /\ request[t] \in Requests
      BY <2>3 DEF EdgeInv, RequestSound, LocksInv
    <3>2. CASE leader[t] = Nobody
      <4>1. effects[t] = 0 /\ w = t
        BY <2>1, <3>1, <3>2, EdgeAssumption DEF RequestSound
      <4>2. reply[t] \in EdgeAnswers \/ (reply[t] = "replayed" /\ Behind(t))
        BY <2>3, <3>1, <3>2 DEF RequestSound
      <4> QED
        BY <4>1, <4>2 DEF EdgeAnswers
    <3>3. CASE leader[t] # Nobody
      <4>1. w = leader[t] /\ Follows(t, w)
        BY <3>1, <3>3 DEF RequestSound
      <4> HIDE DEF w
      <4>2. w \in Tx /\ leader[w] = w /\ reply[w] = reply[t]
        BY <4>1 DEF Follows
      <4>3. reply[t] = "replayed" => Behind(t)
        <5> SUFFICES ASSUME reply[t] = "replayed", t # w PROVE Behind(t)
          BY <2>3, <4>2, WorkTellsTheTruth
        <5>1. request[w].kind \in {"place", "oco"} /\ Behind(w) /\ request[w] \in Requests
          BY <2>3, <4>2, WorkTellsTheTruth DEF EdgeInv, LocksInv
        <5>2. /\ Keyed(request[t]) /\ Keyed(request[w]) /\ request[t].header = request[w].header
              /\ CanonicalRequestHash(request[t]) = CanonicalRequestHash(request[w])
          BY <4>1 DEF Follows
        <5>3. request[w].kind \in {"place", "oco"} /\ request[t].kind \in {"place", "oco"}
          BY <5>1, <5>2 DEF Keyed, CanonicalRequestHash
        <5>4. request[t].key = request[w].key
          BY <3>1, <5>1, <5>2, <5>3, KeysAssumption
        <5> QED
          BY <5>1, <5>2, <5>3, <5>4 DEF Behind, ReplayOf
      <4>4. t # w => effects[t] = 0
        BY <2>1, <3>1, <4>1, <4>2 DEF RequestSound, w
      <4> QED
        BY <2>3, <4>2, <4>3, <4>4, WorkTellsTheTruth
    <3> QED
      BY <3>2, <3>3
  <2> HIDE DEF w
  <2>4. ASSUME reply[t] /= "none"
        PROVE  /\ Status(t) \in {200, 201} =>
                    \/ effects[w] = 1
                    \/ reply[t] = "opened"
                    \/ reply[t] = "terminal" /\ request[w].order \notin ledger.open
                    \/ reply[t] = "replayed" /\ Behind(t)
               /\ Status(t) \in {401, 404, 409, 503} => effects[t] = 0 /\ effects[w] = 0
    BY <2>3, <2>4, StatusOf
  <2> QED
    BY <2>1, <2>2, <2>4 DEF Behind, w
<1> QED
  BY <1>1, EdgeInvariant, PTL
=============================================================================
