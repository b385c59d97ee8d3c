------------------------- MODULE PaperEngineProofs -------------------------
(***************************************************************************)
(* The engine's copies follow the ledger, no fill is lost, repeated or     *)
(* added by a deposed leader, and no execution could have been better, for *)
(* any processes, orders and books.                                        *)
(***************************************************************************)
EXTENDS PaperEngine, WellFoundedInduction, TLAPS

(***************************************************************************)
(* The inductive invariant.                                                *)
(***************************************************************************)
RowStatuses == {"absent", "PENDING_TRIGGER"} \cup Matchable \cup Terminal
Entries == [status : RowStatuses \cup {"TRIGGERED"}, filled : Nat]
Outcomes == {"pending", "committed", "error"} \cup Terminal

Engines(works) ==
    [up : BOOLEAN, held : Nat, open : BOOLEAN, version : Nat, latest : Nat \X Nat,
     book : {NoBook} \cup [payload : Books, token : Nat],
     orders : [Orders -> Entries],
     conditional : [Orders -> {"absent", "PENDING_TRIGGER", "TRIGGERED"}], work : works]

\* A transaction in hand, whatever it asks for.
Flights(w) ==
    [kind : {"match", "trade"}, env : {w.env}, todo : SUBSET Orders, order : Orders,
     was : Entries, next : {w.next}, outcome : Outcomes]

QuantitiesSound == \A o \in Orders : spec[o].quantity \in Nat

\* The order rows. A row in the middle of a trade is never TRIGGERED, a waiting
\* order has filled nothing, and a group is placed as one.
RowsSound ==
    /\ row \in [Orders -> [status : RowStatuses, filled : Nat]]
    /\ \A o \in Orders :
         /\ row[o].filled <= spec[o].quantity
         /\ row[o].status \in Matchable => ~ Waits(o)
         /\ row[o].status = "PENDING_TRIGGER" => Waits(o)
         /\ row[o].status \in {"absent", "PENDING_TRIGGER"} => row[o].filled = 0
         /\ \A p \in Group(o) : row[p].status = "absent" <=> row[o].status = "absent"

\* The fills of every order that did not drift are what its row says.
FillsTold ==
    /\ sold \in [Orders -> Int]
    /\ \A o \in Orders \ astray : sold[o] = row[o].filled

\* What an engine of fence f works on, against the rows r.
WorkSound(e, f) ==
    e.work # Idle =>
      LET w == e.work
      IN /\ w \in Flights(w)
         /\ w.env.token \in 1 .. f
         /\ w.was.filled <= spec[w.order].quantity
         /\ w.kind = "match" =>
              /\ w.env.payload \in Books
              /\ w.was.status \in Matchable /\ ~ Waits(w.order)
              /\ w.next.filled \in w.was.filled .. spec[w.order].quantity
              /\ w.next.status \in Matchable \cup {"FILLED", "CANCELLED"}
              /\ e.orders[w.order] = [status |-> w.next.status, filled |-> w.next.filled]
              /\ \A p \in w.todo : p # w.order /\ e.orders[p].status \in Matchable
         /\ w.kind = "trade" =>
              w.was.status = "PENDING_TRIGGER" /\ e.conditional[w.order] = "TRIGGERED"

\* The copies an engine keeps are of orders the ledger has.
CopiesSound(e, r) ==
    \A o \in Orders :
      /\ e.orders[o].filled <= spec[o].quantity
      /\ e.orders[o].status \in Matchable => ~ Waits(o)
      /\ e.orders[o].status # "absent" => r[o].status # "absent"
      /\ e.conditional[o] # "absent" => Waits(o) /\ r[o].status # "absent"

\* A placement on its way has committed and reached no copy; what a
\* cancellation on its way cancels has ended.
CallsSound(e, c, r) ==
    \A call \in c :
      \/ /\ call[1] = "place" /\ call[2] \in Orders
         /\ call = <<"place", call[2]>> /\ call[2] = Min(Group(call[2]))
         /\ \A p \in Group(call[2]) : /\ r[p].status # "absent"
                                    /\ e.orders[p].status = "absent"
                                    /\ e.conditional[p] = "absent"
      \/ /\ call[1] = "cancel" /\ call[2] \in Orders
         /\ call = <<"cancel", call[2]>> /\ r[call[2]].status \in Terminal

EngineSound(e, c, r, f) ==
    /\ e \in Engines({e.work})
    /\ e.up \/ (e.held = 0 /\ ~ e.open /\ e.work = Idle /\ c = {})
    /\ e.open => e.held # 0
    /\ e.held <= f
    /\ WorkSound(e, f) /\ CopiesSound(e, r) /\ CallsSound(e, c, r)

\* An engine has fence t: it holds the lease or works on an event of it.
Owns(e, t) == e.held = t \/ (e.work # Idle /\ e.work.env.token = t)

\* The engine has still to hear of the placement of o.
Awaits(c, o) == <<"place", Min(Group(o))>> \in c

\* Once the transaction in hand is answered and the placement has arrived, the
\* copy of o says what the row says.
Tracks(e, c, r, o) ==
    IF Awaits(c, o)
    THEN r[o].status \in Matchable => r[o] = [status |-> "OPEN", filled |-> 0]
    ELSE /\ r[o].status \in Matchable => Resting(e).orders[o] = r[o]
         /\ r[o].status = "PENDING_TRIGGER" => Resting(e).conditional[o] = "PENDING_TRIGGER"

\* Leases: the holder of the lock has the newest token, and nobody else does.
LeasesSound ==
    /\ fence \in Nat /\ filler \in 0 .. fence
    /\ holder # None => holder \in Nodes /\ fence # 0 /\ node[holder].held = fence
    /\ \A n \in Nodes, m \in Nodes :
         fence # 0 /\ Owns(node[n], fence) /\ Owns(node[m], fence) => n = m

EngineInv ==
    /\ feed.books \subseteq Books /\ QuantitiesSound
    /\ RowsSound /\ FillsTold /\ LeasesSound
    /\ node = [n \in Nodes |-> node[n]] /\ calls = [n \in Nodes |-> calls[n]]
    /\ \A n \in Nodes : EngineSound(node[n], calls[n], row, fence)
    /\ \A n \in Nodes : fence # 0 /\ Owns(node[n], fence) =>
         \A o \in Orders \ astray : Tracks(node[n], calls[n], row, o)

(***************************************************************************)
(* The walk through the book.                                              *)
(***************************************************************************)
\* A set of naturals has a smallest member.
LEMMA SmallestNat ==
    ASSUME NEW T \in SUBSET Nat, T # {}
    PROVE  \E x \in T : \A y \in T : x <= y
<1>1. PICK x \in T : \A y \in T : ~ (<<y, x>> \in OpToRel(<, Nat))
  BY NatLessThanWellFounded, WFMin
<1>2. ASSUME NEW y \in T PROVE x <= y
  <2>1. ~ (<<y, x>> \in OpToRel(<, Nat))
    BY <1>1
  <2>2. ~ (y < x)
    BY <2>1 DEF OpToRel
  <2> QED
    BY <2>2
<1> QED
  BY <1>2

\* What holds of zero, and of each number if of the one before, holds up to n.
LEMMA UpTo ==
    ASSUME NEW S, NEW n \in Nat, 0 \in S, \A k \in 1 .. n : k - 1 \in S => k \in S
    PROVE  \A k \in 0 .. n : k \in S
<1> DEFINE T == {k \in 0 .. n : k \notin S}
<1> SUFFICES ASSUME T # {} PROVE FALSE
  OBVIOUS
<1>0. T \in SUBSET Nat
  OBVIOUS
<1>1. PICK k \in T : \A y \in T : k <= y
  <2> HIDE DEF T
  <2> QED
    BY <1>0, SmallestNat
<1>2. k # 0
  BY <1>1
<1>3. k - 1 \in 0 .. n /\ k - 1 \notin T /\ k \in 1 .. n
  BY <1>1, <1>2
<1> QED
  BY <1>1, <1>3

\* The walk reaches the levels before the first one that is out of bounds.
LEMMA DepthIs ==
    ASSUME NEW s, NEW book, Len(Levels(s, book)) \in Nat
    PROVE  LET d == Depth(s, book)
               n == Len(Levels(s, book))
           IN /\ d \in 0 .. n /\ \A i \in 1 .. d : Eligible(s, book, i)
              /\ d < n => ~ Eligible(s, book, d + 1)
<1> DEFINE n == Len(Levels(s, book))
           S == {k \in 0 .. n : \A i \in 1 .. k : Eligible(s, book, i)}
           d == Depth(s, book)
<1>1. S \in SUBSET (0 .. n) /\ 0 \in S
  OBVIOUS
<1>2. d = CHOOSE x \in S : \A y \in S : x >= y
  BY Zenon DEF Depth, Max
<1>3. \E x \in S : \A y \in S : x >= y
  <2> DEFINE T == {m \in Nat : \A k \in S : k <= m}
  <2>1. n \in T
    OBVIOUS
  <2>2. PICK m \in T : \A y \in T : m <= y
    BY <2>1, SmallestNat
  <2>3. m \in S
    <3> SUFFICES ASSUME m \notin S PROVE FALSE
      OBVIOUS
    <3>1. m # 0
      BY <1>1
    <3>2. m - 1 \in T
      BY <3>1
    <3> QED
      BY <2>2, <3>2
  <2> QED
    BY <2>3
<1>4. d \in S /\ \A y \in S : d >= y
  <2> HIDE DEF S, d
  <2> QED
    BY <1>2, <1>3
<1> HIDE DEF d
<1>5. d \in 0 .. n /\ \A i \in 1 .. d : Eligible(s, book, i)
  BY <1>4
<1>6. ASSUME d < n, Eligible(s, book, d + 1) PROVE FALSE
  <2>1. d + 1 \in 0 .. n /\ \A i \in 1 .. (d + 1) : i \in 1 .. d \/ i = d + 1
    BY <1>5, <1>6
  <2>2. d + 1 \in S
    BY <1>5, <1>6, <2>1
  <2> QED
    BY <1>4, <1>5, <2>2
<1> QED
  BY <1>5, <1>6 DEF d

\* What a level leaves of a quantity.
LeftBy(left, volume) == left - Min({left, volume})

\* A level leaves no more than there was, and never less than nothing.
LEMMA LevelTakes ==
    ASSUME NEW left \in Nat, NEW volume \in Nat
    PROVE  LeftBy(left, volume) \in 0 .. left
<1>1. \E x \in {left, volume} : \A y \in {left, volume} : x =< y
  OBVIOUS
<1>2. Min({left, volume}) \in {left, volume} /\ Min({left, volume}) =< left
  BY <1>1 DEF Min
<1> QED
  BY <1>2 DEF LeftBy

\* f counts what is left of w after each level of a walk of depth d.
Walks(f, s, book, w, d) ==
    f = [i \in 0 .. d |->
           IF i = 0 THEN w ELSE LeftBy(f[i - 1], Levels(s, book)[i].volume)]

\* There is such a count.
LEMMA WalkExists ==
    ASSUME NEW s, NEW book, NEW w, NEW d \in Nat
    PROVE  \E f : Walks(f, s, book, w, d)
<1> DEFINE T == {k \in 0 .. d : ~ \E f : Walks(f, s, book, w, k)}
<1> SUFFICES ASSUME T # {} PROVE FALSE
  OBVIOUS
<1>0. T \in SUBSET Nat
  OBVIOUS
<1>1. PICK k \in T : \A y \in T : k <= y
  <2> HIDE DEF T
  <2> QED
    BY <1>0, SmallestNat
<1>2. CASE k = 0
  <2>1. Walks([i \in 0 .. 0 |-> w], s, book, w, 0)
    BY DEF Walks
  <2> QED
    BY <1>1, <1>2, <2>1
<1>3. CASE k # 0
  <2>1. k - 1 \in 0 .. d /\ k - 1 \notin T
    BY <1>1, <1>3
  <2>2. PICK f : Walks(f, s, book, w, k - 1)
    BY <2>1
  <2> DEFINE g == [i \in 0 .. k |->
                     IF i = k THEN LeftBy(f[k - 1], Levels(s, book)[k].volume) ELSE f[i]]
             h == [i \in 0 .. k |->
                     IF i = 0 THEN w ELSE LeftBy(g[i - 1], Levels(s, book)[i].volume)]
  <2>3. ASSUME NEW i \in 0 .. k PROVE g[i] = h[i]
    <3>1. CASE i = k
      BY <1>3, <3>1
    <3>2. CASE i # k
      <4>1. i \in 0 .. k - 1
        BY <3>2
      <4>2. f[i] = IF i = 0 THEN w ELSE LeftBy(f[i - 1], Levels(s, book)[i].volume)
        BY <2>2, <4>1 DEF Walks
      <4> QED
        BY <3>2, <4>1, <4>2
    <3> QED
      BY <3>1, <3>2
  <2>4. g = h
    BY <2>3
  <2>5. Walks(g, s, book, w, k)
    BY <2>4 DEF Walks
  <2> QED
    BY <1>1, <2>5
<1> QED
  BY <1>2, <1>3

\* What the model counts is that count.
LEMMA RemainingWalks ==
    ASSUME NEW s, NEW book, NEW w, Len(Levels(s, book)) \in Nat
    PROVE  Walks(Remaining(s, book, w), s, book, w, Depth(s, book))
<1>1. Depth(s, book) \in Nat
  BY DepthIs
<1>2. \E f : Walks(f, s, book, w, Depth(s, book))
  BY <1>1, WalkExists
<1> QED
  BY <1>2, Zenon DEF Walks, Remaining, LeftBy

\* The members of a sequence.
LEMMA SeqMembers ==
    ASSUME NEW X, NEW q \in Seq(X)
    PROVE  Len(q) \in Nat /\ \A i \in 1 .. Len(q) : q[i] \in X
OBVIOUS

\* The levels of a book have natural volumes.
LEMMA LevelsOfBooks ==
    ASSUME NEW s, NEW book \in Books
    PROVE  /\ Len(Levels(s, book)) \in Nat
           /\ \A i \in 1 .. Len(Levels(s, book)) : Levels(s, book)[i].volume \in Nat
<1> DEFINE Level == [price : Nat, volume : Nat]
           levels == Levels(s, book)
<1>1. levels \in Seq(Level)
  BY DEF Levels, Books
<1>2. \A level \in Level : level.volume \in Nat
  OBVIOUS
<1> HIDE DEF levels, Level
<1>3. Len(levels) \in Nat /\ \A i \in 1 .. Len(levels) : levels[i] \in Level
  BY <1>1, SeqMembers
<1>4. \A i \in 1 .. Len(levels) : levels[i].volume \in Nat
  BY <1>2, <1>3
<1> QED
  BY <1>3, <1>4 DEF levels

\* At every level between nothing and the whole order is left.
LEMMA WalkBounds ==
    ASSUME NEW s, NEW book \in Books, NEW w \in Nat, NEW f, NEW d \in 0 .. Len(Levels(s, book)),
           Walks(f, s, book, w, d)
    PROVE  \A i \in 0 .. d : f[i] \in 0 .. w
<1> DEFINE T == {i \in 0 .. d : f[i] \notin 0 .. w}
<1> SUFFICES ASSUME T # {} PROVE FALSE
  OBVIOUS
<1>0. d \in Nat /\ Len(Levels(s, book)) \in Nat
  BY LevelsOfBooks
<1>00. T \in SUBSET Nat
  BY <1>0
<1>1. PICK k \in T : \A y \in T : k <= y
  <2> HIDE DEF T
  <2> QED
    BY <1>00, SmallestNat
<1>2. f[k] = IF k = 0 THEN w ELSE LeftBy(f[k - 1], Levels(s, book)[k].volume)
  BY DEF Walks
<1>3. k # 0
  BY <1>2, <1>0
<1>4. k - 1 \in 0 .. d /\ k - 1 \notin T
  BY <1>0, <1>1, <1>3
<1>5. f[k - 1] \in 0 .. w
  BY <1>4
<1>6. Levels(s, book)[k].volume \in Nat
  BY <1>0, <1>3, LevelsOfBooks
<1>7. LeftBy(f[k - 1], Levels(s, book)[k].volume) \in 0 .. f[k - 1]
  <2>1. f[k - 1] \in Nat
    BY <1>1, <1>5
  <2> QED
    BY <2>1, <1>6, LevelTakes, Zenon
<1> QED
  BY <1>2, <1>3, <1>5, <1>7

\* A match fills no less than before and no more than was ordered.
LEMMA MatchFills ==
    ASSUME NEW s, NEW book \in Books, NEW entry, s.quantity \in Nat,
           entry.filled \in 0 .. s.quantity
    PROVE  LET m == MatchOrder(s, book, entry)
           IN /\ m.filled \in entry.filled .. s.quantity
              /\ m.status \in {"FILLED", "CANCELLED", "OPEN", "PARTIALLY_FILLED"}
<1> DEFINE w == Wanted(s, entry.filled)
           left == Remaining(s, book, w)
           d == Depth(s, book)
           x == CalculateExecution(s, book, entry.filled)
           m == MatchOrder(s, book, entry)
<1>1. w \in Nat /\ w = s.quantity - entry.filled
  BY DEF Wanted
<1>2. d \in 0 .. Len(Levels(s, book))
  BY LevelsOfBooks, DepthIs
<1>3. Walks(left, s, book, w, d)
  BY LevelsOfBooks, RemainingWalks
<1>4. d \in Nat
  BY <1>2, LevelsOfBooks
<1>5. left[0] = w
  BY <1>3, <1>4 DEF Walks
<1>6. left[d] \in 0 .. w
  <2> HIDE DEF left, w, d
  <2> QED
    BY <1>1, <1>2, <1>3, <1>4, WalkBounds
<1>7. x.filledThisRun = left[0] - left[d]
  BY DEF CalculateExecution
<1>8. x.filledThisRun \in 0 .. w
  <2> HIDE DEF x, left, d, w
  <2> QED
    BY <1>1, <1>5, <1>6, <1>7
<1>9. m.filled = entry.filled + x.filledThisRun
  BY DEF MatchOrder
<1>10. m.status \in {"FILLED", "CANCELLED", "OPEN", "PARTIALLY_FILLED"}
  <2> DEFINE filled == entry.filled + x.filledThisRun
  <2>1. m.status = CASE filled >= s.quantity -> "FILLED"
                   [] filled < s.quantity /\ MarketStyle(s) -> "CANCELLED"
                   [] filled < s.quantity /\ ~MarketStyle(s) ->
                        IF x.filledThisRun = 0 THEN "OPEN" ELSE "PARTIALLY_FILLED"
    BY DEF MatchOrder
  <2> HIDE DEF x, m, w
  <2>2. filled \in Nat
    BY <1>1, <1>8
  <2> QED
    BY <2>1, <2>2
<1>11. m.filled \in entry.filled .. s.quantity
  <2> HIDE DEF m, x, w
  <2> QED
    BY <1>1, <1>8, <1>9
<1> QED
  BY <1>10, <1>11
(***************************************************************************)
(* Groups.                                                                 *)
(***************************************************************************)
\* The members of a group have the same group.
LEMMA GroupFacts ==
    ASSUME NEW o \in Orders, NEW p \in Group(o)
    PROVE  /\ p \in Orders /\ o \in Group(o) /\ o \in Group(p)
           /\ Group(p) = Group(o) /\ (Waits(p) <=> Waits(o))
<1>1. p \in Orders /\ o \in Group(o) /\ o \in Group(p)
  BY DEF Group
<1>2. Group(p) = Group(o)
  BY DEF Group
<1>3. Waits(p) <=> Waits(o)
  BY DEF Group, Waits
<1> QED
  BY <1>1, <1>2, <1>3

\* The first leg of a group is a leg of it.
LEMMA MinInGroup ==
    ASSUME NEW o \in Orders
    PROVE  Min(Group(o)) \in Group(o)
<1>1. Group(o) \in SUBSET Nat /\ Group(o) # {}
  BY OrdersAssumption DEF Group
<1>2. \E x \in Group(o) : \A y \in Group(o) : x <= y
  <2> DEFINE G == Group(o)
  <2> HIDE DEF G
  <2> QED
    BY <1>1, SmallestNat
<1> QED
  BY <1>2 DEF Min

\* An order whose first leg is o is of o's group.
LEMMA FirstLeg ==
    ASSUME NEW o \in Orders, NEW p \in Orders
    PROVE  /\ Min(Group(p)) = o => p \in Group(o)
           /\ p \in Group(o) => Min(Group(p)) = Min(Group(o))
<1>1. Min(Group(p)) = o => p \in Group(o)
  BY MinInGroup, GroupFacts
<1>2. p \in Group(o) => Group(p) = Group(o)
  BY GroupFacts
<1> QED
  BY <1>1, <1>2

(***************************************************************************)
(* What the engine is left with.                                           *)
(***************************************************************************)
\* The fields of an engine.
LEMMA EngineTypes ==
    ASSUME NEW e, e \in Engines({e.work})
    PROVE  /\ e.up \in BOOLEAN /\ e.held \in Nat /\ e.open \in BOOLEAN /\ e.version \in Nat
           /\ e.book = NoBook \/ (e.book.payload \in Books /\ e.book.token \in Nat)
           /\ e.orders \in [Orders -> Entries]
           /\ e.conditional \in [Orders -> {"absent", "PENDING_TRIGGER", "TRIGGERED"}]
BY DEF Engines

\* What an engine at work is left with, copy by copy.
RestedCopy(e, o) ==
    IF e.work = Idle \/ o # e.work.order THEN e.orders[o]
    ELSE IF e.work.outcome = "committed" THEN e.orders[o]
    ELSE IF e.work.outcome \in Terminal
         THEN [status |-> e.work.outcome,
               filled |-> IF e.work.outcome = "FILLED" THEN spec[o].quantity
                          ELSE e.work.was.filled]
         ELSE e.work.was

RestedWatch(e, o) ==
    IF e.work = Idle \/ o # e.work.order THEN e.conditional[o]
    ELSE IF e.work.kind = "trade" /\ e.work.outcome \in {"pending", "error"}
         THEN "PENDING_TRIGGER"
         ELSE e.conditional[o]

\* Settled, copy by copy.
LEMMA SettledIs ==
    ASSUME NEW e, e \in Engines({e.work}), NEW f, WorkSound(e, f), e.work # Idle,
           e.work.outcome # "pending", QuantitiesSound
    PROVE  /\ Settled(e) \in Engines({Settled(e).work}) /\ Settled(e).work = e.work
           /\ Settled(e).up = e.up /\ Settled(e).held = e.held /\ Settled(e).open = e.open
           /\ \A o \in Orders : /\ Settled(e).orders[o] = RestedCopy(e, o)
                                /\ Settled(e).conditional[o] = RestedWatch(e, o)
<1> DEFINE w == e.work
           mirrored == [status |-> w.outcome,
                        filled |-> IF w.outcome = "FILLED" THEN spec[w.order].quantity
                                   ELSE w.was.filled]
<1>1. /\ w.order \in Orders /\ w.was \in Entries /\ w.kind \in {"match", "trade"}
      /\ w.outcome \in {"committed", "error"} \cup Terminal
  BY DEF WorkSound, Flights, Outcomes
<1>2. CASE w.outcome = "committed"
  <2>1. Settled(e) = e
    BY <1>2 DEF Settled
  <2> QED
    BY <1>2, <2>1 DEF RestedCopy, RestedWatch
<1>3. CASE w.outcome = "error" /\ w.kind = "match"
  <2>1. Settled(e) = [e EXCEPT !.orders[w.order] = w.was]
    BY <1>3 DEF Settled
  <2> QED
    BY <1>1, <1>3, <2>1 DEF RestedCopy, RestedWatch, Engines, Terminal
<1>4. CASE w.outcome = "error" /\ w.kind = "trade"
  <2>1. Settled(e) = [e EXCEPT !.orders[w.order] = w.was,
                               !.conditional[w.order] = "PENDING_TRIGGER"]
    BY <1>4 DEF Settled
  <2> DEFINE os == [e.orders EXCEPT ![w.order] = w.was]
             cs == [e.conditional EXCEPT ![w.order] = "PENDING_TRIGGER"]
             a == Settled(e)
  <2>2. a = [e EXCEPT !.orders = os, !.conditional = cs, !.work = w]
    BY <2>1 DEF Engines
  <2>3. /\ os \in [Orders -> Entries]
        /\ cs \in [Orders -> {"absent", "PENDING_TRIGGER", "TRIGGERED"}]
    BY <1>1, EngineTypes
  <2>4. \A o \in Orders : os[o] = RestedCopy(e, o) /\ cs[o] = RestedWatch(e, o)
    BY <1>1, <1>4, EngineTypes DEF RestedCopy, RestedWatch, Terminal
  <2> HIDE DEF os, cs, a, w
  <2>5. /\ a \in Engines({a.work}) /\ a.orders = os /\ a.conditional = cs /\ a.work = w
        /\ a.up = e.up /\ a.held = e.held /\ a.open = e.open /\ a.book = e.book
    BY <2>2, <2>3 DEF Engines
  <2> QED
    BY <2>4, <2>5 DEF a, w
<1>5. CASE w.outcome \in Terminal
  <2>1. Settled(e) = [e EXCEPT !.orders[w.order] = mirrored]
    BY <1>5 DEF Settled, Terminal
  <2>2. mirrored \in Entries
    BY <1>1, <1>5 DEF Entries, RowStatuses, QuantitiesSound
  <2> DEFINE os == [e.orders EXCEPT ![w.order] = mirrored]
             a == Settled(e)
  <2>3. a = [e EXCEPT !.orders = os, !.conditional = e.conditional, !.work = w]
    BY <2>1 DEF Engines
  <2>4. os \in [Orders -> Entries]
    BY <1>1, <2>2, EngineTypes
  <2>5. \A o \in Orders : os[o] = RestedCopy(e, o) /\ e.conditional[o] = RestedWatch(e, o)
    BY <1>1, <1>5, EngineTypes DEF RestedCopy, RestedWatch, Terminal
  <2> HIDE DEF os, a, mirrored, w
  <2>6. e.conditional \in [Orders -> {"absent", "PENDING_TRIGGER", "TRIGGERED"}]
    BY EngineTypes, Zenon
  <2>7. /\ a \in Engines({a.work}) /\ a.orders = os /\ a.conditional = e.conditional
        /\ a.work = w
        /\ a.up = e.up /\ a.held = e.held /\ a.open = e.open /\ a.book = e.book
    BY <2>3, <2>4, <2>6 DEF Engines
  <2> QED
    BY <2>5, <2>7 DEF a, w
<1> QED
  BY <1>1, <1>2, <1>3, <1>4, <1>5

\* Resting, copy by copy.
LEMMA RestingIs ==
    ASSUME NEW e, e \in Engines({e.work}), NEW f, WorkSound(e, f), QuantitiesSound,
           NEW o \in Orders
    PROVE  Resting(e).orders[o] = RestedCopy(e, o) /\ Resting(e).conditional[o] = RestedWatch(e, o)
<1>1. CASE e.work = Idle
  BY <1>1 DEF Resting, RestedCopy, RestedWatch
<1>2. CASE e.work # Idle
  <2> DEFINE w == e.work
             outcome == IF w.outcome = "pending" THEN "error" ELSE w.outcome
             v == [w EXCEPT !.outcome = outcome]
             a == [e EXCEPT !.work = v]
  <2>1. Resting(e) = Settled(a)
    BY <1>2 DEF Resting, Engines, WorkSound, Flights
  <2>2. /\ a \in Engines({a.work}) /\ a.work = v
        /\ a.orders = e.orders /\ a.conditional = e.conditional
    BY DEF Engines
  <2>3. w \in Flights(w)
    BY <1>2 DEF WorkSound
  <2>4. /\ v \in Flights(v) /\ v.outcome = outcome /\ v.kind = w.kind /\ v.env = w.env
        /\ v.todo = w.todo /\ v.order = w.order /\ v.was = w.was /\ v.next = w.next
    BY <2>3 DEF Flights, Outcomes
  <2>5. v # Idle /\ v.outcome # "pending"
    BY <2>4 DEF Idle, Flights
  <2>6. WorkSound(a, f)
    <3> HIDE DEF a, v
    <3> QED
      BY <1>2, <2>2, <2>4 DEF WorkSound
  <2>7. /\ Settled(a).orders[o] = RestedCopy(a, o)
        /\ Settled(a).conditional[o] = RestedWatch(a, o)
    <3> HIDE DEF a, v
    <3> QED
      BY <2>2, <2>5, <2>6, SettledIs
  <2>8. w.outcome \in Outcomes /\ w.outcome # "pending" => outcome = w.outcome
    BY <2>3 DEF Flights
  <2>9. RestedCopy(a, o) = RestedCopy(e, o) /\ RestedWatch(a, o) = RestedWatch(e, o)
    <3> HIDE DEF a, v
    <3> QED
      BY <1>2, <2>2, <2>4, <2>5, <2>8 DEF RestedCopy, RestedWatch, Terminal
  <2> QED
    BY <2>1, <2>7, <2>9
<1> QED
  BY <1>1, <1>2

(***************************************************************************)
(* The loops over the orders.                                              *)
(***************************************************************************)
\* The engine a goes on from e: it lost no copy, its work is of the same event
\* and sound, and once that is answered the copies are those of e.
Follows(a, e, r, f) ==
    /\ a \in Engines({a.work}) /\ a.up = e.up /\ a.held = e.held /\ a.open = e.open
    /\ WorkSound(a, f) /\ CopiesSound(a, r)
    /\ a.work # Idle => a.work.env = e.work.env
    /\ \A o \in Orders :
         /\ e.orders[o].status = "absent" /\ e.conditional[o] = "absent"
              => a.orders[o].status = "absent" /\ a.conditional[o] = "absent"
         /\ Waits(o) \/ RestedCopy(a, o) = e.orders[o]
         /\ RestedWatch(a, o) = e.conditional[o]

\* The work of a loop between two orders.
LoopSound(e, f) ==
    LET w == e.work
    IN /\ w.kind \in {"match", "trade"} /\ w.todo \subseteq Orders /\ w.env.token \in 1 .. f
       /\ w.kind = "match" =>
            w.env.payload \in Books /\ \A p \in w.todo : e.orders[p].status \in Matchable

\* A transaction in hand, by its fields.
LEMMA InFlightIs ==
    ASSUME NEW w, NEW o, NEW was, NEW next
    PROVE  LET v == InFlight(w, o, was, next)
           IN /\ v.kind = w.kind /\ v.env = w.env /\ v.todo = w.todo \ {o} /\ v.order = o
              /\ v.was = was /\ v.next = next /\ v.outcome = "pending" /\ v # Idle
              /\ w.kind \in {"match", "trade"} /\ w.todo \subseteq Orders /\ o \in Orders
                   /\ was \in Entries => v \in Flights(v)
BY DEF InFlight, Flights, Idle, Outcomes

\* A match goes on with one order.
LEMMA FillFollows ==
    ASSUME NEW e, e \in Engines({e.work}), NEW r, NEW f \in Nat, LoopSound(e, f), CopiesSound(e, r),
           QuantitiesSound, e.work.kind = "match", NEW o \in e.work.todo
    PROVE  Follows(FillStarts(e, o), e, r, f) /\ FillStarts(e, o).work # Idle
<1> DEFINE w == e.work
           entry == e.orders[o]
           m == MatchOrder(spec[o], w.env.payload, entry)
           next == [status |-> m.status, filled |-> m.filled]
           v == InFlight(w, o, entry, m)
           os == [e.orders EXCEPT ![o] = next]
           a == FillStarts(e, o)
<1>1. /\ o \in Orders /\ entry \in Entries /\ entry.status \in Matchable
      /\ entry.filled \in 0 .. spec[o].quantity /\ spec[o].quantity \in Nat /\ ~ Waits(o)
      /\ w.env.payload \in Books /\ w.env.token \in 1 .. f /\ w.todo \subseteq Orders
      /\ r[o].status # "absent" /\ e.orders \in [Orders -> Entries]
  <2>1. /\ o \in Orders /\ entry.status \in Matchable
        /\ w.env.payload \in Books /\ w.env.token \in 1 .. f /\ w.todo \subseteq Orders
    BY DEF LoopSound
  <2>2. e.orders \in [Orders -> Entries]
    BY EngineTypes
  <2>3. entry \in Entries /\ spec[o].quantity \in Nat
    BY <2>1, <2>2 DEF QuantitiesSound
  <2>4. entry.filled <= spec[o].quantity /\ ~ Waits(o) /\ r[o].status # "absent"
    BY <2>1 DEF CopiesSound, Matchable
  <2>5. entry.filled \in Nat
    BY <2>3 DEF Entries
  <2> HIDE DEF entry
  <2> QED
    BY <2>1, <2>2, <2>3, <2>4, <2>5
<1> HIDE DEF entry
<1>2. /\ m.filled \in entry.filled .. spec[o].quantity
      /\ m.status \in {"FILLED", "CANCELLED", "OPEN", "PARTIALLY_FILLED"}
  <2> HIDE DEF w
  <2> QED
    BY <1>1, MatchFills, Zenon
<1> HIDE DEF m
<1>3. next \in Entries
  BY <1>1, <1>2 DEF Entries, RowStatuses, Matchable, Terminal
<1>4. /\ v.kind = "match" /\ v.env = w.env /\ v.todo = w.todo \ {o} /\ v.order = o
      /\ v.was = entry /\ v.next = m /\ v.outcome = "pending" /\ v # Idle
      /\ v \in Flights(v)
  <2> HIDE DEF v
  <2>1. /\ v.kind = w.kind /\ v.env = w.env /\ v.todo = w.todo \ {o} /\ v.order = o
        /\ v.was = entry /\ v.next = m /\ v.outcome = "pending" /\ v # Idle
        /\ w.kind \in {"match", "trade"} /\ w.todo \subseteq Orders /\ o \in Orders
             /\ entry \in Entries => v \in Flights(v)
    BY InFlightIs, Zenon DEF v
  <2> QED
    BY <1>1, <2>1
<1> HIDE DEF v
<1>5. a = [e EXCEPT !.orders[o] = next, !.work = v]
  BY DEF FillStarts, m, entry, v
<1> HIDE DEF next
<1>6. a = [e EXCEPT !.orders = os, !.work = v]
  BY <1>5 DEF Engines
<1>7. os \in [Orders -> Entries]
  BY <1>1, <1>3
<1> HIDE DEF os, a
<1>8. /\ a \in Engines({a.work}) /\ a.orders = os /\ a.conditional = e.conditional /\ a.work = v
      /\ a.up = e.up /\ a.held = e.held /\ a.open = e.open
  BY <1>6, <1>7 DEF Engines
<1>9. os[o] = next /\ \A p \in Orders : p # o => os[p] = e.orders[p]
  BY <1>1 DEF os
<1>10. next.status = m.status /\ next.filled = m.filled /\ next.status # "absent"
  BY <1>2 DEF next
<1>11. WorkSound(a, f)
  <2>1. /\ m.filled \in entry.filled .. spec[o].quantity
        /\ m.status \in Matchable \cup {"FILLED", "CANCELLED"}
        /\ entry.filled <= spec[o].quantity
    BY <1>1, <1>2 DEF Matchable
  <2>2. a.orders[o] = [status |-> m.status, filled |-> m.filled]
    BY <1>8, <1>9 DEF next
  <2>3. \A p \in w.todo \ {o} : p # o /\ a.orders[p].status \in Matchable
    BY <1>1, <1>8, <1>9 DEF LoopSound
  <2> QED
    BY <1>1, <1>4, <1>8, <2>1, <2>2, <2>3 DEF WorkSound
<1>12. CopiesSound(a, r)
  <2> SUFFICES ASSUME NEW p \in Orders
               PROVE  /\ a.orders[p].filled <= spec[p].quantity
                      /\ a.orders[p].status \in Matchable => ~ Waits(p)
                      /\ a.orders[p].status # "absent" => r[p].status # "absent"
                      /\ a.conditional[p] # "absent" => Waits(p) /\ r[p].status # "absent"
    BY DEF CopiesSound
  <2>1. CASE p = o
    BY <2>1, <1>1, <1>2, <1>8, <1>9, <1>10 DEF CopiesSound
  <2>2. CASE p # o
    BY <2>2, <1>8, <1>9 DEF CopiesSound
  <2> QED
    BY <2>1, <2>2
<1>13. ASSUME NEW p \in Orders
       PROVE  /\ e.orders[p].status = "absent" /\ e.conditional[p] = "absent"
                   => a.orders[p].status = "absent" /\ a.conditional[p] = "absent"
              /\ Waits(p) \/ RestedCopy(a, p) = e.orders[p]
              /\ RestedWatch(a, p) = e.conditional[p]
  <2>1. CASE p = o
    <3>1. e.orders[p].status # "absent"
      BY <2>1, <1>1 DEF entry, Matchable
    <3>2. RestedCopy(a, p) = e.orders[p]
      BY <2>1, <1>4, <1>8 DEF RestedCopy, Terminal, entry
    <3>3. RestedWatch(a, p) = e.conditional[p]
      BY <2>1, <1>4, <1>8 DEF RestedWatch
    <3> QED
      BY <3>1, <3>2, <3>3, <1>8
  <2>2. CASE p # o
    BY <2>2, <1>4, <1>8, <1>9 DEF RestedCopy, RestedWatch
  <2> QED
    BY <2>1, <2>2
<1> QED
  BY <1>4, <1>8, <1>11, <1>12, <1>13 DEF Follows, a

\* A trade goes on with one order.
LEMMA TriggerFollows ==
    ASSUME NEW e, e \in Engines({e.work}), NEW r, NEW f \in Nat, LoopSound(e, f), CopiesSound(e, r),
           QuantitiesSound, e.work.kind = "trade", NEW o \in e.work.todo,
           e.conditional[o] = "PENDING_TRIGGER"
    PROVE  Follows(TriggerStarts(e, o), e, r, f) /\ TriggerStarts(e, o).work # Idle
<1> DEFINE w == e.work
           entry == e.orders[o]
           was == [entry EXCEPT !.status = "PENDING_TRIGGER"]
           moved == [entry EXCEPT !.status = "TRIGGERED"]
           next == [status |-> "FILLED", filled |-> spec[o].quantity]
           v == InFlight(w, o, was, next)
           os == [e.orders EXCEPT ![o] = moved]
           cs == [e.conditional EXCEPT ![o] = "TRIGGERED"]
           a == TriggerStarts(e, o)
<1>1. /\ o \in Orders /\ entry \in Entries /\ entry.filled <= spec[o].quantity /\ Waits(o)
      /\ w.env.token \in 1 .. f /\ w.todo \subseteq Orders
      /\ r[o].status # "absent" /\ e.orders \in [Orders -> Entries]
      /\ e.conditional \in [Orders -> {"absent", "PENDING_TRIGGER", "TRIGGERED"}]
  <2>1. o \in Orders /\ w.env.token \in 1 .. f /\ w.todo \subseteq Orders
    BY DEF LoopSound
  <2>2. /\ e.orders \in [Orders -> Entries]
        /\ e.conditional \in [Orders -> {"absent", "PENDING_TRIGGER", "TRIGGERED"}]
    BY EngineTypes
  <2>3. entry.filled <= spec[o].quantity /\ Waits(o) /\ r[o].status # "absent"
    BY <2>1 DEF CopiesSound
  <2> QED
    BY <2>1, <2>2, <2>3
<1> HIDE DEF entry
<1>2. /\ was \in Entries /\ was.status = "PENDING_TRIGGER" /\ was.filled = entry.filled
      /\ moved \in Entries /\ moved.status = "TRIGGERED" /\ moved.filled = entry.filled
  BY <1>1 DEF Entries, RowStatuses
<1> HIDE DEF was, moved
<1>3. /\ v.kind = "trade" /\ v.env = w.env /\ v.todo = w.todo \ {o} /\ v.order = o
      /\ v.was = was /\ v.next = next /\ v.outcome = "pending" /\ v # Idle
      /\ v \in Flights(v)
  <2> HIDE DEF v, next
  <2>1. /\ v.kind = w.kind /\ v.env = w.env /\ v.todo = w.todo \ {o} /\ v.order = o
        /\ v.was = was /\ v.next = next /\ v.outcome = "pending" /\ v # Idle
        /\ w.kind \in {"match", "trade"} /\ w.todo \subseteq Orders /\ o \in Orders
             /\ was \in Entries => v \in Flights(v)
    BY InFlightIs, Zenon DEF v
  <2> QED
    BY <1>1, <1>2, <2>1
<1> HIDE DEF v, next
<1>4. a = [e EXCEPT !.conditional[o] = "TRIGGERED", !.orders[o] = moved, !.work = v]
  BY DEF TriggerStarts, moved, entry, v, was, next
<1>5. a = [e EXCEPT !.conditional = cs, !.orders = os, !.work = v]
  BY <1>4 DEF Engines
<1>6. os \in [Orders -> Entries] /\ cs \in [Orders -> {"absent", "PENDING_TRIGGER", "TRIGGERED"}]
  BY <1>1, <1>2
<1>7. /\ os[o] = moved /\ \A p \in Orders : p # o => os[p] = e.orders[p]
      /\ cs[o] = "TRIGGERED" /\ \A p \in Orders : p # o => cs[p] = e.conditional[p]
  BY <1>1
<1> HIDE DEF os, cs, a
<1>8. /\ a \in Engines({a.work}) /\ a.orders = os /\ a.conditional = cs /\ a.work = v
      /\ a.up = e.up /\ a.held = e.held /\ a.open = e.open
  BY <1>5, <1>6 DEF Engines
<1>9. WorkSound(a, f)
  BY <1>1, <1>2, <1>3, <1>7, <1>8 DEF WorkSound
<1>10. CopiesSound(a, r)
  <2> SUFFICES ASSUME NEW p \in Orders
               PROVE  /\ a.orders[p].filled <= spec[p].quantity
                      /\ a.orders[p].status \in Matchable => ~ Waits(p)
                      /\ a.orders[p].status # "absent" => r[p].status # "absent"
                      /\ a.conditional[p] # "absent" => Waits(p) /\ r[p].status # "absent"
    BY DEF CopiesSound
  <2>1. CASE p = o
    BY <2>1, <1>1, <1>2, <1>7, <1>8 DEF Matchable
  <2>2. CASE p # o
    BY <2>2, <1>7, <1>8 DEF CopiesSound
  <2> QED
    BY <2>1, <2>2
<1>11. ASSUME NEW p \in Orders
       PROVE  /\ e.orders[p].status = "absent" /\ e.conditional[p] = "absent"
                   => a.orders[p].status = "absent" /\ a.conditional[p] = "absent"
              /\ Waits(p) \/ RestedCopy(a, p) = e.orders[p]
              /\ RestedWatch(a, p) = e.conditional[p]
  <2>1. CASE p = o
    BY <2>1, <1>1, <1>3, <1>7, <1>8 DEF RestedWatch
  <2>2. CASE p # o
    BY <2>2, <1>3, <1>7, <1>8 DEF RestedCopy, RestedWatch
  <2> QED
    BY <2>1, <2>2
<1> QED
  BY <1>3, <1>8, <1>9, <1>10, <1>11 DEF Follows, a

\* A loop that ends leaves the engine at rest.
LEMMA EndFollows ==
    ASSUME NEW e, e \in Engines({e.work}), NEW r, NEW f \in Nat, CopiesSound(e, r)
    PROVE  Follows([e EXCEPT !.work = Idle], e, r, f)
<1> DEFINE a == [e EXCEPT !.work = Idle]
<1>1. /\ a \in Engines({a.work}) /\ a.orders = e.orders /\ a.conditional = e.conditional
      /\ a.work = Idle /\ a.up = e.up /\ a.held = e.held /\ a.open = e.open
  BY DEF Engines
<1> HIDE DEF a
<1>2. WorkSound(a, f) /\ CopiesSound(a, r)
  BY <1>1 DEF WorkSound, CopiesSound
<1>3. \A o \in Orders : RestedCopy(a, o) = e.orders[o] /\ RestedWatch(a, o) = e.conditional[o]
  BY <1>1 DEF RestedCopy, RestedWatch
<1> QED
  BY <1>1, <1>2, <1>3 DEF Follows, a

\* A loop goes on to its next order or to its end.
LEMMA AdvanceFollows ==
    ASSUME NEW e, e \in Engines({e.work}), NEW r, NEW f \in Nat, LoopSound(e, f), CopiesSound(e, r),
           QuantitiesSound, NEW a \in Advance(e)
    PROVE  Follows(a, e, r, f) /\ (a.work # Idle /\ e.work.kind = "match" => e.held = e.work.env.token)
<1>1. CASE Acting(e) = {}
  <2>1. a = [e EXCEPT !.work = Idle]
    BY <1>1 DEF Advance
  <2>2. a.work = Idle
    BY <2>1 DEF Engines
  <2> QED
    BY <2>1, <2>2, EndFollows
<1>2. CASE Acting(e) # {} /\ e.work.kind = "match"
  <2>1. PICK o \in Acting(e) : a = FillStarts(e, o)
    BY <1>2 DEF Advance
  <2>2. o \in e.work.todo /\ e.held = e.work.env.token
    BY <1>2 DEF Acting
  <2> QED
    BY <1>2, <2>1, <2>2, FillFollows
<1>3. CASE Acting(e) # {} /\ e.work.kind = "trade"
  <2>1. PICK o \in Acting(e) : a = TriggerStarts(e, o)
    BY <1>3 DEF Advance
  <2>2. o \in e.work.todo /\ e.conditional[o] = "PENDING_TRIGGER"
    BY <1>3 DEF Acting
  <2> QED
    BY <1>3, <2>1, <2>2, TriggerFollows
<1> QED
  BY <1>1, <1>2, <1>3 DEF LoopSound

\* The copies and the lease of an engine at rest do not change when its work does.
LEMMA SameCopies ==
    ASSUME NEW e, e \in Engines({e.work}), NEW w, NEW r, CopiesSound(e, r)
    PROVE  LET a == [e EXCEPT !.work = w]
           IN /\ a \in Engines({a.work}) /\ a.orders = e.orders /\ a.conditional = e.conditional
              /\ a.work = w /\ a.up = e.up /\ a.held = e.held /\ a.open = e.open
              /\ CopiesSound(a, r)
<1> DEFINE a == [e EXCEPT !.work = w]
<1>1. /\ a \in Engines({a.work}) /\ a.orders = e.orders /\ a.conditional = e.conditional
      /\ a.work = w /\ a.up = e.up /\ a.held = e.held /\ a.open = e.open
  BY DEF Engines
<1> HIDE DEF a
<1>2. CopiesSound(a, r)
  BY <1>1 DEF CopiesSound
<1> QED
  BY <1>1, <1>2 DEF a

\* The engine a goes on from e, at rest, with a match under the lease e holds.
Matched(a, e, r, f) ==
    /\ a \in Engines({a.work}) /\ a.up = e.up /\ a.held = e.held /\ a.open = e.open
    /\ WorkSound(a, f) /\ CopiesSound(a, r)
    /\ a.work # Idle => a.work.env.token = e.held
    /\ \A o \in Orders :
         /\ e.orders[o].status = "absent" /\ e.conditional[o] = "absent"
              => a.orders[o].status = "absent" /\ a.conditional[o] = "absent"
         /\ Waits(o) \/ RestedCopy(a, o) = e.orders[o]
         /\ RestedWatch(a, o) = e.conditional[o]

\* A match of the book env starts, goes nowhere or ends at once.
LEMMA MatchBookFollows ==
    ASSUME NEW e, e \in Engines({e.work}), e.work = Idle, NEW r, NEW f \in Nat, CopiesSound(e, r),
           QuantitiesSound, NEW env, env.payload \in Books,
           e.held \in 0 .. f, e.open => e.held # 0, NEW a \in MatchBook(e, env)
    PROVE  Matched(a, e, r, f)
<1>1. CASE ~ (e.open /\ Usable(env.payload))
  <2>1. a = e
    BY <1>1 DEF MatchBook
  <2> QED
    BY <2>1 DEF Matched, WorkSound, RestedCopy, RestedWatch
<1>2. CASE e.open /\ Usable(env.payload)
  <2> DEFINE w == [kind |-> "match", env |-> env,
                   todo |-> {o \in Orders : e.orders[o].status \in Matchable}]
             b == [e EXCEPT !.work = w]
  <2>1. a \in Advance(b)
    BY <1>2 DEF MatchBook
  <2>2. /\ b \in Engines({b.work}) /\ b.orders = e.orders /\ b.conditional = e.conditional
        /\ b.work = w /\ b.up = e.up /\ b.held = e.held /\ b.open = e.open
        /\ CopiesSound(b, r)
    <3> HIDE DEF w
    <3> QED
      BY SameCopies, Zenon
  <2>3. /\ w.kind = "match" /\ w.env = env /\ w.todo \subseteq Orders
        /\ \A p \in w.todo : e.orders[p].status \in Matchable
    OBVIOUS
  <2> HIDE DEF b, w
  <2>4. CASE env.token # e.held
    <3>1. Acting(b) = {}
      BY <2>2, <2>3, <2>4 DEF Acting
    <3>2. a = [b EXCEPT !.work = Idle]
      BY <2>1, <3>1 DEF Advance
    <3>3. Follows(a, b, r, f)
      BY <2>2, <3>2, EndFollows
    <3>4. a.work = Idle
      BY <2>2, <3>2 DEF Engines
    <3> QED
      BY <2>2, <3>3, <3>4 DEF Follows, Matched
  <2>5. CASE env.token = e.held
    <3>1. LoopSound(b, f)
      BY <1>2, <2>2, <2>3, <2>5 DEF LoopSound
    <3>2. Follows(a, b, r, f) /\ (a.work # Idle => b.held = env.token)
      BY <2>1, <2>2, <2>3, <3>1, AdvanceFollows
    <3> QED
      BY <2>2, <2>3, <2>5, <3>2 DEF Follows, Matched
  <2> QED
    BY <2>4, <2>5
<1> QED
  BY <1>1, <1>2

(***************************************************************************)
(* The invariant after a step.                                             *)
(***************************************************************************)
\* The terms of the orders are fixed, so that what is said of the engines and
\* the rows after a step can be said in the terms before it.
LEMMA EnginesAfter ==
    ASSUME spec' = spec,
           \A n \in Nodes : EngineSound(node'[n], calls'[n], row', fence')
    PROVE  (\A n \in Nodes : EngineSound(node[n], calls[n], row, fence))'
<1> SUFFICES ASSUME NEW n \in Nodes PROVE EngineSound(node[n], calls[n], row, fence)'
  OBVIOUS
<1>1. EngineSound(node'[n], calls'[n], row', fence')
  OBVIOUS
<1>2. (\A o \in Orders : Group(o)' = Group(o) /\ (Waits(o)' <=> Waits(o)))
  BY DEF Group, Waits
<1>3. WorkSound(node[n], fence)'
  <2>1. WorkSound(node'[n], fence')
    BY <1>1 DEF EngineSound
  <2> QED
    BY <2>1 DEF WorkSound, Waits
<1>4. CopiesSound(node[n], row)'
  BY <1>1, <1>2 DEF EngineSound, CopiesSound
<1>5. CallsSound(node[n], calls[n], row)'
  BY <1>1, <1>2 DEF EngineSound, CallsSound
<1> QED
  BY <1>1, <1>3, <1>4, <1>5 DEF EngineSound

\* What an engine tracks after a step, said in the terms before it.
LEMMA TracksAfter ==
    ASSUME spec' = spec, NEW n \in Nodes, NEW o \in Orders,
           Tracks(node'[n], calls'[n], row', o)
    PROVE  Tracks(node[n], calls[n], row, o)'
BY DEF Tracks, Awaits, Group, Resting, Settled

\* A step of one engine that leaves the ledger and the fence alone.
LEMMA EngineStep ==
    ASSUME EngineInv, NEW n \in Nodes, NEW a, UNCHANGED <<spec, feed, row, sold, fence, filler>>,
           astray \subseteq astray', node' = [node EXCEPT ![n] = a], NEW c, calls' = [calls EXCEPT ![n] = c],
           EngineSound(a, c, row, fence),
           Owns(a, fence) /\ fence # 0 => Owns(node[n], fence),
           Owns(a, fence) /\ fence # 0 => \A o \in Orders \ astray' : Tracks(a, c, row, o),
           holder' = holder \/ holder' = None,
           holder' = n /\ holder' # None => a.held = node[n].held
    PROVE  EngineInv'
<1>1. /\ node'[n] = a /\ calls'[n] = c
      /\ node' = [m \in Nodes |-> node'[m]] /\ calls' = [m \in Nodes |-> calls'[m]]
      /\ \A m \in Nodes : m # n => node'[m] = node[m] /\ calls'[m] = calls[m]
  BY DEF EngineInv
<1>2. spec' = spec /\ row' = row /\ fence' = fence /\ astray \subseteq astray'
  OBVIOUS
<1>3. (\A m \in Nodes : EngineSound(node[m], calls[m], row, fence))'
  <2>1. ASSUME NEW m \in Nodes PROVE EngineSound(node'[m], calls'[m], row', fence')
    <3>1. EngineSound(node[m], calls[m], row, fence)
      BY DEF EngineInv
    <3> QED
      BY <1>1, <1>2, <3>1
  <2> QED
    BY <1>2, <2>1, EnginesAfter, Zenon
<1>4. ASSUME NEW m \in Nodes, fence # 0, Owns(node'[m], fence)
      PROVE  Owns(node[m], fence)
  BY <1>1, <1>4
<1>5. (\A m \in Nodes : fence # 0 /\ Owns(node[m], fence) =>
         \A o \in Orders \ astray : Tracks(node[m], calls[m], row, o))'
  <2> SUFFICES ASSUME NEW m \in Nodes, fence' # 0, Owns(node[m], fence)', NEW o \in (Orders \ astray)'
               PROVE  Tracks(node[m], calls[m], row, o)'
    OBVIOUS
  <2>1. Owns(node'[m], fence)
    BY <1>2 DEF Owns
  <2>2. o \in Orders \ astray' /\ o \in Orders \ astray
    BY <1>2
  <2>3. Tracks(node'[m], calls'[m], row', o)
    <3>1. CASE m = n
      BY <1>1, <1>2, <2>1, <2>2, <3>1
    <3>2. CASE m # n
      <4>1. Owns(node[m], fence)
        BY <1>2, <1>4, <2>1
      <4>2. Tracks(node[m], calls[m], row, o)
        BY <1>2, <2>2, <4>1 DEF EngineInv
      <4> QED
        BY <1>1, <1>2, <3>2, <4>2
    <3> QED
      BY <3>1, <3>2
  <2> QED
    BY <1>2, <2>2, <2>3, TracksAfter
<1>6. LeasesSound'
  <2>1. fence' \in Nat /\ filler' \in 0 .. fence'
    BY DEF EngineInv, LeasesSound
  <2>2. holder' # None => holder' \in Nodes /\ fence' # 0 /\ node'[holder'].held = fence'
    <3>1. CASE holder' = None
      BY <3>1
    <3>2. CASE holder' = holder /\ holder # n
      BY <1>1, <3>2 DEF EngineInv, LeasesSound
    <3>3. CASE holder' = holder /\ holder = n
      BY <1>1, <3>3 DEF EngineInv, LeasesSound
    <3> QED
      BY <3>1, <3>2, <3>3
  <2>3. ASSUME NEW k \in Nodes, NEW m \in Nodes, fence # 0,
               Owns(node'[k], fence), Owns(node'[m], fence)
        PROVE  k = m
    BY <1>4, <2>3 DEF EngineInv, LeasesSound
  <2> QED
    BY <1>2, <2>1, <2>2, <2>3 DEF LeasesSound, Owns
<1>7. RowsSound' /\ FillsTold'
  <2>1. RowsSound /\ FillsTold
    BY DEF EngineInv
  <2> QED
    BY <1>2, <2>1 DEF RowsSound, FillsTold, Group, Waits
<1>8. feed'.books \subseteq Books /\ QuantitiesSound'
  BY DEF EngineInv, QuantitiesSound
<1> QED
  BY <1>1, <1>3, <1>5, <1>6, <1>7, <1>8 DEF EngineInv

\* Tracks, copy by copy.
Rested(e, c, r, o) ==
    IF Awaits(c, o)
    THEN r[o].status \in Matchable => r[o] = [status |-> "OPEN", filled |-> 0]
    ELSE /\ r[o].status \in Matchable => RestedCopy(e, o) = r[o]
         /\ r[o].status = "PENDING_TRIGGER" => RestedWatch(e, o) = "PENDING_TRIGGER"

\* An engine tracks an order exactly if the copy it will be left with is right.
LEMMA TracksIs ==
    ASSUME NEW e, NEW c, NEW r, NEW f, EngineSound(e, c, r, f), QuantitiesSound, NEW o \in Orders
    PROVE  Tracks(e, c, r, o) <=> Rested(e, c, r, o)
<1>1. Resting(e).orders[o] = RestedCopy(e, o) /\ Resting(e).conditional[o] = RestedWatch(e, o)
  BY RestingIs DEF EngineSound
<1> QED
  BY <1>1 DEF Tracks, Rested

\* An engine whose copies and work stay.
LEMMA QuietChange ==
    ASSUME NEW e, NEW c, NEW r, NEW f, EngineSound(e, c, r, f), QuantitiesSound,
           NEW a, a \in Engines({a.work}), a.orders = e.orders, a.conditional = e.conditional,
           a.work = e.work, a.up, a.open => a.held # 0, a.held <= f
    PROVE  /\ EngineSound(a, c, r, f)
           /\ \A o \in Orders : Tracks(a, c, r, o) <=> Tracks(e, c, r, o)
<1>1. EngineSound(a, c, r, f)
  BY DEF EngineSound, WorkSound, CopiesSound, CallsSound
<1>2. ASSUME NEW o \in Orders PROVE Rested(a, c, r, o) <=> Rested(e, c, r, o)
  BY DEF Rested, RestedCopy, RestedWatch
<1> QED
  BY <1>1, <1>2, TracksIs

\* What the invariant says of one engine.
LEMMA EngineFacts ==
    ASSUME EngineInv, NEW n \in Nodes
    PROVE  /\ EngineSound(node[n], calls[n], row, fence) /\ QuantitiesSound
           /\ fence # 0 /\ Owns(node[n], fence) =>
                \A o \in Orders \ astray : Tracks(node[n], calls[n], row, o)
           /\ node[n] \in Engines({node[n].work}) /\ fence \in Nat /\ node[n].held \in Nat
           /\ node[n].held # 0 \/ node[n].open \/ calls[n] # {} \/ node[n].work # Idle
                => node[n].up
           /\ node = [node EXCEPT ![n] = node[n]] /\ calls = [calls EXCEPT ![n] = calls[n]]
           /\ node = [m \in Nodes |-> node[m]]
<1>1. EngineSound(node[n], calls[n], row, fence) /\ QuantitiesSound
  BY DEF EngineInv
<1>2. node[n] \in Engines({node[n].work}) /\ fence \in Nat
  BY <1>1 DEF EngineInv, EngineSound, LeasesSound
<1>3. node[n].held \in Nat
  BY <1>2, EngineTypes
<1>4. node = [node EXCEPT ![n] = node[n]] /\ calls = [calls EXCEPT ![n] = calls[n]]
  BY DEF EngineInv
<1> QED
  BY <1>1, <1>2, <1>3, <1>4 DEF EngineInv, EngineSound

(***************************************************************************)
(* Leases and processes.                                                   *)
(***************************************************************************)
\* The gate opens; nothing else moves.
LEMMA OpenGatePreserves ==
    ASSUME EngineInv, NEW n \in Nodes, OpenGate(n) PROVE EngineInv'
<1> DEFINE e == node[n]
           a == [e EXCEPT !.open = TRUE]
<1>1. node' = [node EXCEPT ![n] = a] /\ e.held # 0
  BY EngineFacts DEF OpenGate
<1>2. EngineSound(e, calls[n], row, fence) /\ QuantitiesSound /\ e.up
  BY <1>1, EngineFacts
<1>3. /\ a \in Engines({a.work}) /\ a.orders = e.orders /\ a.conditional = e.conditional
      /\ a.work = e.work /\ a.up = e.up /\ a.held = e.held
  BY EngineFacts DEF Engines
<1> HIDE DEF a
<1>4. /\ EngineSound(a, calls[n], row, fence)
      /\ \A o \in Orders : Tracks(a, calls[n], row, o) <=> Tracks(e, calls[n], row, o)
  <2>1. a.held <= fence /\ (a.open => a.held # 0) /\ a.up
    BY <1>1, <1>2, <1>3 DEF EngineSound
  <2> QED
    BY <1>2, <1>3, <2>1, QuietChange
<1>5. Owns(a, fence) => Owns(e, fence)
  BY <1>3 DEF Owns
<1>6. calls' = [calls EXCEPT ![n] = calls[n]]
  BY EngineFacts DEF OpenGate
<1> QED
  BY <1>1, <1>3, <1>4, <1>5, <1>6, EngineFacts, EngineStep DEF OpenGate, fixed, ledger

\* The lock is lost and the process does not know it yet: its token is still the
\* newest, and its copies are still right.
LEMMA LoseLockPreserves ==
    ASSUME EngineInv, NEW n \in Nodes, LoseLock(n) PROVE EngineInv'
<1>1. /\ node' = [node EXCEPT ![n] = node[n]] /\ calls' = [calls EXCEPT ![n] = calls[n]]
      /\ holder' = None
  BY EngineFacts DEF LoseLock
<1>2. UNCHANGED <<spec, feed, row, sold, fence, filler, astray>>
  BY DEF LoseLock, fixed, ledger
<1> QED
  BY <1>1, <1>2, EngineFacts, EngineStep

\* A process that learns of the loss gives up its lease. Work of the old event may
\* still be in hand, and still tracks the ledger while no successor is elected.
LEMMA NoticePreserves ==
    ASSUME EngineInv, NEW n \in Nodes, Notice(n) PROVE EngineInv'
<1> DEFINE e == node[n]
           a == [e EXCEPT !.held = 0, !.open = FALSE]
<1>1. node' = [node EXCEPT ![n] = a] /\ e.held # 0 /\ holder # n
  BY EngineFacts DEF Notice
<1>2. EngineSound(e, calls[n], row, fence) /\ QuantitiesSound /\ e.up
  BY <1>1, EngineFacts
<1>3. /\ a \in Engines({a.work}) /\ a.orders = e.orders /\ a.conditional = e.conditional
      /\ a.work = e.work /\ a.up = e.up /\ a.held = 0 /\ ~ a.open
  BY EngineFacts DEF Engines
<1> HIDE DEF a
<1>4. /\ EngineSound(a, calls[n], row, fence)
      /\ \A o \in Orders : Tracks(a, calls[n], row, o) <=> Tracks(e, calls[n], row, o)
  <2>1. a.held <= fence /\ (a.open => a.held # 0) /\ a.up
    BY <1>1, <1>2, <1>3, EngineFacts
  <2> QED
    BY <1>2, <1>3, <2>1, QuietChange
<1>5. Owns(a, fence) /\ fence # 0 => Owns(e, fence)
  BY <1>3 DEF Owns
<1>6. calls' = [calls EXCEPT ![n] = calls[n]] /\ holder' = holder /\ holder' # n
  BY <1>1, EngineFacts DEF Notice
<1> QED
  BY <1>1, <1>3, <1>4, <1>5, <1>6, EngineFacts, EngineStep DEF Notice, fixed, ledger

\* A reconnection closes the gate and restarts the versions under the same lease.
LEMMA ReconnectPreserves ==
    ASSUME EngineInv, NEW n \in Nodes, Reconnect(n) PROVE EngineInv'
<1> DEFINE e == node[n]
           a == [e EXCEPT !.open = FALSE, !.version = 0]
<1>1. node' = [node EXCEPT ![n] = a] /\ e.open
  BY EngineFacts DEF Reconnect
<1>2. EngineSound(e, calls[n], row, fence) /\ QuantitiesSound /\ e.up
  BY <1>1, EngineFacts
<1>3. /\ a \in Engines({a.work}) /\ a.orders = e.orders /\ a.conditional = e.conditional
      /\ a.work = e.work /\ a.up = e.up /\ a.held = e.held /\ ~ a.open
  BY EngineFacts DEF Engines
<1> HIDE DEF a
<1>4. /\ EngineSound(a, calls[n], row, fence)
      /\ \A o \in Orders : Tracks(a, calls[n], row, o) <=> Tracks(e, calls[n], row, o)
  <2>1. a.held <= fence /\ (a.open => a.held # 0) /\ a.up
    BY <1>1, <1>2, <1>3 DEF EngineSound
  <2> QED
    BY <1>2, <1>3, <2>1, QuietChange
<1>5. Owns(a, fence) => Owns(e, fence)
  BY <1>3 DEF Owns
<1>6. calls' = [calls EXCEPT ![n] = calls[n]]
  BY EngineFacts DEF Reconnect
<1> QED
  BY <1>1, <1>3, <1>4, <1>5, <1>6, EngineFacts, EngineStep DEF Reconnect, fixed, ledger

\* An engine that starts without a lease is sound whatever rows it restores.
LEMMA StartSound ==
    ASSUME NEW a, a \in Engines({a.work}), NEW r, NEW f \in Nat, a.held = 0, ~ a.open, a.work = Idle,
           CopiesSound(a, r)
    PROVE  EngineSound(a, {}, r, f)
BY DEF EngineSound, WorkSound, CallsSound

\* A crash forgets every copy, the lease and the requests on their way.
LEMMA CrashPreserves ==
    ASSUME EngineInv, NEW n \in Nodes, Crash(n) PROVE EngineInv'
<1>1. /\ Fresh \in Engines({Fresh.work}) /\ Fresh.held = 0 /\ ~ Fresh.open /\ Fresh.work = Idle
      /\ \A o \in Orders : Fresh.orders[o] = Absent /\ Fresh.conditional[o] = "absent"
  BY DEF Fresh, Engines, Entries, RowStatuses, Absent
<1>2. CopiesSound(Fresh, row)
  <2>0. QuantitiesSound
    BY EngineFacts
  <2>1. ASSUME NEW o \in Orders
        PROVE  /\ Fresh.orders[o].status = "absent" /\ Fresh.orders[o].filled = 0
               /\ Fresh.conditional[o] = "absent" /\ spec[o].quantity \in Nat
    BY <1>1, <2>0 DEF Absent, QuantitiesSound
  <2> QED
    BY <2>1 DEF CopiesSound, Matchable
<1>3. EngineSound(Fresh, {}, row, fence)
  BY <1>1, <1>2, EngineFacts, StartSound
<1>4. ~ (Owns(Fresh, fence) /\ fence # 0)
  BY <1>1 DEF Owns
<1>5. /\ node' = [node EXCEPT ![n] = Fresh] /\ calls' = [calls EXCEPT ![n] = {}]
      /\ holder' = holder \/ holder' = None
      /\ holder' # n \/ holder' = None
      /\ UNCHANGED <<spec, feed, row, sold, fence, filler, astray>>
  BY DEF Crash, fixed, ledger
<1> QED
  BY <1>3, <1>4, <1>5, EngineStep

\* A process that starts copies the live rows, and has no lease yet.
LEMMA BootPreserves ==
    ASSUME EngineInv, NEW n \in Nodes, Boot(n) PROVE EngineInv'
<1> DEFINE e == node[n]
           watched == {o \in Orders : row[o].status = "PENDING_TRIGGER"
                                        /\ spec[o].type \in Conditional}
           os == [o \in Orders |->
                    IF row[o].status \in Matchable \/ o \in watched THEN row[o] ELSE Absent]
           cs == [o \in Orders |-> IF o \in watched THEN "PENDING_TRIGGER" ELSE "absent"]
           a == Restored(n)
<1>1. /\ e.held = 0 /\ ~ e.open /\ e.work = Idle /\ calls[n] = {}
      /\ node' = [node EXCEPT ![n] = a]
  BY EngineFacts DEF Boot, EngineSound
<1>2. a = [e EXCEPT !.up = TRUE, !.orders = os, !.conditional = cs]
  BY DEF Restored
<1>3. row \in [Orders -> [status : RowStatuses, filled : Nat]]
  BY DEF EngineInv, RowsSound
<1>4. os \in [Orders -> Entries]
  <2>1. ASSUME NEW o \in Orders PROVE row[o] \in Entries
    BY <1>3 DEF Entries
  <2>2. Absent \in Entries
    BY DEF Absent, Entries, RowStatuses
  <2> QED
    BY <2>1, <2>2
<1>5. cs \in [Orders -> {"absent", "PENDING_TRIGGER", "TRIGGERED"}]
  OBVIOUS
<1>6. ASSUME NEW o \in Orders
      PROVE  /\ os[o].filled <= spec[o].quantity
             /\ os[o].status \in Matchable => ~ Waits(o)
             /\ os[o].status # "absent" => row[o].status # "absent"
             /\ cs[o] # "absent" => Waits(o) /\ row[o].status # "absent"
  <2>1. /\ row[o].filled <= spec[o].quantity /\ spec[o].quantity \in Nat
        /\ row[o].status \in Matchable => ~ Waits(o)
        /\ row[o].status = "PENDING_TRIGGER" => Waits(o)
    BY DEF EngineInv, RowsSound, QuantitiesSound
  <2>2. os[o] = row[o] \/ (os[o].status = "absent" /\ os[o].filled = 0)
    BY DEF Absent
  <2> QED
    BY <2>1, <2>2 DEF Matchable
<1> HIDE DEF os, cs, a
<1>7. /\ a \in Engines({a.work}) /\ a.orders = os /\ a.conditional = cs
      /\ a.work = Idle /\ a.held = 0 /\ ~ a.open
  <2>1. e \in Engines({e.work})
    BY EngineFacts
  <2> HIDE DEF e
  <2> QED
    BY <1>1, <1>2, <1>4, <1>5, <2>1 DEF Engines
<1>8. CopiesSound(a, row)
  BY <1>6, <1>7 DEF CopiesSound
<1>9. EngineSound(a, {}, row, fence)
  BY <1>7, <1>8, EngineFacts, StartSound
<1>10. ~ (Owns(a, fence) /\ fence # 0)
  BY <1>7 DEF Owns
<1>11. /\ calls' = [calls EXCEPT ![n] = {}] /\ holder' = holder
       /\ UNCHANGED <<spec, feed, row, sold, fence, filler, astray>>
  BY <1>1, EngineFacts DEF Boot, fixed, ledger
<1> QED
  BY <1>1, <1>7, <1>9, <1>10, <1>11, EngineStep

(***************************************************************************)
(* Requests that reach the engine.                                         *)
(***************************************************************************)
\* Calls that are heard are no longer on their way.
LEMMA FewerCalls ==
    ASSUME NEW e, NEW c, NEW r, CallsSound(e, c, r), NEW d, d \subseteq c
    PROVE  CallsSound(e, d, r)
BY DEF CallsSound

\* What is cancelled has ended.
LEMMA CancellationIs ==
    ASSUME NEW e, NEW c, NEW r, CallsSound(e, c, r), NEW o, <<"cancel", o>> \in c
    PROVE  o \in Orders /\ r[o].status \in Terminal
<1>1. ASSUME NEW call \in c, call = <<"cancel", o>>
      PROVE  o \in Orders /\ r[o].status \in Terminal
  BY <1>1 DEF CallsSound
<1> QED
  BY <1>1

\* What is placed has rows and no copies yet.
LEMMA PlacementIs ==
    ASSUME NEW e, NEW c, NEW r, CallsSound(e, c, r), NEW o, <<"place", o>> \in c
    PROVE  /\ o = Min(Group(o))
           /\ \A p \in Group(o) : /\ r[p].status # "absent" /\ e.orders[p].status = "absent"
                                  /\ e.conditional[p] = "absent"
<1>1. ASSUME NEW call \in c, call = <<"place", o>>
      PROVE  /\ o = Min(Group(o))
             /\ \A p \in Group(o) : /\ r[p].status # "absent" /\ e.orders[p].status = "absent"
                                    /\ e.conditional[p] = "absent"
  BY <1>1 DEF CallsSound
<1> QED
  BY <1>1

\* Once the placement of o is heard, the rest of o's group is no longer awaited
\* and every other order is awaited as before.
LEMMA HeardPlacement ==
    ASSUME NEW c, NEW o \in Orders, o = Min(Group(o)), NEW d, d = c \ {<<"place", o>>},
           NEW p \in Orders
    PROVE  /\ p \in Group(o) => ~ Awaits(d, p) /\ (<<"place", o>> \in c => Awaits(c, p))
           /\ p \notin Group(o) => (Awaits(d, p) <=> Awaits(c, p))
<1>1. CASE p \in Group(o)
  <2>1. Min(Group(p)) = o
    BY <1>1, FirstLeg
  <2> QED
    BY <1>1, <2>1 DEF Awaits
<1>2. CASE p \notin Group(o)
  <2>1. Min(Group(p)) # o
    BY <1>2, FirstLeg
  <2> QED
    BY <1>2, <2>1 DEF Awaits
<1> QED
  BY <1>1, <1>2

\* The cancellation reaches the engine: the row has ended, so no live copy is lost.
LEMMA EngineCancelPreserves ==
    ASSUME EngineInv, NEW n \in Nodes, NEW o \in Orders, EngineCancel(n, o) PROVE EngineInv'
<1> DEFINE e == node[n]
           entry == e.orders[o]
           next == IF entry.status \in Terminal \cup {"absent"} THEN entry
                   ELSE [entry EXCEPT !.status = "CANCELLED"]
           os == [e.orders EXCEPT ![o] = next]
           a == [e EXCEPT !.orders = os]
           c == calls[n] \ {<<"cancel", o>>}
<1>1. /\ EngineSound(e, calls[n], row, fence) /\ QuantitiesSound
      /\ e \in Engines({e.work}) /\ fence \in Nat /\ e.work = Idle
      /\ row[o].status \in Terminal
      /\ e.orders \in [Orders -> Entries]
  <2>1. EngineSound(e, calls[n], row, fence) /\ QuantitiesSound /\ fence \in Nat
    BY EngineFacts
  <2>2. e.work = Idle /\ <<"cancel", o>> \in calls[n]
    BY DEF EngineCancel
  <2>3. e \in Engines({e.work}) /\ CallsSound(e, calls[n], row)
    BY <2>1 DEF EngineSound
  <2> HIDE DEF e
  <2> QED
    BY <2>1, <2>2, <2>3, CancellationIs, EngineTypes
<1>2. /\ node' = [node EXCEPT ![n] = a] /\ calls' = [calls EXCEPT ![n] = c]
  <2>1. node' = [node EXCEPT ![n].orders[o] = next]
    BY DEF EngineCancel
  <2>2. node = [m \in Nodes |-> node[m]]
    BY EngineFacts
  <2>3. calls' = [calls EXCEPT ![n] = c]
    BY DEF EngineCancel, Done
  <2> HIDE DEF next
  <2> QED
    BY <1>1, <2>1, <2>2, <2>3 DEF Engines
<1>3. /\ next \in Entries /\ next.filled = entry.filled
      /\ next.status = entry.status \/ next.status = "CANCELLED"
      /\ next.status = "absent" <=> entry.status = "absent"
  <2>1. entry \in Entries
    BY <1>1
  <2> HIDE DEF entry
  <2> QED
    BY <2>1 DEF Entries, RowStatuses, Terminal
<1> HIDE DEF next
<1>4. os[o] = next /\ \A p \in Orders : p # o => os[p] = e.orders[p]
  BY <1>1
<1>5. os \in [Orders -> Entries]
  BY <1>1, <1>3
<1>6. /\ a \in Engines({a.work}) /\ a.orders = os /\ a.conditional = e.conditional
      /\ a.work = Idle /\ a.up = e.up /\ a.held = e.held /\ a.open = e.open
  <2> HIDE DEF e, os
  <2> QED
    BY <1>1, <1>5 DEF Engines
<1> HIDE DEF a, os
<1>7. CopiesSound(a, row)
  <2> SUFFICES ASSUME NEW p \in Orders
               PROVE  /\ a.orders[p].filled <= spec[p].quantity
                      /\ a.orders[p].status \in Matchable => ~ Waits(p)
                      /\ a.orders[p].status # "absent" => row[p].status # "absent"
                      /\ a.conditional[p] # "absent" => Waits(p) /\ row[p].status # "absent"
    BY DEF CopiesSound
  <2>1. /\ e.orders[p].filled <= spec[p].quantity
        /\ e.orders[p].status \in Matchable => ~ Waits(p)
        /\ e.orders[p].status # "absent" => row[p].status # "absent"
        /\ e.conditional[p] # "absent" => Waits(p) /\ row[p].status # "absent"
    BY <1>1 DEF EngineSound, CopiesSound
  <2>2. CASE p = o
    BY <2>1, <2>2, <1>3, <1>4, <1>6 DEF Matchable
  <2>3. CASE p # o
    BY <2>1, <2>3, <1>4, <1>6
  <2> QED
    BY <2>2, <2>3
<1>8. CallsSound(a, c, row)
  <2>1. CallsSound(e, c, row)
    BY <1>1, FewerCalls DEF EngineSound
  <2>2. \A p \in Orders : e.orders[p].status = "absent" => a.orders[p].status = "absent"
    BY <1>3, <1>4, <1>6
  <2>3. \A p \in Orders : Group(p) \subseteq Orders
    BY DEF Group
  <2> HIDE DEF c
  <2> QED
    BY <1>6, <2>1, <2>2, <2>3 DEF CallsSound
<1>9. EngineSound(a, c, row, fence)
  <2>1. e.up /\ (e.open => e.held # 0) /\ e.held <= fence
    <3>1. <<"cancel", o>> \in calls[n]
      BY DEF EngineCancel
    <3> QED
      BY <1>1, <3>1 DEF EngineSound
  <2> HIDE DEF c
  <2> QED
    BY <1>6, <1>7, <1>8, <2>1 DEF EngineSound, WorkSound
<1>10. ASSUME NEW p \in Orders, Tracks(e, calls[n], row, p) PROVE Tracks(a, c, row, p)
  <2>1. Rested(e, calls[n], row, p)
    BY <1>1, <1>10, TracksIs
  <2>2. Awaits(c, p) <=> Awaits(calls[n], p)
    BY DEF Awaits
  <2>3. p = o => row[p].status \notin Matchable \cup {"PENDING_TRIGGER"}
    BY <1>1 DEF Terminal, Matchable
  <2>4. p # o => RestedCopy(a, p) = RestedCopy(e, p)
    BY <1>1, <1>4, <1>6 DEF RestedCopy
  <2>5. RestedWatch(a, p) = RestedWatch(e, p)
    BY <1>1, <1>6 DEF RestedWatch
  <2>6. Rested(a, c, row, p)
    BY <2>1, <2>2, <2>3, <2>4, <2>5 DEF Rested
  <2> QED
    BY <1>1, <1>9, <2>6, TracksIs
<1>11. Owns(a, fence) => Owns(e, fence)
  BY <1>6, <1>1 DEF Owns
<1>12. Owns(a, fence) /\ fence # 0 => \A p \in Orders \ astray : Tracks(a, c, row, p)
  BY <1>10, <1>11, EngineFacts
<1>13. holder' = holder /\ UNCHANGED <<spec, feed, row, sold, fence, filler, astray>>
  BY DEF EngineCancel, fixed, ledger
<1> HIDE DEF c
<1> QED
  BY <1>2, <1>6, <1>9, <1>11, <1>12, <1>13, EngineStep

\* A waiting order is registered, maybe in the middle of a trade: its copies say
\* what its rows say.
LEMMA EngineRegisterPreserves ==
    ASSUME EngineInv, NEW n \in Nodes, NEW o \in Orders, EngineRegister(n, o) PROVE EngineInv'
<1> DEFINE e == node[n]
           registered == [status |-> "PENDING_TRIGGER", filled |-> 0]
           os == [p \in Orders |-> IF p \in Group(o) THEN registered ELSE e.orders[p]]
           cs == [p \in Orders |-> IF p \in Group(o) THEN "PENDING_TRIGGER" ELSE e.conditional[p]]
           w == IF e.work.kind = "trade"
                THEN [e.work EXCEPT !.todo = e.work.todo \cup Group(o)] ELSE e.work
           a == Registered(e, o)
           c == calls[n] \ {<<"place", o>>}
<1>1. /\ EngineSound(e, calls[n], row, fence) /\ QuantitiesSound
      /\ e \in Engines({e.work}) /\ fence \in Nat /\ e.up
      /\ o = Min(Group(o)) /\ <<"place", o>> \in calls[n] /\ Waits(o)
      /\ \A p \in Group(o) : /\ row[p].status # "absent" /\ e.orders[p].status = "absent"
                             /\ e.conditional[p] = "absent"
  <2>1. EngineSound(e, calls[n], row, fence) /\ QuantitiesSound /\ fence \in Nat
    BY EngineFacts
  <2>2. <<"place", o>> \in calls[n] /\ Waits(o)
    BY DEF EngineRegister
  <2>3. e.up
    BY <2>2, EngineFacts
  <2>4. e \in Engines({e.work}) /\ CallsSound(e, calls[n], row)
    BY <2>1 DEF EngineSound
  <2> HIDE DEF e
  <2>5. /\ o = Min(Group(o))
        /\ \A p \in Group(o) : /\ row[p].status # "absent" /\ e.orders[p].status = "absent"
                               /\ e.conditional[p] = "absent"
    <3> DEFINE c0 == calls[n]
    <3> HIDE DEF c0
    <3>1. <<"place", o>> \in c0 /\ CallsSound(e, c0, row)
      BY <2>2, <2>4 DEF c0
    <3> QED
      BY <3>1, PlacementIs, Zenon
  <2> QED
    BY <2>1, <2>2, <2>3, <2>4, <2>5
<1>2. /\ e.orders \in [Orders -> Entries]
      /\ e.conditional \in [Orders -> {"absent", "PENDING_TRIGGER", "TRIGGERED"}]
      /\ WorkSound(e, fence) /\ CopiesSound(e, row) /\ CallsSound(e, calls[n], row)
      /\ (e.open => e.held # 0) /\ e.held <= fence
  BY <1>1, EngineTypes DEF EngineSound
<1>3. node' = [node EXCEPT ![n] = a] /\ calls' = [calls EXCEPT ![n] = c]
  BY DEF EngineRegister, Done
<1>4. a = [e EXCEPT !.conditional = cs, !.orders = os, !.work = w]
  BY Zenon DEF Registered
<1>5. /\ os \in [Orders -> Entries]
      /\ cs \in [Orders -> {"absent", "PENDING_TRIGGER", "TRIGGERED"}]
  BY <1>2 DEF Entries, RowStatuses
<1>6. ASSUME NEW p \in Orders
      PROVE  /\ p \in Group(o) => os[p] = registered /\ cs[p] = "PENDING_TRIGGER"
             /\ p \notin Group(o) => os[p] = e.orders[p] /\ cs[p] = e.conditional[p]
  OBVIOUS
<1>7. /\ w # Idle <=> e.work # Idle
      /\ e.work # Idle => /\ w \in Flights(w) /\ w.kind = e.work.kind /\ w.env = e.work.env
                          /\ w.order = e.work.order /\ w.was = e.work.was
                          /\ w.next = e.work.next /\ w.outcome = e.work.outcome
                          /\ w.kind = "match" => w.todo = e.work.todo
  <2>1. CASE e.work = Idle
    BY <2>1 DEF Idle
  <2>2. CASE e.work # Idle
    <3> DEFINE v == e.work
    <3>1. v \in Flights(v)
      BY <1>2, <2>2 DEF WorkSound
    <3>2. Group(o) \subseteq Orders
      BY DEF Group
    <3> HIDE DEF v
    <3> QED
      BY <2>2, <3>1, <3>2 DEF Flights, Idle, v
  <2> QED
    BY <2>1, <2>2
<1> HIDE DEF w, os, cs, a
<1>8. /\ a \in Engines({a.work}) /\ a.orders = os /\ a.conditional = cs
      /\ a.work = w /\ a.up = e.up /\ a.held = e.held /\ a.open = e.open
  <2> HIDE DEF e
  <2> QED
    BY <1>1, <1>4, <1>5 DEF Engines
<1>9. e.work # Idle => e.work.order \in Orders /\ e.work.order \notin Group(o)
  <2> SUFFICES ASSUME e.work # Idle PROVE e.work.order \in Orders /\ e.work.order \notin Group(o)
    OBVIOUS
  <2>1. e.work.kind \in {"match", "trade"} /\ e.work.order \in Orders
    BY <1>2 DEF WorkSound, Flights
  <2>2. e.work.kind = "match" => e.orders[e.work.order].status # "absent"
    BY <1>2 DEF WorkSound, Matchable
  <2>3. e.work.kind = "trade" => e.conditional[e.work.order] # "absent"
    BY <1>2 DEF WorkSound
  <2> QED
    BY <1>1, <2>1, <2>2, <2>3
<1>10. WorkSound(a, fence)
  <2> SUFFICES ASSUME e.work # Idle PROVE WorkSound(a, fence)
    BY <1>7, <1>8 DEF WorkSound
  <2>1. e.work.kind = "match" => \A p \in e.work.todo : a.orders[p].status \in Matchable
    <3> SUFFICES ASSUME e.work.kind = "match", NEW p \in e.work.todo
                 PROVE  a.orders[p].status \in Matchable
      OBVIOUS
    <3>1. p \in Orders /\ e.orders[p].status \in Matchable
      BY <1>2 DEF WorkSound, Flights
    <3>2. p \notin Group(o)
      BY <1>1, <3>1 DEF Matchable
    <3> QED
      BY <1>6, <1>8, <3>1, <3>2
  <2>2. /\ a.orders[e.work.order] = e.orders[e.work.order]
        /\ a.conditional[e.work.order] = e.conditional[e.work.order]
    BY <1>6, <1>8, <1>9
  <2> QED
    BY <1>2, <1>7, <1>8, <2>1, <2>2 DEF WorkSound
<1>11. CopiesSound(a, row)
  <2> SUFFICES ASSUME NEW p \in Orders
               PROVE  /\ a.orders[p].filled <= spec[p].quantity
                      /\ a.orders[p].status \in Matchable => ~ Waits(p)
                      /\ a.orders[p].status # "absent" => row[p].status # "absent"
                      /\ a.conditional[p] # "absent" => Waits(p) /\ row[p].status # "absent"
    BY DEF CopiesSound
  <2>1. CASE p \in Group(o)
    <3>1. spec[p].quantity \in Nat /\ Waits(p)
      BY <1>1, <2>1, GroupFacts DEF QuantitiesSound
    <3> QED
      BY <1>1, <1>6, <1>8, <2>1, <3>1 DEF Matchable
  <2>2. CASE p \notin Group(o)
    BY <2>2, <1>2, <1>6, <1>8 DEF CopiesSound
  <2> QED
    BY <2>1, <2>2
<1>12. CallsSound(a, c, row)
  <2>1. CallsSound(e, c, row)
    BY <1>2, FewerCalls
  <2> SUFFICES ASSUME NEW call \in c,
                      call[1] = "place", call[2] \in Orders, call = <<"place", call[2]>>,
                      call[2] = Min(Group(call[2])), NEW p \in Group(call[2])
               PROVE  a.orders[p] = e.orders[p] /\ a.conditional[p] = e.conditional[p]
    <3> HIDE DEF c
    <3> QED
      BY <2>1 DEF CallsSound
  <2>2. call[2] # o
    OBVIOUS
  <2>3. p \in Orders /\ Min(Group(p)) = call[2]
    BY GroupFacts
  <2>4. p \notin Group(o)
    BY <1>1, <2>2, <2>3, FirstLeg
  <2> QED
    BY <1>6, <1>8, <2>3, <2>4
<1>13. EngineSound(a, c, row, fence)
  BY <1>1, <1>2, <1>8, <1>10, <1>11, <1>12 DEF EngineSound
<1>14. Owns(a, fence) <=> Owns(e, fence)
  BY <1>7, <1>8 DEF Owns
<1>15. ASSUME NEW p \in Orders, Tracks(e, calls[n], row, p) PROVE Tracks(a, c, row, p)
  <2>1. Rested(e, calls[n], row, p)
    BY <1>1, <1>15, TracksIs
  <2>2. CASE p \in Group(o)
    <3>1. ~ Awaits(c, p) /\ Waits(p)
      BY <1>1, <2>2, HeardPlacement, GroupFacts
    <3>2. row[p].status \notin Matchable
      BY <3>1 DEF EngineInv, RowsSound
    <3>3. RestedWatch(a, p) = "PENDING_TRIGGER"
      BY <2>2, <1>6, <1>7, <1>8, <1>9 DEF RestedWatch
    <3>4. Rested(a, c, row, p)
      BY <3>1, <3>2, <3>3 DEF Rested
    <3> QED
      BY <1>1, <1>13, <3>4, TracksIs
  <2>3. CASE p \notin Group(o)
    <3>1. Awaits(c, p) <=> Awaits(calls[n], p)
      BY <1>1, <2>3, HeardPlacement
    <3>2. RestedCopy(a, p) = RestedCopy(e, p) /\ RestedWatch(a, p) = RestedWatch(e, p)
      BY <2>3, <1>6, <1>7, <1>8 DEF RestedCopy, RestedWatch
    <3>3. Rested(a, c, row, p)
      BY <2>1, <3>1, <3>2 DEF Rested
    <3> QED
      BY <1>1, <1>13, <3>3, TracksIs
  <2> QED
    BY <2>2, <2>3
<1>16. Owns(a, fence) /\ fence # 0 => \A p \in Orders \ astray : Tracks(a, c, row, p)
  BY <1>14, <1>15, EngineFacts
<1>17. holder' = holder /\ UNCHANGED <<spec, feed, row, sold, fence, filler, astray>>
  BY DEF EngineRegister, fixed, ledger
<1> HIDE DEF c
<1> QED
  BY <1>3, <1>8, <1>13, <1>14, <1>16, <1>17, EngineStep

\* An engine that goes on from another one keeps hearing the same calls.
LEMMA CallsFollow ==
    ASSUME NEW e, NEW a, NEW c, NEW r, CallsSound(e, c, r),
           \A o \in Orders : e.orders[o].status = "absent" /\ e.conditional[o] = "absent"
                               => a.orders[o].status = "absent" /\ a.conditional[o] = "absent"
    PROVE  CallsSound(a, c, r)
<1>1. \A p \in Orders : Group(p) \subseteq Orders
  BY DEF Group
<1> QED
  BY <1>1 DEF CallsSound

\* The engine has the copies b first and then goes on to a.
GoesOn(b, a, c) ==
    /\ a \in Engines({a.work}) /\ WorkSound(a, fence) /\ CopiesSound(a, row)
    /\ CallsSound(b, c, row)
    /\ \A o \in Orders :
         /\ b.orders[o].status = "absent" /\ b.conditional[o] = "absent"
              => a.orders[o].status = "absent" /\ a.conditional[o] = "absent"
         /\ Waits(o) \/ RestedCopy(a, o) = b.orders[o]
         /\ RestedWatch(a, o) = b.conditional[o]

\* The copies b say what the row of o says, as far as c has been heard.
Says(b, c, o) ==
    IF Awaits(c, o)
    THEN row[o].status \in Matchable => row[o] = [status |-> "OPEN", filled |-> 0]
    ELSE /\ row[o].status \in Matchable => b.orders[o] = row[o]
         /\ row[o].status = "PENDING_TRIGGER" => b.conditional[o] = "PENDING_TRIGGER"

\* A process hears of a request or an event, works on it and has all copies right
\* that were right before.
LEMMA HandledPreserves ==
    ASSUME EngineInv, NEW n \in Nodes, node[n].up, NEW a, NEW c,
           node' = [node EXCEPT ![n] = a], calls' = [calls EXCEPT ![n] = c],
           UNCHANGED <<spec, feed, row, sold, fence, filler, astray, holder>>,
           NEW b, a.up = node[n].up, a.held = node[n].held, a.open = node[n].open,
           a.work # Idle /\ fence # 0 /\ a.work.env.token = fence => Owns(node[n], fence),
           GoesOn(b, a, c),
           \A o \in Orders : Tracks(node[n], calls[n], row, o) => Says(b, c, o)
    PROVE  EngineInv'
<1> DEFINE e == node[n]
<1>1. EngineSound(e, calls[n], row, fence) /\ QuantitiesSound
  BY EngineFacts
<1>2. CallsSound(a, c, row)
  BY CallsFollow DEF GoesOn
<1>3. EngineSound(a, c, row, fence)
  BY <1>1, <1>2 DEF EngineSound, GoesOn
<1>4. Owns(a, fence) /\ fence # 0 => Owns(e, fence)
  BY DEF Owns
<1>5. ASSUME NEW o \in Orders, Tracks(e, calls[n], row, o) PROVE Tracks(a, c, row, o)
  <2>1. row[o].status \in Matchable => ~ Waits(o)
    BY DEF EngineInv, RowsSound
  <2>2. Rested(a, c, row, o)
    BY <1>5, <2>1 DEF Rested, Says, GoesOn
  <2> QED
    BY <1>1, <1>3, <2>2, TracksIs
<1>6. Owns(a, fence) /\ fence # 0 => \A o \in Orders \ astray : Tracks(a, c, row, o)
  BY <1>4, <1>5, EngineFacts
<1> HIDE DEF e
<1> QED
  BY <1>3, <1>4, <1>6, EngineStep DEF e

\* The loop settles the answer and goes on to its next transaction or to its end.
LEMMA ResumePreserves ==
    ASSUME EngineInv, NEW n \in Nodes, Resume(n) PROVE EngineInv'
<1> DEFINE e == node[n]
           w == e.work
           s == Settled(e)
           v == [kind |-> w.kind, env |-> w.env, todo |-> w.todo]
           b == [s EXCEPT !.work = v]
<1>1. /\ EngineSound(e, calls[n], row, fence) /\ QuantitiesSound /\ fence \in Nat
      /\ e \in Engines({e.work}) /\ WorkSound(e, fence) /\ CopiesSound(e, row)
      /\ CallsSound(e, calls[n], row)
      /\ w # Idle /\ w.outcome # "pending" /\ e.up
  BY EngineFacts DEF Resume, EngineSound
<1>2. PICK a : /\ a \in IF w.kind = "match" /\ w.outcome = "error" THEN {[s EXCEPT !.work = Idle]}
                        ELSE Advance(b)
               /\ node' = [node EXCEPT ![n] = a]
  BY DEF Resume
<1>3. /\ s \in Engines({s.work}) /\ s.work = w /\ s.up = e.up /\ s.held = e.held /\ s.open = e.open
      /\ \A o \in Orders : s.orders[o] = RestedCopy(e, o) /\ s.conditional[o] = RestedWatch(e, o)
  <2> HIDE DEF e, s
  <2> QED
    BY <1>1, SettledIs DEF s
<1>4. /\ w.kind \in {"match", "trade"} /\ w.todo \subseteq Orders /\ w.order \in Orders
      /\ w.was \in Entries /\ w.env.token \in 1 .. fence /\ w.was.filled <= spec[w.order].quantity
      /\ w.outcome \in Outcomes
      /\ w.kind = "match" =>
           /\ w.env.payload \in Books /\ ~ Waits(w.order) /\ w.was.status \in Matchable
           /\ e.orders[w.order].status # "absent"
           /\ \A p \in w.todo : p # w.order /\ e.orders[p].status \in Matchable
      /\ w.kind = "trade" => w.was.status = "PENDING_TRIGGER" /\ e.conditional[w.order] = "TRIGGERED"
  BY <1>1 DEF WorkSound, Flights, Matchable
<1>5. ASSUME NEW o \in Orders
      PROVE  /\ s.orders[o].filled <= spec[o].quantity
             /\ s.orders[o].status \in Matchable => ~ Waits(o)
             /\ s.orders[o].status # "absent" => row[o].status # "absent"
             /\ s.conditional[o] # "absent" => Waits(o) /\ row[o].status # "absent"
             /\ e.orders[o].status = "absent" /\ e.conditional[o] = "absent"
                  => s.orders[o].status = "absent" /\ s.conditional[o] = "absent"
  <2>1. /\ e.orders[o].filled <= spec[o].quantity
        /\ e.orders[o].status \in Matchable => ~ Waits(o)
        /\ e.orders[o].status # "absent" => row[o].status # "absent"
        /\ e.conditional[o] # "absent" => Waits(o) /\ row[o].status # "absent"
        /\ spec[o].quantity \in Nat
    BY <1>1 DEF CopiesSound, QuantitiesSound
  <2>2. CASE o # w.order
    BY <1>3, <2>1, <2>2 DEF RestedCopy, RestedWatch
  <2>3. CASE o = w.order
    <3>1. row[o].status # "absent" /\ (e.orders[o].status # "absent" \/ e.conditional[o] # "absent")
      BY <1>4, <2>1, <2>3
    <3>2. s.orders[o].filled <= spec[o].quantity /\ (s.orders[o].status \in Matchable => ~ Waits(o))
      <4>1. s.orders[o] = RestedCopy(e, o)
        BY <1>3
      <4>2. CASE w.outcome = "committed"
        BY <1>1, <2>1, <2>3, <4>1, <4>2 DEF RestedCopy
      <4>3. CASE w.outcome \in Terminal
        <5>1. s.orders[o] = [status |-> w.outcome,
                             filled |-> IF w.outcome = "FILLED" THEN spec[o].quantity
                                        ELSE w.was.filled]
          BY <1>1, <2>3, <4>1, <4>3 DEF RestedCopy, Terminal
        <5> QED
          BY <1>4, <2>1, <2>3, <4>3, <5>1 DEF Terminal, Matchable
      <4>4. CASE w.outcome = "error"
        <5>1. s.orders[o] = w.was
          BY <1>1, <2>3, <4>1, <4>4 DEF RestedCopy, Terminal
        <5> QED
          BY <1>4, <2>3, <5>1 DEF Matchable
      <4> QED
        BY <1>1, <1>4, <4>2, <4>3, <4>4 DEF Outcomes
    <3>3. s.conditional[o] # "absent" => Waits(o)
      <4>1. s.conditional[o] = RestedWatch(e, o)
        BY <1>3
      <4> QED
        BY <1>1, <1>4, <2>1, <2>3, <4>1 DEF RestedWatch
    <3> QED
      BY <3>1, <3>2, <3>3
  <2> QED
    BY <2>2, <2>3
<1> HIDE DEF s
<1>6. CopiesSound(s, row)
  BY <1>5 DEF CopiesSound
<1>7. /\ Follows(a, s, row, fence) \/ Follows(a, b, row, fence)
      /\ a.work # Idle => a.work.env = w.env
      /\ b.up = s.up /\ b.held = s.held /\ b.open = s.open /\ b.orders = s.orders
      /\ b.conditional = s.conditional
  <2>1. /\ b \in Engines({b.work}) /\ b.up = s.up /\ b.held = s.held /\ b.open = s.open
        /\ b.orders = s.orders /\ b.conditional = s.conditional
        /\ b.work.kind = w.kind /\ b.work.env = w.env /\ b.work.todo = w.todo
        /\ CopiesSound(b, row)
    <3>1. v.kind = w.kind /\ v.env = w.env /\ v.todo = w.todo
      OBVIOUS
    <3>2. /\ b \in Engines({b.work}) /\ b.orders = s.orders /\ b.conditional = s.conditional
          /\ b.work = v /\ b.up = s.up /\ b.held = s.held /\ b.open = s.open
          /\ CopiesSound(b, row)
      <4>1. s \in Engines({s.work})
        BY <1>3
      <4> HIDE DEF v
      <4> QED
        BY <4>1, <1>6, SameCopies, Zenon
    <3> HIDE DEF b, v
    <3> QED
      BY <3>1, <3>2
  <2>2. CASE w.kind = "match" /\ w.outcome = "error"
    <3>1. a = [s EXCEPT !.work = Idle]
      BY <1>2, <2>2
    <3>2. a.work = Idle
      BY <1>3, <3>1 DEF Engines
    <3>3. Follows(a, s, row, fence)
      BY <1>1, <1>3, <1>6, <3>1, EndFollows
    <3> HIDE DEF b
    <3> QED
      BY <2>1, <3>2, <3>3
  <2>3. CASE ~ (w.kind = "match" /\ w.outcome = "error")
    <3> HIDE DEF b
    <3>1. a \in Advance(b)
      BY <1>2, <2>3
    <3>2. LoopSound(b, fence)
      <4>1. w.kind = "match" => \A p \in w.todo : s.orders[p].status \in Matchable
        BY <1>3, <1>4 DEF RestedCopy
      <4> QED
        BY <1>4, <2>1, <4>1 DEF LoopSound
    <3>3. Follows(a, b, row, fence)
      BY <1>1, <2>1, <3>1, <3>2, AdvanceFollows
    <3> QED
      BY <2>1, <3>3 DEF Follows
  <2> QED
    BY <2>2, <2>3
<1> HIDE DEF b
<1>8. CallsSound(s, calls[n], row)
  BY <1>1, <1>5, CallsFollow
<1>9. GoesOn(s, a, calls[n]) /\ a.up = e.up /\ a.held = e.held /\ a.open = e.open
  BY <1>3, <1>7, <1>8 DEF Follows, GoesOn
<1>10. ASSUME NEW o \in Orders, Tracks(e, calls[n], row, o) PROVE Says(s, calls[n], o)
  <2>1. Rested(e, calls[n], row, o)
    BY <1>1, <1>10, TracksIs
  <2> QED
    BY <1>3, <2>1 DEF Rested, Says
<1>11. a.work # Idle /\ fence # 0 /\ a.work.env.token = fence => Owns(e, fence)
  BY <1>1, <1>7 DEF Owns
<1>12. /\ calls' = [calls EXCEPT ![n] = calls[n]]
       /\ UNCHANGED <<spec, feed, row, sold, fence, filler, astray, holder>>
  BY EngineFacts DEF Resume, fixed, ledger
<1> QED
  BY <1>1, <1>2, <1>9, <1>10, <1>11, <1>12, HandledPreserves

\* An immediate order is placed and the cached book matched against every open order.
LEMMA EnginePlacePreserves ==
    ASSUME EngineInv, NEW n \in Nodes, NEW o \in Orders, EnginePlace(n, o) PROVE EngineInv'
<1> DEFINE e == node[n]
           entry == [status |-> "OPEN", filled |-> 0]
           os == [e.orders EXCEPT ![o] = entry]
           b == [e EXCEPT !.orders[o] = entry]
           c == calls[n] \ {<<"place", o>>}
<1>1. /\ EngineSound(e, calls[n], row, fence) /\ QuantitiesSound /\ fence \in Nat
      /\ e \in Engines({e.work}) /\ e.work = Idle /\ e.up /\ ~ Waits(o)
      /\ <<"place", o>> \in calls[n]
      /\ WorkSound(e, fence) /\ CopiesSound(e, row) /\ CallsSound(e, calls[n], row)
      /\ (e.open => e.held # 0) /\ e.held <= fence
  BY EngineFacts DEF EnginePlace, EngineSound
<1>2. o = Min(Group(o)) /\ row[o].status # "absent" /\ Group(o) = {o}
  <2>1. o = Min(Group(o)) /\ \A p \in Group(o) : row[p].status # "absent"
    <3> DEFINE c0 == calls[n]
    <3> HIDE DEF c0, e
    <3>1. <<"place", o>> \in c0 /\ CallsSound(e, c0, row)
      BY <1>1 DEF c0
    <3> QED
      BY <3>1, PlacementIs
  <2>2. Group(o) = {o}
    BY <1>1 DEF Group, Waits
  <2> QED
    BY <2>1, <2>2
<1>3. PICK a \in IF b.book = NoBook THEN {b} ELSE MatchBook(b, b.book) :
        node' = [node EXCEPT ![n] = a]
  BY Zenon DEF EnginePlace
<1>4. /\ e.orders \in [Orders -> Entries] /\ e.held \in Nat
      /\ e.book = NoBook \/ e.book.payload \in Books
  BY <1>1, EngineTypes
<1>5. os \in [Orders -> Entries] /\ os[o] = entry /\ \A p \in Orders : p # o => os[p] = e.orders[p]
  BY <1>4 DEF Entries, RowStatuses, Matchable
<1>6. b = [e EXCEPT !.orders = os]
  BY <1>1 DEF Engines
<1> HIDE DEF os, b
<1>7. /\ b \in Engines({b.work}) /\ b.work = Idle /\ b.orders = os /\ b.conditional = e.conditional
      /\ b.up = e.up /\ b.held = e.held /\ b.open = e.open /\ b.book = e.book
  <2> HIDE DEF e
  <2> QED
    BY <1>1, <1>5, <1>6 DEF Engines
<1>8. CopiesSound(b, row)
  <2> SUFFICES ASSUME NEW p \in Orders
               PROVE  /\ b.orders[p].filled <= spec[p].quantity
                      /\ b.orders[p].status \in Matchable => ~ Waits(p)
                      /\ b.orders[p].status # "absent" => row[p].status # "absent"
                      /\ b.conditional[p] # "absent" => Waits(p) /\ row[p].status # "absent"
    BY DEF CopiesSound
  <2>1. /\ e.orders[p].filled <= spec[p].quantity
        /\ e.orders[p].status \in Matchable => ~ Waits(p)
        /\ e.orders[p].status # "absent" => row[p].status # "absent"
        /\ e.conditional[p] # "absent" => Waits(p) /\ row[p].status # "absent"
        /\ spec[p].quantity \in Nat
    BY <1>1 DEF CopiesSound, QuantitiesSound
  <2> QED
    BY <1>1, <1>2, <1>5, <1>7, <2>1
<1>9. CallsSound(b, c, row)
  <2>1. CallsSound(e, c, row)
    BY <1>1, FewerCalls
  <2> SUFFICES ASSUME NEW call \in c,
                      call[1] = "place", call[2] \in Orders, call = <<"place", call[2]>>,
                      call[2] = Min(Group(call[2])), NEW p \in Group(call[2])
               PROVE  b.orders[p] = e.orders[p] /\ b.conditional[p] = e.conditional[p]
    <3> HIDE DEF c
    <3> QED
      BY <2>1 DEF CallsSound
  <2>2. call[2] # o
    OBVIOUS
  <2>3. p \in Orders /\ Min(Group(p)) = call[2]
    BY GroupFacts
  <2> QED
    BY <1>2, <1>5, <1>7, <2>2, <2>3
<1>10. /\ a \in Engines({a.work}) /\ a.up = e.up /\ a.held = e.held /\ a.open = e.open
       /\ WorkSound(a, fence) /\ CopiesSound(a, row)
       /\ a.work # Idle => a.work.env.token = e.held
       /\ \A p \in Orders :
            /\ b.orders[p].status = "absent" /\ b.conditional[p] = "absent"
                 => a.orders[p].status = "absent" /\ a.conditional[p] = "absent"
            /\ Waits(p) \/ RestedCopy(a, p) = b.orders[p]
            /\ RestedWatch(a, p) = b.conditional[p]
  <2>1. CASE a = b
    <3>1. WorkSound(a, fence)
      BY <1>7, <2>1 DEF WorkSound
    <3>2. \A p \in Orders : RestedCopy(a, p) = b.orders[p] /\ RestedWatch(a, p) = b.conditional[p]
      BY <1>7, <2>1 DEF RestedCopy, RestedWatch
    <3> QED
      BY <1>7, <1>8, <2>1, <3>1, <3>2
  <2>2. CASE b.book # NoBook /\ a \in MatchBook(b, b.book)
    <3>1. b.book.payload \in Books /\ b.held \in 0 .. fence /\ (b.open => b.held # 0)
      BY <1>1, <1>4, <1>7, <2>2
    <3>2. Matched(a, b, row, fence)
      <4>1. b \in Engines({b.work}) /\ b.work = Idle /\ CopiesSound(b, row)
        BY <1>7, <1>8
      <4>2. QuantitiesSound /\ fence \in Nat
        BY <1>1
      <4> QED
        BY <3>1, <4>1, <4>2, <2>2, MatchBookFollows
    <3> QED
      BY <3>2, <1>7 DEF Matched
  <2> QED
    BY <1>3, <2>1, <2>2
<1>11. GoesOn(b, a, c)
  BY <1>9, <1>10 DEF GoesOn
<1>12. ASSUME NEW p \in Orders, Tracks(e, calls[n], row, p) PROVE Says(b, c, p)
  <2>1. Rested(e, calls[n], row, p)
    BY <1>1, <1>12, TracksIs
  <2>2. RestedCopy(e, p) = e.orders[p] /\ RestedWatch(e, p) = e.conditional[p]
    BY <1>1 DEF RestedCopy, RestedWatch
  <2>3. CASE p = o
    <3>1. Awaits(calls[n], o) /\ ~ Awaits(c, o)
      BY <1>2 DEF Awaits, EnginePlace
    <3>2. row[o].status # "PENDING_TRIGGER"
      BY <1>1 DEF EngineInv, RowsSound
    <3> QED
      BY <1>5, <1>7, <2>1, <2>3, <3>1, <3>2 DEF Rested, Says
  <2>4. CASE p # o
    <3>1. Awaits(calls[n], p) <=> Awaits(c, p)
      BY <1>2, <2>4, HeardPlacement
    <3> QED
      BY <1>5, <1>7, <2>1, <2>2, <2>4, <3>1 DEF Rested, Says
  <2> QED
    BY <2>3, <2>4
<1>13. a.work # Idle /\ fence # 0 /\ a.work.env.token = fence => Owns(e, fence)
  BY <1>10 DEF Owns
<1>14. /\ calls' = [calls EXCEPT ![n] = c]
       /\ UNCHANGED <<spec, feed, row, sold, fence, filler, astray, holder>>
  BY DEF EnginePlace, Done, fixed, ledger
<1> HIDE DEF c
<1> QED
  BY <1>1, <1>3, <1>10, <1>11, <1>12, <1>13, <1>14, HandledPreserves

(***************************************************************************)
(* Market events.                                                          *)
(***************************************************************************)
\* An engine at rest that goes on from its own copies.
LEMMA EventPreserves ==
    ASSUME EngineInv, NEW n \in Nodes, node[n].up, node[n].work = Idle, NEW a,
           node' = [node EXCEPT ![n] = a],
           UNCHANGED <<fixed, ledger, fence, holder, calls, astray>>,
           a.up = node[n].up, a.held = node[n].held, a.open = node[n].open,
           a.work # Idle => a.work.env.token = node[n].held,
           GoesOn(node[n], a, calls[n])
    PROVE  EngineInv'
<1> DEFINE e == node[n]
<1>1. EngineSound(e, calls[n], row, fence) /\ QuantitiesSound
  BY EngineFacts
<1>2. ASSUME NEW p \in Orders, Tracks(e, calls[n], row, p) PROVE Says(e, calls[n], p)
  <2>1. Rested(e, calls[n], row, p)
    BY <1>1, <1>2, TracksIs
  <2> QED
    BY <2>1 DEF Rested, Says, RestedCopy, RestedWatch
<1>3. a.work # Idle /\ fence # 0 /\ a.work.env.token = fence => Owns(e, fence)
  BY DEF Owns
<1>4. /\ calls' = [calls EXCEPT ![n] = calls[n]]
      /\ UNCHANGED <<spec, feed, row, sold, fence, filler, astray, holder>>
  BY EngineFacts DEF fixed, ledger
<1> QED
  BY <1>2, <1>3, <1>4, HandledPreserves

\* The engine that has accepted an event has the copies it had.
LEMMA RememberedIs ==
    ASSUME NEW e, e \in Engines({e.work}), NEW payload, NEW r, CopiesSound(e, r)
    PROVE  LET b == Remembered(e, payload)
           IN /\ b \in Engines({b.work}) /\ b.orders = e.orders /\ b.conditional = e.conditional
              /\ b.work = e.work /\ b.up = e.up /\ b.held = e.held /\ b.open = e.open
              /\ CopiesSound(b, r)
<1> DEFINE b == Remembered(e, payload)
           env == Envelope(e, payload)
<1>1. env.token = e.held /\ env.version = e.version + 1
  BY DEF Envelope
<1>2. b = [e EXCEPT !.version = e.version + 1, !.latest = <<e.held, e.version + 1>>]
  BY <1>1 DEF Remembered
<1>3. e.held \in Nat /\ e.version \in Nat
  BY EngineTypes
<1>4. e.version + 1 \in Nat /\ <<e.held, e.version + 1>> \in Nat \X Nat
  BY <1>3
<1> HIDE DEF b
<1>5. /\ b \in Engines({b.work}) /\ b.orders = e.orders /\ b.conditional = e.conditional
      /\ b.work = e.work /\ b.up = e.up /\ b.held = e.held /\ b.open = e.open
  BY <1>2, <1>4 DEF Engines
<1>6. CopiesSound(b, r)
  BY <1>5 DEF CopiesSound
<1> QED
  BY <1>5, <1>6 DEF b

\* An event that is not accepted.
LEMMA DroppedEvent ==
    ASSUME EngineInv, NEW n \in Nodes, node[n].work = Idle
    PROVE  LET a == [node[n] EXCEPT !.version = @ + 1]
           IN /\ a.up = node[n].up /\ a.held = node[n].held /\ a.open = node[n].open
              /\ a.work = Idle /\ GoesOn(node[n], a, calls[n])
<1> DEFINE e == node[n]
           a == [e EXCEPT !.version = e.version + 1]
<1>1. /\ e \in Engines({e.work}) /\ CopiesSound(e, row) /\ CallsSound(e, calls[n], row)
  BY EngineFacts DEF EngineSound
<1>2. e.version + 1 \in Nat
  BY <1>1, EngineTypes
<1>3. /\ a \in Engines({a.work}) /\ a.orders = e.orders /\ a.conditional = e.conditional
      /\ a.work = e.work /\ a.up = e.up /\ a.held = e.held /\ a.open = e.open
  <2> HIDE DEF e
  <2> QED
    BY <1>1, <1>2 DEF Engines
<1> HIDE DEF a
<1>4. GoesOn(e, a, calls[n])
  BY <1>1, <1>3 DEF GoesOn, CopiesSound, WorkSound, RestedCopy, RestedWatch
<1> QED
  BY <1>3, <1>4 DEF a

\* An order book arrives and the loop over the open orders starts.
LEMMA OnOrderBookPreserves ==
    ASSUME EngineInv, NEW n \in Nodes, NEW book \in feed.books, OnOrderBook(n, book)
    PROVE  EngineInv'
<1> DEFINE e == node[n]
           env == Stamp(e, book)
           rb == Remembered(e, book)
           b == [rb EXCEPT !.book = env]
<1>1. /\ EngineSound(e, calls[n], row, fence) /\ QuantitiesSound /\ fence \in Nat
      /\ e \in Engines({e.work}) /\ e.work = Idle /\ e.held # 0 /\ e.up
      /\ CopiesSound(e, row) /\ CallsSound(e, calls[n], row)
      /\ (e.open => e.held # 0) /\ e.held <= fence /\ e.held \in Nat
  BY EngineFacts DEF OnOrderBook, Event, EngineSound
<1>2. PICK a \in IF Accepts(e, Envelope(e, book)) THEN MatchBook(b, env)
                 ELSE {[e EXCEPT !.version = @ + 1]} :
        node' = [node EXCEPT ![n] = a]
  BY Zenon DEF OnOrderBook, Event
<1>3. UNCHANGED <<fixed, ledger, fence, holder, calls, astray>>
  BY DEF OnOrderBook, Event
<1>4. CASE a = [e EXCEPT !.version = @ + 1]
  <2>1. /\ a.up = e.up /\ a.held = e.held /\ a.open = e.open
        /\ a.work = Idle /\ GoesOn(e, a, calls[n])
    BY <1>1, <1>4, DroppedEvent
  <2> QED
    BY <1>1, <1>2, <1>3, <2>1, EventPreserves
<1>5. CASE a \in MatchBook(b, env)
  <2>1. book \in Books /\ env.payload = book /\ env.token = e.held
        /\ env \in [payload : Books, token : Nat]
    BY <1>1 DEF EngineInv, Stamp
  <2>2. /\ rb \in Engines({rb.work}) /\ rb.orders = e.orders /\ rb.conditional = e.conditional
        /\ rb.work = e.work /\ rb.up = e.up /\ rb.held = e.held /\ rb.open = e.open
        /\ CopiesSound(rb, row)
    BY <1>1, RememberedIs
  <2> HIDE DEF rb, env
  <2>3. /\ b \in Engines({b.work}) /\ b.orders = e.orders /\ b.conditional = e.conditional
        /\ b.work = Idle /\ b.up = e.up /\ b.held = e.held /\ b.open = e.open
    <3> HIDE DEF e
    <3> QED
      BY <1>1, <2>1, <2>2 DEF Engines
  <2> HIDE DEF b
  <2>4. CopiesSound(b, row)
    BY <1>1, <2>3 DEF CopiesSound
  <2>5. /\ a \in Engines({a.work}) /\ a.up = e.up /\ a.held = e.held /\ a.open = e.open
        /\ WorkSound(a, fence) /\ CopiesSound(a, row)
        /\ a.work # Idle => a.work.env.token = e.held
        /\ \A p \in Orders :
             /\ b.orders[p].status = "absent" /\ b.conditional[p] = "absent"
                  => a.orders[p].status = "absent" /\ a.conditional[p] = "absent"
             /\ Waits(p) \/ RestedCopy(a, p) = b.orders[p]
             /\ RestedWatch(a, p) = b.conditional[p]
    <3>1. env.payload \in Books /\ b.held \in 0 .. fence /\ (b.open => b.held # 0)
      BY <1>1, <2>1, <2>3
    <3>2. Matched(a, b, row, fence)
      <4>1. b \in Engines({b.work}) /\ b.work = Idle /\ CopiesSound(b, row)
        BY <2>3, <2>4
      <4>2. QuantitiesSound /\ fence \in Nat
        BY <1>1
      <4> QED
        BY <3>1, <4>1, <4>2, <1>5, MatchBookFollows
    <3> QED
      BY <3>2, <2>3 DEF Matched
  <2>6. GoesOn(e, a, calls[n])
    BY <1>1, <2>3, <2>5 DEF GoesOn
  <2> QED
    BY <1>1, <1>2, <1>3, <2>5, <2>6, EventPreserves
<1> QED
  BY <1>2, <1>4, <1>5

\* A trade arrives and the loop over the conditional orders starts.
LEMMA OnTradePreserves ==
    ASSUME EngineInv, NEW n \in Nodes, NEW price, OnTrade(n, price)
    PROVE  EngineInv'
<1> DEFINE e == node[n]
           rb == Remembered(e, price)
           w == [kind |-> "trade", env |-> Stamp(e, price), todo |-> Orders]
           b == [rb EXCEPT !.work = w]
<1>1. /\ EngineSound(e, calls[n], row, fence) /\ QuantitiesSound /\ fence \in Nat
      /\ e \in Engines({e.work}) /\ e.work = Idle /\ e.held # 0 /\ e.up
      /\ CopiesSound(e, row) /\ CallsSound(e, calls[n], row)
      /\ e.held <= fence /\ e.held \in Nat
  BY EngineFacts DEF OnTrade, Event, EngineSound
<1>2. PICK a \in IF Accepts(e, Envelope(e, price)) THEN Advance(b)
                 ELSE {[e EXCEPT !.version = @ + 1]} :
        node' = [node EXCEPT ![n] = a]
  BY Zenon DEF OnTrade, Event
<1>3. UNCHANGED <<fixed, ledger, fence, holder, calls, astray>>
  BY DEF OnTrade, Event
<1>4. CASE a = [e EXCEPT !.version = @ + 1]
  <2>1. /\ a.up = e.up /\ a.held = e.held /\ a.open = e.open
        /\ a.work = Idle /\ GoesOn(e, a, calls[n])
    BY <1>1, <1>4, DroppedEvent
  <2> QED
    BY <1>1, <1>2, <1>3, <2>1, EventPreserves
<1>5. CASE a \in Advance(b)
  <2>1. w.kind = "trade" /\ w.env.token = e.held /\ w.todo = Orders
    BY DEF Stamp
  <2>2. /\ rb \in Engines({rb.work}) /\ rb.orders = e.orders /\ rb.conditional = e.conditional
        /\ rb.work = e.work /\ rb.up = e.up /\ rb.held = e.held /\ rb.open = e.open
        /\ CopiesSound(rb, row)
    BY <1>1, RememberedIs
  <2> HIDE DEF rb, w
  <2>3. /\ b \in Engines({b.work}) /\ b.orders = rb.orders /\ b.conditional = rb.conditional
        /\ b.work = w /\ b.up = rb.up /\ b.held = rb.held /\ b.open = rb.open
        /\ CopiesSound(b, row)
    <3>1. rb \in Engines({rb.work}) /\ CopiesSound(rb, row)
      BY <2>2
    <3> QED
      BY <3>1, SameCopies, Zenon
  <2> HIDE DEF b
  <2>4. LoopSound(b, fence)
    BY <1>1, <2>1, <2>2, <2>3 DEF LoopSound
  <2>5. Follows(a, b, row, fence)
    BY <1>1, <1>5, <2>3, <2>4, AdvanceFollows
  <2>6. /\ a.up = e.up /\ a.held = e.held /\ a.open = e.open
        /\ a.work # Idle => a.work.env.token = e.held
    BY <2>1, <2>2, <2>3, <2>5 DEF Follows
  <2>7. GoesOn(e, a, calls[n])
    BY <1>1, <2>2, <2>3, <2>5 DEF GoesOn, Follows
  <2> QED
    BY <1>1, <1>2, <1>3, <2>6, <2>7, EventPreserves
<1> QED
  BY <1>2, <1>4, <1>5

(***************************************************************************)
(* Transactions that answer and change nothing.                            *)
(***************************************************************************)
\* What the engine at work has in hand.
LEMMA InHand ==
    ASSUME EngineInv, NEW n \in Nodes, node[n].work # Idle
    PROVE  LET e == node[n]
               w == e.work
           IN /\ w \in Flights(w) /\ w.order \in Orders /\ w.kind \in {"match", "trade"}
              /\ w.was \in Entries /\ w.outcome \in Outcomes /\ w.env.token \in 1 .. fence
              /\ row[w.order].status # "absent" /\ ~ Awaits(calls[n], w.order)
              /\ w.kind = "match" =>
                   /\ ~ Waits(w.order) /\ w.next.filled \in w.was.filled .. spec[w.order].quantity
                   /\ w.next.status \in Matchable \cup {"FILLED", "CANCELLED"}
                   /\ e.orders[w.order] = [status |-> w.next.status, filled |-> w.next.filled]
              /\ w.kind = "trade" => Waits(w.order)
<1> DEFINE e == node[n]
           w == e.work
<1>1. /\ EngineSound(e, calls[n], row, fence)
      /\ WorkSound(e, fence) /\ CopiesSound(e, row) /\ CallsSound(e, calls[n], row)
  BY EngineFacts DEF EngineSound
<1>2. /\ w \in Flights(w) /\ w.order \in Orders /\ w.kind \in {"match", "trade"}
      /\ w.was \in Entries /\ w.outcome \in Outcomes /\ w.env.token \in 1 .. fence
  BY <1>1 DEF WorkSound, Flights
<1>3. w.kind = "match" =>
        /\ ~ Waits(w.order) /\ w.next.filled \in w.was.filled .. spec[w.order].quantity
        /\ w.next.status \in Matchable \cup {"FILLED", "CANCELLED"}
        /\ e.orders[w.order] = [status |-> w.next.status, filled |-> w.next.filled]
        /\ e.orders[w.order].status # "absent"
  BY <1>1 DEF WorkSound, Matchable
<1>4. w.kind = "trade" => Waits(w.order) /\ e.conditional[w.order] # "absent"
  BY <1>1, <1>2 DEF WorkSound, CopiesSound
<1>5. row[w.order].status # "absent"
  BY <1>1, <1>2, <1>3, <1>4 DEF CopiesSound
<1>6. ~ Awaits(calls[n], w.order)
  <2> SUFFICES ASSUME Awaits(calls[n], w.order) PROVE FALSE
    OBVIOUS
  <2> DEFINE p == Min(Group(w.order))
             c == calls[n]
  <2> HIDE DEF c
  <2>1. <<"place", p>> \in c /\ CallsSound(e, c, row)
    BY <1>1 DEF Awaits, c
  <2>2. w.order \in Group(p)
    BY <1>2, MinInGroup, GroupFacts
  <2> HIDE DEF p, w, e
  <2>3. e.orders[w.order].status = "absent" /\ e.conditional[w.order] = "absent"
    BY <2>1, <2>2, PlacementIs
  <2> QED
    BY <2>3, <1>2, <1>3, <1>4 DEF w, e
<1> QED
  BY <1>2, <1>3, <1>4, <1>5, <1>6

\* The engine once it has its answer.
Answered(e, x) == [e EXCEPT !.work.outcome = x]

\* An answer changes the copies of the order in hand at most, and an error changes
\* none that the engine will be left with.
LEMMA AnsweredIs ==
    ASSUME EngineInv, NEW n \in Nodes, Persisting(n), NEW x \in Outcomes \ {"pending"}
    PROVE  LET e == node[n]
               a == Answered(e, x)
           IN /\ EngineSound(a, calls[n], row, fence)
              /\ a.held = e.held /\ a.work # Idle /\ a.work.env = e.work.env
              /\ \A o \in Orders \ {e.work.order} :
                   RestedCopy(a, o) = RestedCopy(e, o) /\ RestedWatch(a, o) = RestedWatch(e, o)
              /\ x = "error" => \A o \in Orders :
                   RestedCopy(a, o) = RestedCopy(e, o) /\ RestedWatch(a, o) = RestedWatch(e, o)
              /\ x = "committed" => RestedCopy(a, e.work.order) = e.orders[e.work.order]
              /\ RestedCopy(e, e.work.order) = e.work.was
              /\ Answer(n, x) => node' = [node EXCEPT ![n] = a]
<1> DEFINE e == node[n]
           w == e.work
           v == [w EXCEPT !.outcome = x]
           a == Answered(e, x)
<1>1. /\ EngineSound(e, calls[n], row, fence) /\ e \in Engines({e.work})
      /\ w # Idle /\ w.outcome = "pending" /\ w \in Flights(w)
  BY EngineFacts, InHand DEF Persisting
<1>2. /\ v \in Flights(v) /\ v.outcome = x /\ v.kind = w.kind /\ v.env = w.env
      /\ v.todo = w.todo /\ v.order = w.order /\ v.was = w.was /\ v.next = w.next /\ v # Idle
  <2> HIDE DEF w
  <2> QED
    BY <1>1 DEF Flights, Outcomes, Idle
<1>3. a = [e EXCEPT !.work = v]
  <2> HIDE DEF e
  <2> QED
    BY <1>1 DEF Answered, Engines
<1> HIDE DEF a, v
<1>4. /\ a \in Engines({a.work}) /\ a.work = v /\ a.orders = e.orders
      /\ a.conditional = e.conditional /\ a.up = e.up /\ a.held = e.held /\ a.open = e.open
  <2> HIDE DEF e
  <2> QED
    BY <1>1, <1>3 DEF Engines
<1>5. EngineSound(a, calls[n], row, fence)
  <2>1. WorkSound(a, fence)
    BY <1>1, <1>2, <1>4 DEF EngineSound, WorkSound
  <2>2. CopiesSound(a, row) /\ CallsSound(a, calls[n], row)
    BY <1>1, <1>4 DEF EngineSound, CopiesSound, CallsSound
  <2> QED
    BY <1>1, <1>4, <2>1, <2>2 DEF EngineSound
<1>6. \A o \in Orders \ {w.order} :
        RestedCopy(a, o) = RestedCopy(e, o) /\ RestedWatch(a, o) = RestedWatch(e, o)
  BY <1>1, <1>2, <1>4 DEF RestedCopy, RestedWatch
<1>7. x = "error" => \A o \in Orders :
        RestedCopy(a, o) = RestedCopy(e, o) /\ RestedWatch(a, o) = RestedWatch(e, o)
  BY <1>1, <1>2, <1>4 DEF RestedCopy, RestedWatch, Terminal
<1>8. /\ x = "committed" => RestedCopy(a, w.order) = e.orders[w.order]
      /\ RestedCopy(e, w.order) = w.was
  BY <1>1, <1>2, <1>4 DEF RestedCopy, Terminal
<1>9. Answer(n, x) => node' = [node EXCEPT ![n] = a]
  <2>1. node = [m \in Nodes |-> node[m]]
    BY EngineFacts
  <2>2. Answer(n, x) => node' = [node EXCEPT ![n].work.outcome = x]
    BY DEF Answer
  <2> QED
    BY <2>1, <2>2 DEF a, Answered
<1> QED
  BY <1>2, <1>4, <1>5, <1>6, <1>7, <1>8, <1>9 DEF a

\* The answer is an error, or the row has ended: nothing is committed.
LEMMA RefusalPreserves ==
    ASSUME EngineInv, NEW n \in Nodes, Persisting(n), NEW x \in Outcomes \ {"pending"}, Answer(n, x),
           x = "error" \/ row[node[n].work.order].status \in Terminal,
           UNCHANGED <<fixed, ledger, fence, holder, calls>>, astray \subseteq astray'
    PROVE  EngineInv'
<1> DEFINE e == node[n]
           a == Answered(e, x)
<1>1. /\ EngineSound(a, calls[n], row, fence) /\ node' = [node EXCEPT ![n] = a]
      /\ a.held = e.held /\ a.work # Idle /\ a.work.env = e.work.env
      /\ \A o \in Orders \ {e.work.order} :
           RestedCopy(a, o) = RestedCopy(e, o) /\ RestedWatch(a, o) = RestedWatch(e, o)
      /\ x = "error" => \A o \in Orders :
           RestedCopy(a, o) = RestedCopy(e, o) /\ RestedWatch(a, o) = RestedWatch(e, o)
  BY AnsweredIs
<1>2. EngineSound(e, calls[n], row, fence) /\ QuantitiesSound
  BY EngineFacts
<1> HIDE DEF a
<1>3. Owns(a, fence) => Owns(e, fence)
  BY <1>1 DEF Owns, Persisting
<1>4. ASSUME NEW o \in Orders, Tracks(e, calls[n], row, o) PROVE Tracks(a, calls[n], row, o)
  <2>1. Rested(e, calls[n], row, o)
    BY <1>2, <1>4, TracksIs
  <2>2. CASE row[o].status \in Terminal
    BY <2>2 DEF Tracks, Terminal, Matchable
  <2>3. CASE row[o].status \notin Terminal
    <3>1. RestedCopy(a, o) = RestedCopy(e, o) /\ RestedWatch(a, o) = RestedWatch(e, o)
      BY <1>1, <2>3
    <3>2. Rested(a, calls[n], row, o)
      BY <2>1, <3>1 DEF Rested
    <3> QED
      BY <1>1, <1>2, <3>2, TracksIs
  <2> QED
    BY <2>2, <2>3
<1>5. Owns(a, fence) /\ fence # 0 => \A o \in Orders \ astray' : Tracks(a, calls[n], row, o)
  BY <1>3, <1>4, EngineFacts
<1>6. /\ calls' = [calls EXCEPT ![n] = calls[n]]
      /\ UNCHANGED <<spec, feed, row, sold, fence, filler, holder>>
  BY EngineFacts DEF fixed, ledger
<1> QED
  BY <1>1, <1>3, <1>5, <1>6, EngineStep

(***************************************************************************)
(* Steps of the ledger.                                                    *)
(***************************************************************************)
\* Rows never disappear, and what has ended stays ended.
Later(r, q) ==
    \A o \in Orders : /\ r[o].status # "absent" => q[o].status # "absent"
                      /\ r[o].status \in Terminal => q[o].status \in Terminal

\* What is sound of the rows r and the fence f is sound of later ones.
LEMMA SoundLater ==
    ASSUME NEW e, NEW c, NEW r, NEW f \in Nat, EngineSound(e, c, r, f), NEW q, Later(r, q),
           NEW g \in Nat, f <= g
    PROVE  EngineSound(e, c, q, g)
<1>1. e \in Engines({e.work}) /\ WorkSound(e, f) /\ CopiesSound(e, r) /\ CallsSound(e, c, r)
  BY DEF EngineSound
<1>2. e.held \in Nat
  BY <1>1, EngineTypes
<1>3. WorkSound(e, g)
  BY <1>1 DEF WorkSound
<1>4. CopiesSound(e, q)
  BY <1>1 DEF CopiesSound, Later
<1>5. CallsSound(e, c, q)
  <2>1. \A p \in Orders : Group(p) \subseteq Orders
    BY DEF Group
  <2> QED
    BY <1>1, <2>1 DEF CallsSound, Later
<1> QED
  BY <1>2, <1>3, <1>4, <1>5 DEF EngineSound

\* A row that stays, or ends, is tracked as before.
LEMMA TracksLater ==
    ASSUME NEW e, NEW c, NEW r, NEW o, Tracks(e, c, r, o), NEW q,
           q[o] = r[o] \/ q[o].status \in Terminal
    PROVE  Tracks(e, c, q, o)
BY DEF Tracks, Terminal, Matchable

\* A transaction of one process.
LEMMA LedgerStep ==
    ASSUME EngineInv, NEW n \in Nodes, NEW a, NEW c, NEW r,
           UNCHANGED <<spec, feed, fence, holder>>, row' = r,
           node' = [node EXCEPT ![n] = a], calls' = [calls EXCEPT ![n] = c],
           EngineSound(a, c, r, fence), a.held = node[n].held,
           Owns(a, fence) => Owns(node[n], fence),
           Later(row, r), RowsSound', FillsTold', filler' \in 0 .. fence, astray \subseteq astray',
           Owns(a, fence) /\ fence # 0 => \A o \in Orders \ astray' : Tracks(a, c, r, o),
           \A m \in Nodes \ {n} : fence # 0 /\ Owns(node[m], fence) =>
             \A o \in Orders \ astray' : r[o] = row[o] \/ r[o].status \in Terminal
    PROVE  EngineInv'
<1>1. /\ node'[n] = a /\ calls'[n] = c
      /\ node' = [m \in Nodes |-> node'[m]] /\ calls' = [m \in Nodes |-> calls'[m]]
      /\ \A m \in Nodes : m # n => node'[m] = node[m] /\ calls'[m] = calls[m]
  BY DEF EngineInv
<1>2. spec' = spec /\ row' = r /\ fence' = fence /\ fence \in Nat
  BY DEF EngineInv, LeasesSound
<1>3. (\A m \in Nodes : EngineSound(node[m], calls[m], row, fence))'
  <2>1. ASSUME NEW m \in Nodes PROVE EngineSound(node'[m], calls'[m], row', fence')
    <3>1. EngineSound(node[m], calls[m], row, fence)
      BY DEF EngineInv
    <3>2. EngineSound(node[m], calls[m], r, fence)
      BY <1>2, <3>1, SoundLater
    <3> QED
      BY <1>1, <1>2, <3>2
  <2> QED
    BY <1>2, <2>1, EnginesAfter, Zenon
<1>4. ASSUME NEW m \in Nodes, Owns(node'[m], fence) PROVE Owns(node[m], fence)
  BY <1>1, <1>4
<1>5. (\A m \in Nodes : fence # 0 /\ Owns(node[m], fence) =>
         \A o \in Orders \ astray : Tracks(node[m], calls[m], row, o))'
  <2> SUFFICES ASSUME NEW m \in Nodes, fence' # 0, Owns(node[m], fence)', NEW o \in (Orders \ astray)'
               PROVE  Tracks(node[m], calls[m], row, o)'
    OBVIOUS
  <2>1. Owns(node'[m], fence)
    BY <1>2 DEF Owns
  <2>2. o \in Orders \ astray' /\ o \in Orders \ astray
    BY <1>2
  <2>3. Tracks(node'[m], calls'[m], row', o)
    <3>1. CASE m = n
      BY <1>1, <1>2, <2>1, <2>2, <3>1
    <3>2. CASE m # n
      <4>1. Owns(node[m], fence)
        BY <1>4, <2>1
      <4>2. Tracks(node[m], calls[m], row, o)
        BY <1>2, <2>2, <4>1 DEF EngineInv
      <4>3. r[o] = row[o] \/ r[o].status \in Terminal
        BY <1>2, <2>2, <3>2, <4>1
      <4>4. Tracks(node[m], calls[m], r, o)
        BY <4>2, <4>3, TracksLater
      <4> QED
        BY <1>1, <1>2, <3>2, <4>4
    <3> QED
      BY <3>1, <3>2
  <2> QED
    BY <1>2, <2>2, <2>3, TracksAfter
<1>6. LeasesSound'
  <2>1. fence' \in Nat /\ filler' \in 0 .. fence'
    BY <1>2
  <2>2. holder' # None => holder' \in Nodes /\ fence' # 0 /\ node'[holder'].held = fence'
    BY <1>1 DEF EngineInv, LeasesSound
  <2>3. ASSUME NEW k \in Nodes, NEW m \in Nodes, fence # 0,
               Owns(node'[k], fence), Owns(node'[m], fence)
        PROVE  k = m
    BY <1>4, <2>3 DEF EngineInv, LeasesSound
  <2> QED
    BY <1>2, <2>1, <2>2, <2>3 DEF LeasesSound, Owns
<1>7. feed'.books \subseteq Books /\ QuantitiesSound'
  BY DEF EngineInv, QuantitiesSound
<1> QED
  BY <1>1, <1>3, <1>5, <1>6, <1>7 DEF EngineInv

\* The rows after a step, said in the terms before it.
LEMMA RowsAfter ==
    ASSUME spec' = spec, NEW r, row' = r, r \in [Orders -> [status : RowStatuses, filled : Nat]],
           \A o \in Orders :
             /\ r[o].filled <= spec[o].quantity
             /\ r[o].status \in Matchable => ~ Waits(o)
             /\ r[o].status = "PENDING_TRIGGER" => Waits(o)
             /\ r[o].status \in {"absent", "PENDING_TRIGGER"} => r[o].filled = 0
             /\ \A p \in Group(o) : r[p].status = "absent" <=> r[o].status = "absent"
    PROVE  RowsSound'
<1>1. \A o \in Orders : Group(o)' = Group(o) /\ (Waits(o)' <=> Waits(o))
  BY DEF Group, Waits
<1> QED
  BY <1>1 DEF RowsSound

\* A cancellation commits: every live leg of the group ends.
LEMMA CancelLedgerPreserves ==
    ASSUME EngineInv, NEW n \in Nodes, NEW o \in Orders, CancelLedger(n, o) PROVE EngineInv'
<1> DEFINE e == node[n]
           legs == {p \in Group(o) : row[p].status \notin Terminal}
           r == [p \in Orders |->
                   IF p \in legs THEN [row[p] EXCEPT !.status = "CANCELLED"] ELSE row[p]]
           added == {<<"cancel", p>> : p \in legs}
           c == calls[n] \cup added
<1>1. /\ row' = r /\ calls' = [calls EXCEPT ![n] = c]
      /\ UNCHANGED <<spec, feed, fence, holder, sold, filler, astray, node>>
      /\ row[o].status \notin Terminal \cup {"absent"} /\ e.open
  BY DEF CancelLedger, fixed
<1>2. /\ EngineSound(e, calls[n], row, fence) /\ QuantitiesSound /\ fence \in Nat /\ e.up
      /\ node' = [node EXCEPT ![n] = e]
  BY <1>1, EngineFacts
<1>3. RowsSound /\ FillsTold /\ row \in [Orders -> [status : RowStatuses, filled : Nat]]
  BY DEF EngineInv, RowsSound
<1>4. ASSUME NEW p \in Orders
      PROVE  /\ r[p].filled = row[p].filled
             /\ r[p] = row[p] \/ (r[p].status = "CANCELLED" /\ row[p].status # "absent")
             /\ r[p] \in [status : RowStatuses, filled : Nat]
  <2>1. p \in legs => row[p].status # "absent"
    BY <1>1, <1>3 DEF RowsSound
  <2>2. row[p] \in [status : RowStatuses, filled : Nat]
    BY <1>3
  <2> QED
    BY <2>1, <2>2 DEF RowStatuses, Terminal
<1>5. \A p \in legs : r[p].status = "CANCELLED"
  <2> SUFFICES ASSUME NEW p \in legs PROVE r[p].status = "CANCELLED"
    OBVIOUS
  <2>1. p \in Orders
    BY DEF Group
  <2>2. row[p] \in [status : RowStatuses, filled : Nat]
    BY <1>3, <2>1
  <2> QED
    BY <2>1, <2>2
<1>6. r = [p \in Orders |-> r[p]]
  OBVIOUS
<1> HIDE DEF r
<1>7. Later(row, r)
  BY <1>4 DEF Later, Terminal
<1>8. RowsSound'
  <2>1. r \in [Orders -> [status : RowStatuses, filled : Nat]]
    BY <1>4, <1>6
  <2>2. ASSUME NEW p \in Orders
        PROVE  /\ r[p].filled <= spec[p].quantity
               /\ r[p].status \in Matchable => ~ Waits(p)
               /\ r[p].status = "PENDING_TRIGGER" => Waits(p)
               /\ r[p].status \in {"absent", "PENDING_TRIGGER"} => r[p].filled = 0
               /\ \A q \in Group(p) : r[q].status = "absent" <=> r[p].status = "absent"
    <3>1. \A q \in Orders : r[q].status = "absent" <=> row[q].status = "absent"
      BY <1>4
    <3>2. /\ row[p].filled <= spec[p].quantity
          /\ row[p].status \in Matchable => ~ Waits(p)
          /\ row[p].status = "PENDING_TRIGGER" => Waits(p)
          /\ row[p].status \in {"absent", "PENDING_TRIGGER"} => row[p].filled = 0
          /\ \A q \in Group(p) : row[q].status = "absent" <=> row[p].status = "absent"
      BY <1>3 DEF RowsSound
    <3>3. Group(p) \subseteq Orders
      BY DEF Group
    <3> QED
      BY <1>4, <3>1, <3>2, <3>3 DEF Matchable
  <2> QED
    BY <1>1, <2>1, <2>2, RowsAfter
<1>9. FillsTold'
  BY <1>1, <1>3, <1>4 DEF FillsTold
<1>10. EngineSound(e, c, r, fence)
  <2>1. EngineSound(e, calls[n], r, fence)
    BY <1>2, <1>7, SoundLater
  <2>2. CallsSound(e, added, r)
    <3> SUFFICES ASSUME NEW p \in legs
                 PROVE  p \in Orders /\ r[p].status \in Terminal
      BY DEF CallsSound
    <3> QED
      BY <1>5 DEF Terminal, Group
  <2>3. CallsSound(e, c, r)
    <3> HIDE DEF added
    <3> QED
      BY <2>1, <2>2 DEF EngineSound, CallsSound
  <2> HIDE DEF c
  <2> QED
    BY <1>2, <2>1, <2>3 DEF EngineSound
<1>11. ASSUME NEW p \in Orders, Tracks(e, calls[n], row, p) PROVE Tracks(e, c, r, p)
  <2>1. Tracks(e, calls[n], r, p)
    BY <1>4, <1>11, TracksLater DEF Terminal
  <2>2. Awaits(c, p) <=> Awaits(calls[n], p)
    BY DEF Awaits
  <2> QED
    BY <2>1, <2>2 DEF Tracks
<1>12. Owns(e, fence) /\ fence # 0 => \A p \in Orders \ astray' : Tracks(e, c, r, p)
  BY <1>1, <1>11, EngineFacts
<1>13. \A p \in Orders : r[p] = row[p] \/ r[p].status \in Terminal
  BY <1>4 DEF Terminal
<1>14. filler' \in 0 .. fence
  BY <1>1 DEF EngineInv, LeasesSound
<1> HIDE DEF c, e
<1> QED
  BY <1>1, <1>2, <1>7, <1>8, <1>9, <1>10, <1>12, <1>13, <1>14, LedgerStep DEF e

\* A placement commits: it has no copies yet, and the leader is told unless the
\* process has lost the lock, when the order counts as astray.
LEMMA PlacePreserves ==
    ASSUME EngineInv, NEW n \in Nodes, NEW o \in Orders, Place(n, o) PROVE EngineInv'
<1> DEFINE e == node[n]
           placed == [status |-> IF Waits(o) THEN "PENDING_TRIGGER" ELSE "OPEN", filled |-> 0]
           r == [p \in Orders |-> IF p \in Group(o) THEN placed ELSE row[p]]
           c == calls[n] \cup {<<"place", o>>}
<1>1. /\ row' = r /\ calls' = [calls EXCEPT ![n] = c]
      /\ UNCHANGED <<spec, feed, fence, holder, sold, filler, node>>
      /\ row[o].status = "absent" /\ o = Min(Group(o)) /\ e.open
      /\ astray' = IF holder = n THEN astray ELSE astray \cup Group(o)
  BY DEF Place, fixed
<1>2. /\ EngineSound(e, calls[n], row, fence) /\ QuantitiesSound /\ fence \in Nat /\ e.up
      /\ node' = [node EXCEPT ![n] = e] /\ CopiesSound(e, row)
  BY <1>1, EngineFacts DEF EngineSound
<1>3. RowsSound /\ FillsTold /\ row \in [Orders -> [status : RowStatuses, filled : Nat]]
  BY DEF EngineInv, RowsSound
<1>4. /\ placed \in [status : RowStatuses, filled : Nat] /\ placed.filled = 0
      /\ placed.status = IF Waits(o) THEN "PENDING_TRIGGER" ELSE "OPEN"
  BY DEF RowStatuses, Matchable
<1>5. ASSUME NEW p \in Orders
      PROVE  /\ p \in Group(o) => r[p] = placed /\ row[p].status = "absent" /\ row[p].filled = 0
             /\ p \notin Group(o) => r[p] = row[p]
             /\ r[p] \in [status : RowStatuses, filled : Nat]
             /\ r[p].filled = row[p].filled
  <2>1. p \in Group(o) => row[p].status = "absent"
    BY <1>1, <1>3 DEF RowsSound
  <2>2. row[p].status = "absent" => row[p].filled = 0
    BY <1>3 DEF RowsSound
  <2>3. row[p] \in [status : RowStatuses, filled : Nat]
    BY <1>3
  <2> HIDE DEF placed
  <2> QED
    BY <1>4, <2>1, <2>2, <2>3
<1>6. r = [p \in Orders |-> r[p]]
  OBVIOUS
<1>7. ~ Waits(o) => placed = [status |-> "OPEN", filled |-> 0]
  OBVIOUS
<1> HIDE DEF r, placed
<1>8. Later(row, r)
  BY <1>5 DEF Later, Terminal
<1>9. RowsSound'
  <2>1. r \in [Orders -> [status : RowStatuses, filled : Nat]]
    BY <1>5, <1>6
  <2>2. ASSUME NEW p \in Orders
        PROVE  /\ r[p].filled <= spec[p].quantity
               /\ r[p].status \in Matchable => ~ Waits(p)
               /\ r[p].status = "PENDING_TRIGGER" => Waits(p)
               /\ r[p].status \in {"absent", "PENDING_TRIGGER"} => r[p].filled = 0
               /\ \A q \in Group(p) : r[q].status = "absent" <=> r[p].status = "absent"
    <3>1. /\ row[p].filled <= spec[p].quantity
          /\ row[p].status \in Matchable => ~ Waits(p)
          /\ row[p].status = "PENDING_TRIGGER" => Waits(p)
          /\ row[p].status \in {"absent", "PENDING_TRIGGER"} => row[p].filled = 0
          /\ \A q \in Group(p) : row[q].status = "absent" <=> row[p].status = "absent"
      BY <1>3 DEF RowsSound
    <3>2. CASE p \in Group(o)
      <4>1. Waits(p) <=> Waits(o)
        BY <3>2, GroupFacts
      <4>2. \A q \in Group(p) : q \in Orders /\ q \in Group(o)
        BY <3>2, GroupFacts
      <4> QED
        BY <1>4, <1>5, <3>1, <3>2, <4>1, <4>2 DEF Matchable
    <3>3. CASE p \notin Group(o)
      <4>1. \A q \in Group(p) : q \in Orders /\ q \notin Group(o)
        BY <3>3, GroupFacts
      <4> QED
        BY <1>5, <3>1, <3>3, <4>1
    <3> QED
      BY <3>2, <3>3
  <2> QED
    BY <1>1, <2>1, <2>2, RowsAfter
<1>10. FillsTold'
  BY <1>1, <1>3, <1>5 DEF FillsTold
<1>11. EngineSound(e, c, r, fence)
  <2>1. EngineSound(e, calls[n], r, fence)
    BY <1>2, <1>8, SoundLater
  <2>2. ASSUME NEW p \in Group(o)
        PROVE  /\ r[p].status # "absent" /\ e.orders[p].status = "absent"
               /\ e.conditional[p] = "absent"
    <3>1. p \in Orders
      BY <2>2, GroupFacts
    <3> QED
      BY <1>2, <1>4, <1>5, <3>1 DEF CopiesSound
  <2>3. CallsSound(e, {<<"place", o>>}, r)
    BY <1>1, <2>2 DEF CallsSound
  <2>4. CallsSound(e, c, r)
    <3> DEFINE added == {<<"place", o>>}
    <3> HIDE DEF added
    <3>1. CallsSound(e, added, r) /\ c = calls[n] \cup added
      BY <2>3 DEF added
    <3> QED
      BY <2>1, <3>1 DEF EngineSound, CallsSound
  <2> HIDE DEF c
  <2> QED
    BY <1>2, <2>1, <2>4 DEF EngineSound
<1>12. ASSUME NEW p \in Orders, Tracks(e, calls[n], row, p) PROVE Tracks(e, c, r, p)
  <2>1. CASE p \in Group(o)
    <3>1. Awaits(c, p)
      BY <1>1, <2>1, FirstLeg DEF Awaits
    <3>2. r[p].status \in Matchable => ~ Waits(o)
      BY <1>4, <1>5, <2>1 DEF Matchable
    <3> QED
      BY <1>5, <1>7, <2>1, <3>1, <3>2 DEF Tracks
  <2>2. CASE p \notin Group(o)
    <3>1. Awaits(c, p) <=> Awaits(calls[n], p)
      BY <2>2, FirstLeg DEF Awaits
    <3> QED
      BY <1>5, <1>12, <2>2, <3>1 DEF Tracks
  <2> QED
    BY <2>1, <2>2
<1>13. astray \subseteq astray'
  BY <1>1
<1>14. Owns(e, fence) /\ fence # 0 => \A p \in Orders \ astray' : Tracks(e, c, r, p)
  BY <1>12, <1>13, EngineFacts
<1>15. ASSUME NEW m \in Nodes \ {n}, fence # 0, Owns(node[m], fence), NEW p \in Orders \ astray'
       PROVE  r[p] = row[p] \/ r[p].status \in Terminal
  <2>1. holder # n
    <3> SUFFICES ASSUME holder = n PROVE FALSE
      OBVIOUS
    <3>1. holder # None => Owns(e, fence)
      BY DEF EngineInv, LeasesSound, Owns
    <3> QED
      BY <1>15, <3>1, NodesAssumption DEF EngineInv, LeasesSound
  <2> QED
    BY <1>1, <1>5, <1>15, <2>1
<1>16. filler' \in 0 .. fence
  BY <1>1 DEF EngineInv, LeasesSound
<1> HIDE DEF c, e
<1> QED
  BY <1>1, <1>2, <1>8, <1>9, <1>10, <1>11, <1>13, <1>14, <1>15, <1>16, LedgerStep DEF e

\* A transaction that fails changes nothing in the ledger.
LEMMA TransactFailsPreserves ==
    ASSUME EngineInv, NEW n \in Nodes, TransactFails(n) PROVE EngineInv'
<1>1. /\ Persisting(n) /\ Answer(n, "error") /\ "error" \in Outcomes \ {"pending"}
      /\ UNCHANGED <<fixed, ledger, fence, holder, calls>> /\ astray \subseteq astray'
  BY DEF TransactFails, Outcomes, Terminal
<1> QED
  BY <1>1, RefusalPreserves

\* A new lease: the copies it starts from are right or count as astray, and
\* nobody else has its token.
LEMMA AcquirePreserves ==
    ASSUME EngineInv, NEW n \in Nodes, Acquire(n) PROVE EngineInv'
<1> DEFINE e == node[n]
           g == fence + 1
           a == [e EXCEPT !.held = g, !.version = 0]
           c == calls[n]
<1>1. /\ node' = [node EXCEPT ![n] = a] /\ e.up /\ fence' = g /\ holder' = n
      /\ UNCHANGED <<spec, feed, row, sold, filler, calls>>
      /\ astray' = astray \cup {o \in Orders : ~ Mirrors(Resting(e), o)}
  BY DEF Acquire, fixed, ledger
<1>2. /\ EngineSound(e, c, row, fence) /\ QuantitiesSound /\ fence \in Nat /\ g \in Nat
      /\ fence <= g /\ e \in Engines({e.work}) /\ g # 0
  BY EngineFacts
<1>3. /\ a \in Engines({a.work}) /\ a.orders = e.orders /\ a.conditional = e.conditional
      /\ a.work = e.work /\ a.up = e.up /\ a.held = g
  <2> HIDE DEF e, g
  <2> QED
    BY <1>2 DEF Engines
<1>4. /\ node'[n] = a /\ node' = [m \in Nodes |-> node'[m]] /\ calls' = [m \in Nodes |-> calls'[m]]
      /\ \A m \in Nodes : m # n => node'[m] = node[m]
  BY <1>1 DEF EngineInv
<1> HIDE DEF a
<1>5. Later(row, row)
  BY DEF Later
<1>6. ASSUME NEW m \in Nodes
      PROVE  /\ EngineSound(node[m], calls[m], row, g)
             /\ ~ Owns(node[m], g)
  <2>1. EngineSound(node[m], calls[m], row, fence)
    BY EngineFacts
  <2>2. EngineSound(node[m], calls[m], row, g)
    BY <1>2, <1>5, <2>1, SoundLater
  <2>3. node[m].held <= fence /\ node[m].held \in Nat
    BY <2>1, EngineFacts DEF EngineSound
  <2>4. node[m].work # Idle => node[m].work.env.token \in 1 .. fence
    BY <2>1 DEF EngineSound, WorkSound
  <2> QED
    BY <1>2, <2>2, <2>3, <2>4 DEF Owns
<1>7. /\ EngineSound(a, c, row, g)
      /\ \A o \in Orders : Tracks(a, c, row, o) <=> Tracks(e, c, row, o)
  <2>1. EngineSound(e, c, row, g)
    BY <1>6
  <2>2. a.up /\ (a.open => a.held # 0) /\ a.held <= g
    BY <1>1, <1>2, <1>3
  <2> HIDE DEF g, c, e
  <2> QED
    BY <1>2, <1>3, <2>1, <2>2, QuietChange
<1>8. ASSUME NEW o \in Orders \ astray' PROVE Tracks(e, c, row, o)
  <2>1. Mirrors(Resting(e), o)
    BY <1>1, <1>8
  <2>2. CASE ~ Awaits(c, o)
    BY <2>1, <2>2 DEF Tracks, Mirrors
  <2>3. CASE Awaits(c, o)
    <3> DEFINE p == Min(Group(o))
    <3>1. o \in Group(p)
      BY MinInGroup, GroupFacts
    <3>2. <<"place", p>> \in c /\ CallsSound(e, c, row) /\ WorkSound(e, fence)
      BY <1>2, <2>3 DEF Awaits, EngineSound
    <3>3. e.orders[o].status = "absent"
      <4> HIDE DEF p, e, c
      <4> QED
        BY <3>1, <3>2, PlacementIs
    <3>4. e.work # Idle => e.work.order # o
      BY <2>3, InHand
    <3>5. RestedCopy(e, o).status = "absent"
      BY <3>3, <3>4 DEF RestedCopy
    <3>6. Resting(e).orders[o] = RestedCopy(e, o)
      BY <1>2, <3>2, RestingIs
    <3> QED
      BY <2>1, <2>3, <3>5, <3>6 DEF Tracks, Mirrors, Matchable
  <2> QED
    BY <2>2, <2>3
<1>9. (\A m \in Nodes : EngineSound(node[m], calls[m], row, fence))'
  <2>1. ASSUME NEW m \in Nodes PROVE EngineSound(node'[m], calls'[m], row', fence')
    <3> HIDE DEF g, e
    <3> QED
      BY <1>1, <1>4, <1>6, <1>7
  <2> QED
    BY <1>1, <2>1, EnginesAfter, Zenon
<1>10. ASSUME NEW m \in Nodes, Owns(node'[m], g) PROVE m = n
  BY <1>4, <1>6, <1>10
<1>11. (\A m \in Nodes : fence # 0 /\ Owns(node[m], fence) =>
          \A o \in Orders \ astray : Tracks(node[m], calls[m], row, o))'
  <2> SUFFICES ASSUME NEW m \in Nodes, Owns(node[m], fence)', NEW o \in (Orders \ astray)'
               PROVE  Tracks(node[m], calls[m], row, o)'
    OBVIOUS
  <2>1. m = n
    BY <1>1, <1>10 DEF Owns
  <2>2. Tracks(node'[m], calls'[m], row', o)
    BY <1>1, <1>4, <1>7, <1>8, <2>1
  <2> QED
    BY <1>1, <2>2, TracksAfter
<1>12. LeasesSound'
  <2>1. filler' \in 0 .. fence'
    BY <1>1, <1>2 DEF EngineInv, LeasesSound
  <2>2. ASSUME NEW k \in Nodes, NEW m \in Nodes, Owns(node'[k], g), Owns(node'[m], g)
        PROVE  k = m
    BY <1>10, <2>2
  <2> HIDE DEF g
  <2> QED
    BY <1>1, <1>2, <1>3, <1>4, <2>1, <2>2 DEF LeasesSound, Owns
<1>13. RowsSound' /\ FillsTold'
  <2>1. RowsSound /\ FillsTold /\ row' = row /\ sold' = sold /\ spec' = spec
        /\ astray \subseteq astray'
    BY <1>1 DEF EngineInv
  <2> QED
    BY <2>1 DEF RowsSound, FillsTold, Group, Waits
<1>14. feed'.books \subseteq Books /\ QuantitiesSound'
  BY <1>1 DEF EngineInv, QuantitiesSound
<1> QED
  BY <1>4, <1>9, <1>11, <1>12, <1>13, <1>14 DEF EngineInv

\* A transaction of the newest lease commits: the order in hand has the new row,
\* which the engine's copy foresaw if the order lives on, and nobody else's rows
\* change but to end.
LEMMA CommitPreserves ==
    ASSUME EngineInv, NEW n \in Nodes, Persisting(n), NEW ack \in {"committed", "error"},
           Answer(n, ack), UNCHANGED <<spec, feed, fence, holder, calls>>, astray \subseteq astray',
           fence = node[n].work.env.token, filler' = fence, NEW o, o = node[n].work.order,
           NEW r \in [Orders -> [status : RowStatuses, filled : Nat]], row' = r,
           row[o].status \notin Terminal,
           \A p \in Orders \ {o} :
             r[p] = row[p] \/ (/\ r[p].status = "CANCELLED" /\ r[p].filled = row[p].filled
                               /\ row[p].status # "absent"),
           r[o].status \in Matchable \cup Terminal, r[o].filled <= spec[o].quantity,
           r[o].status \in Matchable =>
             ~ Waits(o) /\ (o \in astray' \/ r[o] = RestedCopy(Answered(node[n], ack), o)),
           FillsTold'
    PROVE  EngineInv'
<1> DEFINE e == node[n]
           a == Answered(e, ack)
           c == calls[n]
<1>1. ack \in Outcomes \ {"pending"}
  BY DEF Outcomes, Terminal
<1>2. /\ EngineSound(a, c, row, fence) /\ node' = [node EXCEPT ![n] = a]
      /\ a.held = e.held /\ a.work # Idle /\ a.work.env = e.work.env
      /\ \A p \in Orders \ {o} :
           RestedCopy(a, p) = RestedCopy(e, p) /\ RestedWatch(a, p) = RestedWatch(e, p)
  BY <1>1, AnsweredIs
<1>3. /\ EngineSound(e, c, row, fence) /\ QuantitiesSound /\ fence \in Nat
      /\ calls' = [calls EXCEPT ![n] = c]
      /\ o \in Orders /\ row[o].status # "absent" /\ ~ Awaits(c, o) /\ e.work # Idle
      /\ fence # 0 /\ Owns(e, fence)
  <2>1. e.work # Idle
    BY DEF Persisting
  <2>2. /\ o \in Orders /\ row[o].status # "absent" /\ ~ Awaits(c, o)
        /\ e.work.env.token \in 1 .. fence
    BY <2>1, InHand
  <2>3. EngineSound(e, c, row, fence) /\ QuantitiesSound /\ fence \in Nat
        /\ calls' = [calls EXCEPT ![n] = c]
    BY EngineFacts
  <2>4. fence # 0 /\ Owns(e, fence)
    BY <2>1, <2>2, <2>3 DEF Owns
  <2> QED
    BY <2>1, <2>2, <2>3, <2>4
<1> HIDE DEF a
<1>4. \A p \in Orders : /\ row[p].filled <= spec[p].quantity
                        /\ row[p].status \in Matchable => ~ Waits(p)
                        /\ row[p].status = "PENDING_TRIGGER" => Waits(p)
                        /\ row[p].status \in {"absent", "PENDING_TRIGGER"} => row[p].filled = 0
                        /\ \A q \in Group(p) : row[q].status = "absent" <=> row[p].status = "absent"
  BY DEF EngineInv, RowsSound
<1>5. \A p \in Orders : r[p].status = "absent" <=> row[p].status = "absent"
  BY <1>3 DEF Matchable, Terminal
<1>6. Later(row, r)
  BY <1>5 DEF Later, Terminal
<1>7. RowsSound'
  <2>1. ASSUME NEW p \in Orders
        PROVE  /\ r[p].filled <= spec[p].quantity
               /\ r[p].status \in Matchable => ~ Waits(p)
               /\ r[p].status = "PENDING_TRIGGER" => Waits(p)
               /\ r[p].status \in {"absent", "PENDING_TRIGGER"} => r[p].filled = 0
               /\ \A q \in Group(p) : r[q].status = "absent" <=> r[p].status = "absent"
    <3>1. Group(p) \subseteq Orders
      BY DEF Group
    <3>2. \A q \in Group(p) : r[q].status = "absent" <=> r[p].status = "absent"
      BY <1>4, <1>5, <3>1
    <3> QED
      BY <1>4, <3>2 DEF Matchable, Terminal
  <2> QED
    BY <2>1, RowsAfter
<1>8. EngineSound(a, c, r, fence)
  BY <1>2, <1>3, <1>6, SoundLater
<1>9. ASSUME NEW p \in Orders \ astray' PROVE Tracks(a, c, r, p)
  <2>1. Tracks(e, c, row, p)
    BY <1>3, EngineFacts
  <2>2. Rested(e, c, row, p)
    BY <1>3, <2>1, TracksIs
  <2>3. Rested(a, c, r, p)
    <3>1. CASE p = o
      BY <1>3, <1>9, <3>1 DEF Rested, Matchable, Terminal, a
    <3>2. CASE p # o /\ r[p] = row[p]
      BY <1>2, <2>2, <3>2 DEF Rested
    <3>3. CASE p # o /\ r[p].status = "CANCELLED"
      BY <3>3 DEF Rested, Matchable
    <3> QED
      BY <3>1, <3>2, <3>3
  <2> QED
    BY <1>3, <1>8, <2>3, TracksIs
<1>10. ASSUME NEW m \in Nodes \ {n}, Owns(node[m], fence) PROVE FALSE
  BY <1>3, <1>10 DEF EngineInv, LeasesSound
<1>11. filler' \in 0 .. fence
  BY <1>3
<1> HIDE DEF c, e
<1> QED
  BY <1>2, <1>3, <1>6, <1>7, <1>8, <1>9, <1>10, <1>11, LedgerStep DEF e

\* What the transaction in hand finds: an order that has its row.
LEMMA FillPreserves ==
    ASSUME EngineInv, NEW n \in Nodes, Persisting(n), NEW ack \in {"committed", "error"},
           node[n].work.kind = "match", PersistFill(n, ack),
           UNCHANGED <<spec, feed, fence, holder, calls>>, astray \subseteq astray',
           ack = "error" => node[n].work.order \in astray'
    PROVE  EngineInv'
<1> DEFINE e == node[n]
           w == e.work
           o == w.order
           next == [status |-> w.next.status, filled |-> w.next.filled]
           r == [row EXCEPT ![o] = next]
<1>1. /\ o \in Orders /\ w.was \in Entries /\ w # Idle /\ fence \in Nat
      /\ row[o].status # "absent" /\ ~ Awaits(calls[n], o) /\ ~ Waits(o)
      /\ w.env.token \in 1 .. fence
      /\ w.next.filled \in w.was.filled .. spec[o].quantity
      /\ w.next.status \in Matchable \cup {"FILLED", "CANCELLED"}
      /\ e.orders[o] = next
  BY InHand, EngineFacts DEF Persisting
<1>2. CASE row[o].status \in Terminal
  <2>1. Answer(n, row[o].status) /\ UNCHANGED ledger
    BY <1>2 DEF PersistFill
  <2>2. row[o].status \in Outcomes \ {"pending"}
    BY <1>2 DEF Outcomes, Terminal
  <2> QED
    BY <1>2, <2>1, <2>2, RefusalPreserves DEF fixed
<1>3. CASE row[o].status \notin Terminal /\ fence # w.env.token
  <2>1. Answer(n, "error") /\ UNCHANGED ledger
    BY <1>3 DEF PersistFill
  <2>2. "error" \in Outcomes \ {"pending"}
    BY DEF Outcomes, Terminal
  <2> QED
    BY <2>1, <2>2, RefusalPreserves DEF fixed
<1>4. CASE row[o].status \notin Terminal /\ fence = w.env.token
  <2>1. CommitFill(n, ack)
    BY <1>4 DEF PersistFill
  <2>2. /\ row' = r /\ filler' = fence /\ Answer(n, ack)
        /\ sold' = [sold EXCEPT ![o] = @ + w.next.filled - w.was.filled]
    BY <1>4, <2>1 DEF CommitFill
  <2>3. RowsSound /\ FillsTold /\ row \in [Orders -> [status : RowStatuses, filled : Nat]]
        /\ QuantitiesSound
    BY DEF EngineInv, RowsSound
  <2>4. next \in [status : RowStatuses, filled : Nat] /\ next.status \in Matchable \cup Terminal
        /\ w.was.filled \in Nat /\ next.filled <= spec[o].quantity
        /\ next.filled = w.next.filled /\ next.filled \in Nat
    BY <1>1, <2>3 DEF RowStatuses, Matchable, Terminal, Entries, QuantitiesSound
  <2>5. r \in [Orders -> [status : RowStatuses, filled : Nat]] /\ r[o] = next
        /\ \A p \in Orders \ {o} : r[p] = row[p]
    BY <1>1, <2>3, <2>4
  <2>6. row[o].status \in Matchable
    <3>1. row[o] \in [status : RowStatuses, filled : Nat]
      BY <1>1, <2>3
    <3> QED
      BY <1>1, <1>4, <2>3, <3>1 DEF RowsSound, RowStatuses
  <2>7. o \notin astray => row[o] = w.was
    <3> SUFFICES ASSUME o \notin astray PROVE row[o] = w.was
      OBVIOUS
    <3>1. EngineSound(e, calls[n], row, fence) /\ QuantitiesSound
          /\ Tracks(e, calls[n], row, o)
      <4>1. fence # 0 /\ Owns(e, fence)
        BY <1>1, <1>4 DEF Owns
      <4> QED
        BY <1>1, <4>1, EngineFacts
    <3>2. Rested(e, calls[n], row, o)
      BY <1>1, <3>1, TracksIs
    <3>3. "committed" \in Outcomes \ {"pending"}
      BY DEF Outcomes, Terminal
    <3>4. RestedCopy(e, o) = w.was
      BY <3>3, AnsweredIs
    <3> QED
      BY <1>1, <2>6, <3>2, <3>4 DEF Rested
  <2> HIDE DEF r, next
  <2>8. FillsTold'
    <3>1. sold' \in [Orders -> Int]
      BY <1>1, <2>2, <2>3, <2>4 DEF FillsTold
    <3>2. ASSUME NEW p \in Orders \ astray' PROVE sold'[p] = r[p].filled
      <4>1. p \in Orders \ astray /\ sold[p] = row[p].filled /\ sold[p] \in Int
        BY <2>3, <3>2 DEF FillsTold
      <4>2. CASE p = o
        BY <2>2, <2>3, <2>4, <2>5, <2>7, <4>1, <4>2 DEF FillsTold
      <4>3. CASE p # o
        BY <2>2, <2>3, <2>5, <4>1, <4>3 DEF FillsTold
      <4> QED
        BY <4>2, <4>3
    <3> QED
      BY <2>2, <3>1, <3>2 DEF FillsTold
  <2>9. o \in astray' \/ r[o] = RestedCopy(Answered(e, ack), o)
    <3>1. CASE ack = "error"
      BY <3>1
    <3>2. CASE ack = "committed"
      <4>1. ack \in Outcomes \ {"pending"}
        BY <3>2 DEF Outcomes, Terminal
      <4>2. RestedCopy(Answered(e, ack), o) = e.orders[o]
        BY <3>2, <4>1, AnsweredIs
      <4> QED
        BY <1>1, <2>5, <4>2
    <3> QED
      BY <3>1, <3>2
  <2>10. o = node[n].work.order /\ fence = node[n].work.env.token
    BY <1>4
  <2> HIDE DEF o, w, e
  <2> QED
    BY <1>1, <1>4, <2>2, <2>4, <2>5, <2>8, <2>9, <2>10, CommitPreserves DEF e
<1> QED
  BY <1>2, <1>3, <1>4

\* A trigger that commits fills a waiting order as a whole and cancels what is
\* left of its group.
LEMMA TriggerPreserves ==
    ASSUME EngineInv, NEW n \in Nodes, Persisting(n), NEW ack \in {"committed", "error"},
           node[n].work.kind = "trade", PersistTrigger(n, ack),
           UNCHANGED <<spec, feed, fence, holder, calls>>, astray \subseteq astray'
    PROVE  EngineInv'
<1> DEFINE e == node[n]
           w == e.work
           o == w.order
           r == [p \in Orders |->
                   CASE p = o -> [status |-> "FILLED", filled |-> spec[o].quantity]
                     [] p # o /\ p \in Group(o) /\ row[p].status \notin Terminal ->
                          [row[p] EXCEPT !.status = "CANCELLED"]
                     [] OTHER -> row[p]]
<1>1. /\ o \in Orders /\ w # Idle /\ row[o].status # "absent" /\ Waits(o)
      /\ ack \in Outcomes \ {"pending"}
  BY InHand DEF Persisting, Outcomes, Terminal
<1>2. CASE fence # w.env.token
  <2>1. Answer(n, "error") /\ UNCHANGED ledger
    BY <1>2 DEF PersistTrigger
  <2>2. "error" \in Outcomes \ {"pending"}
    BY DEF Outcomes, Terminal
  <2> QED
    BY <2>1, <2>2, RefusalPreserves DEF fixed
<1>3. CASE fence = w.env.token /\ row[o].status \in Terminal
  <2>1. Answer(n, ack) /\ UNCHANGED ledger
    BY <1>3 DEF PersistTrigger
  <2> QED
    BY <1>1, <1>3, <2>1, RefusalPreserves DEF fixed
<1>4. CASE fence = w.env.token /\ row[o].status \notin Terminal
  <2>1. /\ row' = r /\ filler' = fence /\ Answer(n, ack)
        /\ sold' = [sold EXCEPT ![o] = @ + spec[o].quantity]
    BY <1>4 DEF PersistTrigger
  <2>2. RowsSound /\ FillsTold /\ row \in [Orders -> [status : RowStatuses, filled : Nat]]
        /\ spec[o].quantity \in Nat
    BY <1>1 DEF EngineInv, RowsSound, QuantitiesSound
  <2>3. row[o].status = "PENDING_TRIGGER" /\ row[o].filled = 0
    <3>1. row[o] \in [status : RowStatuses, filled : Nat]
      BY <1>1, <2>2
    <3> QED
      BY <1>1, <1>4, <2>2, <3>1 DEF RowsSound, RowStatuses
  <2>4. r[o] = [status |-> "FILLED", filled |-> spec[o].quantity]
    BY <1>1
  <2>5. ASSUME NEW p \in Orders \ {o}
        PROVE  r[p] = row[p] \/ (/\ r[p].status = "CANCELLED" /\ r[p].filled = row[p].filled
                                 /\ row[p].status # "absent")
    <3>1. row[p] \in [status : RowStatuses, filled : Nat]
      BY <2>2
    <3>2. p \in Group(o) => row[p].status # "absent"
      BY <1>1, <2>2 DEF RowsSound
    <3> QED
      BY <2>5, <3>1, <3>2
  <2>6. r \in [Orders -> [status : RowStatuses, filled : Nat]]
    <3> SUFFICES ASSUME NEW p \in Orders PROVE r[p] \in [status : RowStatuses, filled : Nat]
      OBVIOUS
    <3>1. row[p] \in [status : RowStatuses, filled : Nat]
      BY <2>2
    <3> QED
      BY <1>1, <2>2, <3>1 DEF RowStatuses, Terminal
  <2> HIDE DEF r
  <2>7. FillsTold'
    <3>1. sold' \in [Orders -> Int]
      BY <1>1, <2>1, <2>2 DEF FillsTold
    <3>2. ASSUME NEW p \in Orders \ astray' PROVE sold'[p] = r[p].filled
      <4>1. p \in Orders \ astray /\ sold[p] = row[p].filled /\ sold[p] \in Int
        BY <2>2, <3>2 DEF FillsTold
      <4>2. CASE p = o
        BY <2>1, <2>2, <2>3, <2>4, <4>1, <4>2 DEF FillsTold
      <4>3. CASE p # o
        BY <2>1, <2>2, <2>5, <4>1, <4>3 DEF FillsTold
      <4> QED
        BY <4>2, <4>3
    <3> QED
      BY <2>1, <3>1, <3>2 DEF FillsTold
  <2>8. /\ r[o].status \in Matchable \cup Terminal /\ r[o].filled <= spec[o].quantity
        /\ r[o].status \notin Matchable
    BY <2>2, <2>4 DEF Matchable, Terminal
  <2>9. o = node[n].work.order /\ fence = node[n].work.env.token
    BY <1>4
  <2> HIDE DEF o, w, e
  <2> QED
    BY <1>4, <2>1, <2>5, <2>6, <2>7, <2>8, <2>9, CommitPreserves DEF e
<1> QED
  BY <1>2, <1>3, <1>4

\* The transaction commits and the engine hears of it.
LEMMA TransactPreserves ==
    ASSUME EngineInv, NEW n \in Nodes, Transact(n) PROVE EngineInv'
<1>1. /\ Persisting(n) /\ Persist(n, "committed")
      /\ UNCHANGED <<spec, feed, fence, holder, calls>> /\ astray \subseteq astray'
      /\ node[n].work.kind \in {"match", "trade"}
  BY InHand DEF Transact, fixed, Persisting
<1> QED
  BY <1>1, FillPreserves, TriggerPreserves DEF Persist

\* The transaction commits and the engine takes it for failed.
LEMMA AckLostPreserves ==
    ASSUME EngineInv, NEW n \in Nodes, AckLost(n) PROVE EngineInv'
<1>1. /\ Persisting(n) /\ Persist(n, "error")
      /\ UNCHANGED <<spec, feed, fence, holder, calls>> /\ astray \subseteq astray'
      /\ node[n].work.order \in astray' /\ node[n].work.kind \in {"match", "trade"}
  BY InHand DEF AckLost, fixed, Persisting
<1> QED
  BY <1>1, FillPreserves, TriggerPreserves DEF Persist

(***************************************************************************)
(* Every reachable state.                                                  *)
(***************************************************************************)
\* Nothing is placed, leased or filled at first.
LEMMA InitSound == Init => EngineInv
<1> SUFFICES ASSUME Init PROVE EngineInv
  OBVIOUS
<1>1. PICK s \in Scenarios :
        /\ spec = s.orders
        /\ feed = [books |-> s.books, trades |-> s.trades, maxFaults |-> s.maxFaults]
  BY DEF Init
<1>2. /\ row = [o \in Orders |-> Absent] /\ sold = [o \in Orders |-> 0]
      /\ fence = 0 /\ holder = None /\ filler = 0 /\ astray = {}
      /\ node = [n \in Nodes |-> Fresh] /\ calls = [n \in Nodes |-> {}]
  BY DEF Init
<1>3. feed.books \subseteq Books /\ QuantitiesSound
  BY <1>1, ScenariosAssumption DEF QuantitiesSound
<1>4. RowsSound
  <2>1. /\ row \in [Orders -> [status : RowStatuses, filled : Nat]]
        /\ \A o \in Orders : row[o].status = "absent" /\ row[o].filled = 0
    BY <1>2 DEF Absent, RowStatuses
  <2>2. \A o \in Orders : Group(o) \subseteq Orders
    BY DEF Group
  <2> QED
    BY <1>3, <2>1, <2>2 DEF RowsSound, Matchable, QuantitiesSound
<1>5. FillsTold
  BY <1>2 DEF FillsTold, Absent
<1>6. /\ Fresh \in Engines({Fresh.work}) /\ Fresh.held = 0 /\ ~ Fresh.open /\ Fresh.work = Idle
      /\ \A o \in Orders : Fresh.orders[o] = Absent /\ Fresh.conditional[o] = "absent"
  BY DEF Fresh, Engines, Entries, RowStatuses, Absent
<1>7. EngineSound(Fresh, {}, row, 0)
  <2>1. CopiesSound(Fresh, row)
    BY <1>3, <1>6 DEF CopiesSound, Absent, Matchable, QuantitiesSound
  <2> QED
    BY <1>6, <2>1, StartSound
<1>8. LeasesSound
  BY <1>2 DEF LeasesSound
<1> QED
  BY <1>2, <1>3, <1>4, <1>5, <1>7, <1>8 DEF EngineInv

\* The invariant is of the variables that the actions change, and a step that
\* changes none of them keeps it.
LEMMA StutterPreserves ==
    ASSUME EngineInv, UNCHANGED vars PROVE EngineInv'
<1>1. /\ UNCHANGED <<spec, feed, row, sold, fence, holder, filler, node, calls, astray>>
      /\ RowsSound /\ FillsTold /\ LeasesSound /\ QuantitiesSound /\ feed.books \subseteq Books
  BY DEF vars, EngineInv
<1>2. RowsSound' /\ FillsTold' /\ LeasesSound' /\ QuantitiesSound' /\ feed'.books \subseteq Books
  BY <1>1 DEF RowsSound, FillsTold, LeasesSound, Owns, QuantitiesSound, Group, Waits
<1>3. (\A n \in Nodes : EngineSound(node[n], calls[n], row, fence))'
  <2>1. \A n \in Nodes : EngineSound(node'[n], calls'[n], row', fence')
    BY <1>1, EngineFacts
  <2> QED
    BY <1>1, <2>1, EnginesAfter, Zenon
<1>4. (\A n \in Nodes : fence # 0 /\ Owns(node[n], fence) =>
         \A o \in Orders \ astray : Tracks(node[n], calls[n], row, o))'
  <2> SUFFICES ASSUME NEW n \in Nodes, fence' # 0, Owns(node[n], fence)',
                      NEW o \in (Orders \ astray)'
               PROVE  Tracks(node[n], calls[n], row, o)'
    OBVIOUS
  <2>1. fence # 0 /\ Owns(node[n], fence) /\ o \in Orders \ astray
    BY <1>1 DEF Owns
  <2>2. Tracks(node'[n], calls'[n], row', o)
    BY <1>1, <2>1, EngineFacts
  <2> QED
    BY <1>1, <2>2, TracksAfter
<1>5. (node = [n \in Nodes |-> node[n]] /\ calls = [n \in Nodes |-> calls[n]])'
  BY <1>1 DEF EngineInv
<1> QED
  BY <1>2, <1>3, <1>4, <1>5 DEF EngineInv

\* No step of a process or of the ledger breaks the invariant.
LEMMA StepPreserves ==
    ASSUME EngineInv, [Next]_vars PROVE EngineInv'
<1>1. CASE UNCHANGED vars
  BY <1>1, StutterPreserves
<1>2. ASSUME NEW n \in Nodes,
             \/ Boot(n) \/ Acquire(n) \/ OpenGate(n) \/ LoseLock(n) \/ Notice(n) \/ Reconnect(n)
             \/ Crash(n)
      PROVE  EngineInv'
  BY <1>2, BootPreserves, AcquirePreserves, OpenGatePreserves, LoseLockPreserves,
     NoticePreserves, ReconnectPreserves, CrashPreserves
<1>3. ASSUME NEW n \in Nodes, Transact(n) \/ TransactFails(n) \/ AckLost(n) \/ Resume(n)
      PROVE  EngineInv'
  BY <1>3, TransactPreserves, TransactFailsPreserves, AckLostPreserves, ResumePreserves
<1>4. ASSUME NEW n \in Nodes, NEW b \in feed.books, OnOrderBook(n, b) PROVE EngineInv'
  BY <1>4, OnOrderBookPreserves
<1>5. ASSUME NEW n \in Nodes, NEW t \in feed.trades, OnTrade(n, t) PROVE EngineInv'
  BY <1>5, OnTradePreserves
<1>6. ASSUME NEW n \in Nodes, NEW o \in Orders,
             \/ Place(n, o) \/ CancelLedger(n, o) \/ EngineRegister(n, o)
             \/ EngineCancel(n, o) \/ EnginePlace(n, o)
      PROVE  EngineInv'
  BY <1>6, PlacePreserves, CancelLedgerPreserves, EngineRegisterPreserves,
     EngineCancelPreserves, EnginePlacePreserves
<1> QED
  BY <1>1, <1>2, <1>3, <1>4, <1>5, <1>6 DEF Next

\* The inductive invariant holds in every reachable state.
THEOREM EngineInvariant == Spec => []EngineInv
<1>1. Init => EngineInv
  BY InitSound
<1>2. EngineInv /\ [Next]_vars => EngineInv'
  BY StepPreserves
<1> QED
  BY <1>1, <1>2, PTL DEF Spec

\* The fills table and the order row agree, and no order is overfilled, in every
\* reachable state, for every order that is not astray: one whose acknowledgement
\* was lost, that was restored before the leases were acquired or kept through a
\* re-election, or whose placement a process without the lock committed, may be.
THEOREM FillsAlwaysAddUp == Spec => []FillsAddUp
<1>1. EngineInv => FillsAddUp
  BY DEF EngineInv, RowsSound, FillsTold, FillsAddUp
<1> QED
  BY <1>1, EngineInvariant, PTL

\* A leader at rest sees every live order as the ledger has it.
THEOREM LiveOrdersAlwaysMirrored == Spec => []LiveOrdersMirrored
<1>1. EngineInv => LiveOrdersMirrored
  <2> SUFFICES ASSUME EngineInv, NEW n \in Nodes, NEW o \in Orders \ astray,
                      holder = n, node[n].held = fence, node[n].work = Idle,
                      <<"place", Min(Group(o))>> \notin calls[n]
               PROVE  Mirrors(node[n], o)
    BY DEF LiveOrdersMirrored
  <2>1. fence # 0 /\ Owns(node[n], fence)
    BY NodesAssumption DEF EngineInv, LeasesSound, Owns
  <2>2. Tracks(node[n], calls[n], row, o)
    BY <2>1 DEF EngineInv
  <2>3. ~ Awaits(calls[n], o) /\ Resting(node[n]) = node[n]
    BY DEF Awaits, Resting
  <2> QED
    BY <2>2, <2>3 DEF Tracks, Mirrors
<1> QED
  BY <1>1, EngineInvariant, PTL

\* The tokens of committed fills never go back, whoever still believes in which
\* lease: a fill commits under the newest token only, and none is newer.
THEOREM FillsNeverGoBack == Spec => FillsFollowTheFence
<1>1. EngineInv /\ [Next]_vars => [filler' >= filler]_vars
  <2> SUFFICES ASSUME EngineInv, Next PROVE filler' >= filler
    OBVIOUS
  <2>1. fence \in Nat /\ filler \in 0 .. fence
    BY DEF EngineInv, LeasesSound
  <2>2. ASSUME NEW n \in Nodes, NEW ack, Persist(n, ack)
        PROVE  filler' = filler \/ filler' = fence
    BY <2>2 DEF Persist, PersistFill, PersistTrigger, CommitFill, ledger
  <2>3. PICK n \in Nodes :
          \/ Boot(n) \/ Acquire(n) \/ OpenGate(n) \/ LoseLock(n) \/ Notice(n) \/ Reconnect(n)
          \/ Crash(n) \/ TransactFails(n) \/ Resume(n)
          \/ Transact(n) \/ AckLost(n)
          \/ \E b \in feed.books : OnOrderBook(n, b)
          \/ \E t \in feed.trades : OnTrade(n, t)
          \/ \E o \in Orders : \/ Place(n, o) \/ CancelLedger(n, o) \/ EngineRegister(n, o)
                               \/ EngineCancel(n, o) \/ EnginePlace(n, o)
    BY DEF Next
  <2>4. CASE Transact(n) \/ AckLost(n)
    BY <2>1, <2>2, <2>4 DEF Transact, AckLost
  <2>5. CASE \/ Boot(n) \/ Acquire(n) \/ OpenGate(n) \/ LoseLock(n) \/ Notice(n)
             \/ Reconnect(n) \/ Crash(n) \/ TransactFails(n) \/ Resume(n)
    <3>1. filler' = filler
      BY <2>5 DEF Boot, Acquire, OpenGate, LoseLock, Notice, Reconnect, Crash, TransactFails,
                  Resume, ledger
    <3> QED
      BY <2>1, <3>1
  <2>6. ASSUME NEW x, OnOrderBook(n, x) \/ OnTrade(n, x) PROVE filler' >= filler
    <3>1. filler' = filler
      BY <2>6 DEF OnOrderBook, OnTrade, Event, ledger
    <3> QED
      BY <2>1, <3>1
  <2>7. ASSUME NEW o \in Orders,
               \/ Place(n, o) \/ CancelLedger(n, o) \/ EngineRegister(n, o)
               \/ EngineCancel(n, o) \/ EnginePlace(n, o)
        PROVE  filler' >= filler
    <3>1. filler' = filler
      BY <2>7 DEF Place, CancelLedger, EngineRegister, EngineCancel, EnginePlace, ledger
    <3> QED
      BY <2>1, <3>1
  <2> QED
    BY <2>3, <2>4, <2>5, <2>6, <2>7
<1> QED
  BY <1>1, EngineInvariant, PTL DEF Spec, FillsFollowTheFence

(***************************************************************************)
(* The best execution.                                                     *)
(***************************************************************************)
\* g is the function that SumOf defines.
Adds(g, f, n) == g = [i \in 0 .. n |-> IF i = 0 THEN 0 ELSE g[i - 1] + f[i]]

\* There is such a function.
LEMMA SumExists ==
    ASSUME NEW f, NEW n \in Nat
    PROVE  \E g : Adds(g, f, n)
<1> DEFINE T == {k \in 0 .. n : ~ \E g : Adds(g, f, k)}
<1> SUFFICES ASSUME T # {} PROVE FALSE
  OBVIOUS
<1>0. T \in SUBSET Nat
  OBVIOUS
<1>1. PICK k \in T : \A y \in T : k <= y
  <2> HIDE DEF T
  <2> QED
    BY <1>0, SmallestNat
<1>2. CASE k = 0
  <2>1. Adds([i \in 0 .. 0 |-> 0], f, 0)
    BY DEF Adds
  <2> QED
    BY <1>1, <1>2, <2>1
<1>3. CASE k # 0
  <2>1. k - 1 \in 0 .. n /\ k - 1 \notin T
    BY <1>1, <1>3
  <2>2. PICK g : Adds(g, f, k - 1)
    BY <2>1
  <2> DEFINE a == [i \in 0 .. k |-> IF i = k THEN g[k - 1] + f[k] ELSE g[i]]
             b == [i \in 0 .. k |-> IF i = 0 THEN 0 ELSE a[i - 1] + f[i]]
  <2>3. ASSUME NEW i \in 0 .. k PROVE a[i] = b[i]
    <3>1. CASE i = k
      BY <1>3, <3>1
    <3>2. CASE i # k
      <4>1. i \in 0 .. k - 1
        BY <3>2
      <4>2. g[i] = IF i = 0 THEN 0 ELSE g[i - 1] + f[i]
        BY <2>2, <4>1 DEF Adds
      <4> QED
        BY <3>2, <4>1, <4>2
    <3> QED
      BY <3>1, <3>2
  <2>4. a = b
    BY <2>3
  <2>5. Adds(a, f, k)
    BY <2>4 DEF Adds
  <2> QED
    BY <1>1, <2>5
<1> QED
  BY <1>2, <1>3

\* g holds the partial sums of the first n terms of f.
Sums(g, f, n) ==
    /\ g[0] = 0 /\ \A i \in 1 .. n : g[i] = g[i - 1] + f[i]
    /\ \A i \in 0 .. n : g[i] \in Int

\* The sum is the last of the partial ones, which are integers if the terms are.
LEMMA SumIs ==
    ASSUME NEW f, NEW n \in Nat, \A i \in 1 .. n : f[i] \in Int
    PROVE  \E g : SumOf(f, n) = g[n] /\ Sums(g, f, n)
<1> DEFINE g == CHOOSE h : Adds(h, f, n)
<1>1. Adds(g, f, n)
  BY SumExists
<1>2. SumOf(f, n) = g[n]
  BY Zenon DEF SumOf, Adds
<1> HIDE DEF g
<1>3. /\ g[0] = 0
      /\ \A i \in 1 .. n : g[i] = g[i - 1] + f[i]
  BY <1>1 DEF Adds
<1>4. \A i \in 0 .. n : g[i] \in Int
  <2> DEFINE S == {i \in 0 .. n : g[i] \in Int}
  <2>1. 0 \in S
    BY <1>3
  <2>2. ASSUME NEW k \in 1 .. n, k - 1 \in S PROVE k \in S
    BY <1>3, <2>2
  <2>3. \A k \in 0 .. n : k \in S
    <3> HIDE DEF S
    <3> QED
      BY <2>1, <2>2, UpTo
  <2> QED
    BY <2>3
<1> QED
  BY <1>2, <1>3, <1>4 DEF Sums

\* Sums of naturals do not fall.
LEMMA SumsGrow ==
    ASSUME NEW g, NEW f, NEW n \in Nat, Sums(g, f, n), \A i \in 1 .. n : f[i] \in Nat
    PROVE  \A i \in 0 .. n : 0 <= g[i] /\ g[i] <= g[n]
<1> DEFINE S == {k \in 0 .. n : \A j \in 0 .. k : 0 <= g[j] /\ g[j] <= g[k]}
<1>1. 0 \in S
  BY DEF Sums
<1>2. ASSUME NEW k \in 1 .. n, k - 1 \in S PROVE k \in S
  <2>1. /\ g[k] = g[k - 1] + f[k] /\ f[k] \in Nat /\ k \in 0 .. n /\ k - 1 \in 0 .. n
        /\ g[k] \in Int /\ g[k - 1] \in Int
    BY DEF Sums
  <2>2. \A j \in 0 .. k - 1 : 0 <= g[j] /\ g[j] <= g[k - 1] /\ g[j] \in Int
    BY <1>2 DEF Sums
  <2>3. 0 <= g[k - 1]
    BY <2>2
  <2>4. ASSUME NEW j \in 0 .. k PROVE 0 <= g[j] /\ g[j] <= g[k]
    <3>1. CASE j = k
      BY <2>1, <2>3, <3>1
    <3>2. CASE j # k
      <4>1. j \in 0 .. k - 1
        BY <3>2
      <4> QED
        BY <2>1, <2>2, <4>1
    <3> QED
      BY <3>1, <3>2
  <2> QED
    BY <2>1, <2>4
<1>3. n \in S
  <2> HIDE DEF S
  <2> QED
    BY <1>1, <1>2, UpTo
<1> QED
  BY <1>3

\* Sums stay where the terms are zero.
LEMMA SumsStay ==
    ASSUME NEW g, NEW f, NEW n \in Nat, NEW d \in 0 .. n, Sums(g, f, n),
           \A i \in 1 .. n : i > d => f[i] = 0
    PROVE  g[n] = g[d]
<1> DEFINE S == {k \in 0 .. n : k >= d => g[k] = g[d]}
<1>1. 0 \in S
  OBVIOUS
<1>2. ASSUME NEW k \in 1 .. n, k - 1 \in S PROVE k \in S
  <2>1. g[k] = g[k - 1] + f[k] /\ g[k - 1] \in Int /\ k \in 0 .. n /\ k - 1 \in 0 .. n
    BY DEF Sums
  <2>2. CASE k > d
    BY <1>2, <2>1, <2>2
  <2>3. CASE ~ (k > d)
    BY <2>1, <2>3
  <2> QED
    BY <2>2, <2>3
<1>3. n \in S
  <2> HIDE DEF S
  <2> QED
    BY <1>1, <1>2, UpTo
<1> QED
  BY <1>3

\* The walk takes at each level all the level has, or all that is wanted.
LEMMA LevelEmpties ==
    ASSUME NEW left \in Nat, NEW volume \in Nat
    PROVE  LeftBy(left, volume) = 0 \/ LeftBy(left, volume) = left - volume
<1>1. \E x \in {left, volume} : \A y \in {left, volume} : x =< y
  OBVIOUS
<1>2. Min({left, volume}) \in {left, volume}
  BY <1>1 DEF Min
<1> QED
  BY <1>2 DEF LeftBy

\* No way through the same levels is ahead of the walk at any of them.
LEMMA WalkLeads ==
    ASSUME NEW d \in Nat, NEW w \in Nat, NEW left, NEW volume, NEW way, NEW g,
           left[0] = w, \A i \in 0 .. d : left[i] \in 0 .. w,
           \A i \in 1 .. d : /\ volume[i] \in Nat /\ way[i] \in 0 .. volume[i]
                             /\ left[i] = LeftBy(left[i - 1], volume[i]),
           Sums(g, way, d), g[d] <= w
    PROVE  \A i \in 0 .. d : g[i] <= w - left[i]
<1> DEFINE S == {k \in 0 .. d : g[k] <= w - left[k]}
<1>0. \A i \in 0 .. d : g[i] <= w /\ g[i] \in Int
  <2>1. \A i \in 1 .. d : way[i] \in Nat
    OBVIOUS
  <2>2. \A i \in 0 .. d : g[i] <= g[d]
    BY <2>1, SumsGrow
  <2>3. \A i \in 0 .. d : g[i] \in Int
    BY DEF Sums
  <2> QED
    BY <2>2, <2>3
<1>1. 0 \in S
  BY DEF Sums
<1>2. ASSUME NEW k \in 1 .. d, k - 1 \in S PROVE k \in S
  <2>1. g[k] = g[k - 1] + way[k] /\ k \in 0 .. d /\ k - 1 \in 0 .. d
    BY DEF Sums
  <2>2. /\ g[k - 1] \in Int /\ g[k] \in Int /\ left[k - 1] \in Nat /\ left[k] \in Nat
        /\ volume[k] \in Nat /\ way[k] \in 0 .. volume[k] /\ g[k] <= w
    BY <1>0, <2>1
  <2>3. left[k] = 0 \/ left[k] = left[k - 1] - volume[k]
    <3>1. left[k] = LeftBy(left[k - 1], volume[k])
      OBVIOUS
    <3> QED
      BY <2>2, <3>1, LevelEmpties, Zenon
  <2>4. g[k - 1] <= w - left[k - 1]
    BY <1>2
  <2> QED
    BY <2>1, <2>2, <2>3, <2>4
<1>3. \A k \in 0 .. d : k \in S
  <2> HIDE DEF S
  <2> QED
    BY <1>1, <1>2, UpTo
<1> QED
  BY <1>3

\* What is taken at each level is what it is short of the one before.
Takes(taken, left, w, d) ==
    /\ left[0] = w /\ \A i \in 0 .. d : left[i] \in 0 .. w
    /\ \A i \in 1 .. d : taken[i] = left[i - 1] - left[i]

\* The sums of what the walk takes.
LEMMA TakenSums ==
    ASSUME NEW d \in Nat, NEW w \in Nat, NEW left, NEW taken, NEW t,
           Takes(taken, left, w, d), Sums(t, taken, d)
    PROVE  \A i \in 0 .. d : t[i] = w - left[i]
<1> DEFINE S == {k \in 0 .. d : t[k] = w - left[k]}
<1>1. 0 \in S
  BY DEF Sums, Takes
<1>2. ASSUME NEW k \in 1 .. d, k - 1 \in S PROVE k \in S
  <2>1. t[k] = t[k - 1] + taken[k] /\ k \in 0 .. d /\ k - 1 \in 0 .. d
    BY DEF Sums
  <2>2. taken[k] = left[k - 1] - left[k] /\ left[k] \in Nat /\ left[k - 1] \in Nat
    BY <2>1 DEF Takes
  <2> QED
    BY <1>2, <2>1, <2>2
<1>3. \A k \in 0 .. d : k \in S
  <2> HIDE DEF S
  <2> QED
    BY <1>1, <1>2, UpTo
<1> QED
  BY <1>3

\* A level out of bounds has only such levels behind it.
LEMMA WorseBehind ==
    ASSUME NEW s, s.price \in Nat, NEW book \in Books, Usable(book),
           NEW i \in 1 .. Len(Levels(s, book)), NEW j \in 1 .. Len(Levels(s, book)), i < j,
           Eligible(s, book, j)
    PROVE  Eligible(s, book, i)
<1> DEFINE a == book.asks
           b == book.bids
           Level == [price : Nat, volume : Nat]
<1>1. a \in Seq(Level) /\ b \in Seq(Level)
  BY DEF Books
<1>2. /\ Len(a) \in Nat /\ \A k \in 1 .. Len(a) : a[k] \in Level
      /\ Len(b) \in Nat /\ \A k \in 1 .. Len(b) : b[k] \in Level
      /\ DOMAIN a = 1 .. Len(a) /\ DOMAIN b = 1 .. Len(b)
  <2> HIDE DEF a, b, Level
  <2> QED
    BY <1>1, SeqMembers
<1>3. /\ \A k \in 1 .. Len(a) : a[k].price \in Nat
      /\ \A k \in 1 .. Len(b) : b[k].price \in Nat
  BY <1>2
<1>4. /\ a # <<>> /\ b # <<>> /\ b[1].price < a[1].price
      /\ \A k, l \in 1 .. Len(b) : k < l => b[k].price > b[l].price
      /\ \A k, l \in 1 .. Len(a) : k < l => a[k].price < a[l].price
  BY <1>2 DEF Usable
<1>5. 1 \in 1 .. Len(a) /\ 1 \in 1 .. Len(b)
  BY <1>1, <1>4
<1> DEFINE mid == a[1].price
<1>6. ReferencePrice(book) = mid
  BY DEF ReferencePrice
<1>7. mid * MaxDeviationBps \in Nat
  BY <1>3, <1>5, Bounds
<1> HIDE DEF a, b
<1>8. CASE s.side = "BUY"
  <2>1. Levels(s, book) = a
    BY <1>8 DEF Levels, a
  <2> DEFINE p == a[i].price
             q == a[j].price
  <2>2. p \in Nat /\ q \in Nat /\ p < q /\ mid \in Nat /\ mid <= p
    BY <1>3, <1>4, <1>5, <2>1
  <2>3. WithinLimit(s, q) => WithinLimit(s, p)
    <3> HIDE DEF p, q, mid
    <3> QED
      BY <1>8, <2>2 DEF WithinLimit
  <2>4. WithinProtection(q, mid) => WithinProtection(p, mid)
    <3> HIDE DEF p, q, mid
    <3> DEFINE band == mid * MaxDeviationBps
    <3>1. band \in Nat
      BY <1>7
    <3> HIDE DEF band
    <3>2. (q - mid) * 10000 <= band => (p - mid) * 10000 <= band
      BY <2>2, <3>1
    <3>3. WithinProtection(q, mid) <=> (q - mid) * 10000 <= band
      BY <2>2 DEF WithinProtection, band
    <3>4. WithinProtection(p, mid) <=> (p - mid) * 10000 <= band
      <4>1. p = mid => (p - mid) * 10000 = (mid - p) * 10000
        BY <2>2
      <4> QED
        BY <2>2, <4>1 DEF WithinProtection, band
    <3> QED
      BY <3>2, <3>3, <3>4
  <2> QED
    BY <1>6, <2>1, <2>3, <2>4 DEF Eligible
<1>9. CASE s.side # "BUY"
  <2>1. Levels(s, book) = b
    BY <1>9 DEF Levels, b
  <2> DEFINE p == b[i].price
             q == b[j].price
  <2>2. p \in Nat /\ q \in Nat /\ q < p /\ mid \in Nat /\ p < mid
    <3>1. p \in Nat /\ q \in Nat /\ q < p /\ mid \in Nat
      BY <1>3, <1>4, <1>5, <2>1
    <3>2. i = 1 \/ (1 < i /\ b[i].price < b[1].price)
      BY <1>4, <1>5, <2>1
    <3>3. b[1].price \in Nat /\ b[1].price < mid
      BY <1>3, <1>4, <1>5
    <3> QED
      BY <3>1, <3>2, <3>3
  <2>3. WithinLimit(s, q) => WithinLimit(s, p)
    <3> HIDE DEF p, q, mid
    <3> QED
      BY <1>9, <2>2 DEF WithinLimit
  <2>4. WithinProtection(q, mid) => WithinProtection(p, mid)
    <3> HIDE DEF p, q, mid
    <3> DEFINE band == mid * MaxDeviationBps
    <3>1. band \in Nat
      BY <1>7
    <3> HIDE DEF band
    <3>2. (mid - q) * 10000 <= band => (mid - p) * 10000 <= band
      BY <2>2, <3>1
    <3>3. WithinProtection(q, mid) <=> (mid - q) * 10000 <= band
      BY <2>2 DEF WithinProtection, band
    <3>4. WithinProtection(p, mid) <=> (mid - p) * 10000 <= band
      BY <2>2 DEF WithinProtection, band
    <3> QED
      BY <3>2, <3>3, <3>4
  <2> QED
    BY <1>6, <2>1, <2>3, <2>4 DEF Eligible
<1> QED
  BY <1>8, <1>9

\* Shares one is behind by are no cheaper at the next level of a book whose
\* prices rise, and no dearer at that of one whose prices fall.
LEMMA BehindCosts ==
    ASSUME NEW e \in Int, NEW x \in Nat, NEW y \in Int, NEW p \in Nat, NEW q \in Nat
    PROVE  /\ e <= p * x /\ p <= q => e + (q * y - q * x) <= q * y
           /\ e >= p * x /\ p >= q => e + (q * y - q * x) >= q * y
<1>1. /\ p * x \in Int /\ q * x \in Int /\ q * y \in Int
  OBVIOUS
<1>2. p <= q => p * x <= q * x
  OBVIOUS
<1>3. p >= q => p * x >= q * x
  OBVIOUS
<1> DEFINE a == p * x
           b == q * x
           c == q * y
<1>4. a \in Int /\ b \in Int /\ c \in Int /\ (p <= q => a <= b) /\ (p >= q => a >= b)
  BY <1>1, <1>2, <1>3
<1> HIDE DEF a, b, c
<1>5. /\ e <= a /\ p <= q => e + (c - b) <= c
      /\ e >= a /\ p >= q => e + (c - b) >= c
  BY <1>4
<1> QED
  BY <1>5 DEF a, b, c

\* The difference of two sums of products by the same price.
LEMMA PriceOfDifference ==
    ASSUME NEW p \in Nat, NEW a \in Int, NEW b \in Int, NEW x \in Int, NEW y \in Int,
           y = x + (a - b)
    PROVE  a * p - b * p = p * y - p * x
OBVIOUS

\* How far two sums are apart after one more term.
LEMMA SumsApart ==
    ASSUME NEW d \in Nat, NEW g, NEW f, NEW t, NEW h, Sums(g, f, d), Sums(t, h, d),
           NEW i \in 1 .. d, f[i] \in Int, h[i] \in Int
    PROVE  t[i] - g[i] = (t[i - 1] - g[i - 1]) + (h[i] - f[i])
<1>1. i \in 0 .. d /\ i - 1 \in 0 .. d
  OBVIOUS
<1>2. g[i] = g[i - 1] + f[i] /\ t[i] = t[i - 1] + h[i]
  BY DEF Sums
<1>3. g[i] \in Int /\ g[i - 1] \in Int /\ t[i] \in Int /\ t[i - 1] \in Int
  BY <1>1 DEF Sums
<1> QED
  BY <1>2, <1>3

\* A way that is never ahead of the walk, and is not behind it at the end, pays
\* no less where prices rise and earns no more where they fall.
LEMMA LevelCosts ==
    ASSUME NEW d \in Nat, NEW price, NEW way, NEW taken, NEW g, NEW t, NEW c, NEW k,
           \A i \in 1 .. d : price[i] \in Nat /\ way[i] \in Int /\ taken[i] \in Int,
           Sums(g, way, d), Sums(t, taken, d),
           Sums(c, [i \in 1 .. d |-> way[i] * price[i]], d),
           Sums(k, [i \in 1 .. d |-> taken[i] * price[i]], d),
           \A i \in 0 .. d : g[i] <= t[i], g[d] = t[d]
    PROVE  /\ (\A i \in 1 .. d - 1 : price[i] <= price[i + 1]) => k[d] <= c[d]
           /\ (\A i \in 1 .. d - 1 : price[i] >= price[i + 1]) => k[d] >= c[d]
<1> DEFINE x(i) == t[i] - g[i]
           e(i) == k[i] - c[i]
<1>0. /\ x(0) = 0 /\ e(0) = 0 /\ x(d) = 0
      /\ \A i \in 0 .. d : x(i) \in Nat /\ e(i) \in Int
  BY DEF Sums
<1>1. ASSUME NEW i \in 1 .. d
      PROVE  e(i) = e(i - 1) + (price[i] * x(i) - price[i] * x(i - 1))
  <2> DEFINE p == price[i]
             r == taken[i]
             u == way[i]
             costs == [j \in 1 .. d |-> way[j] * price[j]]
             paid == [j \in 1 .. d |-> taken[j] * price[j]]
  <2>1. p \in Nat /\ r \in Int /\ u \in Int
    OBVIOUS
  <2>2. x(i) = x(i - 1) + (r - u)
    BY <2>1, SumsApart
  <2>3. costs[i] = u * p /\ paid[i] = r * p
    OBVIOUS
  <2>4. u * p \in Int /\ r * p \in Int
    BY <2>1
  <2>5. e(i) = e(i - 1) + (paid[i] - costs[i])
    <3>1. Sums(c, costs, d) /\ Sums(k, paid, d)
      OBVIOUS
    <3>2. costs[i] \in Int /\ paid[i] \in Int
      BY <2>3, <2>4
    <3> HIDE DEF costs, paid
    <3> QED
      BY <3>1, <3>2, SumsApart
  <2>6. x(i) \in Int /\ x(i - 1) \in Int
    BY <1>0
  <2> HIDE DEF x, e, p, r, u, costs, paid
  <2>7. r * p - u * p = p * x(i) - p * x(i - 1)
    BY <2>1, <2>2, <2>6, PriceOfDifference
  <2>8. e(i) = e(i - 1) + (r * p - u * p)
    BY <2>3, <2>5
  <2>9. e(i) = e(i - 1) + (p * x(i) - p * x(i - 1))
    BY <2>7, <2>8
  <2> QED
    BY <2>9 DEF p
<1> HIDE DEF x, e
<1>2. ASSUME \A i \in 1 .. d - 1 : price[i] <= price[i + 1] PROVE e(d) <= 0
  <2> DEFINE S == {i \in 0 .. d : i # 0 => e(i) <= price[i] * x(i)}
  <2>1. ASSUME NEW i \in 1 .. d, i - 1 \in S PROVE i \in S
    <3> DEFINE p == IF i = 1 THEN 0 ELSE price[i - 1]
    <3>1. i \in 0 .. d /\ i - 1 \in 0 .. d /\ price[i] \in Nat
      OBVIOUS
    <3>2. p \in Nat /\ p <= price[i] /\ e(i - 1) <= p * x(i - 1)
      <4>1. CASE i = 1
        BY <1>0, <4>1
      <4>2. CASE i # 1
        <5>1. i - 1 \in 1 .. d - 1 /\ i - 1 \in 1 .. d /\ i - 1 + 1 = i
          BY <4>2
        <5>2. price[i - 1] <= price[i] /\ price[i - 1] \in Nat
          BY <1>2, <5>1
        <5>3. e(i - 1) <= price[i - 1] * x(i - 1)
          BY <2>1, <5>1
        <5> QED
          BY <4>2, <5>2, <5>3
      <4> QED
        BY <4>1, <4>2
    <3> HIDE DEF p
    <3>3. e(i - 1) \in Int /\ x(i - 1) \in Nat /\ x(i) \in Int
      BY <1>0, <3>1
    <3>4. e(i - 1) + (price[i] * x(i) - price[i] * x(i - 1)) <= price[i] * x(i)
      BY <3>1, <3>2, <3>3, BehindCosts, Zenon
    <3>5. e(i) <= price[i] * x(i)
      BY <1>1, <3>4
    <3> QED
      BY <3>1, <3>5
  <2>2. d \in S
    <3>1. 0 \in S
      OBVIOUS
    <3>2. \A i \in 1 .. d : i - 1 \in S => i \in S
      BY <2>1
    <3>3. d \in 0 .. d
      OBVIOUS
    <3> HIDE DEF S
    <3>4. \A i \in 0 .. d : i \in S
      BY <3>1, <3>2, UpTo, Zenon
    <3> QED
      BY <3>3, <3>4
  <2>3. d = 0 \/ price[d] * x(d) = 0
    BY <1>0
  <2> QED
    BY <1>0, <2>2, <2>3
<1>3. ASSUME \A i \in 1 .. d - 1 : price[i] >= price[i + 1] PROVE e(d) >= 0
  <2> DEFINE S == {i \in 0 .. d : i # 0 => e(i) >= price[i] * x(i)}
  <2>1. ASSUME NEW i \in 1 .. d, i - 1 \in S PROVE i \in S
    <3> DEFINE p == IF i = 1 THEN price[i] ELSE price[i - 1]
    <3>1. i \in 0 .. d /\ i - 1 \in 0 .. d /\ price[i] \in Nat
      OBVIOUS
    <3>2. p \in Nat /\ p >= price[i] /\ e(i - 1) >= p * x(i - 1)
      <4>1. CASE i = 1
        BY <1>0, <4>1
      <4>2. CASE i # 1
        <5>1. i - 1 \in 1 .. d - 1 /\ i - 1 \in 1 .. d /\ i - 1 + 1 = i
          BY <4>2
        <5>2. price[i - 1] >= price[i] /\ price[i - 1] \in Nat
          BY <1>3, <5>1
        <5>3. e(i - 1) >= price[i - 1] * x(i - 1)
          BY <2>1, <5>1
        <5> QED
          BY <4>2, <5>2, <5>3
      <4> QED
        BY <4>1, <4>2
    <3> HIDE DEF p
    <3>3. e(i - 1) \in Int /\ x(i - 1) \in Nat /\ x(i) \in Int
      BY <1>0, <3>1
    <3>4. e(i - 1) + (price[i] * x(i) - price[i] * x(i - 1)) >= price[i] * x(i)
      BY <3>1, <3>2, <3>3, BehindCosts, Zenon
    <3>5. e(i) >= price[i] * x(i)
      BY <1>1, <3>4
    <3> QED
      BY <3>1, <3>5
  <2>2. d \in S
    <3>1. 0 \in S
      OBVIOUS
    <3>2. \A i \in 1 .. d : i - 1 \in S => i \in S
      BY <2>1
    <3>3. d \in 0 .. d
      OBVIOUS
    <3> HIDE DEF S
    <3>4. \A i \in 0 .. d : i \in S
      BY <3>1, <3>2, UpTo, Zenon
    <3> QED
      BY <3>3, <3>4
  <2>3. d = 0 \/ price[d] * x(d) = 0
    BY <1>0
  <2> QED
    BY <1>0, <2>2, <2>3
<1>4. k[d] \in Int /\ c[d] \in Int /\ e(d) = k[d] - c[d]
  BY DEF Sums, e
<1> QED
  BY <1>2, <1>3, <1>4

\* The levels the walk visits have natural prices, each behind a better one.
LEMMA LevelPrices ==
    ASSUME NEW s, NEW book \in Books, Usable(book)
    PROVE  LET levels == Levels(s, book)
           IN \A i \in 1 .. Len(levels) :
                /\ levels[i].price \in Nat
                /\ i < Len(levels) =>
                     IF s.side = "BUY" THEN levels[i].price <= levels[i + 1].price
                     ELSE levels[i].price >= levels[i + 1].price
<1> DEFINE Level == [price : Nat, volume : Nat]
           levels == Levels(s, book)
<1>1. levels \in Seq(Level)
  BY DEF Levels, Books
<1>2. Len(levels) \in Nat /\ DOMAIN levels = 1 .. Len(levels)
      /\ \A i \in 1 .. Len(levels) : levels[i] \in Level
  <2> HIDE DEF levels, Level
  <2> QED
    BY <1>1, SeqMembers
<1>3. \A level \in Level : level.price \in Nat
  OBVIOUS
<1>4. \A i, j \in DOMAIN levels : i < j =>
        IF s.side = "BUY" THEN levels[i].price < levels[j].price
        ELSE levels[i].price > levels[j].price
  BY DEF Usable, Levels
<1> HIDE DEF levels, Level
<1>5. \A i \in 1 .. Len(levels) : levels[i].price \in Nat
  BY <1>2, <1>3
<1>6. ASSUME NEW i \in 1 .. Len(levels), i < Len(levels)
      PROVE  IF s.side = "BUY" THEN levels[i].price <= levels[i + 1].price
             ELSE levels[i].price >= levels[i + 1].price
  <2>1. i \in DOMAIN levels /\ i + 1 \in DOMAIN levels /\ i < i + 1
    BY <1>2, <1>6
  <2>2. levels[i].price \in Nat /\ levels[i + 1].price \in Nat
    BY <1>2, <1>5, <2>1
  <2>3. IF s.side = "BUY" THEN levels[i].price < levels[i + 1].price
        ELSE levels[i].price > levels[i + 1].price
    BY <1>4, <2>1
  <2> QED
    BY <2>2, <2>3
<1> QED
  BY <1>5, <1>6 DEF levels

\* The ways to take shares from the levels of a book within the order's bounds.
Allowed(s, book, way) ==
    \A i \in 1 .. Len(Levels(s, book)) :
      /\ way[i] \in 0 .. Levels(s, book)[i].volume
      /\ way[i] > 0 => Eligible(s, book, i)

\* What the walk takes, against what is left after each level.
LEMMA TakenIs ==
    ASSUME NEW s, NEW book \in Books, NEW entry, s.quantity \in Nat,
           entry.filled \in 0 .. s.quantity
    PROVE  LET taken == MatchOrder(s, book, entry).taken
               w == Wanted(s, entry.filled)
               d == Depth(s, book)
               left == Remaining(s, book, w)
           IN /\ Len(taken) = d /\ w \in Nat /\ left[0] = w
              /\ \A i \in 0 .. d : left[i] \in 0 .. w
              /\ \A i \in 1 .. d :
                   /\ taken[i] = left[i - 1] - left[i]
                   /\ left[i] = LeftBy(left[i - 1], Levels(s, book)[i].volume)
<1> DEFINE w == Wanted(s, entry.filled)
           d == Depth(s, book)
           left == Remaining(s, book, w)
           taken == MatchOrder(s, book, entry).taken
<1>1. w \in Nat
  BY DEF Wanted
<1>2. d \in 0 .. Len(Levels(s, book)) /\ d \in Nat
  BY LevelsOfBooks, DepthIs
<1>3. Walks(left, s, book, w, d)
  BY LevelsOfBooks, RemainingWalks
<1>4. taken = [i \in 1 .. d |-> left[i - 1] - left[i]]
  BY DEF MatchOrder, CalculateExecution
<1> HIDE DEF w, d, left, taken
<1>5. left[0] = w /\ \A i \in 1 .. d : left[i] = LeftBy(left[i - 1], Levels(s, book)[i].volume)
  BY <1>2, <1>3 DEF Walks
<1>6. \A i \in 0 .. d : left[i] \in 0 .. w
  BY <1>1, <1>2, <1>3, WalkBounds
<1>7. Len(taken) = d /\ \A i \in 1 .. d : taken[i] = left[i - 1] - left[i]
  BY <1>2, <1>4
<1> QED
  BY <1>1, <1>5, <1>6, <1>7 DEF w, d, left, taken

\* The walk takes the most, at the best price.
LEMMA WalkIsBest ==
    ASSUME NEW s, NEW book \in Books, NEW entry, s.quantity \in Nat, s.price \in Nat,
           entry.filled \in 0 .. s.quantity, Usable(book),
           NEW way, Allowed(s, book, way),
           SumOf(way, Len(Levels(s, book))) <= Wanted(s, entry.filled)
    PROVE  LET taken == MatchOrder(s, book, entry).taken
               levels == Levels(s, book)
               end == Len(levels)
               reach == Len(taken)
           IN \/ SumOf(way, end) < SumOf(taken, reach)
              \/ /\ SumOf(way, end) = SumOf(taken, reach)
                 /\ IF s.side = "BUY" THEN Cost(way, levels, end) >= Cost(taken, levels, reach)
                    ELSE Cost(way, levels, end) <= Cost(taken, levels, reach)
<1> DEFINE taken == MatchOrder(s, book, entry).taken
           levels == Levels(s, book)
           n == Len(levels)
           d == Depth(s, book)
           w == Wanted(s, entry.filled)
           left == Remaining(s, book, w)
           volume == [i \in 1 .. n |-> levels[i].volume]
           price == [i \in 1 .. n |-> levels[i].price]
           costs == [i \in 1 .. n |-> way[i] * levels[i].price]
           paid == [i \in 1 .. d |-> taken[i] * levels[i].price]
<1>1. /\ Len(taken) = d /\ w \in Nat /\ left[0] = w
      /\ \A i \in 0 .. d : left[i] \in 0 .. w
      /\ \A i \in 1 .. d : /\ taken[i] = left[i - 1] - left[i]
                           /\ left[i] = LeftBy(left[i - 1], levels[i].volume)
  BY TakenIs, Zenon
<1>2. n \in Nat /\ \A i \in 1 .. n : levels[i].volume \in Nat
  BY LevelsOfBooks
<1>3. d \in 0 .. n /\ (d < n => ~ Eligible(s, book, d + 1)) /\ d \in Nat
  BY <1>2, DepthIs
<1>4. \A i \in 1 .. n :
        /\ levels[i].price \in Nat
        /\ i < n => IF s.side = "BUY" THEN levels[i].price <= levels[i + 1].price
                    ELSE levels[i].price >= levels[i + 1].price
  BY LevelPrices, Zenon
<1>5. \A i \in 1 .. n : way[i] \in 0 .. levels[i].volume
  BY DEF Allowed
<1>6. \A i \in 1 .. n : i > d => way[i] = 0
  <2> SUFFICES ASSUME NEW i \in 1 .. n, i > d PROVE way[i] = 0
    OBVIOUS
  <2>1. ~ Eligible(s, book, i)
    <3>1. d < n /\ d + 1 \in 1 .. n
      BY <1>2, <1>3
    <3>2. CASE i = d + 1
      BY <1>3, <3>1, <3>2
    <3>3. CASE i # d + 1
      <4>1. d + 1 < i
        BY <1>3, <3>3
      <4>2. Eligible(s, book, i) => Eligible(s, book, d + 1)
        BY <3>1, <4>1, WorseBehind
      <4> QED
        BY <1>3, <3>1, <4>2
    <3> QED
      BY <3>2, <3>3
  <2>2. ~ (way[i] > 0)
    BY <2>1 DEF Allowed
  <2> QED
    BY <1>2, <1>5, <2>2
<1> HIDE DEF taken, levels, n, d, w, left
<1>7. \A i \in 1 .. n : way[i] \in Nat /\ costs[i] = way[i] * levels[i].price
                        /\ costs[i] \in Int /\ volume[i] = levels[i].volume
                        /\ price[i] = levels[i].price
  BY <1>2, <1>4, <1>5
<1>8. \A i \in 1 .. d : /\ taken[i] \in Int /\ i \in 1 .. n
                        /\ paid[i] = taken[i] * levels[i].price /\ paid[i] \in Int
  <2> SUFFICES ASSUME NEW i \in 1 .. d
               PROVE  /\ taken[i] \in Int /\ i \in 1 .. n
                      /\ paid[i] = taken[i] * levels[i].price /\ paid[i] \in Int
    OBVIOUS
  <2>1. i \in 1 .. n /\ i \in 0 .. d /\ i - 1 \in 0 .. d
    BY <1>2, <1>3
  <2>2. left[i] \in Int /\ left[i - 1] \in Int
    BY <1>1, <2>1
  <2>3. taken[i] \in Int /\ levels[i].price \in Nat
    BY <1>1, <1>4, <2>1, <2>2
  <2> QED
    BY <2>1, <2>3
<1> HIDE DEF volume, price, costs, paid
<1>9. PICK g : SumOf(way, n) = g[n] /\ Sums(g, way, n)
  <2>1. \A i \in 1 .. n : way[i] \in Int
    BY <1>7
  <2> QED
    BY <1>2, <2>1, SumIs, Zenon
<1>10. PICK c : SumOf(costs, n) = c[n] /\ Sums(c, costs, n)
  <2>1. \A i \in 1 .. n : costs[i] \in Int
    BY <1>7
  <2> QED
    BY <1>2, <2>1, SumIs, Zenon
<1>11. PICK t : SumOf(taken, d) = t[d] /\ Sums(t, taken, d)
  <2>1. \A i \in 1 .. d : taken[i] \in Int
    BY <1>8
  <2> QED
    BY <1>3, <2>1, SumIs, Zenon
<1>12. PICK k : SumOf(paid, d) = k[d] /\ Sums(k, paid, d)
  <2>1. \A i \in 1 .. d : paid[i] \in Int
    BY <1>8
  <2> QED
    BY <1>3, <2>1, SumIs, Zenon
<1>13. g[n] = g[d]
  BY <1>2, <1>3, <1>6, <1>9, SumsStay
<1>14. c[n] = c[d]
  <2>1. \A i \in 1 .. n : i > d => costs[i] = 0
    BY <1>4, <1>6, <1>7
  <2> QED
    BY <1>2, <1>3, <1>10, <2>1, SumsStay
<1>15. Sums(g, way, d)
  BY <1>2, <1>3, <1>9 DEF Sums
<1>16. g[d] <= w
  BY <1>9, <1>13 DEF w, n, levels
<1>26. d \in Nat /\ w \in Nat /\ left[0] = w /\ \A i \in 0 .. d : left[i] \in 0 .. w
  BY <1>1, <1>3
<1>17. \A i \in 0 .. d : g[i] <= w - left[i]
  <2>1. ASSUME NEW i \in 1 .. d
        PROVE  /\ volume[i] \in Nat /\ way[i] \in 0 .. volume[i]
               /\ left[i] = LeftBy(left[i - 1], volume[i])
    <3>1. i \in 1 .. n /\ volume[i] = levels[i].volume
      BY <1>7, <1>8
    <3>2. left[i] = LeftBy(left[i - 1], levels[i].volume)
      BY <1>1
    <3> QED
      BY <1>2, <1>5, <3>1, <3>2
  <2>2. \A i \in 1 .. d : /\ volume[i] \in Nat /\ way[i] \in 0 .. volume[i]
                          /\ left[i] = LeftBy(left[i - 1], volume[i])
    BY <2>1
  <2> QED
    BY <1>26, <1>15, <1>16, <2>2, WalkLeads
<1>18. \A i \in 0 .. d : t[i] = w - left[i]
  <2>1. Takes(taken, left, w, d)
    BY <1>1 DEF Takes
  <2>2. Sums(t, taken, d)
    BY <1>11
  <2> QED
    BY <1>26, <2>1, <2>2, TakenSums
<1>19. \A i \in 0 .. d : g[i] <= t[i]
  BY <1>17, <1>18
<1>20. ASSUME g[d] = t[d]
       PROVE  IF s.side = "BUY" THEN k[d] <= c[d] ELSE k[d] >= c[d]
  <2>1. \A i \in 1 .. d : price[i] \in Nat /\ way[i] \in Int /\ taken[i] \in Int
    BY <1>4, <1>7, <1>8
  <2>2. Sums(c, [i \in 1 .. d |-> way[i] * price[i]], d)
    <3> DEFINE h == [i \in 1 .. d |-> way[i] * price[i]]
    <3>1. \A i \in 1 .. d : h[i] = costs[i]
      BY <1>7, <1>8
    <3> HIDE DEF h
    <3>2. Sums(c, h, d)
      BY <1>2, <1>3, <1>10, <3>1 DEF Sums
    <3> QED
      BY <3>2 DEF h
  <2>3. Sums(k, [i \in 1 .. d |-> taken[i] * price[i]], d)
    <3> DEFINE h == [i \in 1 .. d |-> taken[i] * price[i]]
    <3>1. \A i \in 1 .. d : h[i] = paid[i]
      BY <1>7, <1>8
    <3> HIDE DEF h
    <3>2. Sums(k, h, d)
      BY <1>3, <1>12, <3>1 DEF Sums
    <3> QED
      BY <3>2 DEF h
  <2>4. /\ (\A i \in 1 .. d - 1 : price[i] <= price[i + 1]) => k[d] <= c[d]
        /\ (\A i \in 1 .. d - 1 : price[i] >= price[i + 1]) => k[d] >= c[d]
    BY <1>3, <1>11, <1>15, <1>19, <1>20, <2>1, <2>2, <2>3, LevelCosts, Zenon
  <2>5. \A i \in 1 .. d - 1 :
          IF s.side = "BUY" THEN price[i] <= price[i + 1] ELSE price[i] >= price[i + 1]
    <3> SUFFICES ASSUME NEW i \in 1 .. d - 1
                 PROVE  IF s.side = "BUY" THEN price[i] <= price[i + 1]
                        ELSE price[i] >= price[i + 1]
      OBVIOUS
    <3>1. i \in 1 .. n /\ i + 1 \in 1 .. n /\ i < n
      BY <1>2, <1>3
    <3> QED
      BY <1>4, <1>7, <3>1
  <2> QED
    BY <2>4, <2>5
<1>21. /\ Cost(way, levels, n) = c[d] /\ Cost(taken, levels, Len(taken)) = k[d]
       /\ SumOf(way, n) = g[d] /\ SumOf(taken, Len(taken)) = t[d]
  <2>1. Cost(way, levels, n) = SumOf(costs, n)
    BY DEF Cost, costs
  <2>2. Cost(taken, levels, Len(taken)) = SumOf(paid, d)
    BY <1>1 DEF Cost, paid
  <2> QED
    BY <1>1, <1>9, <1>10, <1>11, <1>12, <1>13, <1>14, <2>1, <2>2
<1>22. g[d] \in Int /\ t[d] \in Int /\ c[d] \in Int /\ k[d] \in Int
  <2>1. d \in 0 .. d /\ d \in 0 .. n
    BY <1>2, <1>3
  <2> QED
    BY <1>9, <1>10, <1>11, <1>12, <2>1 DEF Sums
<1>23. g[d] <= t[d]
  <2>1. d \in 0 .. d
    BY <1>3
  <2> QED
    BY <1>19, <2>1
<1>24. \/ g[d] < t[d]
       \/ /\ g[d] = t[d]
          /\ IF s.side = "BUY" THEN c[d] >= k[d] ELSE c[d] <= k[d]
  BY <1>20, <1>22, <1>23
<1>25. \/ SumOf(way, n) < SumOf(taken, Len(taken))
       \/ /\ SumOf(way, n) = SumOf(taken, Len(taken))
          /\ IF s.side = "BUY" THEN Cost(way, levels, n) >= Cost(taken, levels, Len(taken))
             ELSE Cost(way, levels, n) <= Cost(taken, levels, Len(taken))
  BY <1>21, <1>24
<1> QED
  BY <1>25 DEF taken, levels, n

(***************************************************************************)
(* What the engine decides on.                                             *)
(***************************************************************************)
\* The match in hand was decided on a book that passed assertBook.
Decided(w) ==
    w # Idle /\ w.kind = "match" =>
      /\ Usable(w.env.payload)
      /\ w.next = MatchOrder(spec[w.order], w.env.payload, w.was)

Decisions ==
    /\ \A o \in Orders : spec[o].price \in Nat
    /\ \A n \in Nodes : Decided(node[n].work)

\* A loop over a book that passed goes on with matches of that book.
LEMMA AdvanceDecides ==
    ASSUME NEW e, e \in Engines({e.work}),
           e.work.kind = "match" => Usable(e.work.env.payload), NEW a \in Advance(e)
    PROVE  Decided(a.work)
<1>1. CASE Acting(e) = {}
  <2>1. a = [e EXCEPT !.work = Idle]
    BY <1>1 DEF Advance
  <2>2. a.work = Idle
    BY <2>1 DEF Engines
  <2> QED
    BY <2>2 DEF Decided
<1>2. CASE Acting(e) # {} /\ e.work.kind = "match"
  <2>1. PICK o \in Acting(e) : a = FillStarts(e, o)
    BY <1>2 DEF Advance
  <2> DEFINE entry == e.orders[o]
             m == MatchOrder(spec[o], e.work.env.payload, entry)
             v == InFlight(e.work, o, entry, m)
             os == [e.orders EXCEPT ![o] = [status |-> m.status, filled |-> m.filled]]
  <2>2. v.env = e.work.env /\ v.order = o /\ v.was = entry /\ v.next = m
    BY DEF InFlight
  <2>3. a.work = v
    <3>1. a = [e EXCEPT !.orders[o] = [status |-> m.status, filled |-> m.filled], !.work = v]
      BY <2>1 DEF FillStarts
    <3> HIDE DEF v, m, entry
    <3> QED
      BY <3>1 DEF Engines
  <2> HIDE DEF v, entry
  <2> QED
    BY <1>2, <2>2, <2>3 DEF Decided
<1>3. CASE Acting(e) # {} /\ e.work.kind # "match"
  <2>1. PICK o \in Acting(e) : a = TriggerStarts(e, o)
    BY <1>3 DEF Advance
  <2> DEFINE was == [e.orders[o] EXCEPT !.status = "PENDING_TRIGGER"]
             next == [status |-> "FILLED", filled |-> spec[o].quantity]
             v == InFlight(e.work, o, was, next)
             copy == [e.orders[o] EXCEPT !.status = "TRIGGERED"]
  <2>2. v.kind = e.work.kind
    BY DEF InFlight
  <2>3. a.work = v
    <3>1. a = [e EXCEPT !.conditional[o] = "TRIGGERED", !.orders[o] = copy, !.work = v]
      BY <2>1 DEF TriggerStarts
    <3> HIDE DEF v, copy
    <3> QED
      BY <3>1 DEF Engines
  <2> HIDE DEF v
  <2> QED
    BY <1>3, <2>2, <2>3 DEF Decided
<1> QED
  BY <1>1, <1>2, <1>3

\* A match starts on a book that passes only.
LEMMA MatchBookDecides ==
    ASSUME NEW e, e \in Engines({e.work}), e.work = Idle, NEW env, NEW a \in MatchBook(e, env)
    PROVE  Decided(a.work)
<1>1. CASE ~ (e.open /\ Usable(env.payload))
  <2>1. a = e
    BY <1>1 DEF MatchBook
  <2> QED
    BY <2>1 DEF Decided
<1>2. CASE e.open /\ Usable(env.payload)
  <2> DEFINE w == [kind |-> "match", env |-> env,
                   todo |-> {o \in Orders : e.orders[o].status \in Matchable}]
             b == [e EXCEPT !.work = w]
  <2>1. a \in Advance(b)
    BY <1>2 DEF MatchBook
  <2>2. w.env = env
    OBVIOUS
  <2>3. b \in Engines({b.work}) /\ b.work = w
    <3> HIDE DEF w
    <3> QED
      BY DEF Engines
  <2> HIDE DEF b, w
  <2> QED
    BY <1>2, <2>1, <2>2, <2>3, AdvanceDecides
<1> QED
  BY <1>1, <1>2

\* One engine moves, and what it has in hand was decided so.
LEMMA DecisionsAfter ==
    ASSUME EngineInv, Decisions, spec' = spec, NEW n \in Nodes, NEW a, Decided(a.work),
           node' = [node EXCEPT ![n] = a]
    PROVE  Decisions'
<1>1. \A m \in Nodes : node'[m] = IF m = n THEN a ELSE node[m]
  BY EngineFacts
<1>2. ASSUME NEW m \in Nodes PROVE Decided(node[m].work)'
  <2>1. Decided(node'[m].work)
    BY <1>1 DEF Decisions
  <2> QED
    BY <2>1 DEF Decided
<1>3. (\A o \in Orders : spec[o].price \in Nat)'
  BY DEF Decisions
<1> QED
  BY <1>2, <1>3 DEF Decisions

\* No engine moves.
LEMMA DecisionsStay ==
    ASSUME Decisions, spec' = spec, node' = node PROVE Decisions'
BY DEF Decisions, Decided

\* The steps of a process and of its lease leave what is in hand, or forget it.
LEMMA ProcessDecides ==
    ASSUME EngineInv, Decisions, NEW n \in Nodes,
           \/ Boot(n) \/ Acquire(n) \/ OpenGate(n) \/ LoseLock(n) \/ Notice(n) \/ Reconnect(n)
           \/ Crash(n)
    PROVE  Decisions'
<1> DEFINE e == node[n]
<1>1. spec' = spec
  BY DEF Boot, Acquire, OpenGate, LoseLock, Notice, Reconnect, Crash, fixed
<1>2. e \in Engines({e.work}) /\ node = [m \in Nodes |-> node[m]] /\ Decided(e.work)
  BY EngineFacts DEF Decisions
<1>3. CASE LoseLock(n)
  BY <1>1, <1>3, DecisionsStay DEF LoseLock
<1>4. CASE Crash(n)
  <2>1. node' = [node EXCEPT ![n] = Fresh] /\ Decided(Fresh.work)
    BY <1>4 DEF Crash, Fresh, Decided
  <2> QED
    BY <1>1, <2>1, DecisionsAfter
<1>5. CASE Boot(n)
  <2>1. node' = [node EXCEPT ![n] = Restored(n)]
    BY <1>5 DEF Boot
  <2>2. Restored(n).work = e.work
    <3> HIDE DEF e
    <3> QED
      BY <1>2 DEF Restored, Engines, e
  <2> QED
    BY <1>1, <1>2, <2>1, <2>2, DecisionsAfter
<1>6. ASSUME NEW a, a.work = e.work, node' = [node EXCEPT ![n] = a] PROVE Decisions'
  BY <1>1, <1>2, <1>6, DecisionsAfter
<1>7. CASE Acquire(n)
  <2> DEFINE a == [e EXCEPT !.held = fence + 1, !.version = 0]
  <2>1. node' = [node EXCEPT ![n] = a]
    BY <1>2, <1>7 DEF Acquire
  <2>2. a.work = e.work
    BY <1>2 DEF Engines
  <2> QED
    BY <1>6, <2>1, <2>2
<1>8. CASE OpenGate(n)
  <2> DEFINE a == [e EXCEPT !.open = TRUE]
  <2>1. node' = [node EXCEPT ![n] = a]
    BY <1>2, <1>8 DEF OpenGate
  <2>2. a.work = e.work
    BY <1>2 DEF Engines
  <2> QED
    BY <1>6, <2>1, <2>2
<1>9. CASE Notice(n)
  <2> DEFINE a == [e EXCEPT !.held = 0, !.open = FALSE]
  <2>1. node' = [node EXCEPT ![n] = a]
    BY <1>2, <1>9 DEF Notice
  <2>2. a.work = e.work
    BY <1>2 DEF Engines
  <2> QED
    BY <1>6, <2>1, <2>2
<1>10. CASE Reconnect(n)
  <2> DEFINE a == [e EXCEPT !.open = FALSE, !.version = 0]
  <2>1. node' = [node EXCEPT ![n] = a]
    BY <1>2, <1>10 DEF Reconnect
  <2>2. a.work = e.work
    BY <1>2 DEF Engines
  <2> QED
    BY <1>6, <2>1, <2>2
<1> QED
  BY <1>3, <1>4, <1>5, <1>7, <1>8, <1>9, <1>10

\* An answer leaves the decision as it was.
LEMMA AnswerDecides ==
    ASSUME EngineInv, Decisions, NEW n \in Nodes, node[n].work # Idle, spec' = spec,
           NEW x, Answer(n, x)
    PROVE  Decisions'
<1> DEFINE e == node[n]
           w == e.work
           v == [w EXCEPT !.outcome = x]
           a == [e EXCEPT !.work = v]
<1>1. e \in Engines({e.work}) /\ node = [m \in Nodes |-> node[m]] /\ w \in Flights(w)
  BY EngineFacts, InHand
<1>2. node' = [node EXCEPT ![n] = a]
  BY <1>1 DEF Answer
<1>3. a.work = v
  <2> HIDE DEF e, v
  <2> QED
    BY <1>1 DEF Engines
<1>4. v.kind = w.kind /\ v.env = w.env /\ v.order = w.order /\ v.was = w.was /\ v.next = w.next
  <2> HIDE DEF w
  <2> QED
    BY <1>1 DEF Flights
<1>5. Decided(w)
  BY DEF Decisions
<1> HIDE DEF v, a
<1>6. Decided(a.work)
  BY <1>3, <1>4, <1>5 DEF Decided
<1> QED
  BY <1>2, <1>6, DecisionsAfter

\* A transaction answers, whatever it does to the ledger.
LEMMA TransactionDecides ==
    ASSUME EngineInv, Decisions, NEW n \in Nodes, Transact(n) \/ TransactFails(n) \/ AckLost(n)
    PROVE  Decisions'
<1>1. spec' = spec /\ node[n].work # Idle
  BY DEF Transact, TransactFails, AckLost, Persisting, fixed
<1>2. ASSUME NEW ack, Persist(n, ack) PROVE \E x : Answer(n, x)
  BY <1>2 DEF Persist, PersistFill, PersistTrigger, CommitFill
<1>3. \E x : Answer(n, x)
  BY <1>2 DEF Transact, TransactFails, AckLost
<1> QED
  BY <1>1, <1>3, AnswerDecides

\* A loop that resumes goes on with the book it had.
LEMMA ResumeDecides ==
    ASSUME EngineInv, Decisions, NEW n \in Nodes, Resume(n) PROVE Decisions'
<1> DEFINE e == node[n]
           w == e.work
           s == Settled(e)
           v == [kind |-> w.kind, env |-> w.env, todo |-> w.todo]
           b == [s EXCEPT !.work = v]
<1>1. /\ e \in Engines({e.work}) /\ WorkSound(e, fence) /\ QuantitiesSound /\ w # Idle
      /\ w.outcome # "pending" /\ spec' = spec /\ Decided(w)
  BY EngineFacts DEF Resume, EngineSound, fixed, Decisions
<1>2. PICK a : /\ a \in IF w.kind = "match" /\ w.outcome = "error" THEN {[s EXCEPT !.work = Idle]}
                        ELSE Advance(b)
               /\ node' = [node EXCEPT ![n] = a]
  BY DEF Resume
<1>3. s \in Engines({s.work})
  <2> HIDE DEF e, s
  <2> QED
    BY <1>1, SettledIs DEF s
<1>4. v.kind = w.kind /\ v.env = w.env
  OBVIOUS
<1>5. w.kind = "match" => Usable(w.env.payload)
  BY <1>1 DEF Decided
<1> HIDE DEF s, v
<1>6. b \in Engines({b.work}) /\ b.work = v
  BY <1>3 DEF Engines
<1>7. CASE a = [s EXCEPT !.work = Idle]
  <2>1. a.work = Idle
    BY <1>3, <1>7 DEF Engines
  <2>2. Decided(a.work)
    BY <2>1 DEF Decided
  <2> QED
    BY <1>1, <1>2, <2>2, DecisionsAfter
<1>8. CASE a \in Advance(b)
  <2> HIDE DEF b, w
  <2>1. Decided(a.work)
    BY <1>4, <1>5, <1>6, <1>8, AdvanceDecides
  <2> QED
    BY <1>1, <1>2, <2>1, DecisionsAfter
<1> QED
  BY <1>2, <1>7, <1>8

\* An order book is matched if it passes.
LEMMA OnOrderBookDecides ==
    ASSUME EngineInv, Decisions, NEW n \in Nodes, NEW book \in feed.books,
           OnOrderBook(n, book)
    PROVE  Decisions'
<1> DEFINE e == node[n]
           env == Stamp(e, book)
           rb == Remembered(e, book)
           b == [rb EXCEPT !.book = env]
<1>1. e \in Engines({e.work}) /\ e.work = Idle /\ CopiesSound(e, row) /\ spec' = spec
  BY EngineFacts DEF OnOrderBook, Event, EngineSound, fixed
<1>2. PICK a \in IF Accepts(e, Envelope(e, book)) THEN MatchBook(b, env)
                 ELSE {[e EXCEPT !.version = @ + 1]} :
        node' = [node EXCEPT ![n] = a]
  BY Zenon DEF OnOrderBook, Event
<1>3. CASE a = [e EXCEPT !.version = @ + 1]
  <2>1. a.work = Idle
    BY <1>1, <1>3 DEF Engines
  <2>2. Decided(a.work)
    BY <2>1 DEF Decided
  <2> QED
    BY <1>1, <1>2, <2>2, DecisionsAfter
<1>4. CASE a \in MatchBook(b, env)
  <2>1. book \in Books /\ env \in [payload : Books, token : Nat]
    <3>1. e.held \in Nat
      BY <1>1, EngineTypes
    <3> QED
      BY <1>4, <3>1 DEF EngineInv, Stamp
  <2>2. rb \in Engines({rb.work}) /\ rb.work = e.work
    BY <1>1, RememberedIs
  <2> HIDE DEF rb, env
  <2>3. b \in Engines({b.work}) /\ b.work = Idle
    <3> HIDE DEF e
    <3> QED
      BY <1>1, <2>1, <2>2 DEF Engines
  <2> HIDE DEF b
  <2>4. Decided(a.work)
    BY <1>4, <2>3, MatchBookDecides
  <2> QED
    BY <1>1, <1>2, <2>4, DecisionsAfter
<1> QED
  BY <1>2, <1>3, <1>4

\* A trade starts no match.
LEMMA OnTradeDecides ==
    ASSUME EngineInv, Decisions, NEW n \in Nodes, NEW price, OnTrade(n, price)
    PROVE  Decisions'
<1> DEFINE e == node[n]
           rb == Remembered(e, price)
           w == [kind |-> "trade", env |-> Stamp(e, price), todo |-> Orders]
           b == [rb EXCEPT !.work = w]
<1>1. e \in Engines({e.work}) /\ e.work = Idle /\ CopiesSound(e, row) /\ spec' = spec
  BY EngineFacts DEF OnTrade, Event, EngineSound, fixed
<1>2. PICK a \in IF Accepts(e, Envelope(e, price)) THEN Advance(b)
                 ELSE {[e EXCEPT !.version = @ + 1]} :
        node' = [node EXCEPT ![n] = a]
  BY Zenon DEF OnTrade, Event
<1>3. CASE a = [e EXCEPT !.version = @ + 1]
  <2>1. a.work = Idle
    BY <1>1, <1>3 DEF Engines
  <2>2. Decided(a.work)
    BY <2>1 DEF Decided
  <2> QED
    BY <1>1, <1>2, <2>2, DecisionsAfter
<1>4. CASE a \in Advance(b)
  <2>1. w.kind # "match"
    OBVIOUS
  <2>2. rb \in Engines({rb.work})
    BY <1>1, RememberedIs
  <2> HIDE DEF rb, w
  <2>3. b \in Engines({b.work}) /\ b.work = w
    BY <2>2 DEF Engines
  <2> HIDE DEF b
  <2>4. Decided(a.work)
    BY <1>4, <2>1, <2>3, AdvanceDecides
  <2> QED
    BY <1>1, <1>2, <2>4, DecisionsAfter
<1> QED
  BY <1>2, <1>3, <1>4

\* A placement is matched against the book in the cache if that passes.
LEMMA EnginePlaceDecides ==
    ASSUME EngineInv, Decisions, NEW n \in Nodes, NEW o \in Orders, EnginePlace(n, o)
    PROVE  Decisions'
<1> DEFINE e == node[n]
           entry == [status |-> "OPEN", filled |-> 0]
           os == [e.orders EXCEPT ![o] = entry]
           b == [e EXCEPT !.orders[o] = entry]
<1>1. e \in Engines({e.work}) /\ e.work = Idle /\ spec' = spec
  BY EngineFacts DEF EnginePlace, fixed
<1>2. PICK a \in IF b.book = NoBook THEN {b} ELSE MatchBook(b, b.book) :
        node' = [node EXCEPT ![n] = a]
  BY Zenon DEF EnginePlace
<1>3. os \in [Orders -> Entries]
  <2>1. e.orders \in [Orders -> Entries]
    BY <1>1, EngineTypes
  <2> QED
    BY <2>1 DEF Entries, RowStatuses, Matchable
<1>4. b \in Engines({b.work}) /\ b.work = Idle
  <2>1. b = [e EXCEPT !.orders = os]
    BY <1>1 DEF Engines
  <2> HIDE DEF e, os, b
  <2> QED
    BY <1>1, <1>3, <2>1 DEF Engines
<1> HIDE DEF b
<1>5. Decided(a.work)
  <2>1. CASE a = b
    BY <1>4, <2>1 DEF Decided
  <2>2. CASE a \in MatchBook(b, b.book)
    BY <1>4, <2>2, MatchBookDecides
  <2> QED
    BY <1>2, <2>1, <2>2
<1> QED
  BY <1>1, <1>2, <1>5, DecisionsAfter

\* Other requests decide nothing: a registration may join a trade in hand, and a
\* cancellation finds the engine idle.
LEMMA RequestDecides ==
    ASSUME EngineInv, Decisions, NEW n \in Nodes, NEW o \in Orders,
           \/ Place(n, o) \/ CancelLedger(n, o) \/ EngineRegister(n, o) \/ EngineCancel(n, o)
    PROVE  Decisions'
<1> DEFINE e == node[n]
           w == e.work
<1>1. spec' = spec
  BY DEF Place, CancelLedger, EngineRegister, EngineCancel, fixed
<1>2. e \in Engines({e.work}) /\ node = [m \in Nodes |-> node[m]] /\ Decided(w)
  BY EngineFacts DEF Decisions
<1>3. CASE Place(n, o) \/ CancelLedger(n, o)
  BY <1>1, <1>3, DecisionsStay DEF Place, CancelLedger
<1>4. CASE EngineCancel(n, o)
  <2> DEFINE x == IF e.orders[o].status \in Terminal \cup {"absent"} THEN e.orders[o]
                  ELSE [e.orders[o] EXCEPT !.status = "CANCELLED"]
             a == [e EXCEPT !.orders[o] = x]
  <2>1. node' = [node EXCEPT ![n] = a]
    BY <1>2, <1>4, Zenon DEF EngineCancel
  <2>2. a.work = w
    <3> HIDE DEF x
    <3> QED
      BY <1>2 DEF Engines
  <2> QED
    BY <1>1, <1>2, <2>1, <2>2, DecisionsAfter
<1>5. CASE EngineRegister(n, o)
  <2> DEFINE a == Registered(e, o)
             v == [w EXCEPT !.todo = w.todo \cup Group(o)]
  <2>1. node' = [node EXCEPT ![n] = a]
    BY <1>5 DEF EngineRegister
  <2>2. a.work = IF w.kind = "trade" THEN v ELSE w
    <3> HIDE DEF v
    <3> QED
      BY <1>2 DEF Registered, Engines, v
  <2>3. w.kind = "trade" => v.kind = "trade"
    <3>1. w # Idle => w \in Flights(w)
      BY InHand
    <3>2. w.kind = "trade" => w # Idle
      BY DEF Idle
    <3> HIDE DEF w
    <3> QED
      BY <3>1, <3>2 DEF Flights
  <2>4. Decided(a.work)
    BY <1>2, <2>2, <2>3 DEF Decided
  <2> QED
    BY <1>1, <2>1, <2>4, DecisionsAfter
<1> QED
  BY <1>3, <1>4, <1>5

\* Every match in hand is one the walk decided, on a book that passed.
LEMMA DecisionsInvariant == Spec => [](EngineInv /\ Decisions)
<1>1. Init => EngineInv /\ Decisions
  <2> SUFFICES ASSUME Init PROVE EngineInv /\ Decisions
    OBVIOUS
  <2>1. PICK s \in Scenarios : spec = s.orders
    BY DEF Init
  <2>2. node = [n \in Nodes |-> Fresh] /\ Decided(Fresh.work)
    BY DEF Init, Fresh, Decided
  <2>3. \A o \in Orders : spec[o].price \in Nat
    BY <2>1, ScenariosAssumption
  <2>4. Decisions
    BY <2>2, <2>3 DEF Decisions
  <2> QED
    BY <2>4, InitSound
<1>2. EngineInv /\ Decisions /\ [Next]_vars => EngineInv' /\ Decisions'
  <2> SUFFICES ASSUME EngineInv, Decisions, [Next]_vars PROVE Decisions'
    BY StepPreserves
  <2>1. CASE UNCHANGED vars
    BY <2>1, DecisionsStay DEF vars
  <2>2. CASE Next
    <3>1. PICK n \in Nodes :
            \/ Boot(n) \/ Acquire(n) \/ OpenGate(n) \/ LoseLock(n) \/ Notice(n) \/ Reconnect(n)
            \/ Crash(n)
            \/ Transact(n) \/ TransactFails(n) \/ AckLost(n) \/ Resume(n)
            \/ \E b \in feed.books : OnOrderBook(n, b)
            \/ \E t \in feed.trades : OnTrade(n, t)
            \/ \E o \in Orders : \/ Place(n, o) \/ CancelLedger(n, o) \/ EngineRegister(n, o)
                                 \/ EngineCancel(n, o) \/ EnginePlace(n, o)
      BY <2>2 DEF Next
    <3> QED
      BY <3>1, ProcessDecides, TransactionDecides, ResumeDecides, OnOrderBookDecides,
         OnTradeDecides, EnginePlaceDecides, RequestDecides
  <2> QED
    BY <2>1, <2>2
<1> QED
  BY <1>1, <1>2, PTL DEF Spec

\* The shares any match takes are the most the limit and the protection band
\* allow, at the best price, for any orders, any books that pass assertBook and
\* any schedule: calculateExecution of the trading core, called by #matchBook,
\* is greedy, and on an ordered book greed is optimal.
THEOREM ExecutionIsBest == Spec => []BestExecution
<1>1. EngineInv /\ Decisions => BestExecution
  <2> SUFFICES ASSUME EngineInv, Decisions, NEW n \in Nodes,
                      node[n].work.kind = "match", Persisting(n)
               PROVE  LET w == node[n].work
                          s == spec[w.order]
                          levels == Levels(s, w.env.payload)
                          end == Len(levels)
                          top == Max({levels[i].volume : i \in 1..end})
                          ways == {way \in [1..end -> 0..top] : \A i \in 1..end :
                                     /\ way[i] <= levels[i].volume
                                     /\ way[i] > 0 => Eligible(s, w.env.payload, i)}
                          taken == w.next.taken
                          reach == Len(taken)
                      IN /\ \A i \in 1..reach : taken[i] > 0 => Eligible(s, w.env.payload, i)
                         /\ \A way \in ways : SumOf(way, end) <= Wanted(s, w.was.filled) =>
                              \/ SumOf(way, end) < SumOf(taken, reach)
                              \/ /\ SumOf(way, end) = SumOf(taken, reach)
                                 /\ IF s.side = "BUY"
                                    THEN Cost(way, levels, end) >= Cost(taken, levels, reach)
                                    ELSE Cost(way, levels, end) <= Cost(taken, levels, reach)
    BY DEF BestExecution
  <2> DEFINE w == node[n].work
             s == spec[w.order]
             book == w.env.payload
             levels == Levels(s, book)
             end == Len(levels)
             top == Max({levels[i].volume : i \in 1 .. end})
             taken == w.next.taken
  <2>1. /\ w.order \in Orders /\ book \in Books /\ w.was \in Entries
        /\ w.was.filled <= s.quantity /\ s.quantity \in Nat /\ s.price \in Nat
        /\ Usable(book) /\ w.next = MatchOrder(s, book, w.was)
    <3>1. w # Idle /\ w.kind = "match"
      BY DEF Persisting
    <3>2. WorkSound(node[n], fence) /\ QuantitiesSound /\ Decided(w)
      BY EngineFacts DEF EngineSound, Decisions
    <3>3. w \in Flights(w) /\ book \in Books /\ w.was.filled <= s.quantity
      BY <3>1, <3>2 DEF WorkSound
    <3>4. w.order \in Orders /\ w.was \in Entries
      <4> HIDE DEF w
      <4> QED
        BY <3>3 DEF Flights
    <3> QED
      BY <3>1, <3>2, <3>3, <3>4 DEF Decided, Decisions, QuantitiesSound
  <2>2. w.was.filled \in 0 .. s.quantity
    BY <2>1 DEF Entries
  <2>3. taken = MatchOrder(s, book, w.was).taken
    BY <2>1
  <2> HIDE DEF w, s, book
  <2>4. ASSUME NEW i \in 1 .. Len(taken) PROVE Eligible(s, book, i)
    <3>1. Len(taken) = Depth(s, book)
      BY <2>1, <2>2, <2>3, TakenIs
    <3>2. \A k \in 1 .. Depth(s, book) : Eligible(s, book, k)
      BY <2>1, LevelsOfBooks, DepthIs
    <3> QED
      BY <3>1, <3>2
  <2>5. ASSUME NEW way \in [1 .. end -> 0 .. top],
               \A i \in 1 .. end : /\ way[i] <= levels[i].volume
                                   /\ way[i] > 0 => Eligible(s, book, i),
               SumOf(way, end) <= Wanted(s, w.was.filled)
        PROVE  \/ SumOf(way, end) < SumOf(taken, Len(taken))
               \/ /\ SumOf(way, end) = SumOf(taken, Len(taken))
                  /\ IF s.side = "BUY"
                     THEN Cost(way, levels, end) >= Cost(taken, levels, Len(taken))
                     ELSE Cost(way, levels, end) <= Cost(taken, levels, Len(taken))
    <3>1. Allowed(s, book, way)
      <4>1. \A i \in 1 .. end : levels[i].volume \in Nat
        BY <2>1, LevelsOfBooks
      <4> HIDE DEF levels, end, top
      <4>2. \A i \in 1 .. end : way[i] \in 0 .. top
        OBVIOUS
      <4>3. \A i \in 1 .. end : way[i] \in Int /\ 0 <= way[i]
        BY <4>2
      <4>4. \A i \in 1 .. end : /\ way[i] \in 0 .. levels[i].volume
                                /\ way[i] > 0 => Eligible(s, book, i)
        BY <2>5, <4>1, <4>3
      <4> QED
        BY <4>4 DEF Allowed, levels, end
    <3> QED
      BY <2>1, <2>2, <2>3, <2>5, <3>1, WalkIsBest, Zenon
  <2> QED
    BY <2>4, <2>5 DEF w, s, book
<1> QED
  BY <1>1, DecisionsInvariant, PTL
=============================================================================
