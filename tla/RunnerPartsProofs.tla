-------------------------- MODULE RunnerPartsProofs --------------------------
(***************************************************************************)
(* Three parts of the strategy runner, for every value of their constants. *)
(* Its files: the types, the truth of what the journal tells, and that the *)
(* append log implements the durable journal, step by step.  Its feed: no  *)
(* version of the market is handed over twice, and no old book.  Its       *)
(* trading loop, replayed: the books balance through every fill, rounding  *)
(* and reservation, no strategy comes to hold more than it should, and     *)
(* each trades on its signal.  The three share no variable.                *)
(***************************************************************************)
EXTENDS StateFiles, MarketFeed, Backtest,
        SequenceTheorems, FiniteSetTheorems, WellFoundedInduction, TLAPS

-----------------------------------------------------------------------------
(* Induction, by the least counterexample, and FlattenSeq.                 *)

\* A set of naturals with a member has a least one.
LEMMA LeastNatural ==
    ASSUME NEW T \in SUBSET Nat, T # {}
    PROVE  \E x \in T : \A y \in T : x <= y
<1> DEFINE F == {0 .. n : n \in T}
<1>1. F \subseteq FiniteSubsetsOf(Nat)
  <2> SUFFICES ASSUME NEW n \in T PROVE 0 .. n \in FiniteSubsetsOf(Nat)
    OBVIOUS
  <2>1. IsFiniteSet(0 .. n)
    BY FS_Interval
  <2> QED
    BY <2>1 DEF FiniteSubsetsOf
<1>2. PICK I \in F : \A J \in F : ~ (<<J, I>> \in StrictSubsetOrdering(Nat))
  <2>1. F # {}
    OBVIOUS
  <2> QED
    BY <1>1, <2>1, FS_StrictSubsetOrderingWellFounded, WFMin, Zenon
<1>3. PICK x \in T : I = 0 .. x
  OBVIOUS
<1>4. ASSUME NEW y \in T, y < x PROVE FALSE
  <2>1. 0 .. y \subseteq 0 .. x /\ 0 .. y # 0 .. x
    BY <1>4
  <2>2. <<0 .. y, I>> \in StrictSubsetOrdering(Nat)
    BY <1>3, <2>1 DEF StrictSubsetOrdering
  <2> QED
    BY <1>2, <2>2
<1> QED
  BY <1>4

\* Induction on a set of naturals.
LEMMA SetInduction ==
    ASSUME NEW T, 0 \in T, \A n \in Nat : n \in T => n + 1 \in T
    PROVE  Nat \subseteq T
<1> SUFFICES ASSUME Nat \ T # {} PROVE FALSE
  OBVIOUS
<1>1. PICK x \in Nat \ T : \A y \in Nat \ T : x <= y
  BY LeastNatural, Zenon
<1>2. x - 1 \in Nat /\ x - 1 \in T
  BY <1>1
<1> QED
  BY <1>1, <1>2

\* f is the concatenation, step by step, of the first n members of s.
Concatenates(f, s, n) ==
    f = [i \in 1 .. n |-> IF i = 1 THEN s[i] ELSE f[i - 1] \o s[i]]


LEMMA ConcatenationStep ==
    ASSUME NEW s, NEW n \in Nat, NEW f, Concatenates(f, s, n), NEW k \in Nat, k + 1 <= n
    PROVE  f[k + 1] = IF k = 0 THEN s[k + 1] ELSE f[k] \o s[k + 1]
<1> DEFINE g == [j \in 1 .. n |-> IF j = 1 THEN s[j] ELSE f[j - 1] \o s[j]]
<1>1. f = g
  BY DEF Concatenates
<1>2. k + 1 \in 1 .. n /\ (k + 1) - 1 = k /\ (k + 1 = 1 <=> k = 0)
  OBVIOUS
<1>3. g[k + 1] = IF k + 1 = 1 THEN s[k + 1] ELSE f[(k + 1) - 1] \o s[k + 1]
  BY <1>2, Zenon
<1>4. g[k + 1] = IF k = 0 THEN s[k + 1] ELSE f[k] \o s[k + 1]
  BY <1>2, <1>3, Zenon
<1> HIDE DEF g
<1> QED
  BY <1>1, <1>4

LEMMA ConcatenationIsThat ==
    ASSUME NEW s, NEW n, NEW S, NEW f \in [1 .. n -> S],
           \A i \in 1 .. n : f[i] = IF i = 1 THEN s[i] ELSE f[i - 1] \o s[i]
    PROVE  Concatenates(f, s, n)
<1> DEFINE g == [j \in 1 .. n |-> IF j = 1 THEN s[j] ELSE f[j - 1] \o s[j]]
<1>1. DOMAIN f = DOMAIN g /\ \A i \in DOMAIN f : f[i] = g[i]
  OBVIOUS
<1>2. f = [i \in DOMAIN f |-> f[i]] /\ g = [i \in DOMAIN g |-> g[i]]
  OBVIOUS
<1>3. f = g
  BY <1>1, <1>2, Zenon
<1> QED
  BY <1>3 DEF Concatenates

\* Such an f is made of sequences.
LEMMA ConcatenationType ==
    ASSUME NEW T, NEW s \in Seq(Seq(T)), NEW n \in 0 .. Len(s), NEW f, Concatenates(f, s, n)
    PROVE  f \in [1 .. n -> Seq(T)]
<1> DEFINE Good == {k \in Nat : \A i \in 1 .. n : i <= k => f[i] \in Seq(T)}
<1>1. 0 \in Good
  OBVIOUS
<1>2. ASSUME NEW k \in Nat, k \in Good PROVE k + 1 \in Good
  <2> SUFFICES ASSUME k + 1 \in 1 .. n PROVE f[k + 1] \in Seq(T)
    BY <1>2 DEF Concatenates
  <2>0. n \in Nat /\ k + 1 <= n
    OBVIOUS
  <2>1. s[k + 1] \in Seq(T)
    BY ElementOfSeq
  <2>2. CASE k = 0
    BY <2>0, <2>1, <2>2, ConcatenationStep
  <2>3. CASE k # 0
    <3>1. f[k] \in Seq(T)
      BY <1>2, <2>3
    <3>2. f[k + 1] = f[k] \o s[k + 1]
      BY <2>0, <2>3, ConcatenationStep
    <3> QED
      BY <2>1, <3>1, <3>2, ConcatProperties
  <2> QED
    BY <2>2, <2>3
<1> HIDE DEF Good
<1>3. Nat \subseteq Good
  BY <1>1, <1>2, SetInduction
<1>4. n \in Good
  BY <1>3
<1>5. \A i \in 1 .. n : f[i] \in Seq(T)
  BY <1>4 DEF Good
<1> QED
  BY <1>5 DEF Concatenates

\* There is one for every sequence of sequences.
LEMMA ConcatenationExists ==
    ASSUME NEW T, NEW s \in Seq(Seq(T))
    PROVE  \A n \in 0 .. Len(s) : \E f : Concatenates(f, s, n)
<1> DEFINE Good == {n \in Nat : n <= Len(s) => \E f : Concatenates(f, s, n)}
<1>1. 0 \in Good
  <2>1. Concatenates([i \in 1 .. 0 |-> <<>>], s, 0)
    BY DEF Concatenates
  <2> QED
    BY <2>1
<1>2. ASSUME NEW n \in Nat, n \in Good PROVE n + 1 \in Good
  <2> SUFFICES ASSUME n + 1 <= Len(s) PROVE \E f : Concatenates(f, s, n + 1)
    OBVIOUS
  <2>1. PICK f : Concatenates(f, s, n)
    BY <1>2
  <2> DEFINE g == [i \in 1 .. (n + 1) |->
                     IF i = n + 1 THEN (IF n = 0 THEN s[1] ELSE f[n] \o s[n + 1]) ELSE f[i]]
  <2>2. f \in [1 .. n -> Seq(T)]
    BY <2>1, ConcatenationType
  <2>3. \A i \in 1 .. (n + 1) : s[i] \in Seq(T)
    BY ElementOfSeq
  <2>4. n # 0 => f[n] \in Seq(T) /\ f[n] \o s[n + 1] \in Seq(T)
    BY <2>2, <2>3, ConcatProperties
  <2>5. g \in [1 .. (n + 1) -> Seq(T)]
    BY <2>2, <2>3, <2>4
  <2>6. ASSUME NEW i \in 1 .. (n + 1)
        PROVE  g[i] = IF i = 1 THEN s[i] ELSE g[i - 1] \o s[i]
    <3>1. CASE i = n + 1 /\ n = 0
      BY <3>1
    <3>2. CASE i = n + 1 /\ n # 0
      <4>1. i - 1 = n /\ n \in 1 .. (n + 1) /\ n + 1 \in 1 .. (n + 1) /\ n # n + 1 /\ i # 1
        BY <3>2
      <4>2. g[n + 1] = f[n] \o s[n + 1] /\ g[n] = f[n]
        BY <3>2, <4>1
      <4> HIDE DEF g
      <4> QED
        BY <3>2, <4>1, <4>2
    <3>3. CASE i # n + 1
      <4>1. PICK k \in Nat : i = k + 1 /\ k + 1 <= n
        BY <3>3
      <4>2. f[k + 1] = IF k = 0 THEN s[k + 1] ELSE f[k] \o s[k + 1]
        BY <2>1, <4>1, ConcatenationStep
      <4>3. g[i] = f[k + 1] /\ (k # 0 => g[i - 1] = f[k])
        BY <4>1
      <4> QED
        BY <4>1, <4>2, <4>3
    <3> QED
      BY <3>1, <3>2, <3>3
  <2> HIDE DEF g
  <2>7. Concatenates(g, s, n + 1)
    BY <2>5, <2>6, ConcatenationIsThat
  <2> QED
    BY <2>7
<1> HIDE DEF Good
<1>3. Nat \subseteq Good
  BY <1>1, <1>2, SetInduction
<1>4. Len(s) \in Nat
  OBVIOUS
<1> QED
  BY <1>3, <1>4 DEF Good

Agree(s, t, n) == \A i \in 1 .. n : s[i] = t[i]

\* Two of them agree as far as the sequences they concatenate do.
LEMMA ConcatenationsAgree ==
    ASSUME NEW s, NEW t, NEW m \in Nat, NEW n \in Nat, m <= n,
           Agree(s, t, m),
           NEW f, Concatenates(f, s, m), NEW g, Concatenates(g, t, n)
    PROVE  Agree(f, g, m)
<1> DEFINE Good == {k \in Nat : k \in 1 .. m => f[k] = g[k]}
<1>1. 0 \in Good
  OBVIOUS
<1>2. ASSUME NEW k \in Nat, k \in Good PROVE k + 1 \in Good
  <2> SUFFICES ASSUME k + 1 \in 1 .. m PROVE f[k + 1] = g[k + 1]
    OBVIOUS
  <2>1. k + 1 \in 1 .. n /\ s[k + 1] = t[k + 1]
    BY DEF Agree
  <2>2. f[k + 1] = IF k = 0 THEN s[k + 1] ELSE f[k] \o s[k + 1]
    BY ConcatenationStep
  <2>3. g[k + 1] = IF k = 0 THEN t[k + 1] ELSE g[k] \o t[k + 1]
    BY <2>1, ConcatenationStep
  <2>4. k # 0 => f[k] = g[k]
    BY <1>2
  <2> QED
    BY <2>1, <2>2, <2>3, <2>4
<1> HIDE DEF Good
<1>3. Nat \subseteq Good
  BY <1>1, <1>2, SetInduction
<1> QED
  BY <1>3 DEF Good, Agree

\* FlattenSeq is the last step of such a concatenation.
LEMMA FlattenIs ==
    ASSUME NEW T, NEW s \in Seq(Seq(T)), s # <<>>
    PROVE  \E f : Concatenates(f, s, Len(s)) /\ FlattenSeq(s) = f[Len(s)]
<1>1. Len(s) \in Nat /\ Len(s) # 0
  OBVIOUS
<1>2. FlattenSeq(s) = (CHOOSE f : Concatenates(f, s, Len(s)))[Len(s)]
  BY <1>1 DEF FlattenSeq, Concatenates
<1>3. \E f : Concatenates(f, s, Len(s))
  BY <1>1, ConcatenationExists
<1> QED
  BY <1>2, <1>3

LEMMA FlattenType ==
    ASSUME NEW T, NEW s \in Seq(Seq(T))
    PROVE  FlattenSeq(s) \in Seq(T)
<1>1. CASE s = <<>>
  BY <1>1 DEF FlattenSeq
<1>2. CASE s # <<>>
  <2>1. PICK f : Concatenates(f, s, Len(s)) /\ FlattenSeq(s) = f[Len(s)]
    BY <1>2, FlattenIs
  <2>2. Len(s) \in Nat /\ Len(s) \in 1 .. Len(s) /\ Len(s) \in 0 .. Len(s)
    BY <1>2
  <2>3. f \in [1 .. Len(s) -> Seq(T)]
    BY <2>1, <2>2, ConcatenationType
  <2> QED
    BY <2>1, <2>2, <2>3
<1> QED
  BY <1>1, <1>2

\* One more sequence is concatenated behind the rest.
LEMMA FlattenAppend ==
    ASSUME NEW T, NEW s \in Seq(Seq(T)), NEW x \in Seq(T)
    PROVE  FlattenSeq(Append(s, x)) = FlattenSeq(s) \o x
<1> DEFINE t == Append(s, x)
           n == Len(s)
<1>1. /\ t \in Seq(Seq(T)) /\ t # <<>> /\ Len(t) = n + 1 /\ n \in Nat
      /\ t[n + 1] = x /\ \A i \in 1 .. n : s[i] = t[i]
  BY AppendProperties
<1>2. PICK g : Concatenates(g, t, n + 1) /\ FlattenSeq(t) = g[n + 1]
  BY <1>1, FlattenIs
<1>3. g[n + 1] = IF n = 0 THEN x ELSE g[n] \o x
  <2>1. n + 1 \in Nat /\ n + 1 <= n + 1
    BY <1>1
  <2>2. g[n + 1] = IF n = 0 THEN t[n + 1] ELSE g[n] \o t[n + 1]
    BY <1>1, <1>2, <2>1, ConcatenationStep
  <2> HIDE DEF t
  <2> QED
    BY <1>1, <2>2
<1>4. CASE s = <<>>
  <2>1. FlattenSeq(s) = <<>>
    BY <1>4 DEF FlattenSeq
  <2> QED
    BY <1>2, <1>3, <1>4, <2>1, ConcatEmptySeq
<1>5. CASE s # <<>>
  <2>1. PICK f : Concatenates(f, s, n) /\ FlattenSeq(s) = f[n]
    BY <1>5, FlattenIs
  <2>2. n \in Nat /\ n \in 1 .. n /\ n <= n + 1 /\ n + 1 \in Nat
    BY <1>5
  <2>3. f[n] = g[n]
    <3>1. Agree(s, t, n)
      BY <1>1 DEF Agree
    <3>2. Agree(f, g, n)
      <4> HIDE DEF t, n
      <4> QED
        BY <1>2, <2>1, <2>2, <3>1, ConcatenationsAgree
    <3> QED
      BY <2>2, <3>2 DEF Agree
  <2>4. FlattenSeq(t) = g[n] \o x
    BY <1>2, <1>3, <2>2
  <2> QED
    BY <2>1, <2>2, <2>3, <2>4
<1> QED
  BY <1>4, <1>5

-----------------------------------------------------------------------------
(* The records a log can hold, and what is read of its lines.              *)

\* A position is at most the ledger's last one and one unit for each fill since.
Written == {r \in Records : r.position <= MaxEvents + r.seq}
Pieces == Written \cup {Fragment}

\* What is read of a tail, and what some life was told of the lines ls.
Read(t) == IF WholeLine(t) THEN t ELSE <<>>
ToldLines(ls) == [i \in 1 .. Len(ls) |-> Told(ls[i])]
ToldOf(ls) == FlattenSeq(ToldLines(ls))

\* Every line ends in a record and its newline.
Line(l) == \E t \in Seq(Pieces), r \in Written : l = Append(t, r)

LEMMA MaxEventsNat == MaxEvents \in Nat
BY FilesAssumption

LEMMA FragmentIsNoRecord == Fragment \notin Written
BY DEF Fragment, Written, Records

LEMMA WrittenRecord ==
    ASSUME NEW r \in Written
    PROVE  /\ r \in Records /\ r.seq \in 1 .. MaxEvents /\ r.kind \in {"FILL", "RESYNC"}
           /\ r.position \in Nat /\ r.position <= MaxEvents + r.seq
BY MaxEventsNat DEF Written, Records

LEMMA WholeLineIsARecord ==
    ASSUME NEW t \in Seq(Pieces), WholeLine(t)
    PROVE  t[1] \in Written /\ t = <<t[1]>> /\ t \in Seq(Written) /\ Len(t) = 1
<1>1. Len(t) = 1 /\ t[1] \in Pieces /\ t[1].kind # "fragment"
  BY DEF WholeLine
<1>2. t[1] \in Written
  BY <1>1 DEF Pieces, Fragment
<1>3. t = <<t[1]>>
  BY <1>1
<1>4. <<t[1]>> \in Seq(Written)
  BY <1>2
<1> QED
  BY <1>1, <1>2, <1>3, <1>4

LEMMA ReadType ==
    ASSUME NEW t \in Seq(Pieces)
    PROVE  Read(t) \in Seq(Written)
<1>1. CASE WholeLine(t)
  BY <1>1, WholeLineIsARecord DEF Read
<1>2. CASE ~ WholeLine(t)
  BY <1>2 DEF Read
<1> QED
  BY <1>1, <1>2

\* A line tells its last record, behind the tail it was written to.
LEMMA ToldOfALine ==
    ASSUME NEW t \in Seq(Pieces), NEW r \in Written
    PROVE  /\ Told(Append(t, r)) = Append(Read(t), r)
           /\ Told(Append(t, r)) \in Seq(Written)
<1>1. r \in Pieces
  BY DEF Pieces
<1>2. /\ Append(t, r) \in Seq(Pieces) /\ Len(Append(t, r)) = Len(t) + 1
      /\ Append(t, r)[Len(t) + 1] = r
      /\ \A i \in 1 .. Len(t) : Append(t, r)[i] = t[i]
  BY <1>1, AppendProperties
<1>3. Last(Append(t, r)) = r
  BY <1>2 DEF Last
<1>4. Front(Append(t, r)) = t
  <2>1. Front(Append(t, r)) = SubSeq(Append(t, r), 1, Len(t))
    BY <1>2 DEF Front
  <2> QED
    BY <1>1, <1>2, <2>1
<1>5. Told(Append(t, r)) = IF WholeLine(t) THEN Append(t, r) ELSE <<r>>
  BY <1>3, <1>4 DEF Told
<1>6. Told(Append(t, r)) = Append(Read(t), r)
  <2>1. Append(<<>>, r) = <<r>>
    OBVIOUS
  <2>2. CASE WholeLine(t)
    BY <1>5, <2>2 DEF Read
  <2>3. CASE ~ WholeLine(t)
    BY <1>5, <2>1, <2>3 DEF Read
  <2> QED
    BY <2>2, <2>3
<1>7. Read(t) \in Seq(Written)
  BY ReadType
<1> QED
  BY <1>6, <1>7, AppendProperties

LEMMA ToldLinesType ==
    ASSUME NEW ls \in Seq(Seq(Pieces)), \A i \in 1 .. Len(ls) : Line(ls[i])
    PROVE  ToldLines(ls) \in Seq(Seq(Written)) /\ Len(ToldLines(ls)) = Len(ls)
<1>1. \A i \in 1 .. Len(ls) : Told(ls[i]) \in Seq(Written)
  BY ToldOfALine DEF Line
<1> QED
  BY <1>1 DEF ToldLines

LEMMA ToldType ==
    ASSUME NEW ls \in Seq(Seq(Pieces)), \A i \in 1 .. Len(ls) : Line(ls[i])
    PROVE  ToldOf(ls) \in Seq(Written)
<1>1. ToldLines(ls) \in Seq(Seq(Written))
  BY ToldLinesType
<1> QED
  BY <1>1, FlattenType DEF ToldOf

\* A record and its newline behind the tail t: a life that knew what the log
\* and its tail tell now knows the record as well.
LEMMA ToldAppend ==
    ASSUME NEW ls \in Seq(Seq(Pieces)), \A i \in 1 .. Len(ls) : Line(ls[i]),
           NEW t \in Seq(Pieces), NEW r \in Written
    PROVE  /\ Append(ls, Append(t, r)) \in Seq(Seq(Pieces))
           /\ \A i \in 1 .. Len(Append(ls, Append(t, r))) : Line(Append(ls, Append(t, r))[i])
           /\ ToldOf(Append(ls, Append(t, r))) = Append(ToldOf(ls) \o Read(t), r)
<1> DEFINE l == Append(t, r)
           new == Append(ls, l)
<1>1. l \in Seq(Pieces) /\ Line(l)
  BY DEF Pieces, Line
<1> HIDE DEF l
<1>2. /\ new \in Seq(Seq(Pieces)) /\ Len(new) = Len(ls) + 1 /\ new[Len(ls) + 1] = l
      /\ \A i \in 1 .. Len(ls) : new[i] = ls[i]
  BY <1>1, AppendProperties
<1>3. \A i \in 1 .. Len(new) : Line(new[i])
  BY <1>1, <1>2
<1>4. /\ ToldLines(ls) \in Seq(Seq(Written)) /\ Len(ToldLines(ls)) = Len(ls)
      /\ ToldLines(new) \in Seq(Seq(Written)) /\ Len(ToldLines(new)) = Len(ls) + 1
  BY <1>2, <1>3, ToldLinesType
<1>5. Told(l) = Append(Read(t), r) /\ Told(l) \in Seq(Written)
  BY ToldOfALine DEF l
<1>6. ToldLines(new) = Append(ToldLines(ls), Told(l))
  <2>1. /\ Append(ToldLines(ls), Told(l)) \in Seq(Seq(Written))
        /\ Len(Append(ToldLines(ls), Told(l))) = Len(ls) + 1
        /\ Append(ToldLines(ls), Told(l))[Len(ls) + 1] = Told(l)
        /\ \A i \in 1 .. Len(ls) : Append(ToldLines(ls), Told(l))[i] = ToldLines(ls)[i]
    BY <1>4, <1>5, AppendProperties
  <2>2. \A i \in 1 .. Len(ls) : ToldLines(new)[i] = ToldLines(ls)[i]
    BY <1>2 DEF ToldLines
  <2>3. ToldLines(new)[Len(ls) + 1] = Told(l)
    BY <1>2 DEF ToldLines
  <2>4. \A i \in 1 .. Len(ls) + 1 :
           ToldLines(new)[i] = Append(ToldLines(ls), Told(l))[i]
    BY <2>1, <2>2, <2>3
  <2> QED
    BY <1>4, <2>1, <2>4, SeqEqual
<1>7. ToldOf(new) = ToldOf(ls) \o Told(l)
  BY <1>4, <1>5, <1>6, FlattenAppend DEF ToldOf
<1>8. ToldOf(ls) \in Seq(Written) /\ Read(t) \in Seq(Written)
  BY ToldType, ReadType
<1>9. ToldOf(ls) \o Append(Read(t), r) = Append(ToldOf(ls) \o Read(t), r)
  BY <1>8, ConcatAssociative, ConcatProperties, AppendIsConcat
<1> QED
  BY <1>2, <1>3, <1>5, <1>7, <1>9 DEF l

\* Without damage a log reads as what was told of it.
LEMMA UndamagedTells ==
    ASSUME NEW ls \in Seq(Seq(Pieces)), \A i \in 1 .. Len(ls) : Line(ls[i]),
           \A i \in 1 .. Len(ls) : WholeLine(ls[i])
    PROVE  FlattenSeq(ls) = ToldOf(ls)
<1>1. ASSUME NEW i \in 1 .. Len(ls) PROVE Told(ls[i]) = ls[i]
  <2>1. PICK t \in Seq(Pieces), r \in Written : ls[i] = Append(t, r)
    BY DEF Line
  <2>2. Len(ls[i]) = Len(t) + 1 /\ Len(ls[i]) = 1
    BY <2>1 DEF WholeLine
  <2>3. t = <<>>
    BY <2>2
  <2>4. Read(t) = <<>>
    BY <2>3 DEF Read, WholeLine
  <2> QED
    BY <2>1, <2>3, <2>4, ToldOfALine
<1>2. ToldLines(ls) \in Seq(Seq(Written)) /\ Len(ToldLines(ls)) = Len(ls)
  BY ToldLinesType
<1>3. \A i \in 1 .. Len(ls) : ToldLines(ls)[i] = ls[i]
  BY <1>1 DEF ToldLines
<1>4. ls = ToldLines(ls)
  <2>1. Seq(Written) \subseteq Seq(Pieces)
    BY DEF Pieces
  <2>2. ToldLines(ls) \in Seq(Seq(Pieces))
    BY <1>2, <2>1
  <2> QED
    BY <1>2, <1>3, <2>2, SeqEqual
<1> QED
  BY <1>4 DEF ToldOf

-----------------------------------------------------------------------------
(* What the account's fills leave in the position.                         *)

Sided(acc, side, n) == {i \in 1 .. n : acc[i] = side}
PositionIn(acc, n) == Cardinality(Sided(acc, "BUY", n)) - Cardinality(Sided(acc, "SELL", n))

LEMMA SidedCounts ==
    ASSUME NEW acc, NEW side, NEW n \in Nat
    PROVE  /\ IsFiniteSet(Sided(acc, side, n))
           /\ Cardinality(Sided(acc, side, n)) \in 0 .. n
           /\ Cardinality(Sided(acc, side, n + 1))
                = Cardinality(Sided(acc, side, n)) + (IF acc[n + 1] = side THEN 1 ELSE 0)
<1>1. IsFiniteSet(1 .. n) /\ Cardinality(1 .. n) = n
  BY FS_Interval
<1>2. Sided(acc, side, n) \subseteq 1 .. n
  BY DEF Sided
<1>3. /\ IsFiniteSet(Sided(acc, side, n))
      /\ Cardinality(Sided(acc, side, n)) <= n
      /\ Cardinality(Sided(acc, side, n)) \in Nat
  BY <1>1, <1>2, FS_Subset, FS_CardinalityType
<1>4. CASE acc[n + 1] = side
  <2>1. /\ Sided(acc, side, n + 1) = Sided(acc, side, n) \cup {n + 1}
        /\ n + 1 \notin Sided(acc, side, n)
    BY <1>4 DEF Sided
  <2> QED
    BY <1>3, <1>4, <2>1, FS_AddElement
<1>5. CASE acc[n + 1] # side
  <2>1. Sided(acc, side, n + 1) = Sided(acc, side, n)
    BY <1>5 DEF Sided
  <2> QED
    BY <1>3, <1>5, <2>1
<1> QED
  BY <1>3, <1>4, <1>5

LEMMA PositionSteps ==
    ASSUME NEW acc, NEW n \in Nat
    PROVE  /\ PositionIn(acc, n) \in Int /\ PositionIn(acc, n) <= n
           /\ acc[n + 1] = "BUY" => PositionIn(acc, n + 1) = PositionIn(acc, n) + 1
           /\ acc[n + 1] = "SELL" => PositionIn(acc, n + 1) = PositionIn(acc, n) - 1
BY SidedCounts DEF PositionIn

LEMMA NothingHeldAtFirst ==
    ASSUME NEW acc
    PROVE  PositionIn(acc, 0) = 0
<1>1. Sided(acc, "BUY", 0) = {} /\ Sided(acc, "SELL", 0) = {}
  BY DEF Sided
<1> QED
  BY <1>1, FS_EmptySet DEF PositionIn

\* A later event leaves the positions before it as they were.
LEMMA PositionsStand ==
    ASSUME NEW acc \in Seq({"BUY", "SELL"}), NEW side \in {"BUY", "SELL"},
           NEW n \in 0 .. Len(acc)
    PROVE  PositionIn(Append(acc, side), n) = PositionIn(acc, n)
<1>1. \A i \in 1 .. n : Append(acc, side)[i] = acc[i]
  OBVIOUS
<1>2. \A s : Sided(Append(acc, side), s, n) = Sided(acc, s, n)
  BY <1>1 DEF Sided
<1> QED
  BY <1>2 DEF PositionIn

\* The log repeats no event and tells the account's positions, up to the first
\* event it left out.
Ordered(log) == \A i, j \in 1 .. Len(log) : i < j => log[i].seq < log[j].seq
NoneLeftOut(log, n) == \A j \in 1 .. n : log[j].kind = "FILL" /\ log[j].seq = j
TellsPositions(log, acc) ==
    \A i \in 1 .. Len(log) :
        NoneLeftOut(log, i) => i <= Len(acc) /\ log[i].position = PositionIn(acc, i)
Truthful(log, acc) == Ordered(log) /\ TellsPositions(log, acc)

LEMMA TruthfulPrefix ==
    ASSUME NEW l1 \in Seq(Written), NEW l2 \in Seq(Written), NEW acc, Truthful(l1 \o l2, acc)
    PROVE  Truthful(l1, acc)
<1>1. Len(l1 \o l2) = Len(l1) + Len(l2) /\ \A i \in 1 .. Len(l1) : (l1 \o l2)[i] = l1[i]
  BY ConcatProperties
<1>2. \A i \in 1 .. Len(l1) : i \in 1 .. Len(l1 \o l2)
  BY <1>1
<1>3. ASSUME NEW i \in 1 .. Len(l1), NoneLeftOut(l1, i)
      PROVE  i <= Len(acc) /\ l1[i].position = PositionIn(acc, i)
  <2>1. \A j \in 1 .. i : (l1 \o l2)[j] = l1[j]
    BY <1>1
  <2>2. NoneLeftOut(l1 \o l2, i)
    BY <1>3, <2>1 DEF NoneLeftOut
  <2>3. (l1 \o l2)[i] = l1[i] /\ i \in 1 .. Len(l1 \o l2)
    BY <1>1, <1>2
  <2> QED
    BY <2>2, <2>3 DEF Truthful, TellsPositions
<1>4. Ordered(l1)
  BY <1>1, <1>2 DEF Truthful, Ordered
<1> QED
  BY <1>3, <1>4 DEF Truthful, TellsPositions

LEMMA TruthStands ==
    ASSUME NEW log, Len(log) \in Nat, NEW acc \in Seq({"BUY", "SELL"}), NEW side \in {"BUY", "SELL"},
           Truthful(log, acc)
    PROVE  Truthful(log, Append(acc, side))
<1>1. Len(acc) \in Nat /\ Len(Append(acc, side)) = Len(acc) + 1
  OBVIOUS
<1>2. \A i \in 1 .. Len(log) : i <= Len(acc) =>
         PositionIn(Append(acc, side), i) = PositionIn(acc, i)
  BY <1>1, PositionsStand
<1> QED
  BY <1>1, <1>2 DEF Truthful, TellsPositions

-----------------------------------------------------------------------------
(* The inductive invariant.                                                *)

FilesTyped ==
    /\ account \in Seq({"BUY", "SELL"}) /\ Len(account) <= MaxEvents
    /\ lines \in Seq(Seq(Pieces)) /\ tail \in Seq(Pieces) /\ commits \in Seq(Written)
    /\ status \in {"STOPPED", "SERVING", "REFUSED"} /\ incomplete \in BOOLEAN
    /\ parted \in BOOLEAN
    /\ wrote \in 0 .. MaxWrites /\ told \in 0 .. MaxWrites /\ cell \in 0 .. MaxWrites
    /\ temporary \in {"absent", "fragment", "whole"} /\ faults \in 0 .. MaxFaults

\* Whatever was spliced into it, a line ends in the record it was written for.
LinesEndInRecords == \A i \in 1 .. Len(lines) : Line(lines[i])

\* The ledger never holds less than nothing.
NothingOversold == \A n \in 0 .. Len(account) : PositionIn(account, n) >= 0

\* A process that may still write knows exactly what the file tells, unless one
\* has lived on after an append that landed and threw.
OnFile == ToldOf(lines) \o Read(tail)
KnowsTheFile == status = "SERVING" /\ ~ incomplete /\ ~ parted => commits = OnFile

\* What the file tells and what the process knows are the account's fills.
BothTruthful == ~ parted => Truthful(OnFile, account) /\ Truthful(commits, account)

\* The cell holds the last value its writer was told of.
CellIsTold == cell = told

FilesInv ==
    /\ FilesTyped /\ LinesEndInRecords /\ NothingOversold
    /\ KnowsTheFile /\ BothTruthful /\ CellIsTold

\* What the refinement shows of the file.
LEMMA MappedFile ==
    /\ Terminated = ToldOf(lines)
    /\ ReadTail = Read(tail)
BY DEF Terminated, ToldOf, ToldLines, ReadTail, Read

LEMMA OnFileType ==
    ASSUME FilesTyped, LinesEndInRecords
    PROVE  ToldOf(lines) \in Seq(Written) /\ Read(tail) \in Seq(Written) /\ OnFile \in Seq(Written)
<1>1. ToldOf(lines) \in Seq(Written)
  BY ToldType DEF FilesTyped, LinesEndInRecords
<1>2. Read(tail) \in Seq(Written)
  BY ReadType DEF FilesTyped
<1> QED
  BY <1>1, <1>2 DEF OnFile

LEMMA InitFilesInv == Init => FilesInv
<1> SUFFICES ASSUME Init PROVE FilesInv
  OBVIOUS
<1>1. ToldOf(<<>>) = <<>>
  <2>1. ToldLines(<<>>) = <<>>
    BY DEF ToldLines
  <2> QED
    BY <2>1 DEF ToldOf, FlattenSeq
<1>2. Read(<<>>) = <<>>
  BY DEF Read, WholeLine
<1>3. OnFile = <<>>
  BY <1>1, <1>2 DEF OnFile, Init
<1>4. FilesTyped
  <2>1. account \in Seq({"BUY", "SELL"}) /\ Len(account) = 0
    BY DEF Init
  <2>2. lines \in Seq(Seq(Pieces)) /\ tail \in Seq(Pieces) /\ commits \in Seq(Written)
    BY DEF Init
  <2>3. /\ wrote \in 0 .. MaxWrites /\ told \in 0 .. MaxWrites /\ cell \in 0 .. MaxWrites
        /\ faults \in 0 .. MaxFaults /\ 0 <= MaxEvents
    BY FilesAssumption DEF Init
  <2> QED
    BY <2>1, <2>2, <2>3 DEF Init, FilesTyped
<1>5. LinesEndInRecords /\ KnowsTheFile /\ CellIsTold
  BY <1>3 DEF Init, LinesEndInRecords, KnowsTheFile, CellIsTold
<1>6. NothingOversold
  BY NothingHeldAtFirst DEF Init, NothingOversold
<1>7. BothTruthful
  BY <1>3 DEF Init, BothTruthful, Truthful, Ordered, TellsPositions
<1> QED
  BY <1>4, <1>5, <1>6, <1>7 DEF FilesInv

\* Steps that leave the journal and the account alone.
LEMMA QuietKeepsJournal ==
    ASSUME FilesInv, UNCHANGED <<account, lines, tail, status, incomplete, commits, parted>>
    PROVE  /\ LinesEndInRecords' /\ NothingOversold' /\ KnowsTheFile' /\ BothTruthful'
           /\ OnFile' = OnFile
BY DEF FilesInv, LinesEndInRecords, NothingOversold, KnowsTheFile, BothTruthful, OnFile

LEMMA AccountEventKeeps ==
    ASSUME FilesInv, AccountEvent
    PROVE  FilesInv'
<1> USE DEF FilesInv
<1>1. PICK side \in {"BUY", "SELL"} :
         /\ side = "SELL" => LedgerPosition(Len(account)) > 0
         /\ account' = Append(account, side)
  BY DEF AccountEvent
<1>2. /\ account \in Seq({"BUY", "SELL"}) /\ Len(account) \in Nat
      /\ account' \in Seq({"BUY", "SELL"}) /\ Len(account') = Len(account) + 1
      /\ account'[Len(account) + 1] = side
  BY <1>1 DEF FilesTyped
<1>3. FilesTyped'
  <2>1. Len(account') <= MaxEvents
    BY <1>2, MaxEventsNat DEF AccountEvent
  <2>2. /\ UNCHANGED <<lines, tail, incomplete, commits, parted, status>>
        /\ UNCHANGED <<cell, temporary, wrote, told, faults>>
    BY DEF AccountEvent, journal, runtime
  <2> QED
    BY <1>2, <2>1, <2>2 DEF FilesTyped
<1>4. UNCHANGED <<lines, tail, commits, status, incomplete, parted>> /\ UNCHANGED <<cell, told>>
  BY DEF AccountEvent, journal, runtime
<1>5. OnFile' = OnFile
  BY <1>4 DEF OnFile
<1>6. LinesEndInRecords' /\ KnowsTheFile' /\ CellIsTold'
  BY <1>4, <1>5 DEF LinesEndInRecords, KnowsTheFile, CellIsTold
<1>7. BothTruthful'
  <2>1. OnFile \in Seq(Written) /\ commits \in Seq(Written)
    BY OnFileType DEF FilesTyped
  <2>2. Len(OnFile) \in Nat /\ Len(commits) \in Nat
    BY <2>1
  <2>3. ~ parted => Truthful(OnFile, account') /\ Truthful(commits, account')
    BY <1>1, <1>2, <2>2, TruthStands DEF BothTruthful
  <2> QED
    BY <1>4, <1>5, <2>3 DEF BothTruthful
<1>8. NothingOversold'
  <2> SUFFICES ASSUME NEW n \in 0 .. Len(account') PROVE PositionIn(account', n) >= 0
    BY DEF NothingOversold
  <2>1. CASE n \in 0 .. Len(account)
    BY <1>1, <1>2, <2>1, PositionsStand DEF NothingOversold
  <2>2. CASE n = Len(account) + 1
    <3> DEFINE m == Len(account)
    <3>1. PositionIn(account', m) = PositionIn(account, m) /\ PositionIn(account, m) >= 0
      BY <1>1, <1>2, PositionsStand DEF NothingOversold
    <3>2. side = "SELL" => PositionIn(account, m) > 0
      BY <1>1 DEF LedgerPosition, PositionIn, Sided
    <3>3. /\ PositionIn(account', m) \in Int
          /\ side = "BUY" => PositionIn(account', m + 1) = PositionIn(account', m) + 1
          /\ side = "SELL" => PositionIn(account', m + 1) = PositionIn(account', m) - 1
      BY <1>2, PositionSteps
    <3> HIDE DEF m
    <3>4. PositionIn(account', m + 1) >= 0
      BY <3>1, <3>2, <3>3
    <3> QED
      BY <2>2, <3>4 DEF m
  <2> QED
    BY <1>2, <2>1, <2>2
<1> QED
  BY <1>3, <1>6, <1>7, <1>8

\* Opening the log reads what is on file.
LEMMA OpenReadsTheFile ==
    ASSUME FilesInv, OpenStore
    PROVE  commits' = OnFile
<1>1. \A i \in 1 .. Len(lines) : WholeLine(lines[i])
  BY DEF OpenStore, Damaged
<1>2. FlattenSeq(lines) = ToldOf(lines)
  BY <1>1, UndamagedTells DEF FilesInv, FilesTyped, LinesEndInRecords
<1> QED
  BY <1>2, MappedFile DEF OpenStore, ReadAppendLog, OnFile

LEMMA OpenStoreKeeps ==
    ASSUME FilesInv, OpenStore
    PROVE  FilesInv'
<1>1. commits' = OnFile
  BY OpenReadsTheFile
<1>2. OnFile \in Seq(Written)
  BY OnFileType DEF FilesInv
<1>3. UNCHANGED <<account, lines, tail, parted, cell, temporary, wrote, told, faults>>
      /\ status' = "SERVING" /\ incomplete' = FALSE
  BY DEF OpenStore, runtime
<1>4. OnFile' = OnFile
  BY <1>3 DEF OnFile
<1>5. FilesTyped'
  BY <1>1, <1>2, <1>3 DEF FilesInv, FilesTyped
<1>6. LinesEndInRecords' /\ NothingOversold' /\ CellIsTold'
  BY <1>3 DEF FilesInv, LinesEndInRecords, NothingOversold, CellIsTold
<1>7. KnowsTheFile' /\ BothTruthful'
  BY <1>1, <1>3, <1>4 DEF FilesInv, KnowsTheFile, BothTruthful
<1> QED
  BY <1>5, <1>6, <1>7 DEF FilesInv

LEMMA RefuseStoreKeeps ==
    ASSUME FilesInv, RefuseStore
    PROVE  FilesInv'
<1>1. UNCHANGED <<account, lines, tail, incomplete, commits, parted>> /\ status' = "REFUSED"
      /\ UNCHANGED <<cell, temporary, wrote, told, faults>>
  BY DEF RefuseStore, journal, runtime
<1>2. OnFile' = OnFile
  BY <1>1 DEF OnFile
<1> QED
  BY <1>1, <1>2 DEF FilesInv, FilesTyped, LinesEndInRecords, NothingOversold, KnowsTheFile,
                    BothTruthful, CellIsTold

\* A record that goes on where what the process knows ends.
Continues(r) == r \in Written /\ (~ parted => Truthful(Append(commits, r), account))

\* A record that lands is behind everything on file.
LEMMA LandsOnFile ==
    ASSUME FilesInv, NEW r \in Written, Lands(r)
    PROVE  /\ lines' \in Seq(Seq(Pieces)) /\ LinesEndInRecords' /\ tail' \in Seq(Pieces)
           /\ ToldOf(lines)' = Append(OnFile, r) /\ Read(tail)' = <<>>
           /\ OnFile' = Append(OnFile, r)
<1>1. lines' = Append(lines, Append(tail, r)) /\ tail' = <<>>
  BY DEF Lands
<1>2. /\ lines' \in Seq(Seq(Pieces)) /\ \A i \in 1 .. Len(lines') : Line(lines'[i])
      /\ ToldOf(lines') = Append(OnFile, r)
  BY <1>1, ToldAppend DEF FilesInv, FilesTyped, LinesEndInRecords, OnFile
<1>3. Read(tail') = <<>> /\ tail' \in Seq(Pieces)
  BY <1>1 DEF Read, WholeLine
<1>4. OnFile' = Append(OnFile, r)
  <2>1. Append(OnFile, r) \in Seq(Written)
    BY OnFileType DEF FilesInv
  <2>2. OnFile' = ToldOf(lines') \o Read(tail')
    BY DEF OnFile
  <2> QED
    BY <1>2, <1>3, <2>1, <2>2, ConcatEmptySeq
<1> QED
  BY <1>2, <1>3, <1>4 DEF LinesEndInRecords

LEMMA AppendRecordKeeps ==
    ASSUME FilesInv, NEW r, Continues(r), AppendRecord(r)
    PROVE  FilesInv'
<1>1. r \in Written /\ (~ parted => commits = OnFile)
  BY DEF Continues, AppendRecord, FilesInv, KnowsTheFile
<1>2. /\ Lands(r) /\ commits' = Append(commits, r)
      /\ UNCHANGED <<account, status, incomplete, parted, cell, temporary, wrote, told, faults>>
  BY DEF AppendRecord, runtime
<1>3. /\ lines' \in Seq(Seq(Pieces)) /\ LinesEndInRecords' /\ tail' \in Seq(Pieces)
      /\ OnFile' = Append(OnFile, r)
  BY <1>1, <1>2, LandsOnFile
<1>4. commits' \in Seq(Written)
  BY <1>1, <1>2 DEF FilesInv, FilesTyped
<1>5. FilesTyped'
  BY <1>2, <1>3, <1>4 DEF FilesInv, FilesTyped
<1>6. NothingOversold' /\ KnowsTheFile' /\ CellIsTold'
  BY <1>1, <1>2, <1>3 DEF FilesInv, NothingOversold, KnowsTheFile, CellIsTold
<1>7. BothTruthful'
  BY <1>1, <1>2, <1>3 DEF BothTruthful, Continues
<1> QED
  BY <1>3, <1>5, <1>6, <1>7 DEF FilesInv

\* A write cut short leaves the entry in doubt as it was, loses it, or puts
\* the new record in its place.
LEMMA CutShortReads ==
    ASSUME FilesInv, NEW r \in Written, AppendCutShort(r)
    PROVE  /\ tail' \in Seq(Pieces)
           /\ \/ tail' = tail
              \/ Read(tail') = <<>>
              \/ Read(tail) = <<>> /\ Read(tail') = <<r>>
<1>1. tail \in Seq(Pieces) /\ Fragment \in Pieces /\ r \in Pieces
  BY DEF FilesInv, FilesTyped, Pieces
<1>2. CASE tail' = tail
  BY <1>1, <1>2
<1>3. CASE tail' = Append(tail, Fragment)
  <2>1. /\ tail' \in Seq(Pieces) /\ Len(tail') = Len(tail) + 1
        /\ tail'[Len(tail) + 1] = Fragment
    BY <1>1, <1>3, AppendProperties
  <2>2. ~ WholeLine(tail')
    BY <1>1, <2>1 DEF WholeLine, Fragment
  <2> QED
    BY <2>1, <2>2 DEF Read
<1>4. CASE tail' = Append(tail, r) /\ tail # <<>>
  <2>1. tail' \in Seq(Pieces) /\ Len(tail') = Len(tail) + 1 /\ Len(tail) # 0
    BY <1>1, <1>4, AppendProperties
  <2>2. ~ WholeLine(tail')
    BY <1>1, <2>1 DEF WholeLine
  <2> QED
    BY <2>1, <2>2 DEF Read
<1>5. CASE tail' = Append(tail, r) /\ tail = <<>>
  <2>1. tail' = <<r>> /\ Read(tail) = <<>>
    BY <1>5 DEF Read, WholeLine
  <2>2. WholeLine(<<r>>)
    BY WrittenRecord DEF WholeLine
  <2> QED
    BY <1>1, <2>1, <2>2 DEF Read
<1> QED
  BY <1>2, <1>3, <1>4, <1>5 DEF AppendCutShort

LEMMA FailsIsTyped ==
    ASSUME FilesInv, Fails
    PROVE  faults' \in 0 .. MaxFaults
<1>1. faults < MaxFaults /\ faults' = faults + 1 /\ faults \in 0 .. MaxFaults
  BY DEF Fails, FilesInv, FilesTyped
<1> QED
  BY <1>1, FilesAssumption

LEMMA AppendCutShortKeeps ==
    ASSUME FilesInv, NEW r, Continues(r), AppendCutShort(r)
    PROVE  FilesInv'
<1>1. r \in Written /\ (~ parted => commits = OnFile) /\ commits \in Seq(Written)
  BY DEF Continues, AppendCutShort, FilesInv, KnowsTheFile, FilesTyped
<1>2. /\ tail' \in Seq(Pieces)
      /\ \/ tail' = tail
         \/ Read(tail') = <<>>
         \/ Read(tail) = <<>> /\ Read(tail') = <<r>>
  BY <1>1, CutShortReads
<1>3. UNCHANGED <<account, lines, parted, cell, temporary, wrote, told>>
  BY DEF AppendCutShort, runtime, Dies
<1>4. \/ status' = status /\ incomplete' = (tail' # tail) /\ commits' = commits
      \/ status' = "STOPPED" /\ incomplete' = FALSE /\ commits' = <<>>
  BY DEF AppendCutShort, LivesOn, Dies
<1>5. faults' \in 0 .. MaxFaults
  BY FailsIsTyped DEF AppendCutShort
<1>6. FilesTyped'
  <2>1. status' \in {"STOPPED", "SERVING", "REFUSED"} /\ commits' \in Seq(Written)
    <3>1. status' \in {status, "STOPPED"} /\ commits' \in {commits, <<>>}
      BY <1>4, Zenon
    <3>2. <<>> \in Seq(Written)
      OBVIOUS
    <3> QED
      BY <1>1, <3>1, <3>2 DEF FilesInv, FilesTyped
  <2>2. incomplete' \in BOOLEAN
    BY <1>4, Zenon
  <2>3. temporary' \in {"absent", "fragment", "whole"}
    BY <1>3 DEF FilesInv, FilesTyped
  <2>4. parted' \in BOOLEAN
    BY <1>3, Zenon DEF FilesInv, FilesTyped
  <2> QED
    BY <1>2, <1>3, <1>5, <2>1, <2>2, <2>3, <2>4 DEF FilesInv, FilesTyped
<1>7. LinesEndInRecords' /\ NothingOversold' /\ CellIsTold'
  BY <1>3 DEF FilesInv, LinesEndInRecords, NothingOversold, CellIsTold
<1>8. tail' = tail => OnFile' = OnFile
  BY <1>3 DEF OnFile
<1>9. KnowsTheFile'
  BY <1>1, <1>3, <1>4, <1>8 DEF FilesInv, KnowsTheFile
<1>10. ASSUME ~ parted PROVE Truthful(OnFile', account)
  <2>1. /\ ToldOf(lines) \in Seq(Written) /\ Read(tail) \in Seq(Written)
        /\ Truthful(OnFile, account)
    BY <1>10, OnFileType DEF FilesInv, BothTruthful
  <2>2. OnFile' = ToldOf(lines) \o Read(tail')
    BY <1>3 DEF OnFile
  <2>3. CASE tail' = tail
    BY <1>8, <2>1, <2>3
  <2>4. CASE Read(tail') = <<>>
    <3>1. OnFile' = ToldOf(lines)
      BY <2>1, <2>2, <2>4, ConcatEmptySeq
    <3>2. Truthful(ToldOf(lines), account)
      BY <2>1, TruthfulPrefix DEF OnFile
    <3> QED
      BY <3>1, <3>2
  <2>5. CASE Read(tail) = <<>> /\ Read(tail') = <<r>>
    <3>1. commits = ToldOf(lines)
      BY <1>1, <1>10, <2>1, <2>5, ConcatEmptySeq DEF OnFile
    <3>2. OnFile' = Append(commits, r)
      BY <1>1, <2>2, <2>5, <3>1, AppendIsConcat
    <3> QED
      BY <1>10, <3>2 DEF Continues
  <2> QED
    BY <1>2, <2>3, <2>4, <2>5
<1>11. ASSUME ~ parted PROVE Truthful(commits', account)
  BY <1>4, <1>11 DEF FilesInv, BothTruthful, Truthful, Ordered, TellsPositions
<1>12. BothTruthful'
  BY <1>3, <1>10, <1>11 DEF BothTruthful
<1> QED
  BY <1>6, <1>7, <1>9, <1>12 DEF FilesInv

LEMMA AppendUnsyncedKeeps ==
    ASSUME FilesInv, NEW r, Continues(r), AppendUnsynced(r)
    PROVE  FilesInv'
<1>1. r \in Written /\ (~ parted => commits = OnFile) /\ commits \in Seq(Written)
  BY DEF Continues, AppendUnsynced, FilesInv, KnowsTheFile, FilesTyped
<1>2. Lands(r) /\ UNCHANGED <<account, cell, temporary, wrote, told>>
  BY DEF AppendUnsynced, runtime
<1>3. \/ status' = status /\ incomplete' = incomplete /\ commits' = commits /\ parted' = TRUE
      \/ status' = "STOPPED" /\ incomplete' = FALSE /\ commits' = <<>> /\ parted' = parted
  BY DEF AppendUnsynced, LivesOn, Dies
<1>4. /\ lines' \in Seq(Seq(Pieces)) /\ LinesEndInRecords' /\ tail' \in Seq(Pieces)
      /\ OnFile' = Append(OnFile, r)
  BY <1>1, <1>2, LandsOnFile
<1>5. faults' \in 0 .. MaxFaults
  BY FailsIsTyped DEF AppendUnsynced
<1>6. FilesTyped'
  <2>1. status' \in {"STOPPED", "SERVING", "REFUSED"} /\ commits' \in Seq(Written)
    <3>1. status' \in {status, "STOPPED"} /\ commits' \in {commits, <<>>}
      BY <1>3, Zenon
    <3>2. <<>> \in Seq(Written)
      OBVIOUS
    <3> QED
      BY <1>1, <3>1, <3>2 DEF FilesInv, FilesTyped
  <2>2. incomplete' \in BOOLEAN /\ parted' \in BOOLEAN
    BY <1>3, Zenon DEF FilesInv, FilesTyped
  <2>3. temporary' \in {"absent", "fragment", "whole"}
    BY <1>2 DEF FilesInv, FilesTyped
  <2> QED
    BY <1>2, <1>4, <1>5, <2>1, <2>2, <2>3 DEF FilesInv, FilesTyped
<1>7. NothingOversold' /\ CellIsTold'
  BY <1>2 DEF FilesInv, NothingOversold, CellIsTold
<1>8. KnowsTheFile'
  BY <1>3 DEF KnowsTheFile
<1>9. BothTruthful'
  <2>1. ASSUME ~ parted' PROVE Truthful(OnFile', account) /\ Truthful(commits', account)
    <3>1. ~ parted /\ commits' = <<>>
      BY <1>3, <2>1
    <3>2. Truthful(OnFile', account)
      BY <1>1, <1>4, <3>1 DEF Continues
    <3>3. Truthful(commits', account)
      BY <3>1 DEF Truthful, Ordered, TellsPositions
    <3> QED
      BY <3>2, <3>3
  <2> QED
    BY <1>2, <2>1 DEF BothTruthful
<1> QED
  BY <1>4, <1>6, <1>7, <1>8, <1>9 DEF FilesInv

\* A set of naturals within a bound has a greatest one.
LEMMA GreatestOf ==
    ASSUME NEW n \in Nat, NEW T \in SUBSET (0 .. n), T # {}
    PROVE  Max(T) \in T /\ \A y \in T : y <= Max(T)
<1> DEFINE D == {n - x : x \in T}
<1>1. D \in SUBSET Nat /\ D # {}
  <2>1. \A x \in T : x \in 0 .. n /\ n - x \in Nat
    OBVIOUS
  <2> QED
    BY <2>1
<1>2. PICK d \in D : \A y \in D : d <= y
  BY <1>1, LeastNatural, Zenon
<1>3. PICK x \in T : d = n - x
  OBVIOUS
<1>4. \A y \in T : x >= y
  <2> SUFFICES ASSUME NEW y \in T PROVE x >= y
    OBVIOUS
  <2>1. d <= n - y
    BY <1>2
  <2> HIDE DEF D
  <2> QED
    BY <1>3, <2>1
<1>5. \E z \in T : \A y \in T : z >= y
  BY <1>4
<1>6. Max(T) \in T /\ \A y \in T : Max(T) >= y
  BY <1>5, Zenon DEF Max
<1> QED
  BY <1>6

\* The cursor is past every record, and the position what some record named.
LEMMA CursorIs ==
    ASSUME NEW log \in Seq(Written)
    PROVE  /\ Cursor(log) \in 0 .. MaxEvents
           /\ Cursor(log) = 0 \/ \E i \in 1 .. Len(log) : Cursor(log) = log[i].seq
           /\ \A i \in 1 .. Len(log) : log[i].seq <= Cursor(log)
<1> DEFINE S == {0} \cup {log[i].seq : i \in 1 .. Len(log)}
<1>1. \A i \in 1 .. Len(log) : log[i].seq \in 0 .. MaxEvents
  <2> SUFFICES ASSUME NEW i \in 1 .. Len(log) PROVE log[i].seq \in 0 .. MaxEvents
    OBVIOUS
  <2>1. log[i] \in Written
    BY ElementOfSeq
  <2>2. log[i].seq \in 1 .. MaxEvents
    BY <2>1, WrittenRecord
  <2> QED
    BY <2>2, MaxEventsNat
<1>2. S \in SUBSET (0 .. MaxEvents) /\ S # {}
  BY <1>1, MaxEventsNat
<1>3. Max(S) \in S /\ \A y \in S : y <= Max(S)
  <2> HIDE DEF S
  <2> QED
    BY <1>2, MaxEventsNat, GreatestOf
<1>4. Cursor(log) = Max(S)
  BY DEF Cursor
<1> HIDE DEF S
<1>5. Cursor(log) \in S /\ Cursor(log) \in 0 .. MaxEvents /\ \A y \in S : y <= Cursor(log)
  BY <1>2, <1>3, <1>4
<1> QED
  BY <1>5 DEF S

LEMMA PositionIs ==
    ASSUME NEW log \in Seq(Written)
    PROVE  /\ Position(log) \in Nat /\ Position(log) <= MaxEvents + Cursor(log)
           /\ Unbroken(log) => Position(log) = IF log = <<>> THEN 0 ELSE log[Len(log)].position
<1>1. Len(log) \in Nat /\ FillsIn(log) \in SUBSET (0 .. Len(log))
  BY DEF FillsIn
<1>2. Cursor(log) \in 0 .. MaxEvents /\ \A i \in 1 .. Len(log) : log[i].seq <= Cursor(log)
  BY CursorIs
<1>3. CASE FillsIn(log) = {}
  <2>1. Position(log) = 0
    BY <1>3 DEF Position
  <2>2. Unbroken(log) => log = <<>>
    <3> SUFFICES ASSUME Unbroken(log), log # <<>> PROVE FALSE
      OBVIOUS
    <3>1. 1 \in 1 .. Len(log)
      BY <1>1
    <3>2. 1 \in FillsIn(log)
      BY <3>1 DEF Unbroken, FillsIn
    <3> QED
      BY <1>3, <3>2
  <2> QED
    BY <1>2, <2>1, <2>2, MaxEventsNat
<1>4. CASE FillsIn(log) # {}
  <2> DEFINE m == Max(FillsIn(log))
  <2>1. m \in FillsIn(log) /\ \A y \in FillsIn(log) : y <= m
    BY <1>1, <1>4, GreatestOf
  <2>2. m \in 1 .. Len(log) /\ Position(log) = log[m].position
    BY <1>4, <2>1 DEF Position, FillsIn
  <2>3. log[m] \in Written
    BY <2>2, ElementOfSeq
  <2>4. /\ log[m].position \in Nat /\ log[m].seq \in 1 .. MaxEvents
        /\ log[m].position <= MaxEvents + log[m].seq /\ log[m].seq <= Cursor(log)
    BY <1>2, <2>2, <2>3, WrittenRecord
  <2>5. log[m].position <= MaxEvents + Cursor(log)
    BY <1>2, <2>4, MaxEventsNat
  <2>6. Unbroken(log) => Position(log) = IF log = <<>> THEN 0 ELSE log[Len(log)].position
    <3> SUFFICES ASSUME Unbroken(log) PROVE log # <<>> /\ m = Len(log)
      BY <2>2
    <3>1. Len(log) \in 1 .. Len(log) /\ log # <<>>
      BY <1>1, <2>2
    <3>2. Len(log) \in FillsIn(log)
      BY <3>1 DEF Unbroken, FillsIn
    <3>3. Len(log) <= m
      BY <2>1, <3>2
    <3> HIDE DEF m
    <3> QED
      BY <1>1, <2>2, <3>1, <3>3
  <2> HIDE DEF m
  <2> QED
    BY <2>2, <2>4, <2>5, <2>6
<1> QED
  BY <1>3, <1>4

\* As long as it has left none out, the cursor is the number of records and the
\* position the ledger's.
LEMMA CursorTells ==
    ASSUME NEW log \in Seq(Written), NEW acc, Len(acc) \in Nat, Truthful(log, acc), Unbroken(log)
    PROVE  /\ Cursor(log) = Len(log) /\ Len(log) <= Len(acc)
           /\ Position(log) = PositionIn(acc, Len(log))
<1> DEFINE n == Len(log)
<1>1. n \in Nat /\ Cursor(log) \in 0 .. MaxEvents
      /\ (Cursor(log) = 0 \/ \E i \in 1 .. n : Cursor(log) = log[i].seq)
      /\ \A i \in 1 .. n : log[i].seq <= Cursor(log)
  BY CursorIs
<1>2. CASE log = <<>>
  <2>1. n = 0 /\ Cursor(log) = 0
    BY <1>1, <1>2
  <2>2. Position(log) = 0
    BY <1>2, PositionIs
  <2> QED
    BY <2>1, <2>2, NothingHeldAtFirst
<1>3. CASE log # <<>>
  <2>1. n \in 1 .. n
    BY <1>1, <1>3
  <2>2. \A i \in 1 .. n : log[i].seq = i
    BY DEF Unbroken
  <2>3. Cursor(log) = n
    <3> HIDE DEF n
    <3> QED
      BY <1>1, <2>1, <2>2
  <2>4. NoneLeftOut(log, n)
    BY DEF Unbroken, NoneLeftOut
  <2>5. n <= Len(acc) /\ log[n].position = PositionIn(acc, n)
    BY <2>1, <2>4 DEF Truthful, TellsPositions
  <2>6. Position(log) = log[n].position
    BY <1>3, PositionIs
  <2> QED
    BY <2>3, <2>5, <2>6
<1> QED
  BY <1>2, <1>3

\* A record past the cursor goes on from the log it follows, if its position is
\* the ledger's wherever it leaves none out.
LEMMA TruthGoesOn ==
    ASSUME NEW log \in Seq(Written), NEW r \in Written, NEW acc, Truthful(log, acc),
           Cursor(log) < r.seq,
           r.kind = "FILL" /\ Unbroken(log) /\ r.seq = Len(log) + 1 =>
               Len(log) + 1 <= Len(acc) /\ r.position = PositionIn(acc, Len(log) + 1)
    PROVE  Truthful(Append(log, r), acc)
<1> DEFINE new == Append(log, r)
           n == Len(log)
<1>1. /\ n \in Nat /\ Len(new) = n + 1 /\ new[n + 1] = r
      /\ \A i \in 1 .. n : new[i] = log[i]
  BY AppendProperties
<1> HIDE DEF new
<1>2. ASSUME NEW i \in 1 .. (n + 1), NoneLeftOut(new, i)
      PROVE  i <= Len(acc) /\ new[i].position = PositionIn(acc, i)
  <2>1. CASE i \in 1 .. n
    <3>1. NoneLeftOut(log, i)
      BY <1>1, <1>2, <2>1 DEF NoneLeftOut
    <3>2. i <= Len(acc) /\ log[i].position = PositionIn(acc, i)
      BY <2>1, <3>1 DEF Truthful, TellsPositions
    <3> QED
      BY <1>1, <2>1, <3>2
  <2>2. CASE i = n + 1
    <3>1. Unbroken(log)
      BY <1>1, <1>2, <2>2 DEF NoneLeftOut, Unbroken
    <3>2. r.kind = "FILL" /\ r.seq = n + 1
      BY <1>1, <1>2, <2>2 DEF NoneLeftOut
    <3> QED
      BY <1>1, <2>2, <3>1, <3>2
  <2> QED
    BY <2>1, <2>2
<1>3. Ordered(new)
  <2> SUFFICES ASSUME NEW i \in 1 .. (n + 1), NEW j \in 1 .. (n + 1), i < j
               PROVE  new[i].seq < new[j].seq
    BY <1>1 DEF Ordered
  <2>1. i \in 1 .. n
    BY <1>1
  <2>2. CASE j \in 1 .. n
    BY <1>1, <2>1, <2>2 DEF Truthful, Ordered
  <2>3. CASE j = n + 1
    <3>1. log[i].seq <= Cursor(log) /\ Cursor(log) \in 0 .. MaxEvents
      BY <2>1, CursorIs
    <3>2. log[i] \in Written
      BY <2>1, ElementOfSeq
    <3>3. log[i].seq \in 1 .. MaxEvents /\ r.seq \in 1 .. MaxEvents
      BY <3>2, WrittenRecord
    <3>4. new[i].seq = log[i].seq /\ new[j].seq = r.seq
      BY <1>1, <2>1, <2>3
    <3> QED
      BY <3>1, <3>3, <3>4, MaxEventsNat
  <2> QED
    BY <1>1, <2>2, <2>3
<1> QED
  BY <1>1, <1>2, <1>3 DEF Truthful, TellsPositions, new

LEMMA LedgerPositionIs ==
    ASSUME NEW n
    PROVE  LedgerPosition(n) = PositionIn(account, n)
BY DEF LedgerPosition, PositionIn, Sided

LEMMA FillContinues ==
    ASSUME FilesInv, NEW e \in 1 .. Len(account), Unseen(e)
    PROVE  Continues(FillRecord(e))
<1> DEFINE p == Position(commits)
           side == account[e]
           q == Applied(p, side)
           r == FillRecord(e)
<1>1. /\ account \in Seq({"BUY", "SELL"}) /\ Len(account) \in Nat /\ Len(account) <= MaxEvents
      /\ commits \in Seq(Written) /\ (~ parted => Truthful(commits, account))
  BY DEF FilesInv, FilesTyped, BothTruthful
<1>2. e \in 1 .. MaxEvents /\ side \in {"BUY", "SELL"}
  BY <1>1, MaxEventsNat
<1>3. /\ Cursor(commits) \in 0 .. MaxEvents /\ e > Cursor(commits)
      /\ p \in Nat /\ p <= MaxEvents + Cursor(commits)
  BY <1>1, CursorIs, PositionIs DEF Unseen
<1>4. LedgerPosition(Len(account)) \in Nat /\ LedgerPosition(Len(account)) <= MaxEvents
  <2>1. /\ PositionIn(account, Len(account)) \in Int
        /\ PositionIn(account, Len(account)) <= Len(account)
    BY <1>1, PositionSteps
  <2>2. PositionIn(account, Len(account)) >= 0
    BY <1>1 DEF FilesInv, NothingOversold
  <2> QED
    BY <1>1, <2>1, <2>2, LedgerPositionIs, MaxEventsNat
<1>5. /\ side = "BUY" => q = p + 1
      /\ side = "SELL" /\ p > 0 => q = p - 1
      /\ side = "SELL" /\ p = 0 => q = LedgerPosition(Len(account))
  BY <1>2 DEF Applied
<1>6. q \in Nat /\ q <= MaxEvents + e
  <2> HIDE DEF p, q, side
  <2> QED
    BY <1>2, <1>3, <1>4, <1>5, MaxEventsNat
<1>7. r \in Written
  <2>1. r = [seq |-> e, kind |-> "FILL", position |-> q]
    BY DEF FillRecord
  <2>2. q \in 0 .. (2 * MaxEvents)
    <3> HIDE DEF q
    <3> QED
      BY <1>2, <1>6, MaxEventsNat
  <2> HIDE DEF q, r
  <2> QED
    BY <1>2, <1>6, <2>1, <2>2 DEF Written, Records
<1>8. ASSUME ~ parted, Unbroken(commits), e = Len(commits) + 1
      PROVE  Len(commits) + 1 <= Len(account) /\ q = PositionIn(account, Len(commits) + 1)
  <2> DEFINE n == Len(commits)
  <2>1. n \in Nat /\ p = PositionIn(account, n)
    BY <1>1, <1>8, CursorTells
  <2>2. n + 1 <= Len(account) /\ account[n + 1] = side
    BY <1>1, <1>8
  <2>3. /\ PositionIn(account, n) \in Int
        /\ side = "BUY" => PositionIn(account, n + 1) = PositionIn(account, n) + 1
        /\ side = "SELL" => PositionIn(account, n + 1) = PositionIn(account, n) - 1
    <3> HIDE DEF n, side
    <3> QED
      BY <2>1, <2>2, PositionSteps
  <2>4. PositionIn(account, n + 1) >= 0
    BY <1>1, <2>1, <2>2 DEF FilesInv, NothingOversold
  <2>5. q = PositionIn(account, n + 1)
    <3> HIDE DEF n, side, p, q
    <3> QED
      BY <1>2, <1>3, <1>5, <2>1, <2>3, <2>4
  <2> QED
    BY <2>2, <2>5
<1>9. r.seq = e /\ r.position = q /\ r.kind = "FILL"
  BY DEF FillRecord
<1>10. ~ parted => Truthful(Append(commits, r), account)
  <2>1. Cursor(commits) < r.seq
    BY <1>3, <1>9
  <2> HIDE DEF r, q
  <2> QED
    BY <1>1, <1>7, <1>8, <1>9, <2>1, TruthGoesOn
<1> QED
  BY <1>7, <1>10 DEF Continues

LEMMA ResyncContinues ==
    ASSUME FilesInv, NEW n \in 1 .. Len(account), Unseen(n)
    PROVE  Continues(ResyncRecord(n))
<1>1. /\ Len(account) \in Nat /\ Len(account) <= MaxEvents
      /\ commits \in Seq(Written) /\ (~ parted => Truthful(commits, account))
  BY DEF FilesInv, FilesTyped, BothTruthful
<1>2. n \in 1 .. MaxEvents /\ Cursor(commits) \in 0 .. MaxEvents /\ Cursor(commits) < n
  BY <1>1, CursorIs, MaxEventsNat DEF Unseen
<1>3. ResyncRecord(n) \in Written
  BY <1>2, MaxEventsNat DEF ResyncRecord, Written, Records
<1>4. ResyncRecord(n).kind = "RESYNC" /\ ResyncRecord(n).seq = n
  BY DEF ResyncRecord
<1>5. ~ parted => Truthful(Append(commits, ResyncRecord(n)), account)
  BY <1>1, <1>2, <1>3, <1>4, TruthGoesOn
<1> QED
  BY <1>3, <1>5 DEF Continues

\* The steps of the cell, and of a runner that dies between two writes.
LEMMA CellStepsKeep ==
    ASSUME FilesInv, WriteTemporary \/ RemoveTemporary \/ Rename
    PROVE  FilesInv' /\ UNCHANGED <<lines, tail, commits, incomplete, status>>
<1>1. UNCHANGED <<account, lines, tail, status, incomplete, commits, parted>>
  BY DEF WriteTemporary, RemoveTemporary, Rename, journal
<1>2. /\ wrote \in 0 .. MaxWrites /\ told \in 0 .. MaxWrites /\ cell \in 0 .. MaxWrites
      /\ faults \in 0 .. MaxFaults /\ cell = told
  BY DEF FilesInv, FilesTyped, CellIsTold
<1>3. ASSUME Fails PROVE faults' \in 0 .. MaxFaults
  BY <1>2, <1>3, FilesAssumption DEF Fails
<1>4. wrote' \in 0 .. MaxWrites /\ told' \in 0 .. MaxWrites /\ cell' \in 0 .. MaxWrites
  BY <1>2, FilesAssumption DEF WriteTemporary, RemoveTemporary, Rename
<1>5. temporary' \in {"absent", "fragment", "whole"}
  BY DEF WriteTemporary, RemoveTemporary, Rename
<1>6. faults' \in 0 .. MaxFaults
  BY <1>2, <1>3 DEF WriteTemporary, RemoveTemporary, Rename
<1>7. CellIsTold'
  <2>1. CASE WriteTemporary \/ RemoveTemporary
    BY <1>2, <2>1 DEF CellIsTold, WriteTemporary, RemoveTemporary
  <2>2. CASE Rename
    BY <1>2, <2>2 DEF CellIsTold, Rename
  <2> QED
    BY <2>1, <2>2
<1>8. FilesTyped'
  BY <1>1, <1>4, <1>5, <1>6 DEF FilesInv, FilesTyped
<1> QED
  BY <1>1, <1>7, <1>8, QuietKeepsJournal DEF FilesInv

LEMMA CrashKeeps ==
    ASSUME FilesInv, Crash
    PROVE  FilesInv'
<1>1. /\ UNCHANGED <<account, lines, tail, cell, parted>>
      /\ status' = "STOPPED" /\ commits' = <<>> /\ incomplete' = FALSE
      /\ temporary' = "absent" /\ wrote' = cell /\ told' = cell
  BY DEF Crash, Dies
<1>2. faults' \in 0 .. MaxFaults
  BY FailsIsTyped DEF Crash
<1>3. commits' \in Seq(Written)
  BY <1>1
<1>4. FilesTyped'
  BY <1>1, <1>2, <1>3 DEF FilesInv, FilesTyped
<1>5. OnFile' = OnFile
  BY <1>1 DEF OnFile
<1>6. LinesEndInRecords' /\ NothingOversold' /\ KnowsTheFile' /\ CellIsTold'
  BY <1>1, <1>5 DEF FilesInv, LinesEndInRecords, NothingOversold, KnowsTheFile, CellIsTold
<1>7. BothTruthful'
  BY <1>1, <1>5 DEF FilesInv, BothTruthful, Truthful, Ordered, TellsPositions
<1> QED
  BY <1>4, <1>6, <1>7 DEF FilesInv

\* A step of the journal's writer writes a record that continues it.
LEMMA WriterContinues ==
    ASSUME FilesInv, ProcessEvent \/ Resync
    PROVE  \E r : Continues(r) /\ (AppendRecord(r) \/ AppendCutShort(r) \/ AppendUnsynced(r))
<1>1. CASE ProcessEvent
  BY <1>1, FillContinues DEF ProcessEvent, Write
<1>2. CASE Resync
  BY <1>2, ResyncContinues DEF Resync, Write
<1> QED
  BY <1>1, <1>2

LEMMA StepKeepsFilesInv ==
    ASSUME FilesInv, [Next]_vars
    PROVE  FilesInv'
<1>1. CASE AccountEvent
  BY <1>1, AccountEventKeeps
<1>2. CASE OpenStore
  BY <1>2, OpenStoreKeeps
<1>3. CASE RefuseStore
  BY <1>3, RefuseStoreKeeps
<1>4. CASE ProcessEvent \/ Resync
  BY <1>4, WriterContinues, AppendRecordKeeps, AppendCutShortKeeps, AppendUnsyncedKeeps
<1>5. CASE WriteTemporary \/ RemoveTemporary \/ Rename
  BY <1>5, CellStepsKeep
<1>6. CASE Crash
  BY <1>6, CrashKeeps
<1>7. CASE UNCHANGED vars
  <2>1. UNCHANGED <<account, lines, tail, status, incomplete, commits, parted>>
        /\ UNCHANGED <<cell, temporary, wrote, told, faults>>
    BY <1>7 DEF vars
  <2> QED
    BY <2>1, QuietKeepsJournal DEF FilesInv, FilesTyped, CellIsTold
<1> QED
  BY <1>1, <1>2, <1>3, <1>4, <1>5, <1>6, <1>7 DEF Next

\* The invariant holds in every state the runner's files reach.
THEOREM FilesInvariant == Spec => []FilesInv
<1>1. Init => FilesInv
  BY InitFilesInv
<1>2. FilesInv /\ [Next]_vars => FilesInv'
  BY StepKeepsFilesInv
<1> QED
  BY <1>1, <1>2, PTL DEF Spec

-----------------------------------------------------------------------------
(* The theorems.                                                           *)

\* Every record in the files is one the journal can hold, and every number in
\* its range.
THEOREM FilesAreTyped == Spec => []TypeOK
<1>1. FilesInv => TypeOK
  <2> SUFFICES ASSUME FilesInv PROVE TypeOK
    OBVIOUS
  <2>1. Written \subseteq Records /\ Pieces \subseteq Records \cup {Fragment}
    BY DEF Written, Pieces
  <2>2. Seq(Written) \subseteq Seq(Records) /\ Seq(Pieces) \subseteq Seq(Records \cup {Fragment})
    BY <2>1
  <2>3. \A i \in 1 .. Len(lines) : lines[i] \in Seq(Records \cup {Fragment})
    BY <2>2 DEF FilesInv, FilesTyped
  <2>4. cell \in 0 .. Torn
    BY FilesAssumption DEF FilesInv, FilesTyped, Torn
  <2> QED
    BY <2>2, <2>3, <2>4 DEF FilesInv, FilesTyped, TypeOK
<1> QED
  BY <1>1, FilesInvariant, PTL

\* The journal of a runner that is up repeats no event and, where it has left none
\* out, tells the ledger's position, through torn tails, splices, failed events and
\* restarts, until a process lives on after an append that landed and threw; the
\* cell holds the last value told or the one being written.
THEOREM FilesAlwaysTellTheTruth == Spec => []FilesTellTheTruth
<1>1. FilesInv => FilesTellTheTruth
  <2> SUFFICES ASSUME FilesInv PROVE FilesTellTheTruth
    OBVIOUS
  <2>1. cell \in {told, wrote}
    BY DEF FilesInv, CellIsTold
  <2>2. commits \in Seq(Written) /\ Len(account) \in Nat /\ (~ parted => Truthful(commits, account))
    BY DEF FilesInv, FilesTyped, BothTruthful
  <2>3. ~ parted => \A i, j \in 1 .. Len(commits) : i < j => commits[i].seq < commits[j].seq
    BY <2>2 DEF Truthful, Ordered
  <2>4. ASSUME ~ parted, Unbroken(commits)
        PROVE  Position(commits) = LedgerPosition(Cursor(commits))
    BY <2>2, <2>4, CursorTells, LedgerPositionIs
  <2> QED
    BY <2>1, <2>3, <2>4 DEF FilesTellTheTruth
<1> QED
  BY <1>1, FilesInvariant, PTL

-----------------------------------------------------------------------------
(* The append log implements the durable journal.                          *)

TornLog == Damaged \/ tail # <<>>

LEMMA InitImplements == Init => Journal!Init
<1> SUFFICES ASSUME Init PROVE Journal!Init
  OBVIOUS
<1>1. ToldLines(<<>>) = <<>>
  BY DEF ToldLines
<1>2. Terminated = <<>>
  BY <1>1, MappedFile DEF ToldOf, FlattenSeq, Init
<1>3. ReadTail = <<>>
  BY MappedFile DEF Read, WholeLine, Init
<1>4. (Damaged \/ tail # <<>>) = FALSE
  BY DEF Damaged, Init
<1> QED
  BY <1>2, <1>3, <1>4 DEF Journal!Init, Init

\* A step that leaves the log alone leaves alone what it is mapped to.
LEMMA LogStays ==
    ASSUME UNCHANGED <<lines, tail>>
    PROVE  Terminated' = Terminated /\ ReadTail' = ReadTail /\ TornLog' = TornLog
<1>1. Terminated' = Terminated
  BY DEF Terminated
<1>2. ReadTail' = ReadTail
  BY DEF ReadTail
<1>3. TornLog' = TornLog
  BY DEF TornLog, Damaged
<1> QED
  BY <1>1, <1>2, <1>3

LEMMA QuietStutters ==
    ASSUME UNCHANGED <<lines, tail, commits, incomplete, status>>
    PROVE  UNCHANGED Journal!vars
BY LogStays DEF TornLog, Journal!vars

\* A record and its newline behind a tail damage the line, and only that does.
LEMMA LandsWhole ==
    ASSUME FilesInv, NEW r \in Written, Lands(r)
    PROVE  Journal!Whole(r)
<1>1. /\ ToldOf(lines)' = Append(OnFile, r) /\ Read(tail)' = <<>>
      /\ Terminated = ToldOf(lines) /\ ReadTail = Read(tail)
      /\ Terminated' = ToldOf(lines)' /\ ReadTail' = Read(tail)'
  BY LandsOnFile DEF Terminated, ToldOf, ToldLines, ReadTail, Read
<1>2. Terminated' = Terminated \o ReadTail \o <<r>> /\ ReadTail' = <<>>
  <2>1. OnFile \in Seq(Written)
    BY OnFileType DEF FilesInv
  <2>2. OnFile = Terminated \o ReadTail
    BY <1>1 DEF OnFile
  <2>3. Append(OnFile, r) = OnFile \o <<r>>
    BY <2>1, AppendIsConcat
  <2> QED
    BY <1>1, <2>2, <2>3
<1>3. TornLog' = TornLog
  <2> DEFINE l == Append(tail, r)
  <2>1. /\ lines \in Seq(Seq(Pieces)) /\ tail \in Seq(Pieces) /\ r \in Pieces
        /\ lines' = Append(lines, l) /\ tail' = <<>>
    BY DEF FilesInv, FilesTyped, Lands, Pieces
  <2>2. /\ l \in Seq(Pieces) /\ Len(l) = Len(tail) + 1 /\ l[Len(tail) + 1] = r
        /\ Len(tail) \in Nat
    BY <2>1, AppendProperties
  <2>3. WholeLine(l) <=> tail = <<>>
    <3>1. r.kind # "fragment"
      BY WrittenRecord
    <3> HIDE DEF l
    <3> QED
      BY <2>1, <2>2, <3>1 DEF WholeLine
  <2> HIDE DEF l
  <2>4. /\ Len(lines') = Len(lines) + 1 /\ lines'[Len(lines) + 1] = l
        /\ Len(lines) \in Nat /\ \A i \in 1 .. Len(lines) : lines'[i] = lines[i]
    BY <2>1, <2>2, AppendProperties
  <2>5. Damaged' <=> Damaged \/ ~ WholeLine(l)
    <3>1. Damaged' <=> \E i \in 1 .. Len(lines') : ~ WholeLine(lines'[i])
      BY DEF Damaged
    <3>2. 1 .. Len(lines') = (1 .. Len(lines)) \cup {Len(lines) + 1}
      BY <2>4
    <3> QED
      BY <2>4, <3>1, <3>2 DEF Damaged
  <2> QED
    BY <2>1, <2>3, <2>5 DEF TornLog
<1> QED
  BY <1>2, <1>3 DEF Journal!Whole, TornLog

\* A record and its newline, of which the writer is told, commit an entry.
LEMMA AppendRecordImplements ==
    ASSUME FilesInv, NEW r \in Written, AppendRecord(r)
    PROVE  Journal!Commit(r)
<1>1. status = "SERVING" /\ ~ incomplete /\ Lands(r)
  BY DEF AppendRecord
<1>2. commits' = Append(commits, r) /\ UNCHANGED <<incomplete, status>>
  BY DEF AppendRecord
<1>3. Journal!Whole(r)
  BY <1>1, LandsWhole
<1> QED
  BY <1>1, <1>2, <1>3 DEF Journal!Commit, Journal!Writable

LEMMA AppendUnsyncedImplements ==
    ASSUME FilesInv, NEW r \in Written, AppendUnsynced(r)
    PROVE  Journal!Lapse(r)
<1>1. status = "SERVING" /\ ~ incomplete /\ Lands(r)
  BY DEF AppendUnsynced
<1>2. \/ status' = "SERVING" /\ UNCHANGED <<commits, incomplete>>
      \/ status' = "STOPPED" /\ commits' = <<>> /\ incomplete' = FALSE
  BY <1>1 DEF AppendUnsynced, LivesOn, Dies
<1>3. Journal!Whole(r)
  BY <1>1, LandsWhole
<1> QED
  BY <1>1, <1>2, <1>3 DEF Journal!Lapse, Journal!Writable, Journal!Survive, Journal!Die

\* A write cut short leaves nothing, or some entry in doubt, or none.
LEMMA AppendCutShortImplements ==
    ASSUME FilesInv, NEW r \in Written, AppendCutShort(r)
    PROVE  Journal!Lapse(r)
<1>1. status = "SERVING" /\ ~ incomplete /\ lines' = lines
  BY DEF AppendCutShort
<1>2. \/ status' = "SERVING" /\ commits' = commits /\ incomplete' = (tail' # tail)
      \/ status' = "STOPPED" /\ commits' = <<>> /\ incomplete' = FALSE
  BY <1>1 DEF AppendCutShort, LivesOn, Dies
<1>3. CASE tail' = tail
  <2>1. Journal!Nothing
    BY <1>1, <1>3, LogStays DEF TornLog, Journal!Nothing
  <2>2. UNCHANGED incomplete \/ (status' = "STOPPED" /\ incomplete' = FALSE)
    BY <1>1, <1>2, <1>3 DEF FilesInv, FilesTyped
  <2> QED
    BY <1>1, <1>2, <1>3, <2>1, <2>2
    DEF Journal!Lapse, Journal!Writable, Journal!Survive, Journal!Die
<1>4. CASE tail' # tail
  <2>1. Read(tail') \in {<<>>, <<r>>}
    BY <1>4, CutShortReads
  <2>2. ReadTail' = Read(tail') /\ Terminated' = Terminated
    BY <1>1 DEF ReadTail, Read, Terminated
  <2>3. tail' # <<>>
    <3>1. tail \in Seq(Pieces) /\ Fragment \in Pieces /\ r \in Pieces
      BY DEF FilesInv, FilesTyped, Pieces
    <3>2. tail' = Append(tail, Fragment) \/ tail' = Append(tail, r)
      BY <1>4 DEF AppendCutShort
    <3> QED
      BY <3>1, <3>2
  <2>4. TornLog' = TRUE
    BY <2>3 DEF TornLog
  <2>5. Journal!Part(r)
    BY <2>1, <2>2, <2>4 DEF Journal!Part, TornLog
  <2> QED
    BY <1>1, <1>2, <1>4, <2>5
    DEF Journal!Lapse, Journal!Writable, Journal!Survive, Journal!Die
<1> QED
  BY <1>3, <1>4

\* Every step of the log is a step of the journal it maps to, or a stutter.
LEMMA StepImplements ==
    ASSUME FilesInv, [Next]_vars
    PROVE  [Journal!Next]_(Journal!vars)
<1>1. CASE AccountEvent
  BY <1>1, QuietStutters DEF AccountEvent, journal
<1>2. CASE OpenStore
  <2>1. commits' = Terminated \o ReadTail
    BY <1>2, OpenReadsTheFile, MappedFile DEF OnFile
  <2>2. /\ status = "STOPPED" /\ status' = "SERVING" /\ incomplete' = FALSE
        /\ UNCHANGED <<lines, tail>>
    BY <1>2 DEF OpenStore
  <2>3. Terminated' = Terminated /\ ReadTail' = ReadTail /\ TornLog' = TornLog
    BY <2>2, LogStays
  <2>4. Journal!Start
    BY <2>1, <2>2, <2>3 DEF Journal!Start, TornLog
  <2> QED
    BY <2>4 DEF Journal!Next
<1>3. CASE RefuseStore
  <2>1. /\ status = "STOPPED" /\ status' = "REFUSED" /\ Damaged
        /\ UNCHANGED <<lines, tail, commits, incomplete>>
    BY <1>3 DEF RefuseStore, journal
  <2>2. Terminated' = Terminated /\ ReadTail' = ReadTail /\ TornLog' = TornLog
    BY <2>1, LogStays
  <2>3. Journal!Refuse
    BY <2>1, <2>2 DEF Journal!Refuse, TornLog
  <2> QED
    BY <2>3 DEF Journal!Next
<1>4. CASE ProcessEvent \/ Resync
  <2>1. PICK r : Continues(r) /\ (AppendRecord(r) \/ AppendCutShort(r) \/ AppendUnsynced(r))
    BY <1>4, WriterContinues
  <2>2. r \in Written /\ r \in Records
    BY <2>1 DEF Continues, Written
  <2>3. Journal!Commit(r) \/ Journal!Lapse(r)
    BY <2>1, <2>2, AppendRecordImplements, AppendCutShortImplements, AppendUnsyncedImplements
  <2> QED
    BY <2>2, <2>3 DEF Journal!Next
<1>5. CASE WriteTemporary \/ RemoveTemporary \/ Rename
  BY <1>5, CellStepsKeep, QuietStutters
<1>6. CASE Crash
  <2>1. /\ status = "SERVING" /\ status' = "STOPPED" /\ commits' = <<>> /\ incomplete' = FALSE
        /\ UNCHANGED <<lines, tail>>
    BY <1>6 DEF Crash, Dies
  <2>2. Terminated' = Terminated /\ ReadTail' = ReadTail /\ TornLog' = TornLog
    BY <2>1, LogStays
  <2>3. Journal!Stop
    BY <2>1, <2>2 DEF Journal!Stop, Journal!Die, Journal!Nothing, TornLog
  <2> QED
    BY <2>3 DEF Journal!Next
<1>7. CASE UNCHANGED vars
  BY <1>7, QuietStutters DEF vars
<1> QED
  BY <1>1, <1>2, <1>3, <1>4, <1>5, <1>6, <1>7 DEF Next

\* Whatever a life was told is written every later life knows, nothing is written
\* behind a torn record by the life that tore it, and only a torn log is refused:
\* the append log implements the durable journal.
THEOREM LogImplementsJournal == Spec => ImplementsJournal
<1>1. Init => Journal!Init
  BY InitImplements
<1>2. FilesInv /\ [Next]_vars => [Journal!Next]_(Journal!vars)
  BY StepImplements
<1> QED
  BY <1>1, <1>2, FilesInvariant, PTL DEF Spec, ImplementsJournal, Journal!Spec

-----------------------------------------------------------------------------
(* The market feed                                                         *)

Projections == [epoch : Nat, version : Nat, move : Nat, booked : BOOLEAN]
Ticks == [of : Instruments, epoch : Nat, version : Nat, gap : BOOLEAN, book : Nat \cup {None}]
ReadPasses == [todo : SUBSET Instruments, answer : Projections \cup {None}, ticks : Seq(Ticks)]

\* The types of the feed's variables.
FeedTypeOK ==
    /\ epoch \in Nat /\ version \in Nat
    /\ slot \in [Instruments -> [move : Nat, booked : BOOLEAN]]
    /\ wire \in Seq([of : Instruments, payload : Projections])
    /\ connected \in BOOLEAN
    /\ passes \in [Passes -> ReadPasses]
    /\ cursor \in [Instruments -> Cursors \cup {None}]
    /\ age \in [Instruments -> 0 .. 2]
    /\ book \in [Instruments -> Nat \cup {None}]
    /\ queue \in Seq(Ticks)
    /\ handed \in Seq(Ticks)
    /\ saved \in [Instruments -> Cursors \cup {None}]
    /\ applying \in BOOLEAN
    /\ losses \in 0 .. MaxLosses

SameTick(t, u) == t.of = u.of /\ t.epoch = u.epoch /\ t.version = u.version

\* No two ticks of s, none of s and of t, are of one version of one instrument.
NoRepeat(s) == \A m, n \in DOMAIN s : SameTick(s[m], s[n]) => m = n
Apart(s, t) == \A m \in DOMAIN s, n \in DOMAIN t : ~ SameTick(s[m], t[n])

\* The cursors c have seen every tick of s, and each states no book but its epoch's.
SeenBy(s, c) ==
    \A n \in DOMAIN s : /\ c[s[n].of] # None
                        /\ ~ Advances(s[n], c[s[n].of])
                        /\ s[n].book \in {None, s[n].epoch}

\* The four places a tick can be repeat nothing, in themselves or of each other.
NothingRepeats(h, q, d, r) ==
    /\ NoRepeat(h) /\ NoRepeat(q) /\ NoRepeat(d) /\ NoRepeat(r)
    /\ Apart(h, q) /\ Apart(h, d) /\ Apart(h, r) /\ Apart(q, d) /\ Apart(q, r) /\ Apart(d, r)

AllSeen(h, q, d, r, c) == SeenBy(h, c) /\ SeenBy(q, c) /\ SeenBy(d, c) /\ SeenBy(r, c)

Drained == passes["drain"].ticks
Baselined == passes["rebaseline"].ticks

\* The book held is of the cursor's epoch, or wiped.
BooksFollowCursors ==
    \A i \in Instruments : cursor[i] # None => book[i] \in {None, cursor[i].epoch}

\* What makes TicksAreNew inductive: the cursor of an instrument has seen every
\* tick of it, so that what advances past the cursor is new to all four places.
FeedInv ==
    /\ FeedTypeOK
    /\ \A p \in Passes : passes[p].answer # None => passes[p].todo # {}
    /\ BooksFollowCursors
    /\ NothingRepeats(handed, queue, Drained, Baselined)
    /\ AllSeen(handed, queue, Drained, Baselined, cursor)

-----------------------------------------------------------------------------
(* Sequences of ticks                                                      *)

\* A member of a concatenation is one of the first or of the second sequence.
LEMMA MemberOfBoth ==
    ASSUME NEW S, NEW s \in Seq(S), NEW t \in Seq(S)
    PROVE  /\ s \o t \in Seq(S)
           /\ DOMAIN s = 1 .. Len(s) /\ DOMAIN t = 1 .. Len(t)
           /\ DOMAIN (s \o t) = 1 .. Len(s) + Len(t)
           /\ Len(s) \in Nat /\ Len(t) \in Nat
           /\ \A n \in DOMAIN s : n \in DOMAIN (s \o t) /\ (s \o t)[n] = s[n]
           /\ \A n \in DOMAIN t : /\ Len(s) + n \in DOMAIN (s \o t)
                                  /\ (s \o t)[Len(s) + n] = t[n]
           /\ \A n \in DOMAIN (s \o t) :
                 \/ n \in DOMAIN s
                 \/ n > Len(s) /\ n - Len(s) \in DOMAIN t /\ (s \o t)[n] = t[n - Len(s)]
OBVIOUS

LEMMA MembersOfEither ==
    ASSUME NEW S, NEW s \in Seq(S), NEW t \in Seq(S)
    PROVE  /\ \A n \in DOMAIN s : n \in DOMAIN (s \o t) /\ (s \o t)[n] = s[n]
           /\ \A n \in DOMAIN t : \E k \in DOMAIN (s \o t) : (s \o t)[k] = t[n]
           /\ \A n \in DOMAIN (s \o t) : \/ n \in DOMAIN s
                                         \/ \E k \in DOMAIN t : (s \o t)[n] = t[k]
<1>1. /\ \A n \in DOMAIN s : n \in DOMAIN (s \o t) /\ (s \o t)[n] = s[n]
      /\ \A n \in DOMAIN t : /\ Len(s) + n \in DOMAIN (s \o t)
                             /\ (s \o t)[Len(s) + n] = t[n]
      /\ \A n \in DOMAIN (s \o t) :
            \/ n \in DOMAIN s
            \/ n > Len(s) /\ n - Len(s) \in DOMAIN t /\ (s \o t)[n] = t[n - Len(s)]
  BY MemberOfBoth
<1> QED
  BY <1>1, Zenon

LEMMA ApartOfBoth ==
    ASSUME NEW S, NEW s \in Seq(S), NEW t \in Seq(S), NEW u \in Seq(S)
    PROVE  /\ Apart(s \o t, u) <=> Apart(s, u) /\ Apart(t, u)
           /\ Apart(u, s \o t) <=> Apart(u, s) /\ Apart(u, t)
           /\ Apart(s, t) <=> Apart(t, s)
<1>1. /\ \A n \in DOMAIN s : n \in DOMAIN (s \o t) /\ (s \o t)[n] = s[n]
      /\ \A n \in DOMAIN t : \E k \in DOMAIN (s \o t) : (s \o t)[k] = t[n]
      /\ \A n \in DOMAIN (s \o t) : \/ n \in DOMAIN s
                                    \/ \E k \in DOMAIN t : (s \o t)[n] = t[k]
  BY MembersOfEither
<1>4. Apart(s, t) <=> Apart(t, s)
  BY Zenon DEF Apart, SameTick
<1>5. ASSUME NEW v PROVE Apart(s \o t, v) <=> Apart(s, v) /\ Apart(t, v)
  <2>1. ASSUME Apart(s \o t, v) PROVE Apart(s, v) /\ Apart(t, v)
    BY <1>1, <2>1, Zenon DEF Apart
  <2>2. ASSUME Apart(s, v), Apart(t, v) PROVE Apart(s \o t, v)
    BY <1>1, <2>2, Zenon DEF Apart
  <2> QED
    BY <2>1, <2>2
<1>6. \A v, w : Apart(v, w) <=> Apart(w, v)
  BY Zenon DEF Apart, SameTick
<1> QED
  BY <1>4, <1>5, <1>6, Zenon

LEMMA NoRepeatInBoth ==
    ASSUME NEW S, NEW s \in Seq(S), NEW t \in Seq(S)
    PROVE  NoRepeat(s \o t) <=> NoRepeat(s) /\ NoRepeat(t) /\ Apart(s, t)
<1>0. /\ DOMAIN s = 1 .. Len(s) /\ DOMAIN t = 1 .. Len(t)
      /\ DOMAIN (s \o t) = 1 .. Len(s) + Len(t)
      /\ Len(s) \in Nat /\ Len(t) \in Nat
      /\ \A n \in DOMAIN s : n \in DOMAIN (s \o t) /\ (s \o t)[n] = s[n]
      /\ \A n \in DOMAIN t : /\ Len(s) + n \in DOMAIN (s \o t)
                             /\ (s \o t)[Len(s) + n] = t[n]
      /\ \A n \in DOMAIN (s \o t) :
            \/ n \in DOMAIN s
            \/ n > Len(s) /\ n - Len(s) \in DOMAIN t /\ (s \o t)[n] = t[n - Len(s)]
  BY MemberOfBoth
<1>1. ASSUME NoRepeat(s \o t) PROVE NoRepeat(s) /\ NoRepeat(t) /\ Apart(s, t)
  <2>1. NoRepeat(s)
    BY <1>0, <1>1 DEF NoRepeat
  <2>2. ASSUME NEW m \in DOMAIN t, NEW n \in DOMAIN t, SameTick(t[m], t[n]) PROVE m = n
    <3>1. SameTick((s \o t)[Len(s) + m], (s \o t)[Len(s) + n])
      BY <1>0, <2>2
    <3>2. Len(s) + m = Len(s) + n
      BY <1>0, <1>1, <3>1 DEF NoRepeat
    <3> QED
      BY <1>0, <3>2
  <2>3. ASSUME NEW m \in DOMAIN s, NEW n \in DOMAIN t, SameTick(s[m], t[n]) PROVE FALSE
    <3>1. SameTick((s \o t)[m], (s \o t)[Len(s) + n])
      BY <1>0, <2>3
    <3>2. m = Len(s) + n
      BY <1>0, <1>1, <3>1 DEF NoRepeat
    <3> QED
      BY <1>0, <3>2
  <2> QED
    BY <2>1, <2>2, <2>3 DEF NoRepeat, Apart
<1>2. ASSUME NoRepeat(s), NoRepeat(t), Apart(s, t),
             NEW m \in DOMAIN (s \o t), NEW n \in DOMAIN (s \o t),
             SameTick((s \o t)[m], (s \o t)[n])
      PROVE  m = n
  <2>1. CASE m \in DOMAIN s /\ n \in DOMAIN s
    BY <1>0, <1>2, <2>1 DEF NoRepeat
  <2>2. CASE m \in DOMAIN s /\ n \notin DOMAIN s
    BY <1>0, <1>2, <2>2 DEF Apart
  <2>3. CASE m \notin DOMAIN s /\ n \in DOMAIN s
    <3>1. SameTick(s[n], t[m - Len(s)])
      BY <1>0, <1>2, <2>3 DEF SameTick
    <3> QED
      BY <1>0, <1>2, <2>3, <3>1 DEF Apart
  <2>4. CASE m \notin DOMAIN s /\ n \notin DOMAIN s
    <3>1. m - Len(s) = n - Len(s)
      BY <1>0, <1>2, <2>4 DEF NoRepeat
    <3> QED
      BY <1>0, <3>1
  <2> QED
    BY <2>1, <2>2, <2>3, <2>4
<1> QED
  BY <1>1, <1>2 DEF NoRepeat

LEMMA SeenInBoth ==
    ASSUME NEW S, NEW s \in Seq(S), NEW t \in Seq(S), NEW c
    PROVE  SeenBy(s \o t, c) <=> SeenBy(s, c) /\ SeenBy(t, c)
<1>1. /\ \A n \in DOMAIN s : n \in DOMAIN (s \o t) /\ (s \o t)[n] = s[n]
      /\ \A n \in DOMAIN t : \E k \in DOMAIN (s \o t) : (s \o t)[k] = t[n]
      /\ \A n \in DOMAIN (s \o t) : \/ n \in DOMAIN s
                                    \/ \E k \in DOMAIN t : (s \o t)[n] = t[k]
  BY MembersOfEither
<1>4. ASSUME SeenBy(s \o t, c) PROVE SeenBy(s, c) /\ SeenBy(t, c)
  BY <1>1, <1>4 DEF SeenBy
<1>5. ASSUME SeenBy(s, c), SeenBy(t, c) PROVE SeenBy(s \o t, c)
  BY <1>1, <1>5 DEF SeenBy
<1> QED
  BY <1>4, <1>5

LEMMA NothingInNone ==
    ASSUME NEW s, NEW c
    PROVE  /\ NoRepeat(<<>>) /\ Apart(<<>>, s) /\ Apart(s, <<>>) /\ SeenBy(<<>>, c)
BY DEF NoRepeat, Apart, SeenBy

\* Ticks that are new to all four places join one of them, or one place joins
\* another: nothing repeats still.
LEMMA NewTicksJoin ==
    ASSUME NEW S, NEW h \in Seq(S), NEW q \in Seq(S), NEW d \in Seq(S), NEW r \in Seq(S),
           NothingRepeats(h, q, d, r), NEW t \in Seq(S),
           NoRepeat(t), Apart(h, t), Apart(q, t), Apart(d, t), Apart(r, t)
    PROVE  /\ NothingRepeats(h, q \o t, d, r)
           /\ NothingRepeats(h, q, d \o t, r)
           /\ NothingRepeats(h, q, d, r \o t)
<1>1. /\ NoRepeat(q \o t) <=> NoRepeat(q) /\ NoRepeat(t) /\ Apart(q, t)
      /\ NoRepeat(d \o t) <=> NoRepeat(d) /\ NoRepeat(t) /\ Apart(d, t)
      /\ NoRepeat(r \o t) <=> NoRepeat(r) /\ NoRepeat(t) /\ Apart(r, t)
  BY NoRepeatInBoth, Zenon
<1>2. /\ Apart(h, q \o t) /\ Apart(q \o t, d) /\ Apart(q \o t, r)
      /\ Apart(h, d \o t) /\ Apart(q, d \o t) /\ Apart(d \o t, r)
      /\ Apart(h, r \o t) /\ Apart(q, r \o t) /\ Apart(d, r \o t)
  BY ApartOfBoth, Zenon DEF NothingRepeats
<1> QED
  BY <1>1, <1>2, Zenon DEF NothingRepeats

LEMMA PlacesJoin ==
    ASSUME NEW S, NEW h \in Seq(S), NEW q \in Seq(S), NEW d \in Seq(S), NEW r \in Seq(S),
           NothingRepeats(h, q, d, r)
    PROVE  /\ NothingRepeats(h \o q \o d, <<>>, <<>>, r)
           /\ NothingRepeats(h, q \o r, d, <<>>)
           /\ NoRepeat(h \o q \o d \o r)
<1>1. h \o q \in Seq(S) /\ h \o q \o d \in Seq(S) /\ h \o q \o d \o r \in Seq(S)
  OBVIOUS
<1>2. /\ NoRepeat(h \o q) <=> NoRepeat(h) /\ NoRepeat(q) /\ Apart(h, q)
      /\ NoRepeat(q \o r) <=> NoRepeat(q) /\ NoRepeat(r) /\ Apart(q, r)
      /\ NoRepeat(h \o q \o d) <=> NoRepeat(h \o q) /\ NoRepeat(d) /\ Apart(h \o q, d)
      /\ NoRepeat(h \o q \o d \o r)
            <=> NoRepeat(h \o q \o d) /\ NoRepeat(r) /\ Apart(h \o q \o d, r)
  BY <1>1, NoRepeatInBoth, Zenon
<1>3. Apart(h \o q, d) /\ Apart(h \o q, r) /\ Apart(h, q \o r) /\ Apart(q \o r, d) /\ Apart(d, q \o r)
  BY ApartOfBoth, Zenon DEF NothingRepeats
<1>4. Apart(h \o q \o d, r)
  BY <1>1, <1>3, ApartOfBoth, Zenon DEF NothingRepeats
<1> QED
  BY <1>2, <1>3, <1>4, NothingInNone, Zenon DEF NothingRepeats

-----------------------------------------------------------------------------
(* The ticker                                                              *)

\* The first instrument of what a pass has to read is one of it.
LEMMA NextInstrument ==
    ASSUME NEW todo \in SUBSET Instruments, todo # {}
    PROVE  Min(todo) \in todo
<1>1. \E x \in todo : \A y \in todo : x <= y
  BY LeastNatural, FeedAssumption
<1> QED
  BY <1>1 DEF Min

\* An observation advances the cursor of its instrument or leaves it: what was
\* seen stays seen, and the tick made of it, if any, is new to whatever was.
LEMMA ObservationIsNew ==
    ASSUME FeedTypeOK, BooksFollowCursors,
           NEW i \in Instruments, NEW payload \in Projections, Observe(i, payload)
    PROVE  /\ cursor' \in [Instruments -> Cursors \cup {None}]
           /\ age' \in [Instruments -> 0 .. 2]
           /\ book' \in [Instruments -> Nat \cup {None}]
           /\ BooksFollowCursors'
           /\ TickOf(i, payload) \in Seq(Ticks)
           /\ NoRepeat(TickOf(i, payload))
           /\ SeenBy(TickOf(i, payload), cursor')
           /\ \A s \in Seq(Ticks) : SeenBy(s, cursor) =>
                 /\ SeenBy(s, cursor')
                 /\ Apart(s, TickOf(i, payload))
<1> DEFINE seen == [epoch |-> payload.epoch, version |-> payload.version]
           gap == GapBefore(i, payload)
           held == Merge(i, payload, gap)
           made == [of |-> i, epoch |-> payload.epoch, version |-> payload.version,
                    gap |-> gap, book |-> held]
<1>1. /\ payload.epoch \in Nat /\ payload.version \in Nat /\ payload.booked \in BOOLEAN
      /\ seen \in Cursors /\ seen # None
  BY FeedAssumption DEF Projections, Cursors
<1>2. /\ cursor \in [Instruments -> Cursors \cup {None}] /\ age \in [Instruments -> 0 .. 2]
      /\ book \in [Instruments -> Nat \cup {None}]
  BY DEF FeedTypeOK
<1>3. held \in {None, payload.epoch} \/ Seen(i, payload)
  <2>1. CASE payload.booked \/ gap
    BY <2>1 DEF Merge
  <2>2. CASE ~ payload.booked /\ ~ gap
    <3>1. cursor[i] # None /\ cursor[i].epoch = payload.epoch /\ held = book[i]
      BY <2>2, Zenon DEF GapBefore, Merge
    <3> QED
      BY <3>1, Zenon DEF BooksFollowCursors
  <2> QED
    BY <2>1, <2>2
<1>4. CASE payload.move = 0
  <2>1. cursor' = cursor /\ age' = age /\ book' = book
    BY <1>4 DEF Observe
  <2>2. TickOf(i, payload) = <<>>
    BY <1>4 DEF TickOf
  <2>3. BooksFollowCursors'
    BY <2>1 DEF BooksFollowCursors
  <2> QED
    BY <1>2, <2>1, <2>2, <2>3, NothingInNone
<1>5. CASE payload.move # 0 /\ Seen(i, payload)
  <2>1. cursor' = cursor /\ book' = book /\ age' = [age EXCEPT ![i] = 0]
    BY <1>5 DEF Observe
  <2>2. TickOf(i, payload) = <<>>
    BY <1>5 DEF TickOf
  <2>3. age' \in [Instruments -> 0 .. 2]
    BY <1>2, <2>1
  <2>4. BooksFollowCursors'
    BY <2>1 DEF BooksFollowCursors
  <2> QED
    BY <1>2, <2>1, <2>2, <2>3, <2>4, NothingInNone
<1>6. CASE payload.move # 0 /\ ~ Seen(i, payload)
  <2>1. /\ cursor' = [cursor EXCEPT ![i] = seen] /\ book' = [book EXCEPT ![i] = held]
        /\ age' = [age EXCEPT ![i] = 0]
    BY <1>6 DEF Observe
  <2>2. TickOf(i, payload) = <<made>>
    BY <1>6 DEF TickOf
  <2>3. held \in {None, payload.epoch}
    BY <1>3, <1>6
  <2>4. gap \in BOOLEAN
    BY DEF GapBefore
  <2>5. made \in Ticks
    BY <1>1, <2>3, <2>4 DEF Ticks
  <2>6. /\ cursor' \in [Instruments -> Cursors \cup {None}]
        /\ age' \in [Instruments -> 0 .. 2]
        /\ book' \in [Instruments -> Nat \cup {None}]
    BY <1>1, <1>2, <2>1, <2>3
  <2>7. BooksFollowCursors'
    BY <1>1, <1>2, <2>1, <2>3 DEF BooksFollowCursors
  <2>8. SeenBy(<<made>>, cursor')
    <3>1. cursor'[i] = seen
      BY <1>2, <2>1
    <3>2. ~ Advances(made, seen)
      BY <1>1 DEF Advances
    <3> QED
      BY <1>1, <2>3, <3>1, <3>2 DEF SeenBy
  <2>9. ASSUME NEW s \in Seq(Ticks), SeenBy(s, cursor), NEW n \in DOMAIN s
        PROVE  /\ cursor'[s[n].of] # None
               /\ ~ Advances(s[n], cursor'[s[n].of])
               /\ s[n].book \in {None, s[n].epoch}
               /\ ~ SameTick(s[n], made)
    <3>1. s[n] \in Ticks
      BY <2>9
    <3>2. /\ s[n].of \in Instruments /\ s[n].epoch \in Nat /\ s[n].version \in Nat
      BY <3>1 DEF Ticks
    <3>3. /\ cursor[s[n].of] # None /\ ~ Advances(s[n], cursor[s[n].of])
          /\ s[n].book \in {None, s[n].epoch}
      BY <2>9 DEF SeenBy
    <3>4. CASE s[n].of # i
      BY <1>2, <2>1, <3>2, <3>3, <3>4 DEF SameTick
    <3>5. CASE s[n].of = i
      <4>1. Advances(payload, cursor[i]) /\ cursor[i] \in Cursors
        BY <1>2, <1>6, <3>3, <3>5 DEF Seen
      <4>2. cursor[i].epoch \in Nat /\ cursor[i].version \in Nat
        BY <4>1 DEF Cursors
      <4>3. ~ Advances(s[n], cursor[i])
        BY <3>3, <3>5
      <4>4. ~ Advances(s[n], seen)
        BY <1>1, <3>2, <4>1, <4>2, <4>3 DEF Advances
      <4>5. ~ SameTick(s[n], made)
        BY <1>1, <3>2, <4>1, <4>2, <4>3 DEF Advances, SameTick
      <4>6. cursor'[s[n].of] = seen
        BY <1>2, <2>1, <3>5
      <4> QED
        BY <1>1, <3>3, <4>4, <4>5, <4>6
    <3> QED
      BY <3>4, <3>5
  <2>10. /\ <<made>> \in Seq(Ticks) /\ NoRepeat(<<made>>)
         /\ DOMAIN <<made>> = {1} /\ <<made>>[1] = made
    BY <2>5 DEF NoRepeat
  <2>11. ASSUME NEW s \in Seq(Ticks), SeenBy(s, cursor)
         PROVE  SeenBy(s, cursor') /\ Apart(s, <<made>>)
    BY <2>9, <2>10, <2>11 DEF SeenBy, Apart
  <2> QED
    BY <2>2, <2>6, <2>7, <2>8, <2>10, <2>11
<1> QED
  BY <1>4, <1>5, <1>6

-----------------------------------------------------------------------------
(* The steps of the feed                                                   *)

\* Going on with a pass, or ending it, moves the ticks of a good state.
LEMMA PassGoesOn ==
    ASSUME FeedTypeOK,
           \A q \in Passes : passes[q].answer # None => passes[q].todo # {},
           NEW p \in Passes, NEW todo \in SUBSET Instruments, NEW t \in Seq(Ticks),
           Continue(p, todo, passes[p].ticks \o t),
           NothingRepeats(handed, queue, Drained, Baselined),
           NEW c, AllSeen(handed, queue, Drained, Baselined, c),
           NoRepeat(t), SeenBy(t, c),
           \A s \in {handed, queue, Drained, Baselined} : Apart(s, t)
    PROVE  /\ passes' \in [Passes -> ReadPasses]
           /\ queue' \in Seq(Ticks) /\ handed' \in Seq(Ticks) /\ applying' \in BOOLEAN
           /\ \A q \in Passes : passes'[q].answer # None => passes'[q].todo # {}
           /\ NothingRepeats(handed, queue, Drained, Baselined)'
           /\ AllSeen(handed', queue', Drained', Baselined', c)
<1> DEFINE made == passes[p].ticks \o t
           D == IF p = "drain" THEN made ELSE Drained
           R == IF p = "rebaseline" THEN made ELSE Baselined
<1>1. /\ passes \in [Passes -> ReadPasses] /\ queue \in Seq(Ticks) /\ handed \in Seq(Ticks)
      /\ applying \in BOOLEAN
  BY DEF FeedTypeOK
<1>2. /\ Drained \in Seq(Ticks) /\ Baselined \in Seq(Ticks) /\ passes[p].ticks \in Seq(Ticks)
      /\ made \in Seq(Ticks)
  BY <1>1 DEF Drained, Baselined, Passes, ReadPasses
<1>3. D \in Seq(Ticks) /\ R \in Seq(Ticks)
  BY <1>2
<1>4. NothingRepeats(handed, queue, D, R) /\ AllSeen(handed, queue, D, R, c)
  <2>1. /\ NothingRepeats(handed, queue, Drained \o t, Baselined)
        /\ NothingRepeats(handed, queue, Drained, Baselined \o t)
    BY <1>1, <1>2, NewTicksJoin
  <2>2. SeenBy(Drained \o t, c) /\ SeenBy(Baselined \o t, c)
    BY <1>2, SeenInBoth DEF AllSeen
  <2>3. CASE p = "drain"
    BY <2>1, <2>2, <2>3 DEF AllSeen, Drained
  <2>4. CASE p = "rebaseline"
    BY <2>1, <2>2, <2>4 DEF AllSeen, Baselined
  <2> QED
    BY <2>3, <2>4 DEF Passes
<1> HIDE DEF made
<1>5. CASE todo # {}
  <2>1. /\ passes' = [passes EXCEPT ![p] = [todo |-> todo, answer |-> None, ticks |-> made]]
        /\ queue' = queue /\ handed' = handed /\ applying' = applying
    BY <1>5 DEF Continue, made
  <2>2. [todo |-> todo, answer |-> None, ticks |-> made] \in ReadPasses
    BY <1>2 DEF ReadPasses
  <2>3. /\ passes' \in [Passes -> ReadPasses]
        /\ \A q \in Passes : passes'[q].answer # None => passes'[q].todo # {}
    BY <1>1, <2>1, <2>2
  <2>4. Drained' = D /\ Baselined' = R
    BY <1>1, <2>1 DEF Drained, Baselined, Passes
  <2> QED
    BY <1>1, <1>4, <2>1, <2>3, <2>4
<1>6. CASE todo = {} /\ p = "rebaseline"
  <2>1. /\ passes' = [passes EXCEPT ![p] = Idle] /\ queue' = queue \o made
        /\ handed' = handed /\ applying' = applying
    BY <1>6 DEF Continue, made
  <2>2. Idle \in ReadPasses
    BY DEF ReadPasses, Idle
  <2>3. /\ passes' \in [Passes -> ReadPasses]
        /\ \A q \in Passes : passes'[q].answer # None => passes'[q].todo # {}
    BY <1>1, <2>1, <2>2 DEF Idle
  <2>4. Drained' = D /\ Baselined' = <<>> /\ R = made
    BY <1>1, <1>6, <2>1 DEF Drained, Baselined, Passes, Idle
  <2>5. NothingRepeats(handed, queue \o made, D, <<>>)
    BY <1>1, <1>3, <1>4, <2>4, PlacesJoin
  <2>6. /\ SeenBy(<<>>, c) /\ SeenBy(handed, c) /\ SeenBy(D, c)
        /\ SeenBy(queue, c) /\ SeenBy(made, c)
    BY <1>4, <2>4, NothingInNone, Zenon DEF AllSeen
  <2>7. SeenBy(queue \o made, c)
    BY <1>1, <1>2, <2>6, SeenInBoth
  <2>8. queue \o made \in Seq(Ticks)
    BY <1>1, <1>2
  <2>9. NothingRepeats(handed', queue', Drained', Baselined')
    BY <2>1, <2>4, <2>5, Zenon
  <2>10. AllSeen(handed', queue', Drained', Baselined', c)
    BY <2>1, <2>4, <2>6, <2>7, Zenon DEF AllSeen
  <2> QED
    BY <1>1, <2>1, <2>3, <2>8, <2>9, <2>10
<1>7. CASE todo = {} /\ p # "rebaseline"
  <2>1. /\ passes' = [passes EXCEPT ![p] = Idle] /\ queue' = <<>>
        /\ handed' = handed \o queue \o made /\ applying' = TRUE
    BY <1>7 DEF Continue, made
  <2>2. Idle \in ReadPasses
    BY DEF ReadPasses, Idle
  <2>3. /\ passes' \in [Passes -> ReadPasses]
        /\ \A q \in Passes : passes'[q].answer # None => passes'[q].todo # {}
    BY <1>1, <2>1, <2>2 DEF Idle
  <2>4. Drained' = <<>> /\ Baselined' = R /\ D = made
    BY <1>1, <1>7, <2>1 DEF Drained, Baselined, Passes, Idle
  <2>5. NothingRepeats(handed \o queue \o made, <<>>, <<>>, R)
    BY <1>1, <1>3, <1>4, <2>4, PlacesJoin
  <2>6. handed \o queue \in Seq(Ticks) /\ handed \o queue \o made \in Seq(Ticks)
    BY <1>1, <1>2
  <2>7. SeenBy(handed \o queue \o made, c)
    BY <1>1, <1>2, <1>4, <2>4, <2>6, SeenInBoth DEF AllSeen
  <2>8. SeenBy(<<>>, c) /\ SeenBy(R, c)
    BY <1>4, NothingInNone DEF AllSeen
  <2>9. <<>> \in Seq(Ticks)
    OBVIOUS
  <2> QED
    BY <2>1, <2>3, <2>4, <2>5, <2>6, <2>7, <2>8, <2>9 DEF AllSeen
<1> QED
  BY <1>5, <1>6, <1>7

LEMMA InitFeedInv == FeedInit => FeedInv
<1> SUFFICES ASSUME FeedInit PROVE FeedInv
  OBVIOUS
<1>1. Idle \in ReadPasses /\ <<>> \in Seq(Ticks)
  BY DEF Idle, ReadPasses
<1>2. <<>> \in Seq([of : Instruments, payload : Projections])
  OBVIOUS
<1>3. MaxLosses \in Nat
  BY FeedAssumption
<1>4. FeedTypeOK
  <2>1. passes \in [Passes -> ReadPasses]
    BY <1>1 DEF FeedInit
  <2>2. /\ slot \in [Instruments -> [move : Nat, booked : BOOLEAN]]
        /\ cursor \in [Instruments -> Cursors \cup {None}]
        /\ age \in [Instruments -> 0 .. 2]
        /\ book \in [Instruments -> Nat \cup {None}]
        /\ saved \in [Instruments -> Cursors \cup {None}]
    BY DEF FeedInit
  <2>3. epoch \in Nat /\ version \in Nat /\ losses \in 0 .. MaxLosses
    BY <1>3 DEF FeedInit
  <2> QED
    BY <1>1, <1>2, <2>1, <2>2, <2>3 DEF FeedInit, FeedTypeOK
<1>5. Drained = <<>> /\ Baselined = <<>> /\ handed = <<>> /\ queue = <<>>
  BY DEF FeedInit, Drained, Baselined, Passes, Idle
<1>6. \A p \in Passes : passes[p].answer = None
  BY DEF FeedInit, Idle
<1>7. BooksFollowCursors
  BY DEF FeedInit, BooksFollowCursors
<1> QED
  BY <1>4, <1>5, <1>6, <1>7, NothingInNone DEF FeedInv, NothingRepeats, AllSeen

\* What leaves the ticker and the ticks alone keeps all but the types.
LEMMA TicksStay ==
    ASSUME FeedInv, FeedTypeOK', UNCHANGED <<cursor, book, queue, handed>>,
           \A p \in Passes : /\ passes'[p].ticks = passes[p].ticks
                             /\ passes'[p].answer # None => passes'[p].todo # {}
    PROVE  FeedInv'
<1>1. Drained' = Drained /\ Baselined' = Baselined
  BY DEF Drained, Baselined, Passes
<1>2. BooksFollowCursors'
  BY DEF FeedInv, BooksFollowCursors
<1> QED
  BY <1>1, <1>2 DEF FeedInv

LEMMA LossIsTyped ==
    ASSUME losses \in 0 .. MaxLosses, Fail
    PROVE  losses' \in 0 .. MaxLosses
BY FeedAssumption DEF Fail

LEMMA PublishKeeps ==
    ASSUME FeedInv, NEW i \in Instruments, NEW booked \in BOOLEAN, Publish(i, booked)
    PROVE  FeedInv'
<1> USE DEF FeedInv, FeedTypeOK
<1>1. version' = version + 1 /\ version' \in Nat /\ epoch' = epoch
  BY DEF Publish
<1>2. slot' = [slot EXCEPT ![i] = [move |-> version', booked |-> @.booked \/ booked]]
  BY DEF Publish
<1>3. slot[i].booked \in BOOLEAN
  OBVIOUS
<1>4. slot' \in [Instruments -> [move : Nat, booked : BOOLEAN]]
  BY <1>1, <1>2, <1>3
<1>5. PublishQuote(i, slot'[i], version') \in [of : Instruments, payload : Projections]
  BY <1>1, <1>4 DEF PublishQuote, ProjectQuote, Projections
<1>6. wire' \in Seq([of : Instruments, payload : Projections])
  <2>1. wire' = wire \/ wire' = Append(wire, PublishQuote(i, slot'[i], version'))
    BY DEF Publish
  <2> DEFINE Frames == [of : Instruments, payload : Projections]
             frame == PublishQuote(i, slot'[i], version')
  <2>2. wire \in Seq(Frames) /\ frame \in Frames
    BY <1>5
  <2> HIDE DEF Frames, frame
  <2>3. wire \in Seq(Frames) /\ Append(wire, frame) \in Seq(Frames)
    BY <2>2
  <2> QED
    BY <2>1, <2>3 DEF Frames, frame
<1>7. FeedTypeOK'
  BY <1>1, <1>4, <1>6 DEF Publish
<1> QED
  BY <1>7, TicksStay DEF Publish

LEMMA QuietStepsKeep ==
    ASSUME FeedInv,
           \/ Elapse \/ Recover \/ Connect
           \/ Detach \/ Persist \/ LoseSession
    PROVE  FeedInv'
<1>1. /\ FeedTypeOK
      /\ \A p \in Passes : passes[p].answer # None => passes[p].todo # {}
      /\ passes \in [Passes -> ReadPasses]
  BY DEF FeedInv, FeedTypeOK
<1>2. CASE Elapse
  <2>1. age' \in [Instruments -> 0 .. 2]
    <3> SUFFICES ASSUME NEW i \in Instruments
        PROVE (IF cursor[i] = None THEN 0 ELSE IF age[i] = 2 THEN 2 ELSE age[i] + 1) \in 0 .. 2
      BY <1>2 DEF Elapse
    <3>1. age[i] \in 0 .. 2
      BY <1>1 DEF FeedTypeOK
    <3> QED
      BY <3>1
  <2>2. FeedTypeOK'
    BY <1>1, <1>2, <2>1 DEF FeedTypeOK, Elapse
  <2> QED
    BY <1>1, <1>2, <2>2, TicksStay DEF Elapse
<1>3. CASE Recover
  <2>1. /\ epoch' \in Nat /\ version' = 0 /\ losses' \in 0 .. MaxLosses
        /\ slot' = [i \in Instruments |-> [move |-> 0, booked |-> FALSE]]
        /\ UNCHANGED <<wire, connected, passes, cursor, age, book, queue, handed, saved, applying>>
    BY <1>1, <1>3, LossIsTyped DEF Recover, BeginEpoch, FeedTypeOK
  <2>2. slot' \in [Instruments -> [move : Nat, booked : BOOLEAN]]
    BY <2>1
  <2>3. FeedTypeOK'
    BY <1>1, <2>1, <2>2 DEF FeedTypeOK
  <2> QED
    BY <1>1, <2>1, <2>3, TicksStay
<1>4. CASE Connect
  <2>1. /\ passes["rebaseline"] = Idle
        /\ passes' = [passes EXCEPT !["rebaseline"] = [Idle EXCEPT !.todo = Instruments]]
    BY <1>4 DEF Connect
  <2>2. [Idle EXCEPT !.todo = Instruments] \in ReadPasses
    <3>1. [Idle EXCEPT !.todo = Instruments]
             = [todo |-> Instruments, answer |-> None, ticks |-> <<>>]
      BY DEF Idle
    <3>2. <<>> \in Seq(Ticks) /\ Instruments \in SUBSET Instruments
      OBVIOUS
    <3> QED
      BY <3>1, <3>2 DEF ReadPasses
  <2>3. passes' \in [Passes -> ReadPasses]
    BY <1>1, <2>1, <2>2
  <2>4. \A p \in Passes : /\ passes'[p].ticks = passes[p].ticks
                          /\ passes'[p].answer # None => passes'[p].todo # {}
    BY <1>1, <2>1 DEF Idle
  <2>5. FeedTypeOK'
    BY <1>1, <1>4, <2>3 DEF FeedTypeOK, Connect
  <2> QED
    BY <1>4, <2>4, <2>5, TicksStay DEF Connect
<1>5. CASE Detach
  <2>1. losses' \in 0 .. MaxLosses
    BY <1>1, <1>5, LossIsTyped DEF Detach, FeedTypeOK
  <2>2. <<>> \in Seq([of : Instruments, payload : Projections])
    OBVIOUS
  <2>3. FeedTypeOK'
    BY <1>1, <1>5, <2>1, <2>2 DEF FeedTypeOK, Detach
  <2> QED
    BY <1>1, <1>5, <2>3, TicksStay DEF Detach
<1>6. CASE Persist
  <2>1. FeedTypeOK'
    BY <1>1, <1>6 DEF FeedTypeOK, Persist
  <2> QED
    BY <1>1, <1>6, <2>1, TicksStay DEF Persist
<1>7. CASE LoseSession
  <2>1. FeedTypeOK'
    BY <1>1, <1>7, LossIsTyped DEF FeedTypeOK, LoseSession
  <2> QED
    BY <1>1, <1>7, <2>1, TicksStay DEF LoseSession
<1> QED
  BY <1>2, <1>3, <1>4, <1>5, <1>6, <1>7

LEMMA ReadAnsweredKeeps ==
    ASSUME FeedInv, NEW p \in Passes, ReadAnswered(p)
    PROVE  FeedInv'
<1>1. /\ FeedTypeOK
      /\ \A q \in Passes : passes[q].answer # None => passes[q].todo # {}
      /\ passes \in [Passes -> ReadPasses]
  BY DEF FeedInv, FeedTypeOK
<1> DEFINE i == Min(passes[p].todo)
<1>2. i \in Instruments
  BY <1>1, NextInstrument DEF ReadAnswered, ReadPasses
<1>3. ProjectQuote(slot[i], version) \in Projections
  BY <1>1, <1>2 DEF FeedTypeOK, ProjectQuote, Projections
<1>4. passes' = [passes EXCEPT ![p].answer = ProjectQuote(slot[i], version)]
  BY DEF ReadAnswered
<1> HIDE DEF i
<1>5. passes' \in [Passes -> ReadPasses]
  BY <1>1, <1>3, <1>4 DEF ReadPasses
<1>6. passes[p].todo # {}
  BY DEF ReadAnswered
<1>7. \A q \in Passes : /\ passes'[q].ticks = passes[q].ticks
                        /\ passes'[q].answer # None => passes'[q].todo # {}
  BY <1>1, <1>4, <1>6 DEF ReadPasses
<1>8. FeedTypeOK'
  BY <1>1, <1>5 DEF FeedTypeOK, ReadAnswered
<1> QED
  BY <1>7, <1>8, TicksStay DEF ReadAnswered

LEMMA ObserveFrameKeeps ==
    ASSUME FeedInv, ObserveFrame
    PROVE  FeedInv'
<1> DEFINE frame == Head(wire)
           t == TickOf(frame.of, frame.payload)
<1>1. FeedTypeOK /\ BooksFollowCursors
  BY DEF FeedInv
<1>2. /\ frame.of \in Instruments /\ frame.payload \in Projections
      /\ wire' \in Seq([of : Instruments, payload : Projections])
  <2> DEFINE Frames == [of : Instruments, payload : Projections]
  <2>1. wire \in Seq(Frames) /\ wire # <<>> /\ wire' = Tail(wire)
    BY <1>1 DEF FeedTypeOK, ObserveFrame
  <2>2. Head(wire) \in Frames /\ Tail(wire) \in Seq(Frames)
    <3> HIDE DEF Frames
    <3> QED
      BY <2>1
  <2> QED
    BY <2>1, <2>2
<1>3. Observe(frame.of, frame.payload) /\ queue' = queue \o t
  BY DEF ObserveFrame
<1> HIDE DEF frame, t
<1>4. /\ cursor' \in [Instruments -> Cursors \cup {None}]
      /\ age' \in [Instruments -> 0 .. 2]
      /\ book' \in [Instruments -> Nat \cup {None}]
      /\ BooksFollowCursors'
      /\ t \in Seq(Ticks) /\ NoRepeat(t) /\ SeenBy(t, cursor')
      /\ \A s \in Seq(Ticks) : SeenBy(s, cursor) => SeenBy(s, cursor') /\ Apart(s, t)
  BY <1>1, <1>2, <1>3, ObservationIsNew DEF t
<1>5. /\ handed \in Seq(Ticks) /\ queue \in Seq(Ticks)
      /\ Drained \in Seq(Ticks) /\ Baselined \in Seq(Ticks)
  BY <1>1 DEF FeedTypeOK, Drained, Baselined, Passes, ReadPasses
<1>6. \A s \in {handed, queue, Drained, Baselined} :
         s \in Seq(Ticks) /\ SeenBy(s, cursor') /\ Apart(s, t)
  <2>1. AllSeen(handed, queue, Drained, Baselined, cursor)
    BY DEF FeedInv
  <2> QED
    BY <1>4, <1>5, <2>1 DEF AllSeen
<1>7. UNCHANGED <<epoch, version, slot, connected, passes, handed, saved, applying, losses>>
  BY DEF ObserveFrame
<1>8. Drained' = Drained /\ Baselined' = Baselined
  BY <1>7 DEF Drained, Baselined
<1>9. NothingRepeats(handed, queue \o t, Drained, Baselined)
  <2>1. NothingRepeats(handed, queue, Drained, Baselined)
    BY DEF FeedInv
  <2> QED
    BY <1>4, <1>5, <1>6, <2>1, NewTicksJoin
<1>10. AllSeen(handed, queue \o t, Drained, Baselined, cursor')
  BY <1>4, <1>6, SeenInBoth DEF AllSeen
<1>11. FeedTypeOK'
  <2>1. queue' \in Seq(Ticks)
    BY <1>3, <1>4, <1>5
  <2> QED
    BY <1>1, <1>2, <1>4, <1>7, <2>1 DEF FeedTypeOK
<1>12. \A p \in Passes : passes'[p].answer # None => passes'[p].todo # {}
  BY <1>7 DEF FeedInv
<1> QED
  BY <1>3, <1>4, <1>7, <1>8, <1>9, <1>10, <1>11, <1>12 DEF FeedInv

LEMMA ReadObservedKeeps ==
    ASSUME FeedInv, NEW p \in Passes, ReadObserved(p)
    PROVE  FeedInv'
<1> DEFINE i == Min(passes[p].todo)
           t == TickOf(i, passes[p].answer)
           todo == passes[p].todo \ {i}
<1>1. FeedTypeOK /\ BooksFollowCursors
  BY DEF FeedInv
<1>2. \A q \in Passes : passes[q].answer # None => passes[q].todo # {}
  BY DEF FeedInv
<1>3. /\ passes[p].answer \in Projections /\ passes[p].todo \in SUBSET Instruments
      /\ passes[p].todo # {}
  BY <1>1, <1>2 DEF FeedTypeOK, ReadPasses, ReadObserved
<1>4. i \in Instruments /\ todo \in SUBSET Instruments
  BY <1>3, NextInstrument
<1>5. Observe(i, passes[p].answer) /\ Continue(p, todo, passes[p].ticks \o t)
  BY DEF ReadObserved
<1> HIDE DEF i, t, todo
<1>6. /\ cursor' \in [Instruments -> Cursors \cup {None}]
      /\ age' \in [Instruments -> 0 .. 2]
      /\ book' \in [Instruments -> Nat \cup {None}]
      /\ BooksFollowCursors'
      /\ t \in Seq(Ticks) /\ NoRepeat(t) /\ SeenBy(t, cursor')
      /\ \A s \in Seq(Ticks) : SeenBy(s, cursor) => SeenBy(s, cursor') /\ Apart(s, t)
  BY <1>1, <1>3, <1>4, <1>5, ObservationIsNew DEF t
<1>7. /\ handed \in Seq(Ticks) /\ queue \in Seq(Ticks)
      /\ Drained \in Seq(Ticks) /\ Baselined \in Seq(Ticks)
  BY <1>1 DEF FeedTypeOK, Drained, Baselined, Passes, ReadPasses
<1>8. \A s \in {handed, queue, Drained, Baselined} : SeenBy(s, cursor') /\ Apart(s, t)
  <2>1. AllSeen(handed, queue, Drained, Baselined, cursor)
    BY DEF FeedInv
  <2> QED
    BY <1>6, <1>7, <2>1 DEF AllSeen
<1>9. NothingRepeats(handed, queue, Drained, Baselined)
  BY DEF FeedInv
<1>10. AllSeen(handed, queue, Drained, Baselined, cursor')
  BY <1>8 DEF AllSeen
<1>11. /\ passes' \in [Passes -> ReadPasses]
       /\ queue' \in Seq(Ticks) /\ handed' \in Seq(Ticks) /\ applying' \in BOOLEAN
       /\ \A q \in Passes : passes'[q].answer # None => passes'[q].todo # {}
       /\ NothingRepeats(handed, queue, Drained, Baselined)'
       /\ AllSeen(handed', queue', Drained', Baselined', cursor')
  BY <1>1, <1>2, <1>4, <1>5, <1>6, <1>8, <1>9, <1>10, PassGoesOn
<1>12. UNCHANGED <<epoch, version, slot, wire, connected, saved, losses>>
  BY DEF ReadObserved
<1>13. FeedTypeOK'
  BY <1>1, <1>6, <1>11, <1>12 DEF FeedTypeOK
<1> QED
  BY <1>6, <1>11, <1>13 DEF FeedInv

\* A pass that goes on with no new tick, and no observation.
LEMMA SilentPassKeeps ==
    ASSUME FeedInv, NEW p \in Passes, NEW todo \in SUBSET Instruments,
           Continue(p, todo, passes[p].ticks), losses' \in 0 .. MaxLosses,
           UNCHANGED <<epoch, version, slot, wire, connected, cursor, age, book, saved>>
    PROVE  FeedInv'
<1>1. FeedTypeOK /\ BooksFollowCursors
  BY DEF FeedInv
<1>2. \A q \in Passes : passes[q].answer # None => passes[q].todo # {}
  BY DEF FeedInv
<1>3. passes[p].ticks \o <<>> = passes[p].ticks
  BY <1>1 DEF FeedTypeOK, ReadPasses
<1>4. <<>> \in Seq(Ticks)
  OBVIOUS
<1>5. /\ NothingRepeats(handed, queue, Drained, Baselined)
      /\ AllSeen(handed, queue, Drained, Baselined, cursor)
  BY DEF FeedInv
<1>6. /\ NoRepeat(<<>>) /\ SeenBy(<<>>, cursor)
      /\ \A s \in {handed, queue, Drained, Baselined} : Apart(s, <<>>)
  BY NothingInNone
<1>7. /\ passes' \in [Passes -> ReadPasses]
      /\ queue' \in Seq(Ticks) /\ handed' \in Seq(Ticks) /\ applying' \in BOOLEAN
      /\ \A q \in Passes : passes'[q].answer # None => passes'[q].todo # {}
      /\ NothingRepeats(handed, queue, Drained, Baselined)'
      /\ AllSeen(handed', queue', Drained', Baselined', cursor)
  BY <1>1, <1>2, <1>3, <1>4, <1>5, <1>6, PassGoesOn
<1>8. BooksFollowCursors'
  BY <1>1 DEF BooksFollowCursors
<1>9. FeedTypeOK'
  BY <1>1, <1>7 DEF FeedTypeOK
<1> QED
  BY <1>7, <1>8, <1>9 DEF FeedInv

LEMMA RestartKeeps ==
    ASSUME FeedInv, Restart
    PROVE  FeedInv'
<1>1. FeedTypeOK /\ losses' \in 0 .. MaxLosses
  BY LossIsTyped DEF FeedInv, FeedTypeOK, Restart
<1>2. Idle \in ReadPasses /\ <<>> \in Seq(Ticks)
  BY DEF Idle, ReadPasses
<1>3. <<>> \in Seq([of : Instruments, payload : Projections])
  OBVIOUS
<1>4. passes' \in [Passes -> ReadPasses] /\ book' \in [Instruments -> Nat \cup {None}]
  BY <1>2 DEF Restart
<1>5. FeedTypeOK'
  BY <1>1, <1>2, <1>3, <1>4 DEF FeedTypeOK, Restart
<1>6. Drained' = <<>> /\ Baselined' = <<>> /\ handed' = <<>> /\ queue' = <<>>
  BY DEF Restart, Drained, Baselined, Passes, Idle
<1>7. \A p \in Passes : passes'[p].answer = None
  BY DEF Restart, Idle
<1>8. BooksFollowCursors'
  BY DEF Restart, BooksFollowCursors
<1> QED
  BY <1>5, <1>6, <1>7, <1>8, NothingInNone DEF FeedInv, NothingRepeats, AllSeen

LEMMA StepKeepsFeedInv == FeedInv /\ [FeedNext]_feedVars => FeedInv'
<1> SUFFICES ASSUME FeedInv, [FeedNext]_feedVars PROVE FeedInv'
  OBVIOUS
<1>1. ASSUME NEW i \in Instruments, NEW booked \in BOOLEAN, Publish(i, booked) PROVE FeedInv'
  BY <1>1, PublishKeeps
<1>2. ASSUME NEW p \in Passes, ReadAnswered(p) PROVE FeedInv'
  BY <1>2, ReadAnsweredKeeps
<1>3. ASSUME NEW p \in Passes, ReadObserved(p) PROVE FeedInv'
  BY <1>3, ReadObservedKeeps
<1>4. ASSUME NEW p \in Passes, ReadFailed(p) PROVE FeedInv'
  <2>1. losses' \in 0 .. MaxLosses
    BY <1>4, LossIsTyped DEF ReadFailed, FeedInv, FeedTypeOK
  <2>2. passes[p].todo \ {Min(passes[p].todo)} \in SUBSET Instruments
    BY DEF FeedInv, FeedTypeOK, ReadPasses
  <2> QED
    BY <1>4, <2>1, <2>2, SilentPassKeeps DEF ReadFailed
<1>5. CASE BeginDrain
  <2>1. passes["drain"].ticks = <<>> /\ "drain" \in Passes
    BY <1>5 DEF BeginDrain, Idle, Passes
  <2>2. losses' \in 0 .. MaxLosses
    BY <1>5 DEF BeginDrain, FeedInv, FeedTypeOK
  <2>3. {i \in Instruments : Stale(i)} \in SUBSET Instruments
    OBVIOUS
  <2> QED
    BY <1>5, <2>1, <2>2, <2>3, SilentPassKeeps DEF BeginDrain
<1>6. CASE UNCHANGED feedVars
  <2>1. FeedTypeOK'
    BY <1>6 DEF feedVars, FeedInv, FeedTypeOK
  <2> QED
    BY <1>6, <2>1, TicksStay DEF feedVars, FeedInv
<1> QED
  BY <1>1, <1>2, <1>3, <1>4, <1>5, <1>6, QuietStepsKeep, ObserveFrameKeeps, RestartKeeps
  DEF FeedNext

\* The cursors have seen every tick made since the process began, and no two of
\* the places a tick can be share one (feed/quote-ticker.ts, one ticker for both paths).
THEOREM FeedInvariant == FeedSpec => []FeedInv
BY InitFeedInv, StepKeepsFeedInv, PTL DEF FeedSpec

\* The feed's state is well typed.
THEOREM FeedIsTyped == FeedSpec => []FeedTypeOK
<1>1. FeedInv => FeedTypeOK
  BY DEF FeedInv
<1> QED
  BY <1>1, FeedInvariant, PTL

\* Whatever the instruments, their number and the faults, a market version makes
\* one tick of an instrument at most, and no tick states a book of an earlier epoch.
THEOREM TicksAreAlwaysNew == FeedSpec => []TicksAreNew
<1>1. ASSUME FeedInv PROVE TicksAreNew
  <2>1. /\ handed \in Seq(Ticks) /\ queue \in Seq(Ticks)
        /\ Drained \in Seq(Ticks) /\ Baselined \in Seq(Ticks)
    BY <1>1 DEF FeedInv, FeedTypeOK, Drained, Baselined, Passes, ReadPasses
  <2>2. Made = handed \o queue \o Drained \o Baselined
    BY DEF Made, Drained, Baselined
  <2>3. NoRepeat(Made)
    BY <1>1, <2>1, <2>2, PlacesJoin DEF FeedInv
  <2>4. SeenBy(Made, cursor)
    <3>1. /\ handed \o queue \in Seq(Ticks) /\ handed \o queue \o Drained \in Seq(Ticks)
      BY <2>1
    <3>2. SeenBy(handed \o queue, cursor)
      BY <1>1, <2>1, SeenInBoth DEF FeedInv, AllSeen
    <3>3. SeenBy(handed \o queue \o Drained, cursor)
      BY <1>1, <2>1, <3>1, <3>2, SeenInBoth DEF FeedInv, AllSeen
    <3> QED
      BY <1>1, <2>1, <2>2, <3>1, <3>3, SeenInBoth DEF FeedInv, AllSeen
  <2> QED
    BY <2>3, <2>4, Zenon DEF TicksAreNew, NoRepeat, SameTick, SeenBy
<1> QED
  BY <1>1, FeedInvariant, PTL

-----------------------------------------------------------------------------
(* The replay: arithmetic                                                  *)

LEMMA Products ==
    ASSUME NEW a \in Nat, NEW b \in Nat
    PROVE  a * b \in Nat
OBVIOUS

LEMMA LargerProduct ==
    ASSUME NEW a \in Nat, NEW b \in Nat, NEW c \in Nat, b <= c
    PROVE  a * b <= a * c
<1>1. a * (c - b) \in Nat
  BY Products
<1>2. a * (c - b) = a * c - a * b
  OBVIOUS
<1> QED
  BY <1>1, <1>2, Products

LEMMA PositiveProduct ==
    ASSUME NEW a \in Positive, NEW b \in Positive
    PROVE  a * b \in Positive
<1>1. a * (b - 1) \in Nat
  BY Products DEF Positive
<1>2. a * b = a * (b - 1) + a
  BY DEF Positive
<1> QED
  BY <1>1, <1>2 DEF Positive

\* Whatever the mode, a natural is rounded to a natural.
LEMMA Rounds ==
    ASSUME NEW a \in Nat, NEW b \in Positive, NEW mode
    PROVE  Rounded(mode, a, b) \in Nat
<1> DEFINE x == a \div b
<1>1. b \in Nat /\ b > 0 /\ x \in Int
  BY DEF Positive
<1>2. a < b * x + b
  BY <1>1
<1> HIDE DEF x
<1>3. x >= 0
  <2> SUFFICES ASSUME x + 1 <= 0 PROVE FALSE
    BY <1>1
  <2>1. b * (-(x + 1)) \in Nat
    BY <1>1, Products
  <2>2. b * (-(x + 1)) = -(b * x) - b
    BY <1>1
  <2> QED
    BY <1>1, <1>2, <2>1, <2>2
<1>4. Rounded(mode, a, b) \in {x, x + 1}
  BY DEF Rounded, x
<1> QED
  BY <1>1, <1>3, <1>4

LEMMA LesserOfTwo ==
    ASSUME NEW a \in Int, NEW b \in Int
    PROVE  /\ Min({a, b}) \in {a, b} /\ Min({a, b}) <= a /\ Min({a, b}) <= b
<1>1. \E x \in {a, b} : \A y \in {a, b} : x <= y
  OBVIOUS
<1> QED
  BY <1>1 DEF Min

\* A fee is a natural.
LEMMA FeeIs ==
    ASSUME NEW notional \in Nat, NEW side
    PROVE  Fee(side, notional) \in Nat
<1>1. /\ Commission \in Nat /\ SellTax \in Nat /\ Rate \in Positive /\ FeeUnit \in Positive
  BY BacktestAssumption DEF PlanValid, FeeScheduleValid
<1> DEFINE rate == Commission + IF side = "SELL" THEN SellTax ELSE 0
           units == Rounded(RoundingMode, notional * rate, Rate * FeeUnit)
<1>2. rate \in Nat
  BY <1>1
<1> HIDE DEF rate
<1>3. notional * rate \in Nat /\ Rate * FeeUnit \in Positive
  BY <1>1, <1>2, Products, PositiveProduct
<1>4. units \in Nat
  BY <1>3, Rounds
<1> HIDE DEF units
<1>5. FeeUnit * units \in Nat
  BY <1>1, <1>4, Products DEF Positive
<1> QED
  BY <1>5 DEF Fee, units, rate

-----------------------------------------------------------------------------
(* Sums over the resting orders                                            *)

\* What holds of zero, and of each number if of the one before, holds up to n.
LEMMA CountedUp ==
    ASSUME NEW S, NEW n \in Nat, 0 \in S, \A k \in 1 .. n : k - 1 \in S => k \in S
    PROVE  \A k \in 0 .. n : k \in S
<1> DEFINE T == {k \in 0 .. n : k \notin S}
<1> SUFFICES ASSUME T # {} PROVE FALSE
  OBVIOUS
<1>0. T \in SUBSET Nat
  OBVIOUS
<1>1. PICK k \in T : \A y \in T : k <= y
  <2> HIDE DEF T
  <2> QED
    BY <1>0, LeastNatural
<1>2. k # 0
  BY <1>1
<1>3. k - 1 \in 0 .. n /\ k - 1 \notin T /\ k \in 1 .. n
  BY <1>1, <1>2
<1> QED
  BY <1>1, <1>3


\* f sums the first k members of s, one after another.
SumsTo(f, s, k) == f = [n \in 0 .. k |-> IF n = 0 THEN 0 ELSE f[n - 1] + s[n]]
SumsOf(f, s) == SumsTo(f, s, Len(s))

LEMMA SumsExist ==
    ASSUME NEW s, Len(s) \in Nat
    PROVE  \E f : SumsOf(f, s)
<1> DEFINE S == {k \in 0 .. Len(s) : \E f : SumsTo(f, s, k)}
<1>1. 0 \in S
  <2>1. SumsTo([n \in 0 .. 0 |-> 0], s, 0)
    BY DEF SumsTo
  <2> QED
    BY <2>1
<1>2. ASSUME NEW k \in 1 .. Len(s), k - 1 \in S PROVE k \in S
  <2>1. PICK f : SumsTo(f, s, k - 1)
    BY <1>2
  <2> DEFINE g == [n \in 0 .. k |-> IF n = k THEN f[k - 1] + s[k] ELSE f[n]]
             h == [n \in 0 .. k |-> IF n = 0 THEN 0 ELSE g[n - 1] + s[n]]
  <2>2. ASSUME NEW n \in 0 .. k PROVE g[n] = h[n]
    <3>1. CASE n = k
      <4>1. g[n] = f[k - 1] + s[k]
        BY <3>1
      <4>2. k - 1 \in 0 .. k /\ k - 1 # k /\ n # 0
        BY <3>1
      <4>3. g[k - 1] = f[k - 1]
        BY <4>2
      <4>4. h[n] = g[k - 1] + s[k]
        BY <3>1, <4>2
      <4> QED
        BY <4>1, <4>3, <4>4
    <3>2. CASE n # k
      <4>1. n \in 0 .. k - 1 /\ (n # 0 => n - 1 \in 0 .. k /\ n - 1 # k)
        BY <3>2
      <4>2. f[n] = IF n = 0 THEN 0 ELSE f[n - 1] + s[n]
        BY <2>1, <4>1 DEF SumsTo
      <4>3. n # 0 => g[n - 1] = f[n - 1]
        BY <4>1
      <4>4. g[n] = f[n] /\ h[n] = IF n = 0 THEN 0 ELSE g[n - 1] + s[n]
        BY <3>2
      <4> QED
        BY <4>2, <4>3, <4>4
    <3> QED
      BY <3>1, <3>2
  <2>3. g = h
    BY <2>2
  <2> HIDE DEF g
  <2>4. SumsTo(g, s, k)
    BY <2>3 DEF SumsTo
  <2> QED
    BY <2>4
<1> HIDE DEF S
<1>3. \A k \in 0 .. Len(s) : k \in S
  BY <1>1, <1>2, CountedUp, Zenon
<1>4. Len(s) \in S
  BY <1>3
<1> QED
  BY <1>4 DEF S, SumsOf

\* A total is the last of the sums, which do not fall.
LEMMA TotalSums ==
    ASSUME NEW s \in Seq(Nat)
    PROVE  \E f : /\ SumsOf(f, s) /\ Total(s) = f[Len(s)]
                  /\ f \in [0 .. Len(s) -> Nat]
                  /\ \A n \in 0 .. Len(s) : f[n] <= f[Len(s)]
<1> DEFINE f == CHOOSE f : SumsOf(f, s)
<1>1. SumsOf(f, s)
  BY SumsExist
<1>2. Total(s) = f[Len(s)]
  BY Zenon DEF Total, SumsOf, SumsTo
<1> HIDE DEF f
<1>3. /\ f[0] = 0 /\ DOMAIN f = 0 .. Len(s)
      /\ \A n \in 1 .. Len(s) : f[n] = f[n - 1] + s[n]
  BY <1>1 DEF SumsOf, SumsTo
<1>4. Len(s) \in Nat /\ \A n \in 1 .. Len(s) : s[n] \in Nat
  OBVIOUS
<1>5. \A n \in 0 .. Len(s) : f[n] \in Nat
  <2> DEFINE S == {n \in 0 .. Len(s) : f[n] \in Nat}
  <2>1. 0 \in S /\ \A n \in 1 .. Len(s) : n - 1 \in S => n \in S
    BY <1>3, <1>4
  <2> HIDE DEF S
  <2>2. \A n \in 0 .. Len(s) : n \in S
    BY <1>4, <2>1, CountedUp, Zenon
  <2> QED
    BY <2>2 DEF S
<1>6. \A n \in 0 .. Len(s) : f[Len(s) - n] <= f[Len(s)]
  <2> DEFINE S == {n \in 0 .. Len(s) : f[Len(s) - n] <= f[Len(s)]}
  <2>1. 0 \in S
    BY <1>5
  <2>2. ASSUME NEW n \in 1 .. Len(s), n - 1 \in S PROVE n \in S
    <3>1. Len(s) - (n - 1) \in 1 .. Len(s)
      OBVIOUS
    <3>2. f[Len(s) - (n - 1)] = f[Len(s) - (n - 1) - 1] + s[Len(s) - (n - 1)]
      BY <1>3, <3>1
    <3>3. Len(s) - (n - 1) - 1 = Len(s) - n
      OBVIOUS
    <3> QED
      BY <1>4, <1>5, <2>2, <3>1, <3>2, <3>3
  <2> HIDE DEF S
  <2>3. \A n \in 0 .. Len(s) : n \in S
    BY <1>4, <2>1, <2>2, CountedUp, Zenon
  <2> QED
    BY <2>3 DEF S
<1>7. \A n \in 0 .. Len(s) : Len(s) - n \in 0 .. Len(s) /\ Len(s) - (Len(s) - n) = n
  OBVIOUS
<1>8. f = [n \in 0 .. Len(s) |-> f[n]]
  BY <1>1 DEF SumsOf, SumsTo
<1>9. f \in [0 .. Len(s) -> Nat]
  BY <1>5, <1>8
<1>10. \A n \in 0 .. Len(s) : f[n] <= f[Len(s)]
  BY <1>6, <1>7
<1> QED
  BY <1>1, <1>2, <1>9, <1>10

LEMMA TotalType ==
    ASSUME NEW s \in Seq(Nat)
    PROVE  Total(s) \in Nat
BY TotalSums

LEMMA TotalOfNone == Total(<<>>) = 0
<1>1. PICK f : SumsOf(f, <<>>) /\ Total(<<>>) = f[Len(<<>>)]
  <2>1. <<>> \in Seq(Nat)
    OBVIOUS
  <2> QED
    BY <2>1, TotalSums, Zenon
<1> QED
  BY <1>1 DEF SumsOf, SumsTo

LEMMA TotalAppend ==
    ASSUME NEW s \in Seq(Nat), NEW e \in Nat
    PROVE  Total(Append(s, e)) = Total(s) + e
<1> DEFINE t == Append(s, e)
<1>1. Len(s) \in Nat /\ t \in Seq(Nat) /\ Len(t) = Len(s) + 1 /\ t[Len(s) + 1] = e
      /\ \A n \in 1 .. Len(s) : t[n] = s[n]
  OBVIOUS
<1> HIDE DEF t
<1>2. PICK f : SumsOf(f, s) /\ Total(s) = f[Len(s)]
  BY TotalSums
<1>3. PICK g : SumsOf(g, t) /\ Total(t) = g[Len(t)]
  BY <1>1, TotalSums
<1>4. \A n \in 0 .. Len(s) : f[n] = g[n]
  <2> DEFINE S == {n \in 0 .. Len(s) : f[n] = g[n]}
  <2>1. 0 \in S
    BY <1>1, <1>2, <1>3 DEF SumsOf, SumsTo
  <2>2. ASSUME NEW n \in 1 .. Len(s), n - 1 \in S PROVE n \in S
    <3>1. f[n] = f[n - 1] + s[n]
      BY <1>2 DEF SumsOf, SumsTo
    <3>2. g[n] = g[n - 1] + t[n]
      <4>1. n \in 0 .. Len(t) /\ n # 0
        BY <1>1
      <4> QED
        BY <1>3, <4>1 DEF SumsOf, SumsTo
    <3> QED
      BY <1>1, <2>2, <3>1, <3>2
  <2> HIDE DEF S
  <2>3. \A n \in 0 .. Len(s) : n \in S
    BY <1>1, <2>1, <2>2, CountedUp, Zenon
  <2> QED
    BY <2>3 DEF S
<1>5. g[Len(t)] = g[Len(s)] + e
  BY <1>1, <1>3 DEF SumsOf, SumsTo
<1> QED
  BY <1>2, <1>3, <1>4, <1>5 DEF t

\* s without its i-th member.
LEMMA Without ==
    ASSUME NEW S, NEW s \in Seq(S), NEW i \in 1 .. Len(s)
    PROVE  /\ RemoveAt(s, i) \in Seq(S) /\ Len(s) = Len(RemoveAt(s, i)) + 1
           /\ \A n \in 1 .. Len(RemoveAt(s, i)) :
                 RemoveAt(s, i)[n] = IF n < i THEN s[n] ELSE s[n + 1]
<1> DEFINE front == SubSeq(s, 1, i - 1)
           back == SubSeq(s, i + 1, Len(s))
<1>1. /\ front \in Seq(S) /\ Len(front) = i - 1
      /\ \A n \in 1 .. Len(front) : front[n] = s[n]
  OBVIOUS
<1>2. /\ back \in Seq(S) /\ Len(back) = Len(s) - i
      /\ \A n \in 1 .. Len(back) : back[n] = s[i + n]
  OBVIOUS
<1>3. RemoveAt(s, i) = front \o back
  BY DEF RemoveAt
<1> HIDE DEF front, back
<1>4. /\ front \o back \in Seq(S) /\ Len(front \o back) = Len(front) + Len(back)
      /\ \A n \in 1 .. Len(front) + Len(back) :
            (front \o back)[n] = IF n <= Len(front) THEN front[n] ELSE back[n - Len(front)]
  <2>1. front \in Seq(S) /\ back \in Seq(S)
    BY <1>1, <1>2
  <2> QED
    BY <2>1
<1>5. Len(s) = Len(RemoveAt(s, i)) + 1
  BY <1>1, <1>2, <1>3, <1>4
<1>6. ASSUME NEW n \in 1 .. Len(RemoveAt(s, i))
      PROVE  RemoveAt(s, i)[n] = IF n < i THEN s[n] ELSE s[n + 1]
  <2>1. n \in 1 .. Len(front) + Len(back)
    BY <1>3, <1>4
  <2>2. CASE n < i
    <3>1. n <= Len(front) /\ n \in 1 .. Len(front)
      BY <1>1, <2>1, <2>2
    <3> QED
      BY <1>1, <1>3, <1>4, <2>1, <2>2, <3>1
  <2>3. CASE ~ (n < i)
    <3>1. /\ ~ (n <= Len(front)) /\ n - Len(front) \in 1 .. Len(back)
          /\ i + (n - Len(front)) = n + 1
      BY <1>1, <1>2, <2>1, <2>3
    <3>2. back[n - Len(front)] = s[n + 1]
      BY <1>2, <3>1
    <3> QED
      BY <1>3, <1>4, <2>1, <2>3, <3>1, <3>2
  <2> QED
    BY <2>2, <2>3
<1> QED
  BY <1>3, <1>4, <1>5, <1>6

LEMMA TotalRemoved ==
    ASSUME NEW s \in Seq(Nat), NEW i \in 1 .. Len(s)
    PROVE  Total(s) = s[i] + Total(RemoveAt(s, i))
<1> DEFINE t == RemoveAt(s, i)
           Moved(n) == IF n < i THEN n ELSE n + 1
           Less(n) == IF n < i THEN 0 ELSE s[i]
<1>1. /\ t \in Seq(Nat) /\ Len(s) = Len(t) + 1
      /\ \A n \in 1 .. Len(t) : t[n] = IF n < i THEN s[n] ELSE s[n + 1]
  BY Without
<1>2. /\ Len(t) \in Nat /\ Len(s) \in Nat /\ i \in Nat /\ i >= 1 /\ i <= Len(s)
      /\ s[i] \in Nat /\ \A n \in 1 .. Len(t) : t[n] \in Nat
  BY <1>1
<1> HIDE DEF t
<1>3. PICK f : SumsOf(f, s) /\ Total(s) = f[Len(s)] /\ f \in [0 .. Len(s) -> Nat]
  BY TotalSums
<1>4. PICK g : SumsOf(g, t) /\ Total(t) = g[Len(t)] /\ g \in [0 .. Len(t) -> Nat]
  BY <1>1, TotalSums
<1>5. /\ f[0] = 0 /\ g[0] = 0
      /\ \A n \in 1 .. Len(s) : f[n] = f[n - 1] + s[n]
      /\ \A n \in 1 .. Len(t) : g[n] = g[n - 1] + t[n]
  <2>1. /\ \A n \in 1 .. Len(s) : n \in 0 .. Len(s) /\ n # 0
        /\ \A n \in 1 .. Len(t) : n \in 0 .. Len(t) /\ n # 0
        /\ 0 \in 0 .. Len(s) /\ 0 \in 0 .. Len(t)
    BY <1>2
  <2>2. f[0] = 0 /\ \A n \in 1 .. Len(s) : f[n] = f[n - 1] + s[n]
    BY <1>3, <2>1 DEF SumsOf, SumsTo
  <2>3. g[0] = 0 /\ \A n \in 1 .. Len(t) : g[n] = g[n - 1] + t[n]
    BY <1>4, <2>1 DEF SumsOf, SumsTo
  <2> QED
    BY <2>2, <2>3
<1>6. \A n \in 0 .. Len(t) : f[Moved(n)] = g[n] + Less(n)
  <2> DEFINE S == {n \in 0 .. Len(t) : f[Moved(n)] = g[n] + Less(n)}
  <2>1. 0 \in S
    <3>1. Moved(0) = 0 /\ Less(0) = 0 /\ 0 \in 0 .. Len(t)
      BY <1>2
    <3> HIDE DEF Moved, Less
    <3> QED
      BY <1>5, <3>1
  <2>2. ASSUME NEW n \in 1 .. Len(t), n - 1 \in S PROVE n \in S
    <3>1. g[n - 1] \in Nat /\ t[n] \in Nat /\ g[n] = g[n - 1] + t[n] /\ n \in 0 .. Len(t)
      <4>1. n - 1 \in 0 .. Len(t) /\ n \in 0 .. Len(t)
        BY <1>2
      <4>2. g[n - 1] \in Nat
        BY <1>4, <4>1
      <4>3. t[n] \in Nat /\ g[n] = g[n - 1] + t[n]
        BY <1>2, <1>5
      <4> QED
        BY <4>1, <4>2, <4>3
    <3>2. f[Moved(n - 1)] = g[n - 1] + Less(n - 1)
      BY <2>2
    <3>3. CASE n < i
      <4>1. /\ Moved(n - 1) = n - 1 /\ Less(n - 1) = 0 /\ Moved(n) = n /\ Less(n) = 0
            /\ n \in 1 .. Len(s) /\ t[n] = s[n]
        BY <1>1, <1>2, <3>3
      <4>2. f[n] = f[n - 1] + s[n]
        BY <1>5, <4>1
      <4> HIDE DEF Moved, Less
      <4>3. f[Moved(n)] = g[n] + Less(n)
        BY <3>1, <3>2, <4>1, <4>2
      <4> QED
        BY <3>1, <4>3
    <3>4. CASE n = i
      <4>1. /\ Moved(n - 1) = n - 1 /\ Less(n - 1) = 0 /\ Moved(n) = n + 1 /\ Less(n) = s[i]
            /\ n \in 1 .. Len(s) /\ n + 1 \in 1 .. Len(s) /\ t[n] = s[n + 1] /\ n + 1 - 1 = n
        BY <1>1, <1>2, <3>4
      <4>2. f[n] = f[n - 1] + s[n] /\ f[n + 1] = f[n] + s[n + 1]
        BY <1>5, <4>1
      <4> HIDE DEF Moved, Less
      <4>3. f[Moved(n)] = g[n] + Less(n)
        BY <1>2, <3>1, <3>2, <3>4, <4>1, <4>2
      <4> QED
        BY <3>1, <4>3
    <3>5. CASE n > i
      <4>1. /\ Moved(n - 1) = n /\ Less(n - 1) = s[i] /\ Moved(n) = n + 1 /\ Less(n) = s[i]
            /\ n + 1 \in 1 .. Len(s) /\ t[n] = s[n + 1] /\ n + 1 - 1 = n
        BY <1>1, <1>2, <3>5
      <4>2. f[n + 1] = f[n] + s[n + 1]
        BY <1>5, <4>1
      <4> HIDE DEF Moved, Less
      <4>3. f[Moved(n)] = g[n] + Less(n)
        BY <1>2, <3>1, <3>2, <4>1, <4>2
      <4> QED
        BY <3>1, <4>3
    <3> QED
      BY <1>2, <3>3, <3>4, <3>5
  <2> HIDE DEF S
  <2>3. \A n \in 0 .. Len(t) : n \in S
    BY <1>2, <2>1, <2>2, CountedUp, Zenon
  <2> QED
    BY <2>3 DEF S
<1>7. f[Moved(Len(t))] = g[Len(t)] + Less(Len(t))
  BY <1>2, <1>6
<1>8. CASE Len(t) < i
  <2>1. /\ Moved(Len(t)) = Len(t) /\ Less(Len(t)) = 0 /\ i = Len(s) /\ i \in 1 .. Len(s)
        /\ i - 1 = Len(t)
    BY <1>1, <1>2, <1>8
  <2>2. f[i] = f[i - 1] + s[i]
    BY <1>5, <2>1
  <2> HIDE DEF Moved, Less
  <2>3. g[Len(t)] \in Nat
    BY <1>2, <1>4
  <2> QED
    BY <1>2, <1>3, <1>4, <1>7, <2>1, <2>2, <2>3 DEF t
<1>9. CASE ~ (Len(t) < i)
  <2>1. Moved(Len(t)) = Len(s) /\ Less(Len(t)) = s[i]
    BY <1>1, <1>2, <1>9
  <2> HIDE DEF Moved, Less
  <2>2. g[Len(t)] \in Nat
    BY <1>2, <1>4
  <2> QED
    BY <1>2, <1>3, <1>4, <1>7, <2>1, <2>2 DEF t
<1> QED
  BY <1>8, <1>9

-----------------------------------------------------------------------------
(* What a fill, a reservation and its release do to the account            *)

Orders == [id : Nat, side : {"BUY", "SELL"}, quantity : Positive, limit : Positive]

Settlements ==
    [side : {"BUY", "SELL"}, price : Positive, quantity : Positive, held : Nat]

Accounts == [cash : Nat, reserved : Nat, quantity : Nat, cost : Nat, realised : Int,
             today : Int, losses : Nat, thrown : SUBSET Settlements]

\* An account whose books balance, or in which a sale was not worth its fee.
Sound(a) ==
    /\ a \in Accounts
    /\ a.thrown = {} => a.cash + a.reserved + a.cost = Cash + a.realised
    /\ \A sale \in a.thrown : Overdraws(sale, a.cash)
    /\ a.quantity = 0 => a.cost = 0

LEMMA CashIsNatural == Cash \in Nat
BY BacktestAssumption DEF PlanValid

LEMMA CostRemovedIs ==
    ASSUME NEW a \in Accounts, NEW quantity \in Positive, quantity <= a.quantity
    PROVE  /\ CostRemoved(a, quantity) \in 0 .. a.cost
           /\ quantity = a.quantity => CostRemoved(a, quantity) = a.cost
<1> DEFINE r == CostUnit * Rounded("HALF_UP", a.cost * quantity, a.quantity * CostUnit)
<1>1. a.cost \in Nat /\ a.quantity \in Positive /\ quantity \in Nat /\ CostUnit \in Positive
  BY BacktestAssumption DEF Accounts, Positive, PlanValid, FeeScheduleValid
<1>2. a.cost * quantity \in Nat /\ a.quantity * CostUnit \in Positive
  BY <1>1, Products, PositiveProduct
<1>3. Rounded("HALF_UP", a.cost * quantity, a.quantity * CostUnit) \in Nat
  BY <1>2, Rounds
<1>4. r \in Nat
  BY <1>1, <1>3, Products DEF Positive
<1> HIDE DEF r
<1>5. Min({a.cost, r}) \in 0 .. a.cost
  <2>1. a.cost \in Int /\ r \in Int
    BY <1>1, <1>4
  <2>2. Min({a.cost, r}) \in {a.cost, r} /\ Min({a.cost, r}) <= a.cost
    BY <2>1, LesserOfTwo
  <2> QED
    BY <1>1, <1>4, <2>2
<1> QED
  BY <1>1, <1>5 DEF CostRemoved, r

LEMMA Bought ==
    ASSUME NEW a, Sound(a), a.thrown = {}, NEW price \in Positive, NEW quantity \in Positive,
           CostOf("BUY", price, quantity) <= a.cash
    PROVE  LET b == Settle(a, "BUY", price, quantity) IN
           /\ Sound(b) /\ b.reserved = a.reserved /\ b.thrown = {}
           /\ b.quantity = a.quantity + quantity
           /\ b.cash = a.cash - CostOf("BUY", price, quantity)
<1> DEFINE notional == price * quantity
           fee == Fee("BUY", notional)
           b == Settle(a, "BUY", price, quantity)
<1>1. a \in Accounts /\ quantity \in Nat /\ quantity > 0
  BY DEF Sound, Positive
<1>2. notional \in Nat
  BY Products DEF Positive
<1>3. fee \in Nat
  BY <1>2, FeeIs
<1>4. CostOf("BUY", price, quantity) = notional + fee
  BY DEF CostOf
<1>5. b = [ApplyFillToPosition(a, "BUY", notional, fee, quantity) EXCEPT
             !.cash = a.cash + -(notional + fee)]
  <2>1. ~ (a.cash + -(notional + fee) < 0)
    BY <1>1, <1>2, <1>3, <1>4 DEF Accounts
  <2> QED
    BY <2>1 DEF Settle
<1> HIDE DEF notional, fee, b
<1>6. b = [a EXCEPT !.quantity = a.quantity + quantity, !.cost = a.cost + notional + fee,
                    !.cash = a.cash + -(notional + fee)]
  BY <1>1, <1>5 DEF ApplyFillToPosition, Accounts
<1>7. /\ a.cash \in Nat /\ a.reserved \in Nat /\ a.quantity \in Nat /\ a.cost \in Nat
      /\ a.realised \in Int /\ a.today \in Int /\ a.losses \in Nat /\ a.thrown = {}
  BY <1>1 DEF Accounts
<1>8. /\ b.quantity = a.quantity + quantity /\ b.cost = a.cost + notional + fee
      /\ b.cash = a.cash + -(notional + fee) /\ b.reserved = a.reserved
      /\ b.realised = a.realised /\ b.thrown = {}
  BY <1>1, <1>6 DEF Accounts
<1>9. b \in Accounts
  <2>1. /\ a.quantity + quantity \in Nat /\ a.cost + notional + fee \in Nat
        /\ a.cash + -(notional + fee) \in Nat
    BY <1>1, <1>2, <1>3, <1>4, <1>7
  <2> QED
    BY <1>1, <1>6, <2>1 DEF Accounts
<1>10. b.cash + b.reserved + b.cost = Cash + b.realised
  BY <1>2, <1>3, <1>7, <1>8, CashIsNatural DEF Sound
<1>11. b.quantity # 0
  BY <1>1, <1>7, <1>8
<1>12. b.cash = a.cash - CostOf("BUY", price, quantity)
  BY <1>2, <1>3, <1>4, <1>7, <1>8
<1> QED
  BY <1>8, <1>9, <1>10, <1>11, <1>12 DEF Sound, b

\* A sale of what is held leaves the books balanced, or throws for its fee.
LEMMA Sold ==
    ASSUME NEW a, Sound(a), a.thrown = {}, NEW price \in Positive, NEW quantity \in Positive,
           quantity <= a.quantity
    PROVE  LET b == Settle(a, "SELL", price, quantity) IN
           /\ Sound(b) /\ b.reserved = a.reserved
           /\ b.quantity = a.quantity - quantity
<1> DEFINE notional == price * quantity
           fee == Fee("SELL", notional)
           removed == CostRemoved(a, quantity)
           delta == notional - fee - removed
           inRow == IF delta < 0 THEN a.losses + 1 ELSE 0
           filled == ApplyFillToPosition(a, "SELL", notional, fee, quantity)
           sale == [side |-> "SELL", price |-> price, quantity |-> quantity, held |-> a.quantity]
           b == Settle(a, "SELL", price, quantity)
<1>1. a \in Accounts /\ quantity \in Nat /\ quantity > 0
  BY DEF Sound, Positive
<1>2. notional \in Nat
  BY Products DEF Positive
<1>3. fee \in Nat
  BY <1>2, FeeIs
<1>4. removed \in 0 .. a.cost /\ (quantity = a.quantity => removed = a.cost)
  BY <1>1, CostRemovedIs
<1>5. /\ a.cash \in Nat /\ a.reserved \in Nat /\ a.quantity \in Nat /\ a.cost \in Nat
      /\ a.realised \in Int /\ a.today \in Int /\ a.losses \in Nat /\ a.thrown = {}
  BY <1>1 DEF Accounts
<1>6. b = IF a.cash + (notional - fee) < 0
          THEN [filled EXCEPT !.today = a.today, !.losses = a.losses, !.thrown = {sale}]
          ELSE [filled EXCEPT !.cash = a.cash + (notional - fee)]
  <2>1. ~ (quantity > a.quantity)
    BY <1>1, <1>5
  <2> QED
    BY <2>1 DEF Settle
<1>7. filled =
        [a EXCEPT !.quantity = a.quantity - quantity, !.cost = a.cost - removed,
                  !.realised = a.realised + delta, !.today = a.today + delta, !.losses = inRow]
  BY <1>1 DEF ApplyFillToPosition, Accounts
<1>8. delta \in Int /\ inRow \in Nat
  BY <1>2, <1>3, <1>4, <1>5
<1>9. delta = notional - fee - removed
  OBVIOUS
<1>10. sale \in Settlements /\ sale.side = "SELL" /\ sale.quantity <= sale.held
       /\ sale.price * sale.quantity = notional
  BY <1>5 DEF Settlements
<1>11. fee = Fee("SELL", notional)
  OBVIOUS
<1> HIDE DEF notional, fee, removed, delta, inRow, filled, sale, b
<1>12. /\ a.quantity - quantity \in Nat /\ a.cost - removed \in Nat
       /\ a.realised + delta \in Int /\ a.today + delta \in Int
       /\ a.quantity - quantity = 0 => a.cost - removed = 0
  BY <1>1, <1>4, <1>5, <1>8
<1>13. CASE a.cash + (notional - fee) < 0
  <2>1. b = [a EXCEPT !.quantity = a.quantity - quantity, !.cost = a.cost - removed,
                      !.realised = a.realised + delta, !.thrown = {sale}]
    BY <1>1, <1>6, <1>7, <1>13 DEF Accounts
  <2>2. /\ b.quantity = a.quantity - quantity /\ b.cost = a.cost - removed
        /\ b.cash = a.cash /\ b.reserved = a.reserved /\ b.thrown = {sale}
    BY <1>1, <2>1 DEF Accounts
  <2>3. b \in Accounts
    <3>1. {sale} \in SUBSET Settlements
      BY <1>10
    <3> QED
      BY <1>1, <1>12, <2>1, <3>1 DEF Accounts
  <2>4. Overdraws(sale, b.cash)
    <3>1. notional + a.cash < fee
      BY <1>2, <1>3, <1>5, <1>13
    <3> QED
      BY <1>10, <1>11, <2>2, <3>1 DEF Overdraws
  <2> QED
    BY <1>12, <2>2, <2>3, <2>4 DEF Sound, b
<1>14. CASE ~ (a.cash + (notional - fee) < 0)
  <2>1. b = [a EXCEPT !.quantity = a.quantity - quantity, !.cost = a.cost - removed,
                      !.realised = a.realised + delta, !.today = a.today + delta,
                      !.losses = inRow, !.cash = a.cash + (notional - fee)]
    BY <1>1, <1>6, <1>7, <1>14 DEF Accounts
  <2>2. /\ b.quantity = a.quantity - quantity /\ b.cost = a.cost - removed
        /\ b.cash = a.cash + (notional - fee) /\ b.reserved = a.reserved
        /\ b.realised = a.realised + delta /\ b.thrown = {}
    BY <1>1, <1>5, <2>1 DEF Accounts
  <2>3. b \in Accounts
    <3>1. a.cash + (notional - fee) \in Nat
      BY <1>2, <1>3, <1>5, <1>14
    <3> QED
      BY <1>1, <1>8, <1>12, <2>1, <3>1 DEF Accounts
  <2>4. b.cash + b.reserved + b.cost = Cash + b.realised
    <3>1. a.cash + a.reserved + a.cost = Cash + a.realised
      BY <1>5 DEF Sound
    <3>2. removed \in Nat /\ a.cost - removed \in Nat
      BY <1>4, <1>5
    <3> QED
      BY <1>2, <1>3, <1>5, <1>8, <1>9, <2>2, <3>1, <3>2, CashIsNatural
  <2> QED
    BY <1>12, <2>2, <2>3, <2>4 DEF Sound, b
<1> QED
  BY <1>13, <1>14

LEMMA CostIsNatural ==
    ASSUME NEW price \in Positive, NEW quantity \in Positive
    PROVE  CostOf("BUY", price, quantity) \in Nat
<1>1. price * quantity \in Nat
  BY Products DEF Positive
<1> QED
  BY <1>1, FeeIs DEF CostOf

LEMMA OrderAmounts ==
    ASSUME NEW order \in Orders
    PROVE  ReservedCash(order) \in Nat /\ SoldBy(order) \in Nat
<1>1. order.limit \in Positive /\ order.quantity \in Positive
  BY DEF Orders
<1> QED
  BY <1>1, CostIsNatural DEF ReservedCash, SoldBy, Positive

LEMMA Released ==
    ASSUME NEW a, Sound(a), a.thrown = {}, NEW order \in Orders,
           ReservedCash(order) <= a.reserved
    PROVE  LET b == Release(a, order) IN
           /\ Sound(b) /\ b.thrown = {} /\ b.reserved = a.reserved - ReservedCash(order)
           /\ b.cash = a.cash + ReservedCash(order) /\ b.quantity = a.quantity
<1> DEFINE b == Release(a, order)
           c == ReservedCash(order)
<1>1. a \in Accounts /\ c \in Nat
  BY OrderAmounts DEF Sound
<1>2. /\ a.cash \in Nat /\ a.reserved \in Nat /\ a.quantity \in Nat /\ a.cost \in Nat
      /\ a.realised \in Int /\ a.thrown = {}
  BY <1>1 DEF Accounts
<1>3. b = [a EXCEPT !.cash = a.cash + c, !.reserved = a.reserved - c]
  BY <1>1 DEF Release, Accounts
<1>4. c <= a.reserved
  OBVIOUS
<1> HIDE DEF b, c
<1>5. /\ b.cash = a.cash + c /\ b.reserved = a.reserved - c /\ b.quantity = a.quantity
      /\ b.cost = a.cost /\ b.realised = a.realised /\ b.thrown = {}
  BY <1>1, <1>3 DEF Accounts
<1>6. b \in Accounts
  <2>1. a.cash + c \in Nat /\ a.reserved - c \in Nat
    BY <1>1, <1>2, <1>4
  <2> QED
    BY <1>1, <1>3, <2>1 DEF Accounts
<1>7. b.cash + b.reserved + b.cost = Cash + b.realised
  BY <1>1, <1>2, <1>5, CashIsNatural DEF Sound
<1>8. b.quantity = 0 => b.cost = 0
  BY <1>5 DEF Sound
<1> QED
  BY <1>5, <1>6, <1>7, <1>8 DEF Sound, b, c

LEMMA Reserved ==
    ASSUME NEW a, Sound(a), a.thrown = {}, NEW order \in Orders, ReservedCash(order) <= a.cash
    PROVE  LET b == Reserve(a, order) IN
           /\ Sound(b) /\ b.reserved = a.reserved + ReservedCash(order)
           /\ b.quantity = a.quantity
<1> DEFINE b == Reserve(a, order)
           c == ReservedCash(order)
<1>1. a \in Accounts /\ c \in Nat
  BY OrderAmounts DEF Sound
<1>2. /\ a.cash \in Nat /\ a.reserved \in Nat /\ a.quantity \in Nat /\ a.cost \in Nat
      /\ a.realised \in Int /\ a.thrown = {}
  BY <1>1 DEF Accounts
<1>3. b = [a EXCEPT !.cash = a.cash - c, !.reserved = a.reserved + c]
  BY <1>1 DEF Reserve, Accounts
<1>4. c <= a.cash
  OBVIOUS
<1> HIDE DEF b, c
<1>5. /\ b.cash = a.cash - c /\ b.reserved = a.reserved + c /\ b.quantity = a.quantity
      /\ b.cost = a.cost /\ b.realised = a.realised /\ b.thrown = {}
  BY <1>1, <1>3 DEF Accounts
<1>6. b \in Accounts
  <2>1. a.cash - c \in Nat /\ a.reserved + c \in Nat
    BY <1>1, <1>2, <1>4
  <2> QED
    BY <1>1, <1>3, <2>1 DEF Accounts
<1>7. b.cash + b.reserved + b.cost = Cash + b.realised
  BY <1>1, <1>2, <1>5, CashIsNatural DEF Sound
<1>8. b.quantity = 0 => b.cost = 0
  BY <1>5 DEF Sound
<1> QED
  BY <1>5, <1>6, <1>7, <1>8 DEF Sound, b, c

-----------------------------------------------------------------------------
(* The resting orders                                                      *)

LEMMA ReservedAmounts ==
    ASSUME NEW orders \in Seq(Orders)
    PROVE  /\ [n \in 1 .. Len(orders) |-> ReservedCash(orders[n])] \in Seq(Nat)
           /\ [n \in 1 .. Len(orders) |-> SoldBy(orders[n])] \in Seq(Nat)
           /\ TotalReserved(orders) \in Nat /\ ReservedQuantity(orders) \in Nat
<1>1. \A n \in 1 .. Len(orders) : ReservedCash(orders[n]) \in Nat /\ SoldBy(orders[n]) \in Nat
  <2> TAKE n \in 1 .. Len(orders)
  <2>1. orders[n] \in Orders
    OBVIOUS
  <2> QED
    BY <2>1, OrderAmounts
<1>2. Len(orders) \in Nat
  OBVIOUS
<1>3. /\ [n \in 1 .. Len(orders) |-> ReservedCash(orders[n])] \in Seq(Nat)
      /\ [n \in 1 .. Len(orders) |-> SoldBy(orders[n])] \in Seq(Nat)
  BY <1>1, <1>2
<1> QED
  BY <1>3, TotalType DEF TotalReserved, ReservedQuantity

LEMMA NothingRests == TotalReserved(<<>>) = 0 /\ ReservedQuantity(<<>>) = 0
<1>1. Len(<<>>) = 0
  OBVIOUS
<1>2. /\ [n \in 1 .. Len(<<>>) |-> ReservedCash(<<>>[n])] = <<>>
      /\ [n \in 1 .. Len(<<>>) |-> SoldBy(<<>>[n])] = <<>>
  BY <1>1
<1> QED
  BY <1>2, TotalOfNone DEF TotalReserved, ReservedQuantity

LEMMA OneMoreRests ==
    ASSUME NEW orders \in Seq(Orders), NEW order \in Orders
    PROVE  /\ Append(orders, order) \in Seq(Orders)
           /\ TotalReserved(Append(orders, order)) = TotalReserved(orders) + ReservedCash(order)
           /\ ReservedQuantity(Append(orders, order)) = ReservedQuantity(orders) + SoldBy(order)
<1> DEFINE more == Append(orders, order)
<1>1. /\ more \in Seq(Orders) /\ Len(orders) \in Nat /\ Len(more) = Len(orders) + 1
      /\ more[Len(more)] = order /\ \A n \in 1 .. Len(orders) : more[n] = orders[n]
  OBVIOUS
<1> HIDE DEF more
<1>2. [n \in 1 .. Len(more) |-> ReservedCash(more[n])] =
        Append([n \in 1 .. Len(orders) |-> ReservedCash(orders[n])], ReservedCash(order))
  BY <1>1
<1>3. [n \in 1 .. Len(more) |-> SoldBy(more[n])] =
        Append([n \in 1 .. Len(orders) |-> SoldBy(orders[n])], SoldBy(order))
  BY <1>1
<1>4. TotalReserved(more) = TotalReserved(orders) + ReservedCash(order)
  BY <1>2, ReservedAmounts, OrderAmounts, TotalAppend DEF TotalReserved
<1>5. ReservedQuantity(more) = ReservedQuantity(orders) + SoldBy(order)
  BY <1>3, ReservedAmounts, OrderAmounts, TotalAppend DEF ReservedQuantity
<1> QED
  BY <1>1, <1>4, <1>5 DEF more

LEMMA OneRestsNoMore ==
    ASSUME NEW orders \in Seq(Orders), NEW i \in 1 .. Len(orders)
    PROVE  /\ orders[i] \in Orders /\ RemoveAt(orders, i) \in Seq(Orders)
           /\ TotalReserved(orders) = ReservedCash(orders[i]) + TotalReserved(RemoveAt(orders, i))
           /\ ReservedQuantity(orders) = SoldBy(orders[i]) + ReservedQuantity(RemoveAt(orders, i))
<1> DEFINE rest == RemoveAt(orders, i)
           R == [n \in 1 .. Len(orders) |-> ReservedCash(orders[n])]
           S == [n \in 1 .. Len(orders) |-> SoldBy(orders[n])]
<1>1. /\ rest \in Seq(Orders) /\ Len(orders) = Len(rest) + 1 /\ orders[i] \in Orders
      /\ \A n \in 1 .. Len(rest) : rest[n] = IF n < i THEN orders[n] ELSE orders[n + 1]
  BY Without
<1> HIDE DEF rest
<1>2. /\ R \in Seq(Nat) /\ S \in Seq(Nat) /\ Len(R) = Len(orders) /\ Len(S) = Len(orders)
  BY ReservedAmounts
<1>3. \A n \in 1 .. Len(orders) : R[n] = ReservedCash(orders[n]) /\ S[n] = SoldBy(orders[n])
  OBVIOUS
<1> HIDE DEF R, S
<1>4. i \in 1 .. Len(R) /\ i \in 1 .. Len(S) /\ Len(rest) \in Nat
  BY <1>1, <1>2
<1>5. /\ RemoveAt(R, i) \in Seq(Nat) /\ Len(RemoveAt(R, i)) = Len(rest)
      /\ \A n \in 1 .. Len(rest) : RemoveAt(R, i)[n] = IF n < i THEN R[n] ELSE R[n + 1]
  <2>1. /\ RemoveAt(R, i) \in Seq(Nat) /\ Len(R) = Len(RemoveAt(R, i)) + 1
        /\ \A n \in 1 .. Len(RemoveAt(R, i)) :
              RemoveAt(R, i)[n] = IF n < i THEN R[n] ELSE R[n + 1]
    BY <1>2, <1>4, Without
  <2>2. Len(RemoveAt(R, i)) = Len(rest)
    BY <1>1, <1>2, <1>4, <2>1
  <2> QED
    BY <2>1, <2>2
<1>6. /\ RemoveAt(S, i) \in Seq(Nat) /\ Len(RemoveAt(S, i)) = Len(rest)
      /\ \A n \in 1 .. Len(rest) : RemoveAt(S, i)[n] = IF n < i THEN S[n] ELSE S[n + 1]
  <2>1. /\ RemoveAt(S, i) \in Seq(Nat) /\ Len(S) = Len(RemoveAt(S, i)) + 1
        /\ \A n \in 1 .. Len(RemoveAt(S, i)) :
              RemoveAt(S, i)[n] = IF n < i THEN S[n] ELSE S[n + 1]
    BY <1>2, <1>4, Without
  <2>2. Len(RemoveAt(S, i)) = Len(rest)
    BY <1>1, <1>2, <1>4, <2>1
  <2> QED
    BY <2>1, <2>2
<1>7. ASSUME NEW n \in 1 .. Len(rest)
      PROVE  RemoveAt(R, i)[n] = ReservedCash(rest[n]) /\ RemoveAt(S, i)[n] = SoldBy(rest[n])
  <2>1. n \in 1 .. Len(orders) /\ n + 1 \in 1 .. Len(orders)
    BY <1>1, <1>4
  <2> QED
    BY <1>1, <1>3, <1>5, <1>6, <2>1
<1>8. /\ [n \in 1 .. Len(rest) |-> ReservedCash(rest[n])] = RemoveAt(R, i)
      /\ [n \in 1 .. Len(rest) |-> SoldBy(rest[n])] = RemoveAt(S, i)
  BY <1>5, <1>6, <1>7
<1>9. Total(R) = R[i] + Total(RemoveAt(R, i)) /\ Total(S) = S[i] + Total(RemoveAt(S, i))
  BY <1>2, <1>4, TotalRemoved
<1>10. TotalReserved(orders) = ReservedCash(orders[i]) + TotalReserved(rest)
  BY <1>3, <1>8, <1>9 DEF TotalReserved, R
<1>11. ReservedQuantity(orders) = SoldBy(orders[i]) + ReservedQuantity(rest)
  BY <1>3, <1>8, <1>9 DEF ReservedQuantity, S
<1> QED
  BY <1>1, <1>10, <1>11 DEF rest

\* An account covers orders when it reserves what the purchases among them
\* cost and holds what the others sell.
Covers(a, reserved, quantity) ==
    Sound(a) /\ a.reserved = reserved /\ quantity <= a.quantity

\* Matching one order leaves the account covering the others.
LEMMA OneIsMatched ==
    ASSUME NEW a, NEW left \in Seq(Orders), NEW order \in Orders, NEW t,
           NEW r \in Nat, NEW q \in Nat,
           Covers(a, TotalReserved(left) + ReservedCash(order) + r,
                     ReservedQuantity(left) + SoldBy(order) + q)
    PROVE  LET next == MatchOne([account |-> a, left |-> left], order, t) IN
           /\ next.left \in Seq(Orders)
           /\ Covers(next.account, TotalReserved(next.left) + r, ReservedQuantity(next.left) + q)
<1> DEFINE next == MatchOne([account |-> a, left |-> left], order, t)
           b == Release(a, order)
           c == Settle(b, order.side, order.limit, order.quantity)
<1>1. TotalReserved(left) \in Nat /\ ReservedQuantity(left) \in Nat
  BY ReservedAmounts
<1>2. ReservedCash(order) \in Nat /\ SoldBy(order) \in Nat
  BY OrderAmounts
<1>3. CASE ~ (a.thrown = {} /\ Reaches(order.side, order.limit, t))
  <2>1. next = [account |-> a, left |-> Append(left, order)]
    BY <1>3 DEF MatchOne
  <2>2. /\ TotalReserved(left) + ReservedCash(order) + r = TotalReserved(Append(left, order)) + r
        /\ ReservedQuantity(left) + SoldBy(order) + q = ReservedQuantity(Append(left, order)) + q
    BY OneMoreRests
  <2>3. next.account = a /\ next.left = Append(left, order) /\ next.left \in Seq(Orders)
    BY <2>1
  <2> HIDE DEF next, b, c
  <2>4. Covers(next.account, TotalReserved(next.left) + r, ReservedQuantity(next.left) + q)
    BY <2>2, <2>3 DEF Covers
  <2> QED
    BY <2>3, <2>4 DEF next
<1>4. CASE a.thrown = {} /\ Reaches(order.side, order.limit, t)
  <2>1. next = [account |-> c, left |-> left]
    BY <1>4 DEF MatchOne
  <2>2. Sound(a) /\ a.reserved = TotalReserved(left) + ReservedCash(order) + r
        /\ ReservedQuantity(left) + SoldBy(order) + q <= a.quantity
    BY DEF Covers
  <2>3. a.cash \in Nat /\ a.quantity \in Nat
    BY <2>2 DEF Sound, Accounts
  <2>4. /\ Sound(b) /\ b.thrown = {} /\ b.reserved = TotalReserved(left) + r
        /\ b.cash = a.cash + ReservedCash(order) /\ b.quantity = a.quantity
    <3>1. ReservedCash(order) <= a.reserved
      BY <1>1, <1>2, <2>2
    <3> QED
      BY <1>1, <1>2, <1>4, <2>2, <3>1, Released
  <2> HIDE DEF b
  <2>5. order.limit \in Positive /\ order.quantity \in Positive /\ order.side \in {"BUY", "SELL"}
    BY DEF Orders
  <2>6. /\ Sound(c) /\ c.reserved = b.reserved
        /\ ReservedQuantity(left) + q <= c.quantity
    <3>1. CASE order.side = "BUY"
      <4>1. SoldBy(order) = 0 /\ ReservedCash(order) = CostOf("BUY", order.limit, order.quantity)
        BY <3>1 DEF SoldBy, ReservedCash
      <4>2. CostOf("BUY", order.limit, order.quantity) <= b.cash
        BY <1>2, <2>3, <2>4, <4>1
      <4>3. Sound(c) /\ c.reserved = b.reserved /\ c.quantity = b.quantity + order.quantity
        BY <2>4, <2>5, <3>1, <4>2, Bought
      <4> HIDE DEF c
      <4> QED
        BY <1>1, <2>2, <2>3, <2>4, <2>5, <4>1, <4>3 DEF Positive
    <3>2. CASE order.side = "SELL"
      <4>1. SoldBy(order) = order.quantity
        BY <3>2 DEF SoldBy
      <4>2. order.quantity <= b.quantity
        BY <1>1, <1>2, <2>2, <2>3, <2>4, <4>1
      <4>3. Sound(c) /\ c.reserved = b.reserved /\ c.quantity = b.quantity - order.quantity
        BY <2>4, <2>5, <3>2, <4>2, Sold
      <4> HIDE DEF c
      <4> QED
        BY <1>1, <1>2, <2>2, <2>3, <2>4, <2>5, <4>1, <4>3 DEF Positive
    <3> QED
      BY <2>5, <3>1, <3>2
  <2> QED
    BY <2>1, <2>4, <2>6 DEF Covers
<1> QED
  BY <1>3, <1>4

\* w matches the first k resting orders, one after another.
WalkTo(w, a, t, k) ==
    w = [n \in 0 .. k |-> IF n = 0 THEN [account |-> a, left |-> <<>>]
                          ELSE MatchOne(w[n - 1], resting[n], t)]

LEMMA WalkExists ==
    ASSUME NEW a, NEW t, Len(resting) \in Nat
    PROVE  \E w : WalkTo(w, a, t, Len(resting))
<1> DEFINE S == {k \in 0 .. Len(resting) : \E w : WalkTo(w, a, t, k)}
<1>1. 0 \in S
  <2>1. WalkTo([n \in 0 .. 0 |-> [account |-> a, left |-> <<>>]], a, t, 0)
    BY DEF WalkTo
  <2> QED
    BY <2>1
<1>2. ASSUME NEW k \in 1 .. Len(resting), k - 1 \in S PROVE k \in S
  <2>1. PICK w : WalkTo(w, a, t, k - 1)
    BY <1>2
  <2> DEFINE last == MatchOne(w[k - 1], resting[k], t)
             g == [n \in 0 .. k |-> IF n = k THEN last ELSE w[n]]
             h == [n \in 0 .. k |-> IF n = 0 THEN [account |-> a, left |-> <<>>]
                                    ELSE MatchOne(g[n - 1], resting[n], t)]
  <2>2. ASSUME NEW n \in 0 .. k PROVE g[n] = h[n]
    <3>1. CASE n = k
      <4>1. g[n] = last
        BY <3>1
      <4>2. k - 1 \in 0 .. k /\ k - 1 # k /\ n # 0
        BY <3>1
      <4>3. g[k - 1] = w[k - 1]
        BY <4>2
      <4>4. h[n] = MatchOne(g[k - 1], resting[k], t)
        BY <3>1, <4>2
      <4> QED
        BY <4>1, <4>3, <4>4
    <3>2. CASE n # k
      <4>1. n \in 0 .. k - 1 /\ (n # 0 => n - 1 \in 0 .. k /\ n - 1 # k)
        BY <3>2
      <4>2. w[n] = IF n = 0 THEN [account |-> a, left |-> <<>>]
                   ELSE MatchOne(w[n - 1], resting[n], t)
        BY <2>1, <4>1 DEF WalkTo
      <4>3. n # 0 => g[n - 1] = w[n - 1]
        BY <4>1
      <4>4. g[n] = w[n] /\ h[n] = IF n = 0 THEN [account |-> a, left |-> <<>>]
                                  ELSE MatchOne(g[n - 1], resting[n], t)
        BY <3>2
      <4> HIDE DEF g, h
      <4> QED
        BY <4>2, <4>3, <4>4
    <3> QED
      BY <3>1, <3>2
  <2>3. g = h
    BY <2>2
  <2> HIDE DEF g
  <2>4. WalkTo(g, a, t, k)
    BY <2>3 DEF WalkTo
  <2> QED
    BY <2>4
<1> HIDE DEF S
<1>3. \A k \in 0 .. Len(resting) : k \in S
  BY <1>1, <1>2, CountedUp, Zenon
<1>4. Len(resting) \in S
  BY <1>3
<1> QED
  BY <1>4 DEF S

LEMMA MatchWalks ==
    ASSUME NEW a, NEW t, Len(resting) \in Nat
    PROVE  \E w : /\ Match(a, t) = w[Len(resting)]
                  /\ w[0] = [account |-> a, left |-> <<>>]
                  /\ \A n \in 1 .. Len(resting) : w[n] = MatchOne(w[n - 1], resting[n], t)
<1> DEFINE w == CHOOSE w : WalkTo(w, a, t, Len(resting))
<1>1. WalkTo(w, a, t, Len(resting))
  BY WalkExists
<1>2. Match(a, t) = w[Len(resting)]
  BY Zenon DEF Match, WalkTo
<1> HIDE DEF w
<1>3. /\ w[0] = [account |-> a, left |-> <<>>]
      /\ \A n \in 1 .. Len(resting) : w[n] = MatchOne(w[n - 1], resting[n], t)
  BY <1>1 DEF WalkTo
<1> QED
  BY <1>2, <1>3

\* Matching every resting order leaves the account covering those left.
LEMMA AllAreMatched ==
    ASSUME NEW a, NEW t, resting \in Seq(Orders),
           Covers(a, TotalReserved(resting), ReservedQuantity(resting))
    PROVE  LET m == Match(a, t) IN
           /\ m.left \in Seq(Orders)
           /\ Covers(m.account, TotalReserved(m.left), ReservedQuantity(m.left))
           /\ resting = <<>> => m.account = a /\ m.left = <<>>
<1> DEFINE L == Len(resting)
           R == [n \in 1 .. L |-> ReservedCash(resting[n])]
           Q == [n \in 1 .. L |-> SoldBy(resting[n])]
<1>1. L \in Nat /\ \A n \in 1 .. L : resting[n] \in Orders
  OBVIOUS
<1>2. PICK w : /\ Match(a, t) = w[L]
               /\ w[0] = [account |-> a, left |-> <<>>]
               /\ \A n \in 1 .. L : w[n] = MatchOne(w[n - 1], resting[n], t)
  BY <1>1, MatchWalks
<1>3. R \in Seq(Nat) /\ Q \in Seq(Nat) /\ Len(R) = L /\ Len(Q) = L
  BY ReservedAmounts
<1>4. \A n \in 1 .. L : R[n] = ReservedCash(resting[n]) /\ Q[n] = SoldBy(resting[n])
  OBVIOUS
<1>5. TotalReserved(resting) = Total(R) /\ ReservedQuantity(resting) = Total(Q)
  BY DEF TotalReserved, ReservedQuantity
<1> HIDE DEF L, R, Q
<1>6. PICK f : /\ SumsOf(f, R) /\ Total(R) = f[L] /\ f \in [0 .. L -> Nat]
               /\ \A n \in 0 .. L : f[n] <= f[L]
  BY <1>3, TotalSums
<1>7. PICK g : /\ SumsOf(g, Q) /\ Total(Q) = g[L] /\ g \in [0 .. L -> Nat]
               /\ \A n \in 0 .. L : g[n] <= g[L]
  BY <1>3, TotalSums
<1> DEFINE Holds(n) ==
             /\ w[n] = [account |-> w[n].account, left |-> w[n].left]
             /\ w[n].left \in Seq(Orders)
             /\ Covers(w[n].account, TotalReserved(w[n].left) + (f[L] - f[n]),
                       ReservedQuantity(w[n].left) + (g[L] - g[n]))
           S == {n \in 0 .. L : Holds(n)}
<1>8. 0 \in S
  <2>1. f[0] = 0 /\ g[0] = 0 /\ f[L] \in Nat /\ g[L] \in Nat /\ 0 \in 0 .. L
    BY <1>1, <1>3, <1>6, <1>7 DEF SumsOf, SumsTo
  <2>2. w[0].account = a /\ w[0].left = <<>> /\ w[0] = [account |-> a, left |-> <<>>]
    BY <1>2
  <2>3. TotalReserved(<<>>) + (f[L] - f[0]) = f[L] /\ ReservedQuantity(<<>>) + (g[L] - g[0]) = g[L]
    BY <2>1, NothingRests
  <2>4. Covers(a, f[L], g[L])
    BY <1>5, <1>6, <1>7
  <2>5. <<>> \in Seq(Orders)
    OBVIOUS
  <2> QED
    BY <2>1, <2>2, <2>3, <2>4, <2>5
<1>9. ASSUME NEW n \in 1 .. L, n - 1 \in S PROVE n \in S
  <2> DEFINE b == w[n - 1].account
             left == w[n - 1].left
             order == resting[n]
             r == f[L] - f[n]
             q == g[L] - g[n]
             next == MatchOne([account |-> b, left |-> left], order, t)
  <2>1. order \in Orders /\ n \in 0 .. L /\ n - 1 \in 0 .. L
    BY <1>1, <1>9
  <2>2. /\ w[n - 1] = [account |-> b, left |-> left] /\ left \in Seq(Orders)
        /\ Covers(b, TotalReserved(left) + (f[L] - f[n - 1]),
                  ReservedQuantity(left) + (g[L] - g[n - 1]))
    BY <1>9
  <2>3. w[n] = next
    BY <1>2, <2>2
  <2>4. f[n] = f[n - 1] + ReservedCash(order) /\ g[n] = g[n - 1] + SoldBy(order)
    <3>1. n \in 0 .. L /\ n # 0
      BY <1>1
    <3>2. f[n] = f[n - 1] + R[n]
      BY <1>3, <1>6, <3>1 DEF SumsOf, SumsTo
    <3>3. g[n] = g[n - 1] + Q[n]
      BY <1>3, <1>7, <3>1 DEF SumsOf, SumsTo
    <3> QED
      BY <1>4, <3>2, <3>3
  <2>5. r \in Nat /\ q \in Nat
    <3>1. f[n] \in Nat /\ f[L] \in Nat /\ g[n] \in Nat /\ g[L] \in Nat /\ f[n] <= f[L] /\ g[n] <= g[L]
      BY <1>1, <1>6, <1>7, <2>1
    <3> QED
      BY <3>1
  <2>6. /\ f[n] \in Nat /\ f[L] \in Nat /\ g[n] \in Nat /\ g[L] \in Nat
        /\ f[n - 1] \in Nat /\ g[n - 1] \in Nat
    BY <1>1, <1>6, <1>7, <2>1
  <2>7. /\ TotalReserved(left) + (f[L] - f[n - 1]) = TotalReserved(left) + ReservedCash(order) + r
        /\ ReservedQuantity(left) + (g[L] - g[n - 1]) = ReservedQuantity(left) + SoldBy(order) + q
    <3>1. TotalReserved(left) \in Nat /\ ReservedQuantity(left) \in Nat
      BY <2>2, ReservedAmounts
    <3>2. ReservedCash(order) \in Nat /\ SoldBy(order) \in Nat
      BY <2>1, OrderAmounts
    <3>3. TotalReserved(left) + (f[L] - f[n - 1]) = TotalReserved(left) + ReservedCash(order) + r
      <4> DEFINE x == f[L]
                 y == f[n]
                 z == f[n - 1]
                 c == ReservedCash(order)
                 total == TotalReserved(left)
      <4>1. x \in Nat /\ y \in Nat /\ z \in Nat /\ c \in Nat /\ total \in Nat /\ y = z + c
        BY <2>4, <2>6, <3>1, <3>2, Zenon
      <4> HIDE DEF x, y, z, c, total
      <4>2. total + (x - z) = total + c + (x - y)
        BY <4>1
      <4> QED
        BY <4>2, Zenon DEF x, y, z, c, total
    <3>4. ReservedQuantity(left) + (g[L] - g[n - 1]) = ReservedQuantity(left) + SoldBy(order) + q
      <4> DEFINE x == g[L]
                 y == g[n]
                 z == g[n - 1]
                 c == SoldBy(order)
                 total == ReservedQuantity(left)
      <4>1. x \in Nat /\ y \in Nat /\ z \in Nat /\ c \in Nat /\ total \in Nat /\ y = z + c
        BY <2>4, <2>6, <3>1, <3>2, Zenon
      <4> HIDE DEF x, y, z, c, total
      <4>2. total + (x - z) = total + c + (x - y)
        BY <4>1
      <4> QED
        BY <4>2, Zenon DEF x, y, z, c, total
    <3> QED
      BY <3>3, <3>4
  <2> HIDE DEF b, left, order, r, q
  <2>8. Covers(b, TotalReserved(left) + ReservedCash(order) + r,
                  ReservedQuantity(left) + SoldBy(order) + q)
    BY <2>2, <2>7 DEF Covers
  <2>9. /\ next.left \in Seq(Orders)
        /\ Covers(next.account, TotalReserved(next.left) + r, ReservedQuantity(next.left) + q)
    BY <2>1, <2>2, <2>5, <2>8, OneIsMatched
  <2>10. next = [account |-> next.account, left |-> next.left]
    BY DEF MatchOne
  <2> HIDE DEF next
  <2>11. Holds(n)
    BY <2>3, <2>9, <2>10 DEF r, q
  <2> QED
    BY <2>1, <2>11
<1> HIDE DEF S
<1>10. \A n \in 0 .. L : n \in S
  BY <1>1, <1>8, <1>9, CountedUp, Zenon
<1>11. Holds(L)
  BY <1>1, <1>10 DEF S
<1>12. /\ TotalReserved(w[L].left) + (f[L] - f[L]) = TotalReserved(w[L].left)
       /\ ReservedQuantity(w[L].left) + (g[L] - g[L]) = ReservedQuantity(w[L].left)
  <2>1. TotalReserved(w[L].left) \in Nat /\ ReservedQuantity(w[L].left) \in Nat
    BY <1>11, ReservedAmounts
  <2>2. f[L] \in Nat /\ g[L] \in Nat
    BY <1>1, <1>6, <1>7
  <2> QED
    BY <2>1, <2>2
<1>13. resting = <<>> => L = 0
  BY DEF L
<1>14. Covers(w[L].account, TotalReserved(w[L].left), ReservedQuantity(w[L].left))
  BY <1>11, <1>12 DEF Covers
<1> QED
  BY <1>2, <1>11, <1>13, <1>14

-----------------------------------------------------------------------------
(* The inductive invariant of the replay                                   *)

\* A strategy's state, its lots among the slots.
Mind(m) ==
    /\ m = [rung |-> m.rung, lots |-> m.lots, prices |-> m.prices]
    /\ m.rung \in Int /\ m.lots \subseteq Slots

ReplayTypes ==
    /\ strategy \in Strategies
    /\ Mind(mind) /\ Mind(savedState.mind)
    /\ nextId \in Nat /\ spent \in 0 .. MaxDailyNotional
    /\ tick \in [price : Nat, bid : Nat, ask : Nat, gap : BOOLEAN]
    /\ missed \in BOOLEAN /\ forgot \in BOOLEAN

\* What is still to be applied passed the reader, and a tick brought it.
ReadDecisions ==
    /\ decisions \in Seq(Decisions) /\ ReadStrategyDecisions(decisions)
    /\ decisions # <<>> => tick.price \in Positive

\* The wallet covers the resting orders.
Booked ==
    /\ resting \in Seq(Orders)
    /\ Covers(holdings, TotalReserved(resting), ReservedQuantity(resting))

\* A bundled strategy has one market order to come at most, a sale of what is
\* held, and the portfolio it was judged on is still the account's.
OneMarketOrder ==
    /\ \/ decisions = <<>>
       \/ \E quantity \in Positive : decisions = <<MarketOrder("BUY", quantity)>>
       \/ \E quantity \in 1 .. holdings.quantity : decisions = <<MarketOrder("SELL", quantity)>>
    /\ decisions # <<>> => snapshot.held = holdings.quantity
    /\ resting = <<>> /\ holdings.quantity <= MaxPositionQuantity

AskedOf(side) ==
    IF decisions # <<>> /\ Head(decisions).side = side THEN Head(decisions).quantity ELSE 0

\* The quantity held once the pending order has been filled.
QuantityToCome == holdings.quantity + AskedOf("BUY") - AskedOf("SELL")

\* The grid's lots say what it will hold.
LotsCover ==
    /\ QuantityToCome <= Quantity * Cardinality(mind.lots)
    /\ ~missed => QuantityToCome = Quantity * Cardinality(mind.lots)

ReplayInv ==
    /\ ReplayTypes /\ ReadDecisions /\ Booked
    /\ strategy # "caller" => OneMarketOrder
    /\ strategy = "grid" /\ ~forgot => LotsCover

LEMMA Parameters ==
    /\ Strategies \subseteq {"grid", "sma", "caller"} /\ Prices \subseteq Positive
    /\ CallerDecisions \subseteq Seq(Decisions)
    /\ Levels \in Nat /\ Levels >= 2 /\ Quantity \in Positive
    /\ MaxDailyNotional \in Positive /\ MaxPositionQuantity \in Positive
BY BacktestAssumption DEF PlanValid, GridParamsValid, RiskLimitsValid

\* What the reader lets through is an order the exchange and the gate can price.
LEMMA PlacedOrder ==
    ASSUME NEW order \in Decisions, order.kind = "place", ReadOrderIntent(order)
    PROVE  /\ order.side \in {"BUY", "SELL"} /\ order.quantity \in Positive
           /\ order.limit \in Nat /\ order.stop \in Nat
           /\ order.type = "LIMIT" => order.limit \in Positive
<1>1. /\ order.side \in {"BUY", "SELL"} /\ order.quantity \in Int
      /\ order.limit \in Nat /\ order.stop \in Nat
  <2>1. order \notin [kind : {"cancel"}, side : {"none"}]
    OBVIOUS
  <2> QED
    BY <2>1 DEF Decisions
<1>2. /\ order.side \in {"BUY", "SELL"} /\ order.quantity \in Int
      /\ order.limit \in Nat /\ order.stop \in Nat /\ order.quantity > 0
  BY <1>1 DEF ReadOrderIntent
<1>3. ASSUME order.type = "LIMIT" PROVE order.limit \in Positive
  <2>1. PriceRules[order.type] = {"limit"}
    BY <1>3 DEF PriceRules
  <2>2. {field \in {"limit", "stop"} : order[field] # NoPrice} = {"limit"}
    BY <2>1 DEF ReadOrderIntent
  <2>3. order["limit"] # NoPrice
    BY <2>2
  <2> QED
    BY <1>2, <2>3 DEF NoPrice, Positive
<1> QED
  BY <1>2, <1>3 DEF Positive

LEMMA TouchIsPositive ==
    ASSUME NEW t \in [price : Positive, bid : Nat, ask : Nat, gap : BOOLEAN], NEW side
    PROVE  Touch(side, t) \in Positive
BY DEF Touch, Positive, NoPrice

LEMMA TicksArePriced == RecordedTicks \subseteq [price : Positive, bid : Nat, ask : Nat, gap : BOOLEAN]
BY Parameters DEF RecordedTicks, Positive, NoPrice

LEMMA MarketOrdersAreRead ==
    ASSUME NEW side \in {"BUY", "SELL"}, NEW quantity \in Positive
    PROVE  /\ <<MarketOrder(side, quantity)>> \in Seq(Decisions)
           /\ ReadStrategyDecisions(<<MarketOrder(side, quantity)>>)
<1> DEFINE order == MarketOrder(side, quantity)
<1>1. order \in Decisions
  <2>1. quantity \in Int
    BY DEF Positive
  <2> QED
    BY <2>1 DEF Decisions, MarketOrder, NoPrice
<1>2. /\ order.type = "MARKET" /\ order.limit = NoPrice /\ order.stop = NoPrice
      /\ order.quantity = quantity
  BY DEF MarketOrder
<1> HIDE DEF order
<1>3. ReadOrderIntent(order)
  <2>1. "MARKET" \in DOMAIN PriceRules /\ PriceRules["MARKET"] = {}
    BY DEF PriceRules
  <2>2. quantity > 0
    BY DEF Positive
  <2>3. {field \in {"limit", "stop"} : order[field] # NoPrice} = {}
    BY <1>2
  <2> QED
    BY <1>2, <2>1, <2>2, <2>3 DEF ReadOrderIntent
<1>4. <<order>> \in Seq(Decisions)
  BY <1>1
<1>5. ReadStrategyDecisions(<<order>>)
  BY <1>3 DEF ReadStrategyDecisions
<1> QED
  BY <1>4, <1>5 DEF order

LEMMA LotsAreFinite ==
    ASSUME NEW lots, lots \subseteq Slots
    PROVE  IsFiniteSet(lots) /\ Cardinality(lots) \in Nat
<1>1. IsFiniteSet(Slots)
  BY Parameters, FS_Interval DEF Slots
<1> QED
  BY <1>1, FS_Subset, FS_CardinalityType

\* A tick is matched on a covered account whatever rests, and only a resting
\* order's settlement throws.
LEMMA TickMatches ==
    ASSUME NEW t \in RecordedTicks, NEW newDay \in BOOLEAN, ReplayInv, Matched(t, newDay)
    PROVE  /\ Booked' /\ spent' \in 0 .. MaxDailyNotional
           /\ tick' \in [price : Nat, bid : Nat, ask : Nat, gap : BOOLEAN]
           /\ tick' = t /\ t.price \in Positive
           /\ resting = <<>> => /\ resting' = <<>> /\ holdings'.quantity = holdings.quantity
                                /\ holdings'.thrown = holdings.thrown
<1> DEFINE a == IF newDay THEN [holdings EXCEPT !.today = 0] ELSE holdings
<1>1. holdings \in Accounts /\ resting \in Seq(Orders)
  BY DEF ReplayInv, Booked, Covers, Sound
<1>2. Covers(a, TotalReserved(resting), ReservedQuantity(resting)) /\ a.quantity = holdings.quantity
      /\ a.thrown = holdings.thrown
  <2>1. Covers(holdings, TotalReserved(resting), ReservedQuantity(resting))
    BY DEF ReplayInv, Booked
  <2>2. /\ a \in Accounts /\ a.cash = holdings.cash /\ a.reserved = holdings.reserved
        /\ a.quantity = holdings.quantity /\ a.cost = holdings.cost
        /\ a.realised = holdings.realised /\ a.thrown = holdings.thrown
    <3>1. CASE newDay
      <4>1. a = [holdings EXCEPT !.today = 0]
        BY <3>1
      <4> HIDE DEF a
      <4>2. a \in Accounts
        <5>1. 0 \in Int
          OBVIOUS
        <5> QED
          BY <1>1, <4>1, <5>1, Zenon DEF Accounts
      <4>3. /\ a.cash = holdings.cash /\ a.reserved = holdings.reserved
            /\ a.quantity = holdings.quantity /\ a.cost = holdings.cost
            /\ a.realised = holdings.realised /\ a.thrown = holdings.thrown
        BY <1>1, <4>1 DEF Accounts
      <4> QED
        BY <4>2, <4>3
    <3>2. CASE ~ newDay
      BY <1>1, <3>2
    <3> QED
      BY <3>1, <3>2
  <2> HIDE DEF a
  <2> QED
    BY <2>1, <2>2 DEF Covers, Sound
<1>3. /\ holdings' = Match(a, t).account /\ resting' = Match(a, t).left
      /\ spent' = IF newDay THEN 0 ELSE spent
      /\ tick' = t
  BY DEF Matched
<1> HIDE DEF a
<1>4. /\ resting' \in Seq(Orders)
      /\ Covers(holdings', TotalReserved(resting'), ReservedQuantity(resting'))
      /\ resting = <<>> => holdings' = a /\ resting' = <<>>
  BY <1>1, <1>2, <1>3, AllAreMatched
<1>5. t \in [price : Positive, bid : Nat, ask : Nat, gap : BOOLEAN]
  BY TicksArePriced
<1>6. spent' \in 0 .. MaxDailyNotional
  BY <1>3, Parameters DEF ReplayInv, ReplayTypes, Positive
<1>7. tick' \in [price : Nat, bid : Nat, ask : Nat, gap : BOOLEAN] /\ t.price \in Positive
  BY <1>3, <1>5 DEF Positive
<1> QED
  BY <1>2, <1>3, <1>4, <1>6, <1>7 DEF Booked

\* The portfolio read after a tick is the account's.
LEMMA TickSettles ==
    ASSUME NEW t \in RecordedTicks, NEW newDay \in BOOLEAN, ReplayInv, Settled(t, newDay)
    PROVE  /\ Booked' /\ spent' \in 0 .. MaxDailyNotional
           /\ tick' \in [price : Nat, bid : Nat, ask : Nat, gap : BOOLEAN]
           /\ tick' = t /\ t.price \in Positive
           /\ snapshot'.held = holdings'.quantity
           /\ snapshot'.available = holdings'.quantity - ReservedQuantity(resting')
           /\ resting = <<>> => resting' = <<>> /\ holdings'.quantity = holdings.quantity
BY TickMatches DEF Settled, Portfolio, Available

\* A bundled strategy has no resting order whose settlement could throw.
LEMMA OnlyRestingThrow ==
    ASSUME NEW t \in RecordedTicks, NEW newDay \in BOOLEAN, ReplayInv, MatchThrows(t, newDay)
    PROVE  strategy = "caller"
<1> SUFFICES ASSUME strategy # "caller" PROVE FALSE
  OBVIOUS
<1>1. resting = <<>>
  BY DEF ReplayInv, OneMarketOrder
<1>2. Matched(t, newDay) /\ holdings.thrown = {} /\ holdings'.thrown # {}
  BY DEF MatchThrows, Ready
<1> QED
  BY <1>1, <1>2, TickMatches

\* The grid buys what its new lots stand for, or sells what the lots it gives
\* up stood for, as far as it holds it.
LEMMA GridReacts ==
    ASSUME NEW t, NEW view, Mind(mind)
    PROVE  LET next == AdvanceGrid(t, view) IN
           /\ Mind(next.mind)
           /\ \/ next.orders = <<>> /\ next.mind.lots = mind.lots
              \/ \E k \in Positive :
                   /\ next.orders = <<MarketOrder("BUY", Quantity * k)>>
                   /\ Cardinality(next.mind.lots) = Cardinality(mind.lots) + k
              \/ \E k \in 0 .. Cardinality(mind.lots) :
                   LET amount == Min({view.available, Quantity * k}) IN
                   /\ next.orders = IF amount = 0 THEN <<>> ELSE <<MarketOrder("SELL", amount)>>
                   /\ Cardinality(next.mind.lots) = Cardinality(mind.lots) - k
<1> DEFINE rung == RungOf(t.price)
           next == AdvanceGrid(t, view)
<1>1. rung \in Nat
  <2> DEFINE R == {n \in 0 .. (Levels - 1) : t.price >= LowerPrice + n * Step}
  <2>1. IsFiniteSet(0 .. (Levels - 1)) /\ R \subseteq 0 .. (Levels - 1)
    BY Parameters, FS_Interval
  <2> HIDE DEF R
  <2>2. Cardinality(R) \in Nat
    BY <2>1, FS_Subset, FS_CardinalityType
  <2> QED
    BY <2>2 DEF RungOf, R
<1>2. IsFiniteSet(mind.lots) /\ Cardinality(mind.lots) \in Nat /\ mind.rung \in Int
  BY LotsAreFinite DEF Mind
<1> HIDE DEF rung
<1>3. CASE t.gap \/ mind.rung \in {NoRung, rung}
  <2>1. next = [mind |-> [mind EXCEPT !.rung = rung], orders |-> <<>>]
    BY <1>3 DEF AdvanceGrid, rung
  <2>2. next.mind = [rung |-> rung, lots |-> mind.lots, prices |-> mind.prices]
        /\ next.orders = <<>>
    BY <2>1 DEF Mind
  <2> HIDE DEF next
  <2>3. Mind(next.mind) /\ next.mind.lots = mind.lots
    BY <1>1, <2>2 DEF Mind
  <2> QED
    BY <2>2, <2>3 DEF next
<1>4. CASE ~ (t.gap \/ mind.rung \in {NoRung, rung}) /\ rung < mind.rung
  <2> DEFINE wanted == (rung .. Min({mind.rung - 1, Levels - 2})) \ mind.lots
  <2>1. next = Fall(rung)
    BY <1>4 DEF AdvanceGrid, rung
  <2>2. /\ next.mind = [mind EXCEPT !.rung = rung, !.lots = mind.lots \union wanted]
        /\ next.orders = IF wanted = {} THEN <<>>
                         ELSE <<MarketOrder("BUY", Quantity * Cardinality(wanted))>>
    BY <2>1 DEF Fall, Mind
  <2>3. wanted \subseteq Slots /\ wanted \intersect mind.lots = {}
    <3>1. Min({mind.rung - 1, Levels - 2}) <= Levels - 2
          /\ Min({mind.rung - 1, Levels - 2}) \in Int
      <4>1. mind.rung - 1 \in Int /\ Levels - 2 \in Int
        BY <1>2, Parameters
      <4> QED
        BY <4>1, LesserOfTwo
    <3> QED
      BY <1>1, <3>1, Parameters DEF Slots
  <2> HIDE DEF wanted, next
  <2>4. IsFiniteSet(wanted) /\ Cardinality(wanted) \in Nat
    BY <2>3, LotsAreFinite
  <2>5. next.mind = [rung |-> rung, lots |-> mind.lots \union wanted, prices |-> mind.prices]
    BY <2>2 DEF Mind
  <2>6. Mind(next.mind) /\ next.mind.lots = mind.lots \union wanted
    BY <1>1, <2>3, <2>5 DEF Mind
  <2>7. Cardinality(mind.lots \union wanted) = Cardinality(mind.lots) + Cardinality(wanted)
    <3>1. Cardinality(mind.lots \intersect wanted) = 0
      BY <2>3, FS_EmptySet
    <3>2. Cardinality(mind.lots \union wanted) =
            Cardinality(mind.lots) + Cardinality(wanted) - Cardinality(mind.lots \intersect wanted)
      BY <1>2, <2>4, FS_Union
    <3> DEFINE m == Cardinality(mind.lots)
               n == Cardinality(wanted)
    <3>3. m \in Nat /\ n \in Nat /\ Cardinality(mind.lots \union wanted) = m + n - 0
      BY <1>2, <2>4, <3>1, <3>2, Zenon
    <3> HIDE DEF m, n
    <3>4. m + n - 0 = m + n
      BY <3>3
    <3> QED
      BY <3>3, <3>4, Zenon DEF m, n
  <2>8. CASE wanted = {}
    BY <2>2, <2>6, <2>8 DEF next
  <2>9. CASE wanted # {}
    <3>1. Cardinality(wanted) \in Positive
      BY <2>4, <2>9, FS_EmptySet DEF Positive
    <3>2. next.orders = <<MarketOrder("BUY", Quantity * Cardinality(wanted))>>
      BY <2>2, <2>9
    <3>3. Cardinality(next.mind.lots) = Cardinality(mind.lots) + Cardinality(wanted)
      BY <2>6, <2>7
    <3> QED
      BY <2>6, <3>1, <3>2, <3>3 DEF next
  <2> QED
    BY <2>8, <2>9
<1>5. CASE ~ (t.gap \/ mind.rung \in {NoRung, rung}) /\ ~ (rung < mind.rung)
  <2> DEFINE due == mind.lots \intersect ((mind.rung - 1) .. (rung - 2))
             k == Cardinality(due)
             amount == Min({view.available, Quantity * k})
  <2>1. next = Rise(rung, view.available)
    BY <1>5 DEF AdvanceGrid, rung
  <2>2. /\ next.mind = [mind EXCEPT !.rung = rung, !.lots = mind.lots \ due]
        /\ next.orders = IF amount = 0 THEN <<>> ELSE <<MarketOrder("SELL", amount)>>
    BY <2>1 DEF Rise, Mind
  <2>3. due \subseteq mind.lots
    OBVIOUS
  <2> HIDE DEF due, next
  <2>4. IsFiniteSet(due) /\ k \in 0 .. Cardinality(mind.lots)
    BY <1>2, <2>3, FS_Subset, FS_CardinalityType
  <2>5. next.mind = [rung |-> rung, lots |-> mind.lots \ due, prices |-> mind.prices]
    BY <2>2 DEF Mind
  <2>6. Mind(next.mind) /\ next.mind.lots = mind.lots \ due
    BY <1>1, <2>5 DEF Mind
  <2>7. Cardinality(mind.lots \ due) = Cardinality(mind.lots) - k
    <3>1. mind.lots \intersect due = due
      BY <2>3
    <3>2. Cardinality(mind.lots \ due) = Cardinality(mind.lots) - Cardinality(mind.lots \intersect due)
      BY <1>2, FS_Difference
    <3> QED
      BY <3>1, <3>2
  <2>8. Cardinality(next.mind.lots) = Cardinality(mind.lots) - k
    BY <2>6, <2>7
  <2> HIDE DEF k
  <2> QED
    BY <2>2, <2>4, <2>6, <2>8 DEF next
<1> QED
  BY <1>3, <1>4, <1>5

\* The crossover buys its quantity when it holds nothing and sells what it can.
LEMMA CrossoverReacts ==
    ASSUME NEW t, NEW view, Mind(mind)
    PROVE  LET next == AdvanceSmaCrossover(t, view) IN
           /\ Mind(next.mind)
           /\ \/ next.orders = <<>>
              \/ next.orders = <<MarketOrder("BUY", Quantity)>>
              \/ view.available > 0 /\ next.orders = <<MarketOrder("SELL", view.available)>>
<1> DEFINE prices == Append(Newest(Kept(t), SlowPeriod), t.price)
           full == Len(prices) = SlowPeriod + 1
           current == Difference(prices)
           previous == Difference(Front(prices))
           next == AdvanceSmaCrossover(t, view)
<1>1. /\ next.mind = [mind EXCEPT !.prices = prices]
      /\ next.orders =
           CASE full /\ current > 0 /\ previous < 0 /\ view.held = 0
                  -> <<MarketOrder("BUY", Quantity)>>
             [] full /\ current < 0 /\ previous > 0 /\ view.available > 0
                  -> <<MarketOrder("SELL", view.available)>>
             [] OTHER -> <<>>
  BY DEF AdvanceSmaCrossover
<1> HIDE DEF prices, full, current, previous, next
<1>2. next.mind = [rung |-> mind.rung, lots |-> mind.lots, prices |-> prices]
  BY <1>1 DEF Mind
<1>3. Mind(next.mind)
  BY <1>2 DEF Mind
<1>4. \/ next.orders = <<>>
      \/ next.orders = <<MarketOrder("BUY", Quantity)>>
      \/ view.available > 0 /\ next.orders = <<MarketOrder("SELL", view.available)>>
  BY <1>1
<1> QED
  BY <1>3, <1>4 DEF next

-----------------------------------------------------------------------------
(* Every step preserves the invariant                                      *)

LEMMA Distributes ==
    ASSUME NEW a \in Int, NEW b \in Int, NEW c \in Int
    PROVE  a * (b + c) = a * b + a * c /\ a * (b - c) = a * b - a * c
OBVIOUS

LEMMA AccountIs ==
    ASSUME ReplayInv
    PROVE  /\ holdings \in Accounts /\ Sound(holdings) /\ holdings.quantity \in Nat
           /\ holdings.cash \in Nat
           /\ resting \in Seq(Orders) /\ holdings.reserved = TotalReserved(resting)
           /\ ReservedQuantity(resting) <= holdings.quantity
           /\ TotalReserved(resting) \in Nat /\ ReservedQuantity(resting) \in Nat
<1>1. /\ resting \in Seq(Orders) /\ Sound(holdings) /\ holdings.reserved = TotalReserved(resting)
      /\ ReservedQuantity(resting) <= holdings.quantity
  BY DEF ReplayInv, Booked, Covers
<1>2. holdings \in Accounts
  BY <1>1 DEF Sound
<1>3. holdings.quantity \in Nat /\ holdings.cash \in Nat
  BY <1>2 DEF Accounts
<1> QED
  BY <1>1, <1>2, <1>3, ReservedAmounts

LEMMA NothingPending ==
    ASSUME ReplayInv, decisions = <<>>
    PROVE  QuantityToCome = holdings.quantity
BY AccountIs DEF QuantityToCome, AskedOf

LEMMA Initially ==
    ASSUME ReplayInit
    PROVE  ReplayInv
<1>1. ReplayTypes
  <2>1. Mind(NoMind)
    BY DEF Mind, NoMind, NoRung
  <2>2. strategy \in Strategies /\ mind = NoMind /\ savedState.mind = NoMind
    BY DEF ReplayInit
  <2>3. nextId \in Nat /\ spent \in 0 .. MaxDailyNotional
    BY Parameters DEF ReplayInit, Positive
  <2>4. tick \in [price : Nat, bid : Nat, ask : Nat, gap : BOOLEAN]
    BY DEF ReplayInit, NoPrice
  <2>5. missed \in BOOLEAN /\ forgot \in BOOLEAN
    BY DEF ReplayInit
  <2> QED
    BY <2>1, <2>2, <2>3, <2>4, <2>5 DEF ReplayTypes
<1>2. ReadDecisions
  <2>1. decisions = <<>> /\ Len(<<>>) = 0
    BY DEF ReplayInit
  <2>2. decisions \in Seq(Decisions)
    BY <2>1
  <2>3. ReadStrategyDecisions(decisions)
    BY <2>1 DEF ReadStrategyDecisions
  <2> QED
    BY <2>1, <2>2, <2>3 DEF ReadDecisions
<1>3. holdings = OpeningAccount /\ resting = <<>>
  BY DEF ReplayInit
<1>4. /\ holdings \in Accounts /\ holdings.cash = Cash /\ holdings.reserved = 0
      /\ holdings.cost = 0 /\ holdings.realised = 0 /\ holdings.quantity = 0
      /\ holdings.thrown = {}
  BY <1>3, CashIsNatural DEF OpeningAccount, Accounts
<1>5. Booked
  <2>1. resting \in Seq(Orders)
    BY <1>3
  <2>2. Sound(holdings)
    BY <1>4, CashIsNatural DEF Sound
  <2> QED
    BY <1>3, <1>4, <2>1, <2>2, NothingRests DEF Booked, Covers
<1>6. OneMarketOrder
  BY <1>3, <1>4, Parameters DEF ReplayInit, OneMarketOrder, Positive
<1>7. LotsCover
  <2>1. decisions = <<>> /\ mind.lots = {}
    BY DEF ReplayInit, NoMind
  <2>2. QuantityToCome = 0
    BY <1>4, <2>1 DEF QuantityToCome, AskedOf
  <2>3. Quantity * Cardinality(mind.lots) = 0
    BY <2>1, FS_EmptySet, Parameters DEF Positive
  <2> QED
    BY <2>2, <2>3 DEF LotsCover
<1> QED
  BY <1>1, <1>2, <1>5, <1>6, <1>7 DEF ReplayInv

\* What an order to come is: read, and for a bundled strategy the only one, at
\* the market, listed, and a sale of no more than is held.
LEMMA PendingOrder ==
    ASSUME ReplayInv, decisions # <<>>
    PROVE  LET order == Head(decisions) IN
           /\ order \in Decisions
           /\ Tail(decisions) \in Seq(Decisions) /\ ReadStrategyDecisions(Tail(decisions))
           /\ tick \in [price : Positive, bid : Nat, ask : Nat, gap : BOOLEAN]
           /\ order.kind = "place" =>
                /\ order.side \in {"BUY", "SELL"} /\ order.quantity \in Positive
                /\ order.limit \in Nat /\ order.stop \in Nat
                /\ order.type = "LIMIT" => order.limit \in Positive
           /\ strategy # "caller" =>
                /\ order.kind = "place" /\ order.type = "MARKET" /\ order.listed
                /\ Tail(decisions) = <<>> /\ resting = <<>>
                /\ snapshot.held = holdings.quantity
                /\ order.side = "SELL" => order.quantity <= holdings.quantity
                /\ QuantityToCome = IF order.side = "BUY" THEN holdings.quantity + order.quantity
                                    ELSE holdings.quantity - order.quantity
<1> DEFINE order == Head(decisions)
<1>1. /\ decisions \in Seq(Decisions) /\ ReadStrategyDecisions(decisions)
      /\ tick.price \in Positive
  BY DEF ReplayInv, ReadDecisions
<1>2. /\ order = decisions[1] /\ order \in Decisions /\ Len(decisions) \in Nat
      /\ Len(decisions) >= 1
      /\ Tail(decisions) \in Seq(Decisions) /\ Len(Tail(decisions)) = Len(decisions) - 1
      /\ \A i \in 1 .. Len(Tail(decisions)) : Tail(decisions)[i] = decisions[i + 1]
  BY <1>1
<1>3. ReadStrategyDecisions(Tail(decisions))
  <2> SUFFICES ASSUME NEW i \in 1 .. Len(Tail(decisions)), Tail(decisions)[i].kind = "place"
               PROVE  ReadOrderIntent(Tail(decisions)[i])
    BY DEF ReadStrategyDecisions
  <2>1. i + 1 \in 1 .. Len(decisions) /\ Tail(decisions)[i] = decisions[i + 1]
    BY <1>2
  <2> QED
    BY <1>1, <2>1 DEF ReadStrategyDecisions
<1>4. ASSUME order.kind = "place"
      PROVE  /\ order.side \in {"BUY", "SELL"} /\ order.quantity \in Positive
             /\ order.limit \in Nat /\ order.stop \in Nat
             /\ order.type = "LIMIT" => order.limit \in Positive
  <2>1. ReadOrderIntent(order)
    <3>1. 1 \in 1 .. Len(decisions)
      BY <1>2
    <3> QED
      BY <1>1, <1>2, <1>4, <3>1 DEF ReadStrategyDecisions
  <2> QED
    BY <1>2, <1>4, <2>1, PlacedOrder
<1>5. tick \in [price : Positive, bid : Nat, ask : Nat, gap : BOOLEAN]
  BY <1>1 DEF ReplayInv, ReplayTypes
<1>6. ASSUME strategy # "caller"
      PROVE  /\ order.kind = "place" /\ order.type = "MARKET" /\ order.listed
             /\ Tail(decisions) = <<>> /\ resting = <<>>
             /\ snapshot.held = holdings.quantity
             /\ order.side = "SELL" => order.quantity <= holdings.quantity
             /\ QuantityToCome = IF order.side = "BUY" THEN holdings.quantity + order.quantity
                                 ELSE holdings.quantity - order.quantity
  <2>1. OneMarketOrder /\ holdings.quantity \in Nat
    BY <1>6, AccountIs DEF ReplayInv
  <2>2. PICK side \in {"BUY", "SELL"}, quantity \in Positive :
          /\ decisions = <<MarketOrder(side, quantity)>>
          /\ side = "SELL" => quantity <= holdings.quantity
    <3>1. CASE \E quantity \in Positive : decisions = <<MarketOrder("BUY", quantity)>>
      BY <3>1
    <3>2. CASE \E quantity \in 1 .. holdings.quantity : decisions = <<MarketOrder("SELL", quantity)>>
      <4>1. PICK quantity \in 1 .. holdings.quantity : decisions = <<MarketOrder("SELL", quantity)>>
        BY <3>2
      <4>2. quantity \in Positive /\ quantity <= holdings.quantity
        BY <2>1, <4>1 DEF Positive
      <4> QED
        BY <4>1, <4>2
    <3> QED
      BY <2>1, <3>1, <3>2 DEF OneMarketOrder
  <2>3. order = MarketOrder(side, quantity) /\ Tail(decisions) = <<>>
    BY <2>2
  <2>4. /\ order.kind = "place" /\ order.type = "MARKET" /\ order.listed
        /\ order.side = side /\ order.quantity = quantity
    BY <2>3 DEF MarketOrder
  <2>5. AskedOf("BUY") = (IF side = "BUY" THEN quantity ELSE 0)
        /\ AskedOf("SELL") = (IF side = "SELL" THEN quantity ELSE 0)
    BY <2>4 DEF AskedOf
  <2>6. QuantityToCome = IF side = "BUY" THEN holdings.quantity + quantity
                         ELSE holdings.quantity - quantity
    BY <2>1, <2>2, <2>5 DEF QuantityToCome, Positive
  <2> HIDE DEF order
  <2> QED
    BY <2>1, <2>2, <2>3, <2>4, <2>6 DEF OneMarketOrder
<1> QED
  BY <1>2, <1>3, <1>4, <1>5, <1>6

LEMMA StepWithoutDecision ==
    ASSUME NEW t \in RecordedTicks, NEW newDay \in BOOLEAN, ReplayInv,
           Contain(t, newDay) \/ Quarantined(t, newDay)
    PROVE  ReplayInv'
<1>1. /\ Settled(t, newDay) /\ decisions = <<>>
      /\ UNCHANGED <<strategy, mind, nextId, decisions, missed, basis, savedState, restarts, forgot>>
  BY DEF Contain, Quarantined, Ready, durable
<1>2. /\ Booked' /\ spent' \in 0 .. MaxDailyNotional
      /\ tick' \in [price : Nat, bid : Nat, ask : Nat, gap : BOOLEAN]
      /\ resting = <<>> => resting' = <<>> /\ holdings'.quantity = holdings.quantity
  BY <1>1, TickSettles
<1>3. ReplayTypes'
  BY <1>1, <1>2 DEF ReplayInv, ReplayTypes, Mind
<1>4. ReadDecisions'
  BY <1>1 DEF ReplayInv, ReadDecisions, ReadStrategyDecisions
<1>5. strategy # "caller" => OneMarketOrder'
  BY <1>1, <1>2 DEF ReplayInv, OneMarketOrder
<1>6. ASSUME strategy = "grid", ~ forgot PROVE LotsCover'
  <2>1. resting = <<>> /\ LotsCover
    BY <1>6 DEF ReplayInv, OneMarketOrder
  <2>2. QuantityToCome' = holdings'.quantity
    <3>1. holdings'.quantity \in Nat
      BY <1>2, <2>1, AccountIs
    <3> QED
      BY <1>1, <3>1 DEF QuantityToCome, AskedOf
  <2>3. QuantityToCome = holdings.quantity
    BY <1>1, NothingPending
  <2> QED
    BY <1>1, <1>2, <2>1, <2>2, <2>3 DEF LotsCover
<1> QED
  BY <1>1, <1>2, <1>3, <1>4, <1>5, <1>6 DEF ReplayInv

LEMMA StepThrow ==
    ASSUME NEW t \in RecordedTicks, NEW newDay \in BOOLEAN, ReplayInv, MatchThrows(t, newDay)
    PROVE  ReplayInv'
<1>1. /\ Matched(t, newDay) /\ decisions = <<>>
      /\ UNCHANGED <<strategy, mind, nextId, decisions, missed, savedState, forgot>>
  BY DEF MatchThrows, Ready, durable
<1>2. /\ Booked' /\ spent' \in 0 .. MaxDailyNotional
      /\ tick' \in [price : Nat, bid : Nat, ask : Nat, gap : BOOLEAN]
  BY <1>1, TickMatches
<1>3. ReplayTypes'
  BY <1>1, <1>2 DEF ReplayInv, ReplayTypes, Mind
<1>4. ReadDecisions'
  BY <1>1 DEF ReplayInv, ReadDecisions, ReadStrategyDecisions
<1>5. strategy = "caller"
  BY OnlyRestingThrow
<1> QED
  BY <1>1, <1>2, <1>3, <1>4, <1>5 DEF ReplayInv

LEMMA StepPersist ==
    ASSUME ReplayInv, PersistRuntime
    PROVE  ReplayInv'
<1>1. /\ savedState'.mind = mind \/ savedState'.mind = savedState.mind
      /\ UNCHANGED <<strategy, mind, holdings, resting, nextId, spent, tick, snapshot, decisions,
                     missed, forgot>>
  BY DEF PersistRuntime, Snapshot, loop, history
<1> QED
  BY <1>1 DEF ReplayInv, ReplayTypes, Mind, ReadDecisions, ReadStrategyDecisions, Booked,
              OneMarketOrder, LotsCover, QuantityToCome, AskedOf

LEMMA StepStutter ==
    ASSUME ReplayInv, UNCHANGED replayVars
    PROVE  ReplayInv'
<1>1. UNCHANGED <<strategy, mind, holdings, resting, nextId, spent, tick, snapshot, decisions,
                  missed, forgot, savedState>>
  BY DEF replayVars, loop, history, durable
<1> QED
  BY <1>1 DEF ReplayInv, ReplayTypes, Mind, ReadDecisions, ReadStrategyDecisions, Booked,
              OneMarketOrder, LotsCover, QuantityToCome, AskedOf

LEMMA StepCancel ==
    ASSUME ReplayInv, Cancel
    PROVE  ReplayInv'
<1>1. /\ decisions # <<>> /\ Head(decisions).kind = "cancel" /\ decisions' = Tail(decisions)
      /\ UNCHANGED <<strategy, mind, nextId, spent, tick, missed, forgot, savedState>>
  BY DEF Cancel, Pending, NextDecision, history, durable
<1>2. strategy = "caller"
  BY <1>1, PendingOrder
<1>3. ReplayTypes'
  BY <1>1 DEF ReplayInv, ReplayTypes, Mind
<1>4. ReadDecisions'
  BY <1>1, PendingOrder DEF ReadDecisions, ReadStrategyDecisions, ReplayInv
<1>5. Booked'
  <2>1. CASE UNCHANGED <<holdings, resting>>
    BY <2>1 DEF ReplayInv, Booked
  <2>2. ASSUME NEW i \in 1 .. Len(resting), holdings' = Release(holdings, resting[i]),
               resting' = RemoveAt(resting, i)
        PROVE  Booked'
    <3> DEFINE order == resting[i]
               rest == RemoveAt(resting, i)
    <3>1. holdings' = Release(holdings, order) /\ resting' = rest /\ holdings.thrown = {}
      BY <2>2 DEF Cancel, Pending
    <3>2. /\ order \in Orders /\ rest \in Seq(Orders)
          /\ TotalReserved(resting) = ReservedCash(order) + TotalReserved(rest)
          /\ ReservedQuantity(resting) = SoldBy(order) + ReservedQuantity(rest)
      BY AccountIs, OneRestsNoMore
    <3> HIDE DEF order, rest
    <3>3. /\ ReservedCash(order) \in Nat /\ SoldBy(order) \in Nat
          /\ TotalReserved(rest) \in Nat /\ ReservedQuantity(rest) \in Nat
      BY <3>2, OrderAmounts, ReservedAmounts
    <3>4. ReservedCash(order) <= holdings.reserved
      BY <3>2, <3>3, AccountIs
    <3>5. /\ Sound(holdings') /\ holdings'.reserved = holdings.reserved - ReservedCash(order)
          /\ holdings'.quantity = holdings.quantity
      BY <3>1, <3>2, <3>4, AccountIs, Released
    <3>6. holdings'.reserved = TotalReserved(resting') /\ ReservedQuantity(resting') <= holdings'.quantity
      BY <3>1, <3>2, <3>3, <3>5, AccountIs
    <3> QED
      BY <3>1, <3>2, <3>5, <3>6 DEF Booked, Covers
  <2> QED
    BY <2>1, <2>2 DEF Cancel
<1> QED
  BY <1>1, <1>2, <1>3, <1>4, <1>5 DEF ReplayInv

LEMMA StepRefuse ==
    ASSUME ReplayInv, Refuse
    PROVE  ReplayInv'
<1> DEFINE order == Head(decisions)
<1>1. /\ decisions # <<>> /\ order.kind = "place" /\ ~ Allowed(order)
      /\ decisions' = Tail(decisions) /\ missed' = TRUE
      /\ UNCHANGED <<strategy, mind, holdings, resting, nextId, spent, tick, forgot, savedState>>
  BY DEF Refuse, Pending, NextDecision, durable
<1>2. ReplayTypes'
  BY <1>1 DEF ReplayInv, ReplayTypes, Mind
<1>3. ReadDecisions'
  BY <1>1, PendingOrder DEF ReadDecisions, ReadStrategyDecisions, ReplayInv
<1>4. Booked'
  BY <1>1 DEF ReplayInv, Booked
<1>5. ASSUME strategy # "caller" PROVE OneMarketOrder'
  BY <1>1, <1>5, PendingOrder DEF ReplayInv, OneMarketOrder
<1>6. ASSUME strategy = "grid", ~ forgot PROVE LotsCover'
  <2>1. LotsCover /\ holdings.quantity \in Nat
    BY <1>6, AccountIs DEF ReplayInv
  <2>2. decisions' = <<>> /\ order.side = "BUY" /\ order.quantity \in Positive
        /\ QuantityToCome = holdings.quantity + order.quantity
    BY <1>1, <1>6, PendingOrder DEF Allowed
  <2> HIDE DEF order
  <2>3. QuantityToCome' = holdings.quantity
    BY <1>1, <2>1, <2>2 DEF QuantityToCome, AskedOf
  <2>4. Quantity * Cardinality(mind.lots) \in Nat
    BY LotsAreFinite, Products, Parameters DEF ReplayInv, ReplayTypes, Mind, Positive
  <2>5. holdings.quantity <= Quantity * Cardinality(mind.lots)
    BY <2>1, <2>2, <2>4 DEF LotsCover, Positive
  <2> QED
    BY <1>1, <2>3, <2>5 DEF LotsCover
<1> QED
  BY <1>1, <1>2, <1>3, <1>4, <1>5, <1>6 DEF ReplayInv

LEMMA RestoredMind ==
    ASSUME NEW m, Mind(m)
    PROVE  Mind(ReadState(m)) /\ Mind(NoMind)
<1>1. Mind(ReadGridState(m))
  <2>1. m.rung \in Int /\ Levels \in Int
    BY Parameters DEF Mind
  <2> DEFINE rung == Min({m.rung, Levels})
             lots == {s \in m.lots : s <= Levels - 2}
  <2>2. rung \in Int
    BY <2>1, LesserOfTwo
  <2>3. ReadGridState(m) = [rung |-> rung, lots |-> lots, prices |-> m.prices]
    <3>1. m = [rung |-> m.rung, lots |-> m.lots, prices |-> m.prices]
      BY DEF Mind
    <3>2. ReadGridState(m) = [m EXCEPT !.rung = rung, !.lots = lots]
      BY <3>1 DEF ReadGridState
    <3> HIDE DEF rung, lots
    <3> QED
      BY <3>1, <3>2
  <2>4. lots \subseteq Slots
    BY DEF Mind
  <2> HIDE DEF rung, lots
  <2> QED
    BY <2>2, <2>3, <2>4 DEF Mind
<1>2. Mind(ReadSmaCrossoverState(m))
  <2> DEFINE prices == Newest(m.prices, SlowPeriod + 1)
  <2>1. ReadSmaCrossoverState(m) = [rung |-> m.rung, lots |-> m.lots, prices |-> prices]
    BY DEF ReadSmaCrossoverState, Mind
  <2> HIDE DEF prices
  <2> QED
    BY <2>1 DEF Mind
<1>3. Mind(NoMind)
  BY DEF Mind, NoMind, NoRung
<1> QED
  BY <1>1, <1>2, <1>3 DEF ReadState

LEMMA StepRestart ==
    ASSUME ReplayInv, RestartRunner
    PROVE  ReplayInv'
<1>1. /\ Mind(mind')
      /\ decisions' = <<>>
      /\ forgot' = (forgot \/ holdings.quantity > Quantity * Cardinality(mind'.lots))
      /\ missed' = (missed \/ mind.lots # mind'.lots \/ decisions # <<>>)
      /\ UNCHANGED <<strategy, holdings, resting, nextId, spent, tick, snapshot, savedState>>
  <2>1. Mind(savedState.mind)
    BY DEF ReplayInv, ReplayTypes
  <2>2. mind' = ReadState(savedState.mind) \/ mind' = NoMind
    BY DEF RestartRunner, RestoreCell, RestoreNothing
  <2> QED
    BY <2>1, <2>2, RestoredMind DEF RestartRunner
<1>2. ReplayTypes'
  BY <1>1 DEF ReplayInv, ReplayTypes, Mind
<1>3. ReadDecisions'
  <2>1. <<>> \in Seq(Decisions) /\ Len(<<>>) = 0
    OBVIOUS
  <2>2. ReadStrategyDecisions(<<>>)
    BY <2>1 DEF ReadStrategyDecisions
  <2> QED
    BY <1>1, <2>1, <2>2 DEF ReadDecisions, ReadStrategyDecisions
<1>4. Booked'
  BY <1>1 DEF ReplayInv, Booked
<1>5. ASSUME strategy # "caller" PROVE OneMarketOrder'
  BY <1>1, <1>5 DEF ReplayInv, OneMarketOrder
<1>6. ASSUME strategy = "grid", ~ forgot' PROVE LotsCover'
  <2>1. ~ forgot /\ holdings.quantity \in Nat /\ holdings.quantity <= Quantity * Cardinality(mind'.lots)
    <3>1. ~ forgot /\ ~ (holdings.quantity > Quantity * Cardinality(mind'.lots)) /\ holdings.quantity \in Nat
      BY <1>1, <1>6, AccountIs
    <3>2. Quantity * Cardinality(mind'.lots) \in Nat
      BY <1>1, LotsAreFinite, Products, Parameters DEF Mind, Positive
    <3> QED
      BY <3>1, <3>2
  <2>2. QuantityToCome' = holdings.quantity
    BY <1>1, <2>1 DEF QuantityToCome, AskedOf
  <2>3. ASSUME ~ missed' PROVE QuantityToCome' = Quantity * Cardinality(mind'.lots)
    <3>1. ~ missed /\ mind.lots = mind'.lots /\ decisions = <<>>
      BY <1>1, <2>3
    <3>2. holdings.quantity = Quantity * Cardinality(mind.lots)
      BY <1>6, <2>1, <3>1, NothingPending DEF ReplayInv, LotsCover
    <3> QED
      BY <2>2, <3>1, <3>2
  <2> QED
    BY <1>1, <2>1, <2>2, <2>3 DEF LotsCover
<1> QED
  BY <1>1, <1>2, <1>3, <1>4, <1>5, <1>6 DEF ReplayInv

\* An order the exchange takes is priced, and covered by the account.
LEMMA Taken ==
    ASSUME ReplayInv, decisions # <<>>, Head(decisions).kind = "place",
           ~ Rejected(Head(decisions))
    PROVE  LET order == Head(decisions) IN
           /\ order.type \in {"MARKET", "LIMIT"} /\ PriceOf(order) \in Positive
           /\ order.side = "BUY" => CostOf("BUY", PriceOf(order), order.quantity) <= holdings.cash
           /\ order.side = "SELL" =>
                /\ order.quantity + ReservedQuantity(resting) <= holdings.quantity
<1> DEFINE order == Head(decisions)
<1>1. /\ order.side \in {"BUY", "SELL"} /\ order.quantity \in Positive
      /\ order.type = "LIMIT" => order.limit \in Positive
      /\ tick \in [price : Positive, bid : Nat, ask : Nat, gap : BOOLEAN]
  BY PendingOrder
<1>2. order.type \in {"MARKET", "LIMIT"} /\ Fundable(order)
  BY DEF Rejected
<1> HIDE DEF order
<1>3. PriceOf(order) \in Positive
  BY <1>1, <1>2, TouchIsPositive DEF PriceOf
<1>4. ASSUME order.side = "BUY"
      PROVE  CostOf("BUY", PriceOf(order), order.quantity) <= holdings.cash
  BY <1>2, <1>4 DEF Fundable
<1>5. ASSUME order.side = "SELL"
      PROVE  order.quantity + ReservedQuantity(resting) <= holdings.quantity
  <2>1. order.quantity <= holdings.quantity - ReservedQuantity(resting)
    BY <1>2, <1>5 DEF Fundable, Available
  <2> QED
    BY <1>1, <2>1, AccountIs DEF Positive
<1> QED
  BY <1>2, <1>3, <1>4, <1>5 DEF order

LEMMA StepSubmit ==
    ASSUME ReplayInv, Submit
    PROVE  ReplayInv'
<1> DEFINE order == Head(decisions)
           placed == [id |-> nextId, side |-> order.side, quantity |-> order.quantity,
                      limit |-> order.limit]
           fills == order.type = "MARKET" \/ Reaches(order.side, order.limit, tick)
<1>1. /\ decisions # <<>> /\ order.kind = "place" /\ Allowed(order) /\ holdings.thrown = {}
      /\ decisions' = Tail(decisions)
      /\ missed' = (missed \/ Rejected(order))
      /\ nextId' = IF Rejected(order) THEN nextId ELSE nextId + 1
      /\ spent' = spent + IF order.side = "BUY" THEN NotionalOf(order, tick) ELSE 0
      /\ UNCHANGED <<strategy, mind, tick, snapshot, forgot, savedState>>
  BY DEF Submit, Pending, NextDecision, durable
<1>2. /\ Rejected(order) => UNCHANGED <<holdings, resting>>
      /\ ~ Rejected(order) /\ fills =>
           /\ holdings' = Settle(holdings, order.side, PriceOf(order), order.quantity)
           /\ UNCHANGED resting
      /\ ~ Rejected(order) /\ ~ fills =>
           holdings' = Reserve(holdings, placed) /\ resting' = Append(resting, placed)
  BY DEF Submit
<1>3. /\ order.side \in {"BUY", "SELL"} /\ order.quantity \in Positive
      /\ order.limit \in Nat /\ order.stop \in Nat
      /\ order.type = "LIMIT" => order.limit \in Positive
      /\ tick \in [price : Positive, bid : Nat, ask : Nat, gap : BOOLEAN]
      /\ Tail(decisions) \in Seq(Decisions) /\ ReadStrategyDecisions(Tail(decisions))
  BY <1>1, PendingOrder
<1>4. ASSUME strategy # "caller"
      PROVE  /\ order.type = "MARKET" /\ order.listed
             /\ Tail(decisions) = <<>> /\ resting = <<>> /\ snapshot.held = holdings.quantity
             /\ order.side = "SELL" => order.quantity <= holdings.quantity
             /\ QuantityToCome = IF order.side = "BUY" THEN holdings.quantity + order.quantity
                                 ELSE holdings.quantity - order.quantity
  BY <1>1, <1>4, PendingOrder
<1>5. ~ Rejected(order) =>
        /\ order.type \in {"MARKET", "LIMIT"} /\ PriceOf(order) \in Positive
        /\ order.side = "BUY" => CostOf("BUY", PriceOf(order), order.quantity) <= holdings.cash
        /\ order.side = "SELL" => order.quantity + ReservedQuantity(resting) <= holdings.quantity
  BY <1>1, Taken
<1>6. ASSUME ~ Rejected(order), fills
      PROVE  /\ Sound(holdings') /\ holdings'.reserved = holdings.reserved
             /\ holdings'.quantity = IF order.side = "BUY" THEN holdings.quantity + order.quantity
                                    ELSE holdings.quantity - order.quantity
  <2>1. holdings' = Settle(holdings, order.side, PriceOf(order), order.quantity)
    BY <1>2, <1>6
  <2>2. Sound(holdings) /\ holdings.quantity \in Nat /\ ReservedQuantity(resting) \in Nat
    BY AccountIs
  <2> HIDE DEF order, fills
  <2>3. CASE order.side = "BUY"
    BY <1>1, <1>3, <1>5, <1>6, <2>1, <2>2, <2>3, Bought
  <2>4. CASE order.side = "SELL"
    <3>1. order.quantity <= holdings.quantity
      BY <1>3, <1>5, <1>6, <2>2, <2>4 DEF Positive
    <3> QED
      BY <1>1, <1>3, <1>5, <1>6, <2>1, <2>2, <2>4, <3>1, Sold
  <2> QED
    BY <1>3, <2>3, <2>4
<1>7. spent' \in 0 .. MaxDailyNotional
  <2>1. spent \in 0 .. MaxDailyNotional /\ MaxDailyNotional \in Nat
    BY Parameters DEF ReplayInv, ReplayTypes, Positive
  <2>2. NotionalOf(order, tick) \in Nat
    <3> HIDE DEF order
    <3> QED
      BY <1>3, Products DEF NotionalOf, Positive
  <2>3. order.side = "BUY" => spent + NotionalOf(order, tick) <= MaxDailyNotional
    BY <1>1 DEF Allowed, DailyEntryNotional
  <2> HIDE DEF order
  <2> QED
    BY <1>1, <2>1, <2>2, <2>3
<1>8. Booked'
  <2>1. CASE Rejected(order)
    BY <1>2, <2>1 DEF ReplayInv, Booked
  <2>2. CASE ~ Rejected(order) /\ fills
    <3>1. ReservedQuantity(resting) <= holdings'.quantity
      <4> HIDE DEF order, fills
      <4> QED
        BY <1>3, <1>5, <1>6, <2>2, AccountIs DEF Positive
    <3>2. resting' = resting
      BY <1>2, <2>2
    <3> QED
      BY <1>6, <2>2, <3>1, <3>2, AccountIs DEF Booked, Covers
  <2>3. CASE ~ Rejected(order) /\ ~ fills
    <3>1. holdings' = Reserve(holdings, placed) /\ resting' = Append(resting, placed)
      BY <1>2, <2>3
    <3>2. order.type = "LIMIT" /\ order.limit \in Positive /\ PriceOf(order) = order.limit
      BY <1>3, <1>5, <2>3 DEF PriceOf
    <3>3. /\ placed \in Orders /\ placed.side = order.side /\ placed.limit = order.limit
          /\ placed.quantity = order.quantity
      BY <1>3, <3>2 DEF Orders, ReplayInv, ReplayTypes
    <3> HIDE DEF placed, order
    <3>4. ReservedCash(placed) <= holdings.cash
      BY <1>3, <1>5, <2>3, <3>2, <3>3, AccountIs DEF ReservedCash
    <3>5. ReservedQuantity(resting) + SoldBy(placed) <= holdings.quantity
      <4>1. CASE order.side = "SELL"
        BY <1>3, <1>5, <2>3, <3>3, <4>1, AccountIs DEF SoldBy, Positive
      <4>2. CASE order.side = "BUY"
        BY <3>3, <4>2, AccountIs DEF SoldBy
      <4> QED
        BY <1>3, <4>1, <4>2
    <3>6. /\ Sound(holdings') /\ holdings'.reserved = holdings.reserved + ReservedCash(placed)
          /\ holdings'.quantity = holdings.quantity
      BY <1>1, <3>1, <3>3, <3>4, AccountIs, Reserved
    <3>7. /\ resting' \in Seq(Orders)
          /\ TotalReserved(resting') = TotalReserved(resting) + ReservedCash(placed)
          /\ ReservedQuantity(resting') = ReservedQuantity(resting) + SoldBy(placed)
      BY <3>1, <3>3, AccountIs, OneMoreRests
    <3>8. holdings'.reserved = TotalReserved(resting') /\ ReservedQuantity(resting') <= holdings'.quantity
      BY <3>5, <3>6, <3>7, AccountIs
    <3> QED
      BY <3>6, <3>7, <3>8 DEF Booked, Covers
  <2> QED
    BY <2>1, <2>2, <2>3
<1>9. ReplayTypes'
  BY <1>1, <1>7 DEF ReplayInv, ReplayTypes, Mind
<1>10. ReadDecisions'
  BY <1>1, <1>3 DEF ReadDecisions, ReadStrategyDecisions, ReplayInv
<1>11. ASSUME strategy # "caller", Rejected(order)
       PROVE  order.side = "BUY"
  <2>1. ~ Fundable(order)
    BY <1>4, <1>11 DEF Rejected
  <2>2. ASSUME order.side = "SELL" PROVE Fundable(order)
    <3>1. Available(holdings, resting) = holdings.quantity
      BY <1>4, <1>11, AccountIs, NothingRests DEF Available
    <3> QED
      BY <1>4, <1>11, <2>2, <3>1 DEF Fundable
  <2> QED
    BY <1>3, <2>1, <2>2
<1>12. ASSUME strategy # "caller" PROVE OneMarketOrder'
  <2>1. decisions' = <<>> /\ resting' = <<>>
    BY <1>1, <1>2, <1>4, <1>12
  <2>2. holdings'.quantity <= MaxPositionQuantity
    <3>1. /\ holdings.quantity <= MaxPositionQuantity /\ holdings.quantity \in Nat
          /\ MaxPositionQuantity \in Nat
      BY <1>12, AccountIs, Parameters DEF ReplayInv, OneMarketOrder, Positive
    <3>2. order.side = "BUY" => holdings.quantity + order.quantity <= MaxPositionQuantity
      BY <1>1, <1>4, <1>12 DEF Allowed
    <3>3. CASE Rejected(order)
      BY <1>2, <3>1, <3>3
    <3>4. CASE ~ Rejected(order)
      <4>1. holdings'.quantity = IF order.side = "BUY" THEN holdings.quantity + order.quantity
                                ELSE holdings.quantity - order.quantity
        BY <1>4, <1>6, <1>12, <3>4
      <4> HIDE DEF order
      <4> QED
        BY <1>3, <3>1, <3>2, <4>1 DEF Positive
    <3> QED
      BY <3>3, <3>4
  <2> QED
    BY <2>1, <2>2 DEF OneMarketOrder
<1>13. ASSUME strategy = "grid", ~ forgot PROVE LotsCover'
  <2>1. LotsCover /\ holdings.quantity \in Nat
    BY <1>13, AccountIs DEF ReplayInv
  <2>2. decisions' = <<>> /\ mind' = mind
    BY <1>1, <1>4, <1>13
  <2>3. Quantity * Cardinality(mind.lots) \in Nat
    BY LotsAreFinite, Products, Parameters DEF ReplayInv, ReplayTypes, Mind, Positive
  <2>4. CASE Rejected(order)
    <3>1. missed' = TRUE /\ holdings' = holdings /\ order.side = "BUY"
      BY <1>1, <1>2, <1>11, <1>13, <2>4
    <3>2. QuantityToCome = holdings.quantity + order.quantity
      BY <1>4, <1>13, <3>1
    <3> HIDE DEF order
    <3>3. holdings.quantity <= Quantity * Cardinality(mind.lots)
      BY <1>3, <2>1, <2>3, <3>2 DEF LotsCover, Positive
    <3>4. QuantityToCome' = holdings.quantity
      BY <2>1, <2>2, <3>1 DEF QuantityToCome, AskedOf
    <3> QED
      BY <2>2, <3>1, <3>3, <3>4 DEF LotsCover
  <2>5. CASE ~ Rejected(order)
    <3>1. holdings'.quantity = QuantityToCome /\ missed' = missed
      <4>1. missed' = missed
        BY <1>1, <2>5 DEF ReplayInv, ReplayTypes
      <4> QED
        BY <1>4, <1>6, <1>13, <2>5, <4>1
    <3>2. QuantityToCome' = holdings'.quantity
      <4>1. holdings'.quantity \in Nat
        BY <1>4, <1>6, <1>13, <2>5 DEF Sound, Accounts
      <4> QED
        BY <2>2, <4>1 DEF QuantityToCome, AskedOf
    <3> QED
      BY <2>1, <2>2, <3>1, <3>2 DEF LotsCover
  <2> QED
    BY <2>4, <2>5
<1> QED
  BY <1>1, <1>8, <1>9, <1>10, <1>12, <1>13 DEF ReplayInv

LEMMA StepOnTick ==
    ASSUME NEW t \in RecordedTicks, NEW newDay \in BOOLEAN, ReplayInv, OnTick(t, newDay)
    PROVE  ReplayInv'
<1>1. /\ Settled(t, newDay) /\ decisions = <<>>
      /\ UNCHANGED <<strategy, nextId, missed, forgot, savedState>>
  BY DEF OnTick, Ready, durable
<1>2. PICK next \in Reactions(t, snapshot') : mind' = next.mind /\ decisions' = next.orders
  BY DEF OnTick
<1>3. /\ Booked' /\ spent' \in 0 .. MaxDailyNotional
      /\ tick' \in [price : Nat, bid : Nat, ask : Nat, gap : BOOLEAN]
      /\ tick' = t /\ t.price \in Positive
      /\ snapshot'.held = holdings'.quantity
      /\ snapshot'.available = holdings'.quantity - ReservedQuantity(resting')
      /\ resting = <<>> => resting' = <<>> /\ holdings'.quantity = holdings.quantity
  BY <1>1, TickSettles
<1>4. Mind(mind) /\ strategy \in {"grid", "sma", "caller"} /\ holdings.quantity \in Nat
  BY AccountIs, Parameters DEF ReplayInv, ReplayTypes
<1>5. ASSUME strategy # "caller"
      PROVE  /\ resting' = <<>> /\ holdings'.quantity = holdings.quantity
             /\ snapshot'.held = holdings.quantity /\ snapshot'.available = holdings.quantity
             /\ holdings'.quantity <= MaxPositionQuantity
  <2>1. resting = <<>> /\ holdings.quantity <= MaxPositionQuantity
    BY <1>5 DEF ReplayInv, OneMarketOrder
  <2>2. resting' = <<>> /\ holdings'.quantity = holdings.quantity
    BY <1>3, <2>1
  <2>3. ReservedQuantity(resting') = 0
    BY <2>2, NothingRests
  <2> QED
    BY <1>3, <1>4, <2>1, <2>2, <2>3
<1>6. strategy = "grid" => next = AdvanceGrid(t, snapshot')
  BY <1>2 DEF Reactions
<1>7. strategy = "sma" => next = AdvanceSmaCrossover(t, snapshot')
  BY <1>2 DEF Reactions
<1>8. ASSUME strategy = "caller"
      PROVE  /\ mind' = mind /\ decisions' \in CallerDecisions
             /\ ReadStrategyDecisions(decisions')
  <2>1. Reactions(t, snapshot') = {[mind |-> mind, orders |-> list] :
                                     list \in {l \in CallerDecisions : ReadStrategyDecisions(l)}}
    BY <1>8 DEF Reactions
  <2> QED
    BY <1>2, <2>1
\* What a bundled strategy asks for, and what it does to the grid's lots.
<1>9. ASSUME strategy = "grid"
      PROVE  /\ Mind(mind')
             /\ \/ decisions' = <<>> /\ mind'.lots = mind.lots
                \/ \E k \in Positive :
                     /\ decisions' = <<MarketOrder("BUY", Quantity * k)>>
                     /\ Cardinality(mind'.lots) = Cardinality(mind.lots) + k
                \/ \E k \in 0 .. Cardinality(mind.lots) :
                     LET amount == Min({holdings.quantity, Quantity * k}) IN
                     /\ decisions' = IF amount = 0 THEN <<>> ELSE <<MarketOrder("SELL", amount)>>
                     /\ Cardinality(mind'.lots) = Cardinality(mind.lots) - k
  <2>1. snapshot'.available = holdings.quantity
    BY <1>5, <1>9
  <2> DEFINE view == snapshot'
  <2>2. next = AdvanceGrid(t, view) /\ view.available = holdings.quantity
    BY <1>6, <1>9, <2>1
  <2> HIDE DEF view
  <2> QED
    BY <1>2, <1>4, <2>2, GridReacts
<1>10. ASSUME strategy = "sma"
       PROVE  /\ Mind(mind')
              /\ \/ decisions' = <<>>
                 \/ decisions' = <<MarketOrder("BUY", Quantity)>>
                 \/ /\ holdings.quantity > 0
                    /\ decisions' = <<MarketOrder("SELL", holdings.quantity)>>
  <2>1. snapshot'.available = holdings.quantity
    BY <1>5, <1>10
  <2> DEFINE view == snapshot'
  <2>2. next = AdvanceSmaCrossover(t, view) /\ view.available = holdings.quantity
    BY <1>7, <1>10, <2>1
  <2> HIDE DEF view
  <2> QED
    BY <1>2, <1>4, <2>2, CrossoverReacts
<1>11. ASSUME NEW k \in 0 .. Cardinality(mind.lots)
       PROVE  LET amount == Min({holdings.quantity, Quantity * k}) IN
              /\ amount \in 0 .. holdings.quantity /\ amount <= Quantity * k
              /\ amount \in {holdings.quantity, Quantity * k} /\ Quantity * k \in Nat
  <2> DEFINE lot == Quantity * k
             amount == Min({holdings.quantity, lot})
  <2>1. Cardinality(mind.lots) \in Nat
    BY <1>4, LotsAreFinite DEF Mind
  <2>2. lot \in Nat
    BY <2>1, Parameters, Products DEF Positive
  <2> HIDE DEF lot
  <2>3. holdings.quantity \in Int /\ lot \in Int
    BY <1>4, <2>2
  <2>4. /\ amount \in {holdings.quantity, lot} /\ amount <= holdings.quantity /\ amount <= lot
    BY <2>3, LesserOfTwo
  <2> HIDE DEF amount
  <2>5. amount \in 0 .. holdings.quantity
    BY <1>4, <2>2, <2>4
  <2> QED
    BY <2>2, <2>4, <2>5 DEF amount, lot
<1>12. ASSUME strategy # "caller"
       PROVE  \/ decisions' = <<>>
              \/ \E quantity \in Positive : decisions' = <<MarketOrder("BUY", quantity)>>
              \/ \E quantity \in 1 .. holdings'.quantity :
                   decisions' = <<MarketOrder("SELL", quantity)>>
  <2>1. CASE strategy = "grid"
    <3>1. CASE decisions' = <<>>
      BY <3>1
    <3>2. ASSUME NEW k \in Positive, decisions' = <<MarketOrder("BUY", Quantity * k)>>
          PROVE  \E quantity \in Positive : decisions' = <<MarketOrder("BUY", quantity)>>
      BY <3>2, Parameters, PositiveProduct
    <3>3. ASSUME NEW k \in 0 .. Cardinality(mind.lots), decisions' # <<>>,
                 decisions' = IF Min({holdings.quantity, Quantity * k}) = 0 THEN <<>>
                              ELSE <<MarketOrder("SELL", Min({holdings.quantity, Quantity * k}))>>
          PROVE  \E quantity \in 1 .. holdings'.quantity :
                   decisions' = <<MarketOrder("SELL", quantity)>>
      <4> DEFINE amount == Min({holdings.quantity, Quantity * k})
      <4>1. amount \in 0 .. holdings.quantity
        BY <1>11
      <4>2. amount # 0 /\ decisions' = <<MarketOrder("SELL", amount)>>
        BY <3>3
      <4> HIDE DEF amount
      <4>3. amount \in 1 .. holdings'.quantity
        BY <1>4, <1>5, <1>12, <4>1, <4>2
      <4> QED
        BY <4>2, <4>3
    <3> QED
      BY <1>9, <2>1, <3>1, <3>2, <3>3
  <2>2. CASE strategy = "sma"
    <3>1. Quantity \in Positive
      BY Parameters
    <3>2. holdings.quantity > 0 => holdings.quantity \in 1 .. holdings'.quantity
      BY <1>4, <1>5, <1>12
    <3> QED
      BY <1>10, <2>2, <3>1, <3>2
  <2> QED
    BY <1>4, <1>12, <2>1, <2>2
<1>13. ReplayTypes'
  <2>1. Mind(mind')
    BY <1>4, <1>8, <1>9, <1>10
  <2> QED
    BY <1>1, <1>3, <2>1 DEF ReplayInv, ReplayTypes, Mind
<1>14. decisions' \in Seq(Decisions) /\ ReadStrategyDecisions(decisions')
  <2>1. CASE strategy = "caller"
    BY <1>8, <2>1, Parameters
  <2>2. CASE decisions' = <<>>
    <3>1. <<>> \in Seq(Decisions) /\ Len(<<>>) = 0
      OBVIOUS
    <3>2. ReadStrategyDecisions(<<>>)
      BY <3>1 DEF ReadStrategyDecisions
    <3> QED
      BY <2>2, <3>1, <3>2
  <2>3. ASSUME NEW side \in {"BUY", "SELL"}, NEW quantity \in Positive,
               decisions' = <<MarketOrder(side, quantity)>>
        PROVE  decisions' \in Seq(Decisions) /\ ReadStrategyDecisions(decisions')
    BY <2>3, MarketOrdersAreRead
  <2>4. ASSUME NEW quantity \in 1 .. holdings'.quantity,
               decisions' = <<MarketOrder("SELL", quantity)>>, strategy # "caller"
        PROVE  decisions' \in Seq(Decisions) /\ ReadStrategyDecisions(decisions')
    <3>1. quantity \in Positive
      BY <1>4, <1>5, <2>4 DEF Positive
    <3> QED
      BY <2>3, <2>4, <3>1
  <2> QED
    BY <1>12, <2>1, <2>2, <2>3, <2>4
<1>15. ReadDecisions'
  BY <1>3, <1>14 DEF ReadDecisions, ReadStrategyDecisions
<1>16. strategy # "caller" => OneMarketOrder'
  BY <1>5, <1>12 DEF OneMarketOrder
<1>17. ASSUME strategy = "grid", ~ forgot PROVE LotsCover'
  <2> DEFINE q == holdings.quantity
             m == Cardinality(mind.lots)
             n == Cardinality(mind'.lots)
  <2>1. /\ q \in Nat /\ q <= Quantity * m /\ (~ missed => q = Quantity * m)
        /\ holdings'.quantity = q /\ missed' = missed
    BY <1>1, <1>4, <1>5, <1>17, NothingPending DEF ReplayInv, LotsCover
  <2>2. m \in Nat /\ Quantity \in Nat /\ Quantity * m \in Nat
    BY <1>4, LotsAreFinite, Products, Parameters DEF Mind, Positive
  <2>3. SUFFICES /\ QuantityToCome' <= Quantity * n
                 /\ ~ missed => QuantityToCome' = Quantity * n
    BY <2>1 DEF LotsCover
  <2>4. CASE decisions' = <<>> /\ mind'.lots = mind.lots
    <3>1. QuantityToCome' = q /\ n = m
      BY <2>1, <2>4 DEF QuantityToCome, AskedOf
    <3> HIDE DEF q, m, n
    <3> QED
      BY <2>1, <3>1
  <2>5. ASSUME NEW k \in Positive, decisions' = <<MarketOrder("BUY", Quantity * k)>>, n = m + k
        PROVE  /\ QuantityToCome' <= Quantity * n
               /\ ~ missed => QuantityToCome' = Quantity * n
    <3> DEFINE lot == Quantity * k
    <3>1. lot \in Nat /\ Quantity * n = Quantity * m + lot
      BY <2>2, <2>5, Products, Distributes DEF Positive
    <3> HIDE DEF lot
    <3>2. /\ decisions' # <<>> /\ Head(decisions').side = "BUY"
          /\ Head(decisions').quantity = lot
      BY <2>5 DEF MarketOrder, lot
    <3>3. QuantityToCome' = q + lot
      BY <2>1, <3>1, <3>2 DEF QuantityToCome, AskedOf
    <3> HIDE DEF q, m, n
    <3> QED
      BY <2>1, <2>2, <3>1, <3>3
  <2>6. ASSUME NEW k \in 0 .. m, n = m - k,
               decisions' = IF Min({q, Quantity * k}) = 0 THEN <<>>
                            ELSE <<MarketOrder("SELL", Min({q, Quantity * k}))>>
        PROVE  /\ QuantityToCome' <= Quantity * n
               /\ ~ missed => QuantityToCome' = Quantity * n
    <3> DEFINE lot == Quantity * k
               amount == Min({q, lot})
    <3>1. amount \in 0 .. q /\ amount <= lot /\ amount \in {q, lot} /\ lot \in Nat
      BY <1>11
    <3>2. Quantity * n = Quantity * m - lot /\ lot <= Quantity * m
      <4>1. k \in Nat /\ k <= m
        BY <2>2
      <4> HIDE DEF m, n
      <4> QED
        BY <2>2, <2>6, <4>1, Distributes, LargerProduct
    <3>3. QuantityToCome' = q - amount
      <4>1. CASE amount = 0
        <5>1. decisions' = <<>>
          BY <2>6, <4>1
        <5> HIDE DEF amount
        <5> QED
          BY <2>1, <4>1, <5>1 DEF QuantityToCome, AskedOf
      <4>2. CASE amount # 0
        <5>1. decisions' = <<MarketOrder("SELL", amount)>>
          BY <2>6, <4>2
        <5> HIDE DEF amount
        <5>2. /\ decisions' # <<>> /\ Head(decisions').side = "SELL"
              /\ Head(decisions').quantity = amount
          BY <5>1 DEF MarketOrder
        <5> QED
          BY <2>1, <3>1, <5>2 DEF QuantityToCome, AskedOf
      <4> QED
        BY <4>1, <4>2
    <3> HIDE DEF q, m, n, lot, amount
    <3> QED
      BY <2>1, <2>2, <3>1, <3>2, <3>3
  <2> QED
    BY <1>9, <1>17, <2>4, <2>5, <2>6
<1> QED
  BY <1>1, <1>3, <1>13, <1>15, <1>16, <1>17 DEF ReplayInv

THEOREM ReplayInvariant == ReplaySpec => []ReplayInv
<1>1. ReplayInit => ReplayInv
  BY Initially
<1>2. ReplayInv /\ [ReplayNext]_replayVars => ReplayInv'
  <2> SUFFICES ASSUME ReplayInv, [ReplayNext]_replayVars PROVE ReplayInv'
    OBVIOUS
  <2>1. ASSUME NEW t \in RecordedTicks, NEW newDay \in BOOLEAN, OnTick(t, newDay) PROVE ReplayInv'
    BY <2>1, StepOnTick
  <2>2. ASSUME NEW t \in RecordedTicks, NEW newDay \in BOOLEAN,
               Contain(t, newDay) \/ Quarantined(t, newDay)
        PROVE  ReplayInv'
    BY <2>2, StepWithoutDecision
  <2>3. ASSUME NEW t \in RecordedTicks, NEW newDay \in BOOLEAN, MatchThrows(t, newDay)
         PROVE  ReplayInv'
    BY <2>3, StepThrow
  <2>4. CASE Cancel
    BY <2>4, StepCancel
  <2>5. CASE Refuse
    BY <2>5, StepRefuse
  <2>6. CASE Submit
    BY <2>6, StepSubmit
  <2>7. CASE PersistRuntime
    BY <2>7, StepPersist
  <2>8. CASE RestartRunner
    BY <2>8, StepRestart
  <2>9. CASE Report
    BY <2>9, StepStutter DEF Report
  <2>10. CASE UNCHANGED replayVars
    BY <2>10, StepStutter
  <2> QED
    BY <2>1, <2>2, <2>3, <2>4, <2>5, <2>6, <2>7, <2>8, <2>9, <2>10 DEF ReplayNext
<1> QED
  BY <1>1, <1>2, PTL DEF ReplaySpec

\* Nothing is made or lost by any sequence of settlements, reservations and
\* rounded fees and costs, whatever the prices, the rates, the rounding and the
\* orders asked for: the wallet covers every resting order, and the one
\* settlement that throws is a sale whose fee is more than it brings and the
\* wallet holds.
THEOREM BooksAlwaysBalance == ReplaySpec => []BooksBalance
<1>1. ReplayInv => BooksBalance
  <2> SUFFICES ASSUME ReplayInv PROVE BooksBalance
    OBVIOUS
  <2>1. /\ holdings.cash \in Nat /\ holdings.cost \in Nat
    BY AccountIs DEF Accounts
  <2>2. /\ holdings.thrown = {} =>
              holdings.cash + holdings.reserved + holdings.cost = Cash + holdings.realised
        /\ \A sale \in holdings.thrown : Overdraws(sale, holdings.cash)
        /\ holdings.quantity = 0 => holdings.cost = 0
    BY AccountIs DEF Sound
  <2>3. Available(holdings, resting) >= 0
    BY AccountIs DEF Available
  <2> QED
    BY <2>1, <2>2, <2>3, AccountIs DEF BooksBalance
<1> QED
  BY <1>1, ReplayInvariant, PTL

\* The day's entries keep to the day's limit, a bundled strategy keeps to the
\* position limit, and the grid holds no more than the lots it remembers.
THEOREM NeverHoldsTooMuch == ReplaySpec => []NeverOverexposed
<1>1. ReplayInv => NeverOverexposed
  <2> SUFFICES ASSUME ReplayInv PROVE NeverOverexposed
    OBVIOUS
  <2>1. ASSUME strategy = "grid", decisions = <<>>, ~ forgot
        PROVE  /\ holdings.quantity <= Quantity * Cardinality(mind.lots)
               /\ ~ missed => holdings.quantity = Quantity * Cardinality(mind.lots)
    BY <2>1, NothingPending DEF ReplayInv, LotsCover
  <2>2. spent <= MaxDailyNotional
    BY Parameters DEF ReplayInv, ReplayTypes, Positive
  <2>3. strategy # "caller" => holdings.quantity <= MaxPositionQuantity /\ resting = <<>>
    BY DEF ReplayInv, OneMarketOrder
  <2> QED
    BY <2>1, <2>2, <2>3 DEF NeverOverexposed
<1> QED
  BY <1>1, ReplayInvariant, PTL

-----------------------------------------------------------------------------
(* The newest of a sequence                                                *)

LEMMA NewestIs ==
    ASSUME NEW s \in Seq(Nat), NEW n \in Nat
    PROVE  LET r == Newest(s, n) IN
           /\ r \in Seq(Nat) /\ Len(r) = IF Len(s) > n THEN n ELSE Len(s)
           /\ \A i \in 1 .. Len(r) : r[i] = s[Len(s) - Len(r) + i]
<1> DEFINE first == IF Len(s) > n THEN Len(s) - n + 1 ELSE 1
           r == SubSeq(s, first, Len(s))
<1>1. Len(s) \in Nat /\ first \in Int /\ first >= 1 /\ Newest(s, n) = r
  BY DEF Newest
<1>2. \A i \in first .. Len(s) : s[i] \in Nat
  BY <1>1
<1>3. /\ r \in Seq(Nat) /\ Len(r) = (IF first <= Len(s) THEN Len(s) - first + 1 ELSE 0)
      /\ \A i \in 1 .. (Len(s) - first + 1) : r[i] = s[first + i - 1]
  <2> HIDE DEF first
  <2> QED
    BY <1>1, <1>2, SubSeqProperties
<1> HIDE DEF r
<1>4. Len(r) = IF Len(s) > n THEN n ELSE Len(s)
  <2>1. CASE Len(s) > n
    <3>1. first = Len(s) - n + 1
      BY <2>1
    <3> HIDE DEF first
    <3> QED
      BY <1>1, <1>3, <2>1, <3>1
  <2>2. CASE ~ (Len(s) > n)
    <3>1. first = 1
      BY <2>2
    <3> HIDE DEF first
    <3> QED
      BY <1>1, <1>3, <2>2, <3>1
  <2> QED
    BY <2>1, <2>2
<1>5. \A i \in 1 .. Len(r) : r[i] = s[Len(s) - Len(r) + i]
  <2>1. Len(s) - Len(r) = first - 1 /\ Len(r) = Len(s) - first + 1
    BY <1>1, <1>4
  <2> HIDE DEF first
  <2> SUFFICES ASSUME NEW i \in 1 .. Len(r) PROVE r[i] = s[Len(s) - Len(r) + i]
    OBVIOUS
  <2>2. i \in 1 .. (Len(s) - first + 1) /\ first + i - 1 = Len(s) - Len(r) + i
    BY <1>1, <2>1
  <2>3. r[i] = s[first + i - 1]
    BY <1>3, <2>2
  <2> QED
    BY <2>2, <2>3
<1> HIDE DEF first
<1> QED
  BY <1>1, <1>3, <1>4, <1>5

LEMMA NewestOfNewest ==
    ASSUME NEW s \in Seq(Nat), NEW m \in Nat, NEW n \in 0 .. m
    PROVE  Newest(Newest(s, m), n) = Newest(s, n)
<1> DEFINE r == Newest(s, m)
           p == Newest(r, n)
           q == Newest(s, n)
<1>1. /\ r \in Seq(Nat) /\ Len(r) = (IF Len(s) > m THEN m ELSE Len(s))
      /\ \A i \in 1 .. Len(r) : r[i] = s[Len(s) - Len(r) + i]
  BY NewestIs
<1>2. /\ q \in Seq(Nat) /\ Len(q) = (IF Len(s) > n THEN n ELSE Len(s))
      /\ \A i \in 1 .. Len(q) : q[i] = s[Len(s) - Len(q) + i]
  BY NewestIs
<1> HIDE DEF r, q
<1>3. /\ p \in Seq(Nat) /\ Len(p) = (IF Len(r) > n THEN n ELSE Len(r))
      /\ \A i \in 1 .. Len(p) : p[i] = r[Len(r) - Len(p) + i]
  <2>1. n \in Nat
    OBVIOUS
  <2> QED
    BY <1>1, <2>1, NewestIs
<1> HIDE DEF p
<1>4. Len(s) \in Nat /\ Len(p) = Len(q) /\ Len(r) \in Nat /\ Len(p) \in Nat
      /\ Len(p) <= Len(r)
  BY <1>1, <1>2, <1>3
<1>5. ASSUME NEW i \in 1 .. Len(p) PROVE p[i] = q[i]
  <2>1. Len(r) - Len(p) + i \in 1 .. Len(r)
    BY <1>4
  <2>2. Len(s) - Len(r) + (Len(r) - Len(p) + i) = Len(s) - Len(q) + i
    BY <1>4
  <2> QED
    BY <1>1, <1>2, <1>3, <1>4, <2>1, <2>2
<1> QED
  BY <1>2, <1>3, <1>4, <1>5, SeqEqual DEF p, q, r

LEMMA NewestAppended ==
    ASSUME NEW s \in Seq(Nat), NEW e \in Nat, NEW n \in Nat
    PROVE  Append(Newest(s, n), e) = Newest(Append(s, e), n + 1)
<1> DEFINE r == Newest(s, n)
           t == Append(s, e)
           p == Append(r, e)
           q == Newest(t, n + 1)
<1>1. /\ r \in Seq(Nat) /\ Len(r) = (IF Len(s) > n THEN n ELSE Len(s))
      /\ \A i \in 1 .. Len(r) : r[i] = s[Len(s) - Len(r) + i]
  BY NewestIs
<1>2. /\ t \in Seq(Nat) /\ Len(t) = Len(s) + 1 /\ t[Len(s) + 1] = e
      /\ \A i \in 1 .. Len(s) : t[i] = s[i]
  BY AppendProperties
<1> HIDE DEF r, t
<1>3. /\ p \in Seq(Nat) /\ Len(p) = Len(r) + 1 /\ p[Len(r) + 1] = e
      /\ \A i \in 1 .. Len(r) : p[i] = r[i]
  BY <1>1, AppendProperties
<1>4. /\ q \in Seq(Nat) /\ Len(q) = (IF Len(t) > n + 1 THEN n + 1 ELSE Len(t))
      /\ \A i \in 1 .. Len(q) : q[i] = t[Len(t) - Len(q) + i]
  <2>1. n + 1 \in Nat
    OBVIOUS
  <2> QED
    BY <1>2, <2>1, NewestIs
<1> HIDE DEF p, q
<1>5. Len(s) \in Nat /\ Len(p) = Len(q) /\ Len(t) - Len(q) = Len(s) - Len(r)
  <2>1. /\ Len(s) \in Nat /\ Len(r) = (IF Len(s) > n THEN n ELSE Len(s)) /\ Len(t) = Len(s) + 1
        /\ Len(p) = Len(r) + 1 /\ Len(q) = (IF Len(t) > n + 1 THEN n + 1 ELSE Len(t))
    BY <1>1, <1>2, <1>3, <1>4
  <2>2. CASE Len(s) > n
    BY <2>1, <2>2
  <2>3. CASE ~ (Len(s) > n)
    BY <2>1, <2>3
  <2> QED
    BY <2>2, <2>3
<1>6. ASSUME NEW i \in 1 .. Len(p) PROVE p[i] = q[i]
  <2>1. q[i] = t[Len(s) - Len(r) + i]
    BY <1>4, <1>5
  <2>2. CASE i = Len(r) + 1
    BY <1>1, <1>2, <1>3, <1>5, <2>1, <2>2
  <2>3. CASE i \in 1 .. Len(r)
    <3>1. Len(s) - Len(r) + i \in 1 .. Len(s)
      BY <1>1, <1>5, <2>3
    <3> QED
      BY <1>1, <1>2, <1>3, <2>1, <2>3, <3>1
  <2> QED
    BY <1>1, <1>3, <1>5, <2>2, <2>3
<1> QED
  BY <1>3, <1>4, <1>5, <1>6, SeqEqual DEF p, q, r, t

\* Of a full window, the newest prices and those of one tick earlier are
\* stretches of the whole series.
LEMMA WindowShows ==
    ASSUME NEW s \in Seq(Nat), NEW n \in Nat, Len(s) > n, NEW k \in 1 .. n
    PROVE  LET prices == Newest(s, n + 1)
               m == Len(s) IN
           /\ Len(prices) = n + 1
           /\ Newest(prices, k) = SubSeq(s, m - k + 1, m)
           /\ Newest(Front(prices), k) = SubSeq(s, (m - 1) - k + 1, m - 1)
<1> DEFINE prices == Newest(s, n + 1)
           m == Len(s)
           front == Front(prices)
<1>1. m \in Nat /\ m >= n + 1 /\ \A i \in 1 .. m : s[i] \in Nat
  OBVIOUS
<1>2. /\ prices \in Seq(Nat) /\ Len(prices) = n + 1
      /\ \A i \in 1 .. (n + 1) : prices[i] = s[m - (n + 1) + i]
  <2>1. n + 1 \in Nat
    OBVIOUS
  <2>2. /\ prices \in Seq(Nat) /\ Len(prices) = (IF m > n + 1 THEN n + 1 ELSE m)
        /\ \A i \in 1 .. Len(prices) : prices[i] = s[m - Len(prices) + i]
    BY <2>1, NewestIs
  <2> HIDE DEF prices
  <2>3. Len(prices) = n + 1
    <3>1. CASE m > n + 1
      BY <2>2, <3>1
    <3>2. CASE ~ (m > n + 1)
      <4>1. m = n + 1
        BY <1>1, <3>2
      <4> QED
        BY <2>2, <3>2, <4>1
    <3> QED
      BY <3>1, <3>2
  <2> QED
    BY <2>2, <2>3
<1>3. Newest(prices, k) = SubSeq(s, m - k + 1, m)
  <2>1. Newest(prices, k) = Newest(s, k)
    <3>1. n + 1 \in Nat /\ k \in 0 .. (n + 1)
      OBVIOUS
    <3> QED
      BY <3>1, NewestOfNewest
  <2>2. Newest(s, k) = SubSeq(s, m - k + 1, m)
    <3>1. m > k
      BY <1>1
    <3> QED
      BY <3>1 DEF Newest
  <2> QED
    BY <2>1, <2>2
<1> HIDE DEF prices
<1>4. /\ front \in Seq(Nat) /\ Len(front) = n
      /\ \A i \in 1 .. n : front[i] = s[m - (n + 1) + i]
  <2>1. front = SubSeq(prices, 1, n)
    BY <1>2 DEF Front
  <2>2. \A i \in 1 .. n : prices[i] \in Nat
    <3>1. \A i \in 1 .. n : i \in 1 .. Len(prices)
      BY <1>2
    <3> QED
      BY <1>2, <3>1, ElementOfSeq
  <2>3. /\ front \in Seq(Nat) /\ Len(front) = (IF 1 <= n THEN n - 1 + 1 ELSE 0)
        /\ \A i \in 1 .. (n - 1 + 1) : front[i] = prices[1 + i - 1]
    <3> HIDE DEF front
    <3> QED
      BY <2>1, <2>2, SubSeqProperties
  <2> HIDE DEF front
  <2>4. Len(front) = n /\ \A i \in 1 .. n : i \in 1 .. (n - 1 + 1) /\ 1 + i - 1 = i /\ i \in 1 .. (n + 1)
    BY <2>3
  <2> QED
    BY <1>2, <2>3, <2>4
<1> HIDE DEF front
<1>5. /\ Newest(front, k) \in Seq(Nat) /\ Len(Newest(front, k)) = k
      /\ \A i \in 1 .. k : Newest(front, k)[i] = front[n - k + i]
  <2> DEFINE x == Newest(front, k)
  <2>1. k \in Nat /\ k <= n
    OBVIOUS
  <2>2. /\ x \in Seq(Nat) /\ Len(x) = (IF Len(front) > k THEN k ELSE Len(front))
        /\ \A i \in 1 .. Len(x) : x[i] = front[Len(front) - Len(x) + i]
    BY <1>4, <2>1, NewestIs
  <2> HIDE DEF x
  <2>3. Len(x) = k
    BY <1>4, <2>1, <2>2
  <2>4. x \in Seq(Nat) /\ Len(x) = k /\ \A i \in 1 .. k : x[i] = front[n - k + i]
    BY <1>4, <2>2, <2>3
  <2> QED
    BY <2>4 DEF x
<1>6. /\ SubSeq(s, (m - 1) - k + 1, m - 1) \in Seq(Nat)
      /\ Len(SubSeq(s, (m - 1) - k + 1, m - 1)) = k
      /\ \A i \in 1 .. k : SubSeq(s, (m - 1) - k + 1, m - 1)[i] = s[m - 1 - k + i]
  <2> DEFINE a == (m - 1) - k + 1
             b == m - 1
  <2>1. a \in Int /\ b \in Int /\ a <= b /\ b - a + 1 = k /\ \A i \in a .. b : s[i] \in Nat
    BY <1>1
  <2>2. \A i \in 1 .. k : a + i - 1 = m - 1 - k + i
    BY <1>1
  <2> HIDE DEF a, b
  <2>3. /\ SubSeq(s, a, b) \in Seq(Nat) /\ Len(SubSeq(s, a, b)) = b - a + 1
        /\ \A i \in 1 .. (b - a + 1) : SubSeq(s, a, b)[i] = s[a + i - 1]
    BY <2>1, SubSeqProperties
  <2>4. SubSeq(s, a, b) \in Seq(Nat) /\ Len(SubSeq(s, a, b)) = k
        /\ \A i \in 1 .. k : SubSeq(s, a, b)[i] = s[m - 1 - k + i]
    BY <2>1, <2>2, <2>3
  <2> QED
    BY <2>4 DEF a, b
<1>7. \A i \in 1 .. k : Newest(front, k)[i] = SubSeq(s, (m - 1) - k + 1, m - 1)[i]
  <2> SUFFICES ASSUME NEW i \in 1 .. k
               PROVE  Newest(front, k)[i] = s[m - 1 - k + i]
    BY <1>6
  <2>1. n - k + i \in 1 .. n /\ m - (n + 1) + (n - k + i) = m - 1 - k + i
    BY <1>1
  <2> QED
    BY <1>4, <1>5, <2>1
<1>8. Newest(front, k) = SubSeq(s, (m - 1) - k + 1, m - 1)
  <2> DEFINE x == Newest(front, k)
             y == SubSeq(s, (m - 1) - k + 1, m - 1)
  <2>1. x \in Seq(Nat) /\ y \in Seq(Nat) /\ Len(x) = Len(y) /\ \A i \in 1 .. Len(x) : x[i] = y[i]
    BY <1>5, <1>6, <1>7
  <2> HIDE DEF x, y
  <2>2. x = y
    BY <2>1, SeqEqual
  <2> QED
    BY <2>2 DEF x, y
<1> QED
  BY <1>2, <1>3, <1>8 DEF front, prices

-----------------------------------------------------------------------------
(* What the strategies read off the price                                  *)

LEMMA SignalParameters ==
    /\ LowerPrice \in Positive /\ Step \in Positive /\ Levels \in Nat /\ Levels >= 2
    /\ SlowPeriod \in Nat /\ FastPeriod \in 1 .. SlowPeriod /\ SlowPeriod \in 1 .. SlowPeriod
BY BacktestAssumption DEF PlanValid, GridParamsValid, SmaParamsValid, Positive

\* A rung counts the levels at or below the price, which are the lowest.
LEMMA RungIs ==
    ASSUME NEW price \in Nat
    PROVE  /\ RungOf(price) \in 0 .. Levels
           /\ \A n \in 0 .. (Levels - 1) : price >= LowerPrice + n * Step <=> n < RungOf(price)
<1> DEFINE At(n) == price >= LowerPrice + n * Step
           R == {n \in 0 .. (Levels - 1) : At(n)}
           T == {n \in 0 .. Levels : n = Levels \/ ~ At(n)}
<1>1. PICK m \in T : \A n \in T : m <= n
  <2>1. T \in SUBSET Nat /\ T # {}
    <3>1. Levels \in T
      BY SignalParameters
    <3> QED
      BY <3>1
  <2> HIDE DEF T
  <2> QED
    BY <2>1, LeastNatural
<1>2. m \in 0 .. Levels
  OBVIOUS
<1>3. \A n \in 0 .. (Levels - 1) : At(n) <=> n < m
  <2> SUFFICES ASSUME NEW n \in 0 .. (Levels - 1) PROVE At(n) <=> n < m
    OBVIOUS
  <2>1. CASE n < m
    <3>1. n \notin T
      <4> HIDE DEF T
      <4> QED
        BY <1>1, <1>2, <2>1
    <3> QED
      BY <2>1, <3>1, SignalParameters
  <2>2. CASE n >= m
    <3>1. m \in 0 .. (Levels - 1) /\ ~ At(m)
      BY <1>2, <2>2, SignalParameters
    <3>2. Step * m <= Step * n /\ Step * m \in Nat /\ Step * n \in Nat
      <4>1. Step \in Nat /\ m \in Nat /\ n \in Nat /\ m <= n
        BY <1>2, <2>2, SignalParameters DEF Positive
      <4> QED
        BY <4>1, LargerProduct, Products
    <3>3. m * Step = Step * m /\ n * Step = Step * n
      BY <1>2, SignalParameters DEF Positive
    <3>4. ~ At(n)
      <4>1. LowerPrice \in Nat
        BY SignalParameters DEF Positive
      <4> QED
        BY <3>1, <3>2, <3>3, <4>1
    <3>5. ~ (n < m)
      BY <1>2, <2>2
    <3> QED
      BY <3>4, <3>5
  <2> QED
    BY <1>2, <2>1, <2>2
<1> HIDE DEF At
<1>4. R = 0 .. (m - 1)
  <2>1. Levels \in Nat
    BY SignalParameters
  <2> QED
    BY <1>2, <1>3, <2>1
<1>5. Cardinality(R) = m
  <2>1. Cardinality(0 .. (m - 1)) = (IF 0 <= m - 1 THEN m - 1 - 0 + 1 ELSE 0)
    <3>1. 0 \in Int /\ m - 1 \in Int
      BY <1>2
    <3> QED
      BY <3>1, FS_Interval
  <2>2. Cardinality(0 .. (m - 1)) = m
    BY <1>2, <2>1
  <2> QED
    BY <1>4, <2>2
<1>6. RungOf(price) = m
  BY <1>5 DEF RungOf, At
<1> QED
  BY <1>2, <1>3, <1>6 DEF At

\* A slot was bought below its level.
BoughtBelow(m, b) == \A s \in m.lots : b[s] \in Nat /\ b[s] < LowerPrice + s * Step

\* The grid buys a slot below its level, and gives it up at the next level or
\* above.
LEMMA GridSignals ==
    ASSUME NEW t, t.price \in Nat, NEW view, NEW b, Mind(mind), BoughtBelow(mind, basis),
           b = [s \in Slots |-> IF s \in AdvanceGrid(t, view).mind.lots \ mind.lots THEN t.price
                                ELSE basis[s]]
    PROVE  /\ BoughtBelow(AdvanceGrid(t, view).mind, b)
           /\ \A s \in mind.lots \ AdvanceGrid(t, view).mind.lots : t.price > basis[s] + Step
<1> DEFINE rung == RungOf(t.price)
           next == AdvanceGrid(t, view)
<1>1. /\ mind = [rung |-> mind.rung, lots |-> mind.lots, prices |-> mind.prices]
      /\ mind.rung \in Int /\ mind.lots \subseteq Slots
  BY DEF Mind
<1>2. /\ rung \in 0 .. Levels
      /\ \A n \in 0 .. (Levels - 1) : t.price >= LowerPrice + n * Step <=> n < rung
  BY RungIs
<1>3. LowerPrice \in Nat /\ Step \in Nat /\ Levels \in Nat /\ Slots = 0 .. (Levels - 2)
  BY SignalParameters DEF Positive, Slots
<1> HIDE DEF rung
<1>4. next.mind.lots \subseteq Slots
  BY GridReacts DEF Mind
<1>5. \A s \in next.mind.lots \ mind.lots : rung <= s
  <2>1. CASE t.gap \/ mind.rung \in {NoRung, rung}
    <3>1. next.mind = [mind EXCEPT !.rung = rung]
      BY <2>1 DEF AdvanceGrid, rung
    <3>2. next.mind.lots = mind.lots
      BY <1>1, <3>1
    <3> QED
      BY <3>2
  <2>2. CASE ~ (t.gap \/ mind.rung \in {NoRung, rung}) /\ rung < mind.rung
    <3> DEFINE top == Min({mind.rung - 1, Levels - 2})
               wanted == (rung .. top) \ mind.lots
    <3>1. next.mind = Fall(rung).mind
      BY <2>2 DEF AdvanceGrid, rung
    <3>2. next.mind.lots = mind.lots \union wanted
      BY <1>1, <3>1 DEF Fall
    <3>3. top \in Int
      <4>1. mind.rung - 1 \in Int /\ Levels - 2 \in Int
        BY <1>1, <1>3
      <4> QED
        BY <4>1, LesserOfTwo
    <3> HIDE DEF top
    <3> QED
      BY <1>2, <3>2, <3>3
  <2>3. CASE ~ (t.gap \/ mind.rung \in {NoRung, rung}) /\ ~ (rung < mind.rung)
    <3>1. next.mind = Rise(rung, view.available).mind
      BY <2>3 DEF AdvanceGrid, rung
    <3>2. next.mind.lots \subseteq mind.lots
      BY <1>1, <3>1 DEF Rise
    <3> QED
      BY <3>2
  <2> QED
    BY <2>1, <2>2, <2>3
<1>6. \A s \in mind.lots \ next.mind.lots : s + 1 < rung
  <2>1. CASE t.gap \/ mind.rung \in {NoRung, rung}
    <3>1. next.mind = [mind EXCEPT !.rung = rung]
      BY <2>1 DEF AdvanceGrid, rung
    <3>2. next.mind.lots = mind.lots
      BY <1>1, <3>1
    <3> QED
      BY <3>2
  <2>2. CASE ~ (t.gap \/ mind.rung \in {NoRung, rung}) /\ rung < mind.rung
    <3>1. next.mind = Fall(rung).mind
      BY <2>2 DEF AdvanceGrid, rung
    <3>2. mind.lots \subseteq next.mind.lots
      BY <1>1, <3>1 DEF Fall
    <3> QED
      BY <3>2
  <2>3. CASE ~ (t.gap \/ mind.rung \in {NoRung, rung}) /\ ~ (rung < mind.rung)
    <3> DEFINE due == mind.lots \intersect ((mind.rung - 1) .. (rung - 2))
    <3>1. next.mind = Rise(rung, view.available).mind
      BY <2>3 DEF AdvanceGrid, rung
    <3>2. next.mind.lots = mind.lots \ due
      BY <1>1, <3>1 DEF Rise
    <3>3. \A s \in due : s + 1 < rung
      BY <1>1, <1>2
    <3> QED
      BY <3>2, <3>3
  <2> QED
    BY <2>1, <2>2, <2>3
<1> HIDE DEF next
<1>7. BoughtBelow(next.mind, b)
  <2> SUFFICES ASSUME NEW s \in next.mind.lots
               PROVE  b[s] \in Nat /\ b[s] < LowerPrice + s * Step
    BY DEF BoughtBelow
  <2>1. s \in 0 .. (Levels - 1) /\ s \in Slots
    BY <1>3, <1>4
  <2>2. CASE s \in mind.lots
    <3>1. b[s] = basis[s]
      BY <2>1, <2>2 DEF next
    <3> QED
      BY <2>2, <3>1 DEF BoughtBelow
  <2>3. CASE s \notin mind.lots
    <3>1. b[s] = t.price
      BY <2>1, <2>3 DEF next
    <3>2. ~ (s < rung)
      BY <1>2, <1>5, <2>1, <2>3
    <3>3. s * Step \in Nat
      BY <1>3, <2>1, Products
    <3> QED
      BY <1>2, <1>3, <2>1, <3>1, <3>2, <3>3
  <2> QED
    BY <2>2, <2>3
<1>8. ASSUME NEW s \in mind.lots \ next.mind.lots PROVE t.price > basis[s] + Step
  <2>1. s \in 0 .. (Levels - 2) /\ s + 1 \in 0 .. (Levels - 1) /\ s + 1 < rung
    BY <1>1, <1>3, <1>6
  <2>2. t.price >= LowerPrice + (s + 1) * Step
    BY <1>2, <2>1
  <2>3. (s + 1) * Step = s * Step + Step /\ s * Step \in Nat
    <3>1. s \in Nat
      BY <2>1
    <3> QED
      BY <1>3, <3>1, Products
  <2>4. basis[s] \in Nat /\ basis[s] < LowerPrice + s * Step
    BY DEF BoughtBelow
  <2> QED
    BY <1>3, <2>2, <2>3, <2>4
<1> QED
  BY <1>7, <1>8 DEF next

\* The fast average of the prices up to the k-th is above, or below, the slow.
AverageUpTo(s, k, period) == Total(SubSeq(s, k - period + 1, k))
Ahead(s, k) ==
    AverageUpTo(s, k, FastPeriod) * SlowPeriod > AverageUpTo(s, k, SlowPeriod) * FastPeriod
Behind(s, k) ==
    AverageUpTo(s, k, FastPeriod) * SlowPeriod < AverageUpTo(s, k, SlowPeriod) * FastPeriod

\* The ring holds the newest of the whole series.
RingOf(m, s) == s \in Seq(Nat) /\ m.prices = Newest(s, SlowPeriod + 1)

LEMMA RingOfNothing == RingOf(NoMind, <<>>)
<1> DEFINE r == Newest(<<>>, SlowPeriod + 1)
<1>1. <<>> \in Seq(Nat) /\ Len(<<>>) = 0 /\ SlowPeriod + 1 \in Nat
  BY SignalParameters
<1>2. r \in Seq(Nat) /\ Len(r) = IF Len(<<>>) > SlowPeriod + 1 THEN SlowPeriod + 1 ELSE Len(<<>>)
  BY <1>1, NewestIs
<1> HIDE DEF r
<1>3. r = <<>>
  BY <1>1, <1>2, SignalParameters
<1> QED
  BY <1>1, <1>3 DEF RingOf, NoMind, r

\* The comparison of two averages over a window is that over the series.
LEMMA DifferenceSigns ==
    ASSUME NEW w, NEW s \in Seq(Nat), NEW k \in Nat,
           \A period \in {FastPeriod, SlowPeriod} :
              /\ Newest(w, period) = SubSeq(s, k - period + 1, k)
              /\ SubSeq(s, k - period + 1, k) \in Seq(Nat)
    PROVE  /\ Difference(w) > 0 <=> Ahead(s, k)
           /\ Difference(w) < 0 <=> Behind(s, k)
           /\ ~ (Ahead(s, k) /\ Behind(s, k))
<1> DEFINE a == AverageUpTo(s, k, FastPeriod)
           b == AverageUpTo(s, k, SlowPeriod)
           x == a * SlowPeriod
           y == b * FastPeriod
<1>1. a \in Nat /\ b \in Nat
  BY TotalType DEF AverageUpTo
<1>2. Difference(w) = x - y
  BY DEF Difference, AverageUpTo
<1> HIDE DEF a, b
<1>3. x \in Nat /\ y \in Nat
  <2>1. SlowPeriod \in Nat /\ FastPeriod \in Nat
    BY SignalParameters
  <2> QED
    BY <1>1, <2>1, Products
<1>4. (Ahead(s, k) <=> x > y) /\ (Behind(s, k) <=> x < y)
  BY DEF Ahead, Behind, a, b
<1> HIDE DEF x, y
<1> QED
  BY <1>2, <1>3, <1>4

\* The crossover's ring stays the newest of the series, and it asks exactly on
\* a strict cross of the averages of the whole series.
LEMMA CrossoverSignals ==
    ASSUME NEW s0, RingOf(mind, s0), Mind(mind), NEW t, t.price \in Nat, NEW view
    PROVE  LET next == AdvanceSmaCrossover(t, view)
               s == Append(IF t.gap THEN <<>> ELSE s0, t.price)
               n == Len(s)
               up == n > SlowPeriod /\ Ahead(s, n) /\ Behind(s, n - 1) /\ view.held = 0
               down == n > SlowPeriod /\ Behind(s, n) /\ Ahead(s, n - 1) /\ view.available > 0
           IN /\ RingOf(next.mind, s)
              /\ ~ (up /\ down)
              /\ next.orders = IF up THEN <<MarketOrder("BUY", Quantity)>>
                               ELSE IF down THEN <<MarketOrder("SELL", view.available)>> ELSE <<>>
<1> DEFINE k == IF t.gap THEN <<>> ELSE s0
           s == Append(k, t.price)
           n == Len(s)
           prices == Append(Newest(Kept(t), SlowPeriod), t.price)
           full == Len(prices) = SlowPeriod + 1
           current == Difference(prices)
           previous == Difference(Front(prices))
           next == AdvanceSmaCrossover(t, view)
<1>1. /\ next.mind = [mind EXCEPT !.prices = prices]
      /\ next.orders =
           CASE full /\ current > 0 /\ previous < 0 /\ view.held = 0
                  -> <<MarketOrder("BUY", Quantity)>>
             [] full /\ current < 0 /\ previous > 0 /\ view.available > 0
                  -> <<MarketOrder("SELL", view.available)>>
             [] OTHER -> <<>>
  BY DEF AdvanceSmaCrossover
<1>2. SlowPeriod \in Nat /\ SlowPeriod \in 0 .. (SlowPeriod + 1) /\ SlowPeriod + 1 \in Nat
  BY SignalParameters
<1>3. k \in Seq(Nat)
  <2>1. <<>> \in Seq(Nat) /\ s0 \in Seq(Nat)
    BY DEF RingOf
  <2> QED
    BY <2>1
<1>4. Newest(Kept(t), SlowPeriod) = Newest(k, SlowPeriod)
  <2>1. CASE t.gap
    BY <2>1 DEF Kept
  <2>2. CASE ~ t.gap
    <3>1. Kept(t) = Newest(s0, SlowPeriod + 1) /\ k = s0
      BY <2>2 DEF Kept, RingOf
    <3> HIDE DEF k
    <3> QED
      BY <1>2, <1>3, <3>1, NewestOfNewest
  <2> QED
    BY <2>1, <2>2
<1> HIDE DEF k
<1>5. s \in Seq(Nat) /\ n \in Nat
  BY <1>3
<1>6. prices = Newest(s, SlowPeriod + 1)
  BY <1>2, <1>3, <1>4, NewestAppended
<1> HIDE DEF s, n, prices, full, current, previous, next
<1>7. RingOf(next.mind, s)
  <2>1. mind = [rung |-> mind.rung, lots |-> mind.lots, prices |-> mind.prices]
    BY DEF Mind
  <2>2. next.mind.prices = prices
    BY <1>1, <2>1
  <2> QED
    BY <1>5, <1>6, <2>2 DEF RingOf
<1>8. full <=> n > SlowPeriod
  <2>1. Len(prices) = IF Len(s) > SlowPeriod + 1 THEN SlowPeriod + 1 ELSE Len(s)
    BY <1>2, <1>5, <1>6, NewestIs
  <2> QED
    BY <1>2, <1>5, <2>1 DEF full, n
<1>9. ASSUME n > SlowPeriod
      PROVE  /\ current > 0 <=> Ahead(s, n)
             /\ current < 0 <=> Behind(s, n)
             /\ previous > 0 <=> Ahead(s, n - 1)
             /\ previous < 0 <=> Behind(s, n - 1)
             /\ ~ (Ahead(s, n) /\ Behind(s, n))
  <2>1. \A period \in {FastPeriod, SlowPeriod} :
          /\ Newest(prices, period) = SubSeq(s, n - period + 1, n)
          /\ Newest(Front(prices), period) = SubSeq(s, (n - 1) - period + 1, n - 1)
    <3> SUFFICES ASSUME NEW period \in {FastPeriod, SlowPeriod}
                 PROVE  /\ Newest(prices, period) = SubSeq(s, n - period + 1, n)
                        /\ Newest(Front(prices), period)
                             = SubSeq(s, (n - 1) - period + 1, n - 1)
      OBVIOUS
    <3>1. period \in 1 .. SlowPeriod
      BY SignalParameters
    <3>2. Len(s) > SlowPeriod
      BY <1>9 DEF n
    <3> QED
      BY <1>2, <1>5, <1>6, <3>1, <3>2, WindowShows DEF n
  <2>2. \A period \in {FastPeriod, SlowPeriod} :
          /\ SubSeq(s, n - period + 1, n) \in Seq(Nat)
          /\ SubSeq(s, (n - 1) - period + 1, n - 1) \in Seq(Nat)
    <3> SUFFICES ASSUME NEW period \in {FastPeriod, SlowPeriod}
                 PROVE  /\ SubSeq(s, n - period + 1, n) \in Seq(Nat)
                        /\ SubSeq(s, (n - 1) - period + 1, n - 1) \in Seq(Nat)
      OBVIOUS
    <3>1. period \in Nat /\ period <= SlowPeriod
      BY SignalParameters
    <3>2. n = Len(s) /\ n - period + 1 \in Int /\ n - period + 1 >= 1
          /\ (n - 1) - period + 1 \in Int /\ (n - 1) - period + 1 >= 1 /\ n - 1 \in Nat
      BY <1>2, <1>5, <1>9, <3>1 DEF n
    <3>3. \A i \in 1 .. n : s[i] \in Nat
      BY <1>5, <3>2
    <3> QED
      BY <1>5, <3>2, <3>3, SubSeqProperties
  <2>3. n - 1 \in Nat
    BY <1>2, <1>5, <1>9
  <2>4. /\ current > 0 <=> Ahead(s, n)
        /\ current < 0 <=> Behind(s, n)
        /\ ~ (Ahead(s, n) /\ Behind(s, n))
    BY <1>5, <2>1, <2>2, DifferenceSigns DEF current
  <2>5. /\ previous > 0 <=> Ahead(s, n - 1)
        /\ previous < 0 <=> Behind(s, n - 1)
    <3> DEFINE w == Front(prices)
               m == n - 1
    <3>1. \A period \in {FastPeriod, SlowPeriod} :
            /\ Newest(w, period) = SubSeq(s, m - period + 1, m)
            /\ SubSeq(s, m - period + 1, m) \in Seq(Nat)
      BY <2>1, <2>2
    <3>2. m \in Nat /\ previous = Difference(w)
      BY <2>3 DEF previous
    <3> HIDE DEF w, m
    <3>3. (previous > 0 <=> Ahead(s, m)) /\ (previous < 0 <=> Behind(s, m))
      BY <1>5, <3>1, <3>2, DifferenceSigns
    <3> QED
      BY <3>3 DEF m
  <2> QED
    BY <2>4, <2>5
<1> DEFINE up == n > SlowPeriod /\ Ahead(s, n) /\ Behind(s, n - 1) /\ view.held = 0
           down == n > SlowPeriod /\ Behind(s, n) /\ Ahead(s, n - 1) /\ view.available > 0
<1>10. /\ ~ (up /\ down)
       /\ up <=> full /\ current > 0 /\ previous < 0 /\ view.held = 0
       /\ down <=> full /\ current < 0 /\ previous > 0 /\ view.available > 0
  BY <1>8, <1>9
<1>11. next.orders = IF up THEN <<MarketOrder("BUY", Quantity)>>
                     ELSE IF down THEN <<MarketOrder("SELL", view.available)>> ELSE <<>>
  <2> HIDE DEF up, down
  <2> QED
    BY <1>1, <1>10
<1> QED
  BY <1>7, <1>10, <1>11 DEF next, s, k, n


\* The crossover holds one entry or nothing, and asks for the one when it holds
\* the other.
OneEntry ==
    /\ holdings.quantity \in {0, Quantity}
    /\ \/ decisions = <<>>
       \/ decisions = <<MarketOrder("BUY", Quantity)>> /\ holdings.quantity = 0
       \/ decisions = <<MarketOrder("SELL", holdings.quantity)>>

\* What the strategies remember, now and in the cell, is what happened.
SignalInv ==
    /\ strategy = "grid" =>
          BoughtBelow(mind, basis) /\ BoughtBelow(savedState.mind, savedState.basis)
    /\ strategy = "sma" =>
          /\ RingOf(mind, series) /\ RingOf(savedState.mind, savedState.series)
          /\ OneEntry

LEMMA SignalInitially ==
    ASSUME ReplayInit
    PROVE  SignalInv
<1>1. /\ mind = NoMind /\ savedState.mind = NoMind /\ series = <<>> /\ savedState.series = <<>>
      /\ decisions = <<>> /\ holdings.quantity = 0
  BY DEF ReplayInit, OpeningAccount
<1>2. BoughtBelow(mind, basis) /\ BoughtBelow(savedState.mind, savedState.basis)
  BY <1>1 DEF BoughtBelow, NoMind
<1>3. RingOf(mind, series) /\ RingOf(savedState.mind, savedState.series)
  BY <1>1, RingOfNothing
<1> QED
  BY <1>1, <1>2, <1>3 DEF SignalInv, OneEntry

\* Under a bundled strategy a tick leaves the position as it is, and the
\* portfolio read is that position.
LEMMA TickKeepsPosition ==
    ASSUME NEW t \in RecordedTicks, NEW newDay \in BOOLEAN, ReplayInv, strategy # "caller",
           Settled(t, newDay)
    PROVE  /\ holdings'.quantity = holdings.quantity /\ holdings.quantity \in Nat
           /\ snapshot'.held = holdings.quantity /\ snapshot'.available = holdings.quantity
           /\ tick' = t /\ t.price \in Nat
<1>1. /\ tick' = t /\ t.price \in Positive
      /\ snapshot'.held = holdings'.quantity
      /\ snapshot'.available = holdings'.quantity - ReservedQuantity(resting')
      /\ resting = <<>> => resting' = <<>> /\ holdings'.quantity = holdings.quantity
  BY TickSettles
<1>2. resting = <<>> /\ holdings.quantity \in Nat
  BY AccountIs DEF ReplayInv, OneMarketOrder
<1>3. ReservedQuantity(resting') = 0
  BY <1>1, <1>2, NothingRests
<1> QED
  BY <1>1, <1>2, <1>3 DEF Positive

\* On a tick the crossover asks on a cross of the whole series.
LEMMA CrossoverTicks ==
    ASSUME NEW t \in RecordedTicks, NEW newDay \in BOOLEAN, ReplayInv, SignalInv,
           OnTick(t, newDay), strategy = "sma"
    PROVE  /\ RingOf(mind', series') /\ OneEntry'
           /\ LET n == Len(series') IN
              /\ asked' = "BUY" <=>
                    n > SlowPeriod /\ Ahead(series', n) /\ Behind(series', n - 1)
                                   /\ snapshot'.held = 0
              /\ asked' = "SELL" <=>
                    n > SlowPeriod /\ Behind(series', n) /\ Ahead(series', n - 1)
                                   /\ snapshot'.available > 0
<1> DEFINE s == Append(IF t.gap THEN <<>> ELSE series, t.price)
           n == Len(s)
           view == snapshot'
           up == n > SlowPeriod /\ Ahead(s, n) /\ Behind(s, n - 1) /\ view.held = 0
           down == n > SlowPeriod /\ Behind(s, n) /\ Ahead(s, n - 1) /\ view.available > 0
<1>1. Settled(t, newDay) /\ decisions = <<>> /\ series' = s
  BY DEF OnTick, Ready
<1>2. PICK next \in Reactions(t, snapshot') :
        /\ mind' = next.mind /\ decisions' = next.orders
        /\ asked' = IF strategy # "sma" \/ next.orders = <<>> THEN "none"
                    ELSE Head(next.orders).side
  BY DEF OnTick
<1>3. next = AdvanceSmaCrossover(t, view)
  BY <1>2 DEF Reactions
<1>4. /\ holdings'.quantity = holdings.quantity /\ holdings.quantity \in Nat
      /\ view.held = holdings.quantity /\ view.available = holdings.quantity
      /\ t.price \in Nat
  BY <1>1, TickKeepsPosition
<1>5. /\ RingOf(mind, series) /\ Mind(mind)
      /\ holdings.quantity \in {0, Quantity}
  BY DEF SignalInv, OneEntry, ReplayInv, ReplayTypes
<1> HIDE DEF view
<1>6. /\ RingOf(next.mind, s) /\ ~ (up /\ down)
      /\ next.orders = IF up THEN <<MarketOrder("BUY", Quantity)>>
                       ELSE IF down THEN <<MarketOrder("SELL", view.available)>> ELSE <<>>
  BY <1>3, <1>4, <1>5, CrossoverSignals
<1>7. (up => view.held = 0) /\ (down => view.available > 0)
  OBVIOUS
<1> HIDE DEF up, down, s, n
<1>8. OneEntry'
  BY <1>2, <1>4, <1>5, <1>6, <1>7 DEF OneEntry
<1>9. (asked' = "BUY" <=> up) /\ (asked' = "SELL" <=> down)
  BY <1>2, <1>6 DEF MarketOrder
<1> QED
  BY <1>1, <1>2, <1>6, <1>8, <1>9 DEF up, down, n, view

\* On a tick the grid buys below a slot's level and sells at the next or above.
LEMMA GridTicks ==
    ASSUME NEW t \in RecordedTicks, NEW newDay \in BOOLEAN, ReplayInv, SignalInv,
           OnTick(t, newDay), strategy = "grid"
    PROVE  /\ BoughtBelow(mind', basis')
           /\ \A s \in mind.lots \ mind'.lots : tick'.price > basis[s] + Step
<1> DEFINE view == snapshot'
<1>1. Settled(t, newDay)
  BY DEF OnTick
<1>2. PICK next \in Reactions(t, snapshot') :
        /\ mind' = next.mind
        /\ basis' = [s \in Slots |-> IF s \in next.mind.lots \ mind.lots THEN t.price ELSE basis[s]]
  BY DEF OnTick
<1>3. next = AdvanceGrid(t, view)
  BY <1>2 DEF Reactions
<1>4. tick' = t /\ t.price \in Nat
  BY <1>1, TickKeepsPosition
<1>5. BoughtBelow(mind, basis) /\ Mind(mind)
  BY DEF SignalInv, ReplayInv, ReplayTypes
<1> DEFINE b == basis'
<1>6. b = [s \in Slots |-> IF s \in AdvanceGrid(t, view).mind.lots \ mind.lots THEN t.price
                           ELSE basis[s]]
  BY <1>2, <1>3
<1> HIDE DEF view, b
<1>7. /\ BoughtBelow(AdvanceGrid(t, view).mind, b)
      /\ \A s \in mind.lots \ AdvanceGrid(t, view).mind.lots : t.price > basis[s] + Step
  BY <1>4, <1>5, <1>6, GridSignals
<1> QED
  BY <1>2, <1>3, <1>4, <1>7 DEF b

\* The one market order of a bundled strategy is filled whole or not at all.
LEMMA EntryIsWhole ==
    ASSUME ReplayInv, SignalInv, Submit, strategy = "sma"
    PROVE  OneEntry'
<1> DEFINE order == Head(decisions)
<1>1. /\ decisions # <<>> /\ order.kind = "place" /\ decisions' = Tail(decisions)
      /\ holdings.thrown = {}
      /\ Rejected(order) => holdings' = holdings
      /\ ~ Rejected(order) /\ order.type = "MARKET" =>
           holdings' = Settle(holdings, order.side, PriceOf(order), order.quantity)
  BY DEF Submit, Pending, NextDecision
<1>2. /\ order.type = "MARKET" /\ Tail(decisions) = <<>>
      /\ order.side \in {"BUY", "SELL"} /\ order.quantity \in Positive
      /\ order.side = "SELL" => order.quantity <= holdings.quantity
  BY <1>1, PendingOrder
<1>3. /\ holdings.quantity \in {0, Quantity}
      /\ order.side = "BUY" => order.quantity = Quantity /\ holdings.quantity = 0
      /\ order.side = "SELL" => order.quantity = holdings.quantity
  BY <1>1 DEF SignalInv, OneEntry, MarketOrder
<1>4. CASE Rejected(order)
  BY <1>1, <1>2, <1>3, <1>4 DEF OneEntry
<1>5. CASE ~ Rejected(order)
  <2>1. /\ PriceOf(order) \in Positive
        /\ order.side = "BUY" => CostOf("BUY", PriceOf(order), order.quantity) <= holdings.cash
    BY <1>1, <1>5, Taken
  <2>2. holdings' = Settle(holdings, order.side, PriceOf(order), order.quantity)
    BY <1>1, <1>2, <1>5
  <2>3. Sound(holdings) /\ holdings.quantity \in Nat
    BY AccountIs
  <2> HIDE DEF order
  <2>4. CASE order.side = "BUY"
    <3>1. holdings'.quantity = holdings.quantity + order.quantity
      BY <1>1, <1>2, <2>1, <2>2, <2>3, <2>4, Bought
    <3>2. holdings'.quantity = Quantity
      BY <1>2, <1>3, <2>4, <3>1 DEF Positive
    <3> QED
      BY <1>1, <1>2, <3>2 DEF OneEntry
  <2>5. CASE order.side = "SELL"
    <3>1. holdings'.quantity = holdings.quantity - order.quantity
      BY <1>1, <1>2, <2>1, <2>2, <2>3, <2>5, Sold
    <3>2. holdings'.quantity = 0
      BY <1>2, <1>3, <2>5, <3>1 DEF Positive
    <3> QED
      BY <1>1, <1>2, <3>2 DEF OneEntry
  <2> QED
    BY <1>2, <2>4, <2>5
<1> QED
  BY <1>4, <1>5

\* A restart hands back what the cell kept, or nothing.
LEMMA MemoryIsRestored ==
    ASSUME ReplayInv, SignalInv, RestartRunner
    PROVE  SignalInv'
<1>1. /\ decisions' = <<>> /\ UNCHANGED <<strategy, holdings, savedState>>
      /\ \/ /\ mind' = ReadState(savedState.mind) /\ series' = savedState.series
            /\ basis' = savedState.basis
         \/ mind' = NoMind /\ series' = <<>>
  BY DEF RestartRunner, RestoreCell, RestoreNothing
<1>2. /\ Mind(savedState.mind)
      /\ savedState.mind = [rung |-> savedState.mind.rung, lots |-> savedState.mind.lots,
                            prices |-> savedState.mind.prices]
  BY DEF ReplayInv, ReplayTypes, Mind
<1>3. ASSUME strategy = "grid" PROVE BoughtBelow(mind', basis')
  <2>1. CASE mind' = NoMind
    BY <2>1 DEF BoughtBelow, NoMind
  <2>2. CASE mind' = ReadState(savedState.mind) /\ basis' = savedState.basis
    <3>1. mind' = ReadGridState(savedState.mind)
      BY <1>3, <2>2 DEF ReadState
    <3>2. mind'.lots \subseteq savedState.mind.lots
      BY <1>2, <3>1 DEF ReadGridState
    <3> QED
      BY <1>3, <2>2, <3>2 DEF SignalInv, BoughtBelow
  <2> QED
    BY <1>1, <2>1, <2>2
<1>4. ASSUME strategy = "sma" PROVE RingOf(mind', series')
  <2>1. CASE mind' = NoMind /\ series' = <<>>
    BY <2>1, RingOfNothing
  <2>2. CASE mind' = ReadState(savedState.mind) /\ series' = savedState.series
    <3>1. mind' = ReadSmaCrossoverState(savedState.mind)
      BY <1>4, <2>2 DEF ReadState
    <3> DEFINE r == Newest(savedState.mind.prices, SlowPeriod + 1)
    <3>2. mind'.prices = r
      BY <1>2, <3>1 DEF ReadSmaCrossoverState
    <3>3. /\ savedState.series \in Seq(Nat)
          /\ savedState.mind.prices = Newest(savedState.series, SlowPeriod + 1)
      BY <1>4 DEF SignalInv, RingOf
    <3>4. r = Newest(savedState.series, SlowPeriod + 1)
      <4>1. SlowPeriod + 1 \in Nat /\ SlowPeriod + 1 \in 0 .. (SlowPeriod + 1)
        BY SignalParameters
      <4> QED
        BY <3>3, <4>1, NewestOfNewest
    <3> HIDE DEF r
    <3> QED
      BY <2>2, <3>2, <3>3, <3>4 DEF RingOf
  <2> QED
    BY <1>1, <2>1, <2>2
<1> QED
  BY <1>1, <1>3, <1>4 DEF SignalInv, OneEntry

\* Steps that touch neither the memory nor the orders to come.
LEMMA MemoryIsKept ==
    ASSUME SignalInv,
           UNCHANGED <<strategy, mind, series, basis, savedState>>,
           holdings'.quantity = holdings.quantity,
           decisions' = decisions \/ decisions' = <<>>
    PROVE  SignalInv'
BY DEF SignalInv, OneEntry, BoughtBelow, RingOf

\* What the theorem says of one step.
KeepsToSignal ==
    ticks' # ticks =>
       /\ strategy = "sma" /\ ~ host.quarantined => AsksOnCross'
       /\ strategy = "grid" =>
             \A s \in mind.lots \ mind'.lots : tick'.price > basis[s] + Step

LEMMA SignalOnTick ==
    ASSUME NEW t \in RecordedTicks, NEW newDay \in BOOLEAN, ReplayInv, SignalInv,
           OnTick(t, newDay)
    PROVE  SignalInv' /\ KeepsToSignal
<1>1. UNCHANGED <<strategy, savedState>>
  BY DEF OnTick, durable
<1>2. ASSUME strategy = "grid" PROVE SignalInv' /\ KeepsToSignal
  <2>1. /\ BoughtBelow(mind', basis')
        /\ \A s \in mind.lots \ mind'.lots : tick'.price > basis[s] + Step
    BY <1>2, GridTicks
  <2>2. SignalInv'
    BY <1>1, <1>2, <2>1 DEF SignalInv, BoughtBelow
  <2> QED
    BY <1>2, <2>1, <2>2 DEF KeepsToSignal
<1>3. ASSUME strategy = "sma" PROVE SignalInv' /\ KeepsToSignal
  <2>1. /\ RingOf(mind', series') /\ OneEntry'
        /\ LET n == Len(series') IN
           /\ asked' = "BUY" <=>
                 n > SlowPeriod /\ Ahead(series', n) /\ Behind(series', n - 1)
                                /\ snapshot'.held = 0
           /\ asked' = "SELL" <=>
                 n > SlowPeriod /\ Behind(series', n) /\ Ahead(series', n - 1)
                                /\ snapshot'.available > 0
    BY <1>3, CrossoverTicks
  <2>2. SignalInv'
    BY <1>1, <1>3, <2>1 DEF SignalInv
  <2>3. AsksOnCross'
    BY <2>1 DEF AsksOnCross, AboveAt, BelowAt, Averaged, Ahead, Behind, AverageUpTo, OneEntry
  <2> QED
    BY <1>3, <2>2, <2>3 DEF KeepsToSignal
<1>4. ASSUME strategy # "grid", strategy # "sma" PROVE SignalInv' /\ KeepsToSignal
  BY <1>1, <1>4 DEF SignalInv, KeepsToSignal
<1> QED
  BY <1>2, <1>3, <1>4

LEMMA SignalWithoutDecision ==
    ASSUME NEW t \in RecordedTicks, NEW newDay \in BOOLEAN, ReplayInv, SignalInv,
           Contain(t, newDay) \/ Quarantined(t, newDay)
    PROVE  SignalInv' /\ KeepsToSignal
<1>1. /\ Settled(t, newDay)
      /\ UNCHANGED <<strategy, mind, decisions, series, basis, savedState>>
      /\ strategy = "caller" \/ host.quarantined
  BY DEF Contain, Quarantined, durable
<1>2. CASE strategy = "caller"
  BY <1>1, <1>2 DEF SignalInv, KeepsToSignal
<1>3. CASE strategy # "caller"
  <2>1. holdings'.quantity = holdings.quantity
    BY <1>1, <1>3, TickKeepsPosition
  <2> QED
    BY <1>1, <1>3, <2>1, MemoryIsKept DEF KeepsToSignal
<1> QED
  BY <1>2, <1>3

LEMMA SignalSteps ==
    ASSUME ReplayInv, SignalInv, [ReplayNext]_replayVars
    PROVE  SignalInv' /\ KeepsToSignal
<1>1. ASSUME NEW t \in RecordedTicks, NEW newDay \in BOOLEAN, OnTick(t, newDay)
      PROVE  SignalInv' /\ KeepsToSignal
  BY <1>1, SignalOnTick
<1>2. ASSUME NEW t \in RecordedTicks, NEW newDay \in BOOLEAN,
             Contain(t, newDay) \/ Quarantined(t, newDay)
      PROVE  SignalInv' /\ KeepsToSignal
  BY <1>2, SignalWithoutDecision
<1>3. ASSUME NEW t \in RecordedTicks, NEW newDay \in BOOLEAN, MatchThrows(t, newDay)
      PROVE  SignalInv' /\ KeepsToSignal
  <2>1. strategy = "caller" /\ UNCHANGED strategy
    BY <1>3, OnlyRestingThrow DEF MatchThrows
  <2> QED
    BY <2>1 DEF SignalInv, KeepsToSignal
<1>4. CASE Cancel
  <2>1. decisions # <<>> /\ Head(decisions).kind = "cancel" /\ UNCHANGED <<strategy, ticks>>
    BY <1>4 DEF Cancel, Pending
  <2>2. strategy = "caller"
    BY <2>1, PendingOrder
  <2> QED
    BY <2>1, <2>2 DEF SignalInv, KeepsToSignal
<1>5. CASE Refuse
  <2>1. /\ decisions # <<>> /\ decisions' = Tail(decisions)
        /\ UNCHANGED <<strategy, mind, series, basis, savedState, holdings, ticks>>
    BY <1>5 DEF Refuse, Pending, NextDecision, durable
  <2>2. CASE strategy = "caller"
    BY <2>1, <2>2 DEF SignalInv, KeepsToSignal
  <2>3. CASE strategy # "caller"
    <3>1. decisions' = <<>>
      BY <2>1, <2>3, PendingOrder
    <3> QED
      BY <2>1, <3>1, MemoryIsKept DEF KeepsToSignal
  <2> QED
    BY <2>2, <2>3
<1>6. CASE Submit
  <2>1. UNCHANGED <<strategy, mind, series, basis, savedState, ticks>>
    BY <1>6 DEF Submit, durable
  <2>2. strategy = "sma" => OneEntry'
    BY <1>6, EntryIsWhole
  <2> QED
    BY <2>1, <2>2 DEF SignalInv, KeepsToSignal, BoughtBelow, RingOf
<1>7. CASE PersistRuntime
  <2>1. /\ UNCHANGED <<strategy, mind, series, basis, holdings, decisions, ticks>>
        /\ \/ savedState' = savedState
           \/ /\ savedState'.mind = mind /\ savedState'.series = series
              /\ savedState'.basis = basis
    BY <1>7 DEF PersistRuntime, Snapshot, loop, history
  <2> QED
    BY <2>1 DEF SignalInv, KeepsToSignal, OneEntry, BoughtBelow, RingOf
<1>8. CASE RestartRunner
  <2>1. UNCHANGED ticks
    BY <1>8 DEF RestartRunner
  <2> QED
    BY <1>8, <2>1, MemoryIsRestored DEF KeepsToSignal
<1>9. CASE Report \/ UNCHANGED replayVars
  <2>1. UNCHANGED <<strategy, mind, series, basis, savedState, holdings, decisions, ticks>>
    BY <1>9 DEF Report, replayVars, loop, history, durable
  <2> QED
    BY <2>1, MemoryIsKept DEF KeepsToSignal
<1> QED
  BY <1>1, <1>2, <1>3, <1>4, <1>5, <1>6, <1>7, <1>8, <1>9 DEF ReplayNext

\* The ring a bounded strategy keeps is always the newest part of the whole
\* series since the last gap, over restarts too, and every lot was bought below
\* its level.
THEOREM SignalInvariant == ReplaySpec => []SignalInv
<1>1. ReplayInit => SignalInv
  BY SignalInitially
<1>2. ReplayInv /\ SignalInv /\ [ReplayNext]_replayVars => SignalInv'
  BY SignalSteps
<1> QED
  BY <1>1, <1>2, ReplayInvariant, PTL DEF ReplaySpec

\* The crossover asks exactly on a strict cross of the averages over the whole
\* unbroken series, and the grid gives up a lot only a whole step above its
\* buying price, for all parameters, prices, gaps and restarts.
THEOREM AlwaysTradesOnSignal == ReplaySpec => TradesOnSignal
<1>1. ReplayInv /\ SignalInv /\ [ReplayNext]_replayVars =>
        [ticks' # ticks =>
           /\ strategy = "sma" /\ ~host.quarantined => AsksOnCross'
           /\ strategy = "grid" =>
                 \A s \in mind.lots \ mind'.lots : tick'.price > basis[s] + Step]_replayVars
  BY SignalSteps DEF KeepsToSignal
<1> QED
  BY <1>1, ReplayInvariant, SignalInvariant, PTL DEF ReplaySpec, TradesOnSignal
=============================================================================
