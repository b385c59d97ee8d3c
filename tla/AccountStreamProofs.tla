------------------------ MODULE AccountStreamProofs ------------------------
(***************************************************************************)
(* No event is lost between the outbox and the runner's journal, none is   *)
(* accounted for twice, and the replay barrier of a connection repeats     *)
(* none, for any number of processes, events, connections, faults and      *)
(* resyncs.                                                                *)
(***************************************************************************)
EXTENDS AccountStream, FiniteSetTheorems, SequenceTheorems, TLAPS

-----------------------------------------------------------------------------
(* The inductive invariant.                                                *)

Kinds == BagToSet(faults)

\* Nothing but lost connections, restarts and events whose processing failed.
Quiet == Kinds \subseteq {"drop", "process"}

Phases == {"IDLE", "CLAIMING", "PUBLISHING", "MARKING"}
Unread == {"NONE", "UPGRADING", "OLDEST", "LATEST", "REPLAY"}
Stages == Unread \cup {"FLUSH", "LIVE", "REFUSED"}

Polls(n) == [phase : Phases, batch : Seq(1 .. n)]
Publishers(n) == [Processes -> [running : BOOLEAN, poll : Polls(n)]]
Connections(n) ==
    [stage : Stages, process : Processes \cup {None}, after : 0 .. n,
     queue : Seq(1 .. n), upTo : 0 .. n, told : SUBSET (1 .. n), batch : Seq(1 .. n),
     rounds : Nat, backlog : Seq(1 .. n), sent : Seq(1 .. n), heard : Nat]

OutboxSound ==
    /\ latest \in Nat /\ pending \in Seq(1 .. latest) /\ shelf \in Seq(1 .. latest)
    /\ aged \in 0 .. Len(shelf)

PublisherSound ==
    /\ publisher \in Publishers(latest)
    /\ \A p \in Processes : Poll(p).phase = "MARKING" => Poll(p).batch # <<>>

\* One process publishes and has the connection, until the leader hands over.
OneLeader ==
    "handover" \notin Kinds =>
        \E r \in Processes :
            /\ publisher[r].running
            /\ \A p \in Processes \ {r} : ~ publisher[p].running /\ Poll(p).phase = "IDLE"
            /\ conn.stage # "NONE" => conn.process = r

\* Unpublished rows that were delivered and are about to be marked.
Marked == {n \in ToSet(pending) :
              \E p \in Processes : Poll(p).phase = "MARKING" /\ Head(Poll(p).batch) = n}

Delivered == ToSet(shelf) \cup Marked

\* What a connection was sent, and what is left of a round.
FlushSound(c) ==
    /\ ToSet(c.sent) \subseteq c.told
    /\ c.told \subseteq ToSet(c.sent) \cup ToSet(c.backlog)
    /\ \A i, j \in 1 .. Len(c.batch) : i < j => c.batch[i] <= c.batch[j]
    /\ \A i, j \in 1 .. Len(c.sent) :
          i < j /\ c.sent[i] = c.sent[j] => \A k \in i .. j : c.sent[k] = c.sent[i]
    /\ \A b \in ToSet(c.batch) \cap ToSet(c.sent) :
          b = c.sent[Len(c.sent)] /\ \A d \in ToSet(c.batch) : b <= d

ConnSound ==
    /\ conn \in Connections(latest)
    /\ conn.heard <= Len(conn.sent)
    /\ conn.stage \in Unread =>
          conn.batch = <<>> /\ conn.sent = <<>> /\ conn.backlog = <<>> /\ conn.told = {}
    /\ conn.stage = "LIVE" => conn.queue = <<>> /\ conn.batch = <<>>
    /\ conn.stage = "FLUSH" =>
          /\ FlushSound(conn)
          /\ \A n \in Retained : conn.after < n /\ n <= conn.upTo => n \in conn.told

\* What was delivered, marked as published or not, is not lost on the connection.
BarrierSound ==
    "handover" \notin Kinds /\ conn.stage \in {"FLUSH", "LIVE"} =>
        \A n \in Delivered : n > conn.after => n \in Reached(conn)

JournalSound ==
    /\ cursor \in 0 .. latest /\ conn.after <= cursor
    /\ applied \cup skipped \subseteq 1 .. cursor
    /\ applied \cap skipped = {}
    /\ handling \in 0 .. latest /\ snapshots \subseteq 0 .. latest

\* The publisher takes the rows in order and keeps them all.
OrderSound ==
    /\ \A i \in 1 .. Len(pending) : pending[i] = latest - Len(pending) + i
    /\ aged = 0 /\ ToSet(shelf) = 1 .. latest - Len(pending)
    /\ \A p \in Processes : Poll(p).phase \in {"PUBLISHING", "MARKING"} =>
          /\ Len(Poll(p).batch) <= Len(pending)
          /\ \A i \in 1 .. Len(Poll(p).batch) : Poll(p).batch[i] = pending[i]

\* No event is sent before the one that precedes it.
NoGap(c) ==
    \A i \in 1 .. Len(c.sent) : \A n \in c.after + 1 .. c.sent[i] - 1 :
        \E j \in 1 .. i - 1 : c.sent[j] = n

QueuesSound ==
    /\ conn.backlog = <<>>
    /\ ToSet(conn.queue) \cup ToSet(conn.batch) \subseteq Delivered
    /\ \A b \in ToSet(conn.batch), n \in ToSet(conn.queue) : b < n
    /\ NoGap(conn)

\* What the runner has behind it.
Behind(n) == n <= cursor \/ n \in failed

HeardSound ==
    /\ \A n \in 1 .. cursor : n \in applied \cup skipped \cup failed
    /\ \A i \in 1 .. conn.heard : Behind(conn.sent[i]) \/ conn.sent[i] = handling
    /\ handling # 0 => \A n \in 1 .. handling - 1 : Behind(n)

StreamInv ==
    /\ OutboxSound /\ PublisherSound /\ OneLeader /\ ConnSound /\ BarrierSound /\ JournalSound
    /\ Quiet => OrderSound /\ QueuesSound /\ HeardSound

(***************************************************************************)
(* Sequences.                                                              *)
(***************************************************************************)
\* What a sequence holds.
LEMMA Members ==
    ASSUME NEW S, NEW s \in Seq(S)
    PROVE  /\ ToSet(s) \subseteq S /\ Len(s) \in Nat
           /\ \A x : x \in ToSet(s) <=> \E i \in 1 .. Len(s) : s[i] = x
<1>1. DOMAIN s = 1 .. Len(s) /\ Len(s) \in Nat /\ \A i \in 1 .. Len(s) : s[i] \in S
  OBVIOUS
<1> QED
  BY <1>1 DEF ToSet

LEMMA NoMembers == ToSet(<<>>) = {}
BY DEF ToSet

\* A sequence of events among more events.
LEMMA MoreEvents ==
    ASSUME NEW n \in Nat, NEW m \in Nat, n <= m, NEW s \in Seq(1 .. n)
    PROVE  s \in Seq(1 .. m)
<1>1. 1 .. n \subseteq 1 .. m
  OBVIOUS
<1> QED
  BY <1>1, SeqMonotonic

LEMMA AppendIs ==
    ASSUME NEW S, NEW s \in Seq(S), NEW x \in S
    PROVE  /\ Append(s, x) \in Seq(S) /\ Len(Append(s, x)) = Len(s) + 1
           /\ \A i \in 1 .. Len(s) : Append(s, x)[i] = s[i]
           /\ Append(s, x)[Len(s) + 1] = x
           /\ ToSet(Append(s, x)) = ToSet(s) \cup {x}
<1> DEFINE a == Append(s, x)
<1>1. /\ a \in Seq(S) /\ Len(a) = Len(s) + 1 /\ a[Len(s) + 1] = x /\ Len(s) \in Nat
      /\ \A i \in 1 .. Len(s) : a[i] = s[i]
  OBVIOUS
<1> HIDE DEF a
<1>2. \A y : y \in ToSet(a) <=> \E i \in 1 .. Len(s) + 1 : a[i] = y
  BY <1>1, Members
<1>3. \A y : y \in ToSet(s) <=> \E i \in 1 .. Len(s) : s[i] = y
  BY Members
<1>4. ASSUME NEW y PROVE y \in ToSet(a) <=> y \in ToSet(s) \cup {x}
  <2>1. ASSUME NEW i \in 1 .. Len(s) + 1, a[i] = y PROVE y \in ToSet(s) \cup {x}
    <3>1. CASE i = Len(s) + 1
      BY <1>1, <2>1, <3>1
    <3>2. CASE i # Len(s) + 1
      <4>1. i \in 1 .. Len(s)
        BY <1>1, <3>2
      <4> QED
        BY <1>1, <1>3, <2>1, <4>1
    <3> QED
      BY <3>1, <3>2
  <2>2. ASSUME NEW i \in 1 .. Len(s), s[i] = y PROVE y \in ToSet(a)
    <3>1. i \in 1 .. Len(s) + 1 /\ a[i] = y
      BY <1>1, <2>2
    <3> QED
      BY <1>2, <3>1
  <2>3. x \in ToSet(a)
    <3>1. Len(s) + 1 \in 1 .. Len(s) + 1
      BY <1>1
    <3> QED
      BY <1>1, <1>2, <3>1
  <2> QED
    BY <1>2, <1>3, <2>1, <2>2, <2>3
<1> QED
  BY <1>1, <1>4 DEF a

LEMMA TailIs ==
    ASSUME NEW S, NEW s \in Seq(S), s # <<>>
    PROVE  /\ Head(s) = s[1] /\ Head(s) \in S /\ Tail(s) \in Seq(S)
           /\ Len(s) \in Nat \ {0} /\ Len(Tail(s)) = Len(s) - 1
           /\ \A i \in 1 .. Len(s) - 1 : Tail(s)[i] = s[i + 1]
           /\ ToSet(s) = {Head(s)} \cup ToSet(Tail(s))
<1> DEFINE h == Head(s)
           u == Tail(s)
<1>1. /\ h = s[1] /\ h \in S /\ u \in Seq(S) /\ Len(s) \in Nat \ {0} /\ Len(u) = Len(s) - 1
      /\ \A i \in 1 .. Len(s) - 1 : u[i] = s[i + 1]
  OBVIOUS
<1> HIDE DEF h, u
<1>2. /\ \A y : y \in ToSet(s) <=> \E i \in 1 .. Len(s) : s[i] = y
      /\ \A y : y \in ToSet(u) <=> \E i \in 1 .. Len(s) - 1 : u[i] = y
  BY <1>1, Members
<1>3. ASSUME NEW y PROVE y \in ToSet(s) <=> y \in {h} \cup ToSet(u)
  <2>1. ASSUME NEW i \in 1 .. Len(s), s[i] = y PROVE y \in {h} \cup ToSet(u)
    <3>1. CASE i = 1
      BY <1>1, <2>1, <3>1
    <3>2. CASE i # 1
      <4>1. i - 1 \in 1 .. Len(s) - 1 /\ u[i - 1] = y
        BY <1>1, <2>1, <3>2
      <4> QED
        BY <1>2, <4>1
    <3> QED
      BY <3>1, <3>2
  <2>2. ASSUME NEW i \in 1 .. Len(s) - 1, u[i] = y PROVE y \in ToSet(s)
    <3>1. i + 1 \in 1 .. Len(s) /\ s[i + 1] = y
      BY <1>1, <2>2
    <3> QED
      BY <1>2, <3>1
  <2>3. h \in ToSet(s)
    <3>1. 1 \in 1 .. Len(s)
      BY <1>1
    <3> QED
      BY <1>1, <1>2, <3>1
  <2> QED
    BY <1>2, <2>1, <2>2, <2>3
<1> QED
  BY <1>1, <1>3 DEF h, u

\* A part of a sequence.
LEMMA PartIs ==
    ASSUME NEW S, NEW s \in Seq(S), NEW a \in Nat \ {0}, NEW b \in Nat, b <= Len(s)
    PROVE  /\ SubSeq(s, a, b) \in Seq(S)
           /\ Len(SubSeq(s, a, b)) = IF a <= b THEN b - a + 1 ELSE 0
           /\ \A i \in 1 .. b - a + 1 : SubSeq(s, a, b)[i] = s[a + i - 1]
           /\ ToSet(SubSeq(s, a, b)) \subseteq ToSet(s)
<1> DEFINE p == SubSeq(s, a, b)
<1>0. Len(s) \in Nat /\ \A i \in a .. b : s[i] \in S
  OBVIOUS
<1>1. /\ p \in Seq(S) /\ Len(p) = IF a <= b THEN b - a + 1 ELSE 0
      /\ \A i \in 1 .. b - a + 1 : p[i] = s[a + i - 1]
  BY <1>0, SubSeqProperties
<1> HIDE DEF p
<1>2. /\ \A y : y \in ToSet(s) <=> \E i \in 1 .. Len(s) : s[i] = y
      /\ \A y : y \in ToSet(p) <=> \E i \in 1 .. Len(p) : p[i] = y
  BY <1>1, Members
<1>3. ASSUME NEW y, y \in ToSet(p) PROVE y \in ToSet(s)
  <2>1. PICK i \in 1 .. Len(p) : p[i] = y
    BY <1>2, <1>3
  <2>2. i \in 1 .. b - a + 1
    BY <1>1
  <2>3. a + i - 1 \in 1 .. Len(s) /\ s[a + i - 1] = y
    BY <1>0, <1>1, <2>1, <2>2
  <2> QED
    BY <1>2, <2>3
<1> QED
  BY <1>1, <1>3 DEF p

LEMMA RemoveAtIs ==
    ASSUME NEW S, NEW s \in Seq(S), NEW i \in 1 .. Len(s)
    PROVE  /\ RemoveAt(s, i) \in Seq(S) /\ Len(RemoveAt(s, i)) = Len(s) - 1
           /\ \A k \in 1 .. Len(s) - 1 : RemoveAt(s, i)[k] = IF k < i THEN s[k] ELSE s[k + 1]
           /\ ToSet(RemoveAt(s, i)) \subseteq ToSet(s)
           /\ ToSet(s) \subseteq ToSet(RemoveAt(s, i)) \cup {s[i]}
<1> DEFINE p == SubSeq(s, 1, i - 1)
           q == SubSeq(s, i + 1, Len(s))
           r == RemoveAt(s, i)
           n == Len(s)
<1>1. n \in Nat /\ i - 1 \in Nat /\ i + 1 \in Nat \ {0} /\ i - 1 <= n /\ i <= n
  OBVIOUS
<1>2. /\ p \in Seq(S) /\ Len(p) = i - 1 /\ \A k \in 1 .. i - 1 : p[k] = s[k]
      /\ q \in Seq(S) /\ Len(q) = n - i /\ \A k \in 1 .. n - i : q[k] = s[i + k]
  <2>1. p \in Seq(S) /\ Len(p) = i - 1 /\ \A k \in 1 .. i - 1 : p[k] = s[k]
    <3>1. /\ p \in Seq(S) /\ Len(p) = IF 1 <= i - 1 THEN i - 1 - 1 + 1 ELSE 0
          /\ \A k \in 1 .. i - 1 - 1 + 1 : p[k] = s[1 + k - 1]
      BY <1>1, PartIs
    <3> QED
      BY <1>1, <3>1
  <2>2. q \in Seq(S) /\ Len(q) = n - i /\ \A k \in 1 .. n - i : q[k] = s[i + k]
    <3>1. /\ q \in Seq(S) /\ Len(q) = IF i + 1 <= n THEN n - (i + 1) + 1 ELSE 0
          /\ \A k \in 1 .. n - (i + 1) + 1 : q[k] = s[i + 1 + k - 1]
      BY <1>1, PartIs
    <3> QED
      BY <1>1, <3>1
  <2> QED
    BY <2>1, <2>2
<1>3. r = p \o q
  BY DEF RemoveAt
<1> HIDE DEF p, q, r
<1>4. /\ r \in Seq(S) /\ Len(r) = n - 1
      /\ \A k \in 1 .. n - 1 : r[k] = IF k < i THEN s[k] ELSE s[k + 1]
  <2>1. /\ r \in Seq(S) /\ Len(r) = i - 1 + (n - i)
        /\ \A k \in 1 .. i - 1 + (n - i) : r[k] = IF k <= i - 1 THEN p[k] ELSE q[k - (i - 1)]
    <3>1. /\ p \o q \in Seq(S) /\ Len(p \o q) = Len(p) + Len(q)
          /\ \A k \in 1 .. Len(p) + Len(q) :
                (p \o q)[k] = IF k <= Len(p) THEN p[k] ELSE q[k - Len(p)]
      BY <1>2, ConcatProperties
    <3> QED
      BY <1>2, <1>3, <3>1
  <2>2. r \in Seq(S) /\ Len(r) = n - 1
    BY <1>1, <2>1
  <2>3. ASSUME NEW k \in 1 .. n - 1 PROVE r[k] = IF k < i THEN s[k] ELSE s[k + 1]
    <3>1. k \in 1 .. i - 1 + (n - i)
      BY <1>1
    <3>2. CASE k < i
      BY <1>1, <1>2, <2>1, <3>1, <3>2
    <3>3. CASE ~ k < i
      <4>1. k - (i - 1) \in 1 .. n - i /\ i + (k - (i - 1)) = k + 1
        BY <1>1, <3>3
      <4>2. q[k - (i - 1)] = s[k + 1]
        BY <1>2, <4>1
      <4>3. ~ k <= i - 1
        BY <1>1, <3>3
      <4> QED
        BY <2>1, <3>1, <3>3, <4>2, <4>3
    <3> QED
      BY <3>2, <3>3
  <2> QED
    BY <2>2, <2>3
<1>5. /\ \A y : y \in ToSet(s) <=> \E k \in 1 .. n : s[k] = y
      /\ \A y : y \in ToSet(r) <=> \E k \in 1 .. n - 1 : r[k] = y
  BY <1>4, Members
<1>6. ASSUME NEW y, y \in ToSet(r) PROVE y \in ToSet(s)
  <2>1. PICK k \in 1 .. n - 1 : r[k] = y
    BY <1>5, <1>6
  <2>2. k \in 1 .. n /\ k + 1 \in 1 .. n
    BY <1>1
  <2>3. s[k] = y \/ s[k + 1] = y
    BY <1>4, <2>1
  <2> QED
    BY <1>5, <2>2, <2>3
<1>7. ASSUME NEW y, y \in ToSet(s), y # s[i] PROVE y \in ToSet(r)
  <2>1. PICK k \in 1 .. n : s[k] = y
    BY <1>5, <1>7
  <2>2. CASE k < i
    <3>1. k \in 1 .. n - 1 /\ r[k] = y
      BY <1>1, <1>4, <2>1, <2>2
    <3> QED
      BY <1>5, <3>1
  <2>3. CASE ~ k < i
    <3>1. k - 1 \in 1 .. n - 1 /\ ~ k - 1 < i /\ k - 1 + 1 = k
      BY <1>1, <1>7, <2>1, <2>3
    <3>2. r[k - 1] = y
      BY <1>4, <2>1, <3>1
    <3> QED
      BY <1>5, <3>1, <3>2
  <2> QED
    BY <2>2, <2>3
<1> QED
  BY <1>4, <1>6, <1>7 DEF r

LEMMA InsertAtIs ==
    ASSUME NEW S, NEW s \in Seq(S), NEW i \in 1 .. Len(s), NEW x \in S
    PROVE  /\ InsertAt(s, i, x) \in Seq(S)
           /\ ToSet(InsertAt(s, i, x)) = ToSet(s) \cup {x}
<1> DEFINE p == SubSeq(s, 1, i - 1)
           q == SubSeq(s, i, Len(s))
           m == p \o <<x>>
           r == InsertAt(s, i, x)
           n == Len(s)
<1>1. n \in Nat /\ i - 1 \in Nat /\ i \in Nat \ {0} /\ i - 1 <= n /\ i <= n
  OBVIOUS
<1>2. /\ p \in Seq(S) /\ Len(p) = i - 1 /\ \A k \in 1 .. i - 1 : p[k] = s[k]
      /\ q \in Seq(S) /\ Len(q) = n - i + 1 /\ \A k \in 1 .. n - i + 1 : q[k] = s[i + k - 1]
  <2>1. p \in Seq(S) /\ Len(p) = i - 1 /\ \A k \in 1 .. i - 1 : p[k] = s[k]
    <3>1. /\ p \in Seq(S) /\ Len(p) = IF 1 <= i - 1 THEN i - 1 - 1 + 1 ELSE 0
          /\ \A k \in 1 .. i - 1 - 1 + 1 : p[k] = s[1 + k - 1]
      BY <1>1, PartIs
    <3> QED
      BY <1>1, <3>1
  <2>2. q \in Seq(S) /\ Len(q) = n - i + 1 /\ \A k \in 1 .. n - i + 1 : q[k] = s[i + k - 1]
    <3>1. /\ q \in Seq(S) /\ Len(q) = IF i <= n THEN n - i + 1 ELSE 0
          /\ \A k \in 1 .. n - i + 1 : q[k] = s[i + k - 1]
      BY <1>1, PartIs
    <3> QED
      BY <1>1, <3>1
  <2> QED
    BY <2>1, <2>2
<1>3. r = m \o q
  BY DEF InsertAt
<1>4. m = Append(p, x)
  <2> HIDE DEF p
  <2> QED
    BY <1>2
<1> HIDE DEF p, q, m, r
<1>5. m \in Seq(S) /\ Len(m) = i /\ m[i] = x /\ \A k \in 1 .. i - 1 : m[k] = s[k]
  <2>1. /\ m \in Seq(S) /\ Len(m) = i - 1 + 1 /\ m[i - 1 + 1] = x
        /\ \A k \in 1 .. i - 1 : m[k] = p[k]
    BY <1>2, <1>4, AppendIs
  <2> QED
    BY <1>1, <1>2, <2>1
<1>6. /\ r \in Seq(S) /\ Len(r) = n + 1
      /\ \A k \in 1 .. n + 1 : r[k] = IF k <= i THEN m[k] ELSE q[k - i]
  <2>1. /\ r \in Seq(S) /\ Len(r) = i + (n - i + 1)
        /\ \A k \in 1 .. i + (n - i + 1) : r[k] = IF k <= i THEN m[k] ELSE q[k - i]
    <3>1. /\ m \o q \in Seq(S) /\ Len(m \o q) = Len(m) + Len(q)
          /\ \A k \in 1 .. Len(m) + Len(q) :
                (m \o q)[k] = IF k <= Len(m) THEN m[k] ELSE q[k - Len(m)]
      BY <1>2, <1>5, ConcatProperties
    <3> QED
      BY <1>2, <1>3, <1>5, <3>1
  <2> QED
    BY <1>1, <2>1
<1>7. /\ \A y : y \in ToSet(s) <=> \E k \in 1 .. n : s[k] = y
      /\ \A y : y \in ToSet(r) <=> \E k \in 1 .. n + 1 : r[k] = y
  BY <1>6, Members
<1>8. ASSUME NEW y, y \in ToSet(r) PROVE y \in ToSet(s) \cup {x}
  <2>1. PICK k \in 1 .. n + 1 : r[k] = y
    BY <1>7, <1>8
  <2>2. CASE k < i
    <3>1. k \in 1 .. n /\ s[k] = y
      BY <1>1, <1>5, <1>6, <2>1, <2>2
    <3> QED
      BY <1>7, <3>1
  <2>3. CASE k = i
    BY <1>1, <1>5, <1>6, <2>1, <2>3
  <2>4. CASE k > i
    <3>1. k - i \in 1 .. n - i + 1 /\ i + (k - i) - 1 = k - 1 /\ k - 1 \in 1 .. n
      BY <1>1, <2>4
    <3>2. s[k - 1] = y
      BY <1>1, <1>2, <1>6, <2>1, <2>4, <3>1
    <3> QED
      BY <1>7, <3>1, <3>2
  <2> QED
    BY <1>1, <2>2, <2>3, <2>4
<1>9. x \in ToSet(r)
  <2>1. i \in 1 .. n + 1 /\ r[i] = x
    BY <1>1, <1>5, <1>6
  <2> QED
    BY <1>7, <2>1
<1>10. ASSUME NEW y, y \in ToSet(s) PROVE y \in ToSet(r)
  <2>1. PICK k \in 1 .. n : s[k] = y
    BY <1>7, <1>10
  <2>2. CASE k < i
    <3>1. k \in 1 .. n + 1 /\ r[k] = y
      BY <1>1, <1>5, <1>6, <2>1, <2>2
    <3> QED
      BY <1>7, <3>1
  <2>3. CASE ~ k < i
    <3>1. /\ k + 1 \in 1 .. n + 1 /\ ~ k + 1 <= i /\ k + 1 - i \in 1 .. n - i + 1
          /\ i + (k + 1 - i) - 1 = k
      BY <1>1, <2>3
    <3>2. q[k + 1 - i] = y
      <4>1. q[k + 1 - i] = s[i + (k + 1 - i) - 1]
        BY <1>2, <3>1
      <4> QED
        BY <2>1, <3>1, <4>1
    <3>3. r[k + 1] = y
      <4>1. r[k + 1] = IF k + 1 <= i THEN m[k + 1] ELSE q[k + 1 - i]
        BY <1>6, <3>1
      <4> QED
        BY <3>1, <3>2, <4>1
    <3> QED
      BY <1>7, <3>1, <3>3
  <2> QED
    BY <2>2, <2>3
<1> QED
  BY <1>6, <1>8, <1>9, <1>10 DEF r

\* What is read in order is all of it, in order.
LEMMA InOrderIs ==
    ASSUME NEW S \in SUBSET Nat, IsFiniteSet(S), NEW q, \A i \in S : q[i] \in Nat
    PROVE  LET r == InOrder(q, S)
               n == Cardinality(S) IN
           /\ n \in Nat /\ r \in Seq({q[i] : i \in S}) /\ Len(r) = n
           /\ ToSet(r) = {q[i] : i \in S}
           /\ \A a, b \in 1 .. n : a < b => r[a] <= r[b]
           /\ (\A i, j \in S : q[i] = q[j] => i = j) => \A a, b \in 1 .. n : a < b => r[a] < r[b]
<1> DEFINE before(j, i) == q[j] < q[i] \/ (q[j] = q[i] /\ j <= i)
           upTo(i) == {j \in S : before(j, i)}
           rank == [i \in S |-> Cardinality(upTo(i))]
           n == Cardinality(S)
           at(k) == CHOOSE i \in S : Cardinality(upTo(i)) = k
           r == [k \in 1 .. n |-> q[at(k)]]
<1>1. r = InOrder(q, S)
  BY DEF InOrder
<1>2. n \in Nat
  BY FS_CardinalityType
<1>3. ASSUME NEW i \in S
      PROVE  /\ upTo(i) \in SUBSET S /\ IsFiniteSet(upTo(i)) /\ i \in upTo(i)
             /\ Cardinality(upTo(i)) \in 1 .. n
  <2>1. upTo(i) \in SUBSET S /\ i \in upTo(i)
    OBVIOUS
  <2> HIDE DEF upTo
  <2>2. IsFiniteSet(upTo(i)) /\ Cardinality(upTo(i)) <= n
    BY <2>1, FS_Subset
  <2>3. Cardinality(upTo(i)) \in Nat
    BY <2>2, FS_CardinalityType
  <2>4. Cardinality(upTo(i)) # 0
    BY <2>1, <2>2, FS_EmptySet
  <2> QED
    BY <1>2, <2>1, <2>2, <2>3, <2>4
<1>4. ASSUME NEW i \in S, NEW j \in S, before(j, i), i # j
      PROVE  Cardinality(upTo(j)) < Cardinality(upTo(i))
  <2>0. q[i] \in Nat /\ q[j] \in Nat /\ i \in Nat /\ j \in Nat
    OBVIOUS
  <2>1. upTo(j) \subseteq upTo(i) /\ i \notin upTo(j)
    <3>1. ASSUME NEW x \in S, before(x, j) PROVE before(x, i)
      <4>1. q[x] \in Nat /\ x \in Nat
        OBVIOUS
      <4> QED
        BY <1>4, <2>0, <3>1, <4>1
    <3>2. ~ before(i, j)
      BY <1>4, <2>0
    <3> QED
      BY <3>1, <3>2
  <2> HIDE DEF upTo
  <2>2. IsFiniteSet(upTo(i)) /\ upTo(j) # upTo(i) /\ upTo(j) \in SUBSET upTo(i)
    BY <1>3, <2>1
  <2>3. Cardinality(upTo(j)) <= Cardinality(upTo(i)) /\ Cardinality(upTo(j)) # Cardinality(upTo(i))
    BY <2>2, FS_Subset
  <2>4. Cardinality(upTo(j)) \in Nat /\ Cardinality(upTo(i)) \in Nat
    BY <1>3
  <2> QED
    BY <2>3, <2>4
<1>5. \A i, j \in S : before(j, i) \/ before(i, j)
  OBVIOUS
<1>6. \A i, j \in S : before(j, i) => q[j] <= q[i]
  OBVIOUS
<1> HIDE DEF upTo, before
<1>7. \A i, j \in S : rank[i] = rank[j] => i = j
  <2>1. ASSUME NEW i \in S, NEW j \in S, i # j PROVE rank[i] # rank[j]
    <3>1. rank[i] \in Nat /\ rank[j] \in Nat
      BY <1>3
    <3>2. rank[j] < rank[i] \/ rank[i] < rank[j]
      BY <1>4, <1>5, <2>1
    <3> QED
      BY <3>1, <3>2
  <2> QED
    BY <2>1
<1>8. rank \in Injection(S, 1 .. n)
  <2>1. rank \in [S -> 1 .. n]
    BY <1>3
  <2> HIDE DEF rank
  <2> QED
    BY <1>7, <2>1 DEF Injection, IsInjective
<1>9. rank \in Surjection(S, 1 .. n)
  <2>1. IsFiniteSet(1 .. n) /\ Cardinality(1 .. n) = n
    <3>1. IsFiniteSet(1 .. n) /\ Cardinality(1 .. n) = IF 1 > n THEN 0 ELSE n - 1 + 1
      BY <1>2, FS_Interval
    <3> QED
      BY <1>2, <3>1
  <2> HIDE DEF rank, n
  <2>2. Cardinality(S) = Cardinality(1 .. n)
    BY <2>1 DEF n
  <2> QED
    BY <1>8, <2>1, <2>2, FS_Injection
<1>10. ASSUME NEW k \in 1 .. n PROVE at(k) \in S /\ rank[at(k)] = k
  <2>1. \E i \in S : rank[i] = k
    BY <1>9 DEF Surjection
  <2>2. \E i \in S : Cardinality(upTo(i)) = k
    BY <2>1
  <2>3. at(k) \in S /\ Cardinality(upTo(at(k))) = k
    BY <2>2
  <2> HIDE DEF at
  <2> QED
    BY <2>3
<1> DEFINE Q == {q[i] : i \in S}
<1>11. \A i \in S : rank[i] \in 1 .. n /\ at(rank[i]) = i
  <2>1. ASSUME NEW i \in S PROVE rank[i] \in 1 .. n /\ at(rank[i]) = i
    <3>1. rank[i] \in 1 .. n
      BY <1>3
    <3> HIDE DEF rank, at
    <3>2. at(rank[i]) \in S /\ rank[at(rank[i])] = rank[i]
      BY <1>10, <3>1
    <3> QED
      BY <1>7, <3>1, <3>2
  <2> QED
    BY <2>1
<1> HIDE DEF rank, at, n
<1>12. r \in Seq(Q) /\ Len(r) = n
  BY <1>2, <1>10
<1>13. ToSet(r) = Q
  <2>1. ASSUME NEW y \in Q PROVE y \in ToSet(r)
    <3>1. PICK i \in S : q[i] = y
      OBVIOUS
    <3>2. rank[i] \in 1 .. n /\ r[rank[i]] = y
      BY <1>11, <3>1
    <3> HIDE DEF r
    <3> QED
      BY <1>12, <3>2, Members
  <2> HIDE DEF r, Q
  <2> QED
    BY <1>12, <2>1, Members
<1>14. ASSUME NEW a \in 1 .. n, NEW b \in 1 .. n, a < b
       PROVE  q[at(a)] <= q[at(b)] /\ at(a) # at(b)
  <2>1. at(a) \in S /\ at(b) \in S /\ rank[at(a)] = a /\ rank[at(b)] = b
    BY <1>10
  <2>2. at(a) # at(b)
    BY <1>14, <2>1
  <2>3. ~ before(at(b), at(a))
    <3>1. ASSUME before(at(b), at(a)) PROVE FALSE
      <4>1. Cardinality(upTo(at(b))) < Cardinality(upTo(at(a)))
        BY <1>4, <2>1, <2>2, <3>1
      <4>2. b < a
        BY <2>1, <4>1 DEF rank
      <4> QED
        BY <1>2, <1>14, <4>2
    <3> QED
      BY <3>1
  <2> QED
    BY <1>5, <1>6, <2>1, <2>2, <2>3
<1>15. \A a, b \in 1 .. n : a < b => r[a] <= r[b]
  BY <1>14
<1>16. ASSUME \A i, j \in S : q[i] = q[j] => i = j, NEW a \in 1 .. n, NEW b \in 1 .. n, a < b
       PROVE  r[a] < r[b]
  <2>1. at(a) \in S /\ at(b) \in S /\ q[at(a)] \in Nat /\ q[at(b)] \in Nat
    BY <1>10
  <2>2. q[at(a)] # q[at(b)] /\ q[at(a)] <= q[at(b)]
    BY <1>14, <1>16, <2>1
  <2> QED
    BY <2>1, <2>2
<1> HIDE DEF r
<1> QED
  BY <1>1, <1>2, <1>12, <1>13, <1>15, <1>16 DEF n

(***************************************************************************)
(* What a step leaves of the invariant.                                    *)
(***************************************************************************)
\* Faults are never forgotten.
LEMMA FaultIs ==
    ASSUME NEW kind, Fault(kind)
    PROVE  Kinds' = Kinds \cup {kind}
<1>1. faults' = faults (+) SetToBag({kind})
  BY DEF Fault
<1> QED
  BY <1>1 DEF Kinds, BagToSet, (+), SetToBag

LEMMA FaultsSame ==
    ASSUME faults' = faults
    PROVE  Kinds' = Kinds
BY DEF Kinds

\* A fault that ends what the runner may rely on.
LEMMA NotQuiet ==
    ASSUME NEW kind, kind \notin {"drop", "process"}, Kinds' = Kinds \cup {kind}
    PROVE  ~ Quiet'
BY DEF Quiet

LEMMA QuietIs ==
    ASSUME Kinds \subseteq Kinds'
    PROVE  /\ Quiet' => Quiet /\ "handover" \notin Kinds
           /\ "handover" \notin Kinds' => "handover" \notin Kinds
BY DEF Quiet

LEMMA OutboxIs ==
    ASSUME OutboxSound
    PROVE  /\ latest \in Nat /\ Retained \subseteq 1 .. latest /\ Delivered \subseteq Retained
           /\ ToSet(pending) \subseteq Retained /\ ToSet(shelf) \subseteq Retained
<1>1. ToSet(pending) \subseteq 1 .. latest /\ ToSet(shelf) \subseteq 1 .. latest
  BY Members DEF OutboxSound
<1> QED
  BY <1>1 DEF OutboxSound, Retained, Delivered, Marked

\* Under Quiet the outbox holds everything.
LEMMA OrderIs ==
    ASSUME OutboxSound, OrderSound
    PROVE  /\ Len(pending) \in 0 .. latest /\ Retained = 1 .. latest
           /\ ToSet(pending) = latest - Len(pending) + 1 .. latest
<1>1. latest \in Nat /\ pending \in Seq(1 .. latest) /\ Len(pending) \in Nat
  BY DEF OutboxSound
<1>2. ASSUME Len(pending) # 0 PROVE Len(pending) <= latest
  <2>1. 1 \in 1 .. Len(pending)
    BY <1>1, <1>2
  <2>2. pending[1] \in 1 .. latest /\ pending[1] = latest - Len(pending) + 1
    BY <1>1, <2>1 DEF OrderSound
  <2> QED
    BY <1>1, <2>2
<1>3. Len(pending) \in 0 .. latest
  BY <1>1, <1>2
<1>4. \A x : x \in ToSet(pending) <=> \E i \in 1 .. Len(pending) : pending[i] = x
  BY <1>1, Members
<1>5. ASSUME NEW x \in latest - Len(pending) + 1 .. latest PROVE x \in ToSet(pending)
  <2>1. x - (latest - Len(pending)) \in 1 .. Len(pending)
    BY <1>1, <1>3
  <2>2. pending[x - (latest - Len(pending))] = x
    BY <1>1, <1>3, <2>1 DEF OrderSound
  <2> QED
    BY <1>4, <2>1, <2>2
<1>6. ASSUME NEW x \in ToSet(pending) PROVE x \in latest - Len(pending) + 1 .. latest
  <2>1. PICK i \in 1 .. Len(pending) : pending[i] = x
    BY <1>4
  <2>2. x = latest - Len(pending) + i
    BY <2>1 DEF OrderSound
  <2> QED
    BY <1>1, <1>3, <2>2
<1>7. ToSet(pending) = latest - Len(pending) + 1 .. latest
  BY <1>5, <1>6
<1>8. ToSet(shelf) = 1 .. latest - Len(pending)
  BY DEF OrderSound
<1> QED
  BY <1>1, <1>3, <1>7, <1>8 DEF Retained

LEMMA OutboxSame ==
    ASSUME UNCHANGED outbox
    PROVE  /\ OutboxSound' = OutboxSound /\ Retained' = Retained
           /\ UNCHANGED <<latest, pending, shelf, aged>>
BY DEF outbox, OutboxSound, Retained

LEMMA DeliveredSame ==
    ASSUME UNCHANGED outbox, UNCHANGED publisher
    PROVE  /\ Delivered' = Delivered /\ PublisherSound' = PublisherSound
           /\ OrderSound' = OrderSound
BY DEF outbox, Delivered, Marked, Poll, PublisherSound, OrderSound

\* A step of the connection or of the runner.
LEMMA ConnStep ==
    ASSUME StreamInv, UNCHANGED <<outbox, publisher>>, Kinds \subseteq Kinds',
           conn'.stage # "NONE" =>
              \/ conn.stage # "NONE" /\ conn'.process = conn.process
              \/ conn'.process \in Processes /\ publisher[conn'.process].running,
           ConnSound', BarrierSound', JournalSound', Quiet' => QueuesSound' /\ HeardSound'
    PROVE  StreamInv'
<1>1. OutboxSound' /\ PublisherSound' /\ (Quiet' => OrderSound')
  BY OutboxSame, DeliveredSame, QuietIs DEF StreamInv
<1>2. OneLeader'
  <2>1. ASSUME "handover" \notin Kinds' PROVE "handover" \notin Kinds
    BY <2>1
  <2>2. ASSUME "handover" \notin Kinds, NEW r \in Processes, publisher[r].running,
               \A p \in Processes \ {r} : ~ publisher[p].running /\ Poll(p).phase = "IDLE",
               conn.stage # "NONE" => conn.process = r
        PROVE  conn'.stage # "NONE" => conn'.process = r
    BY <2>2
  <2> QED
    BY <2>1, <2>2 DEF StreamInv, OneLeader, Poll
<1> QED
  BY <1>1, <1>2 DEF StreamInv

LEMMA NotConnectedIs ==
    ASSUME NEW n \in Nat
    PROVE  /\ NotConnected \in Connections(n) /\ NotConnected.stage = "NONE"
           /\ NotConnected.sent = <<>> /\ NotConnected.queue = <<>>
           /\ NotConnected.batch = <<>> /\ NotConnected.backlog = <<>>
           /\ NotConnected.told = {} /\ NotConnected.heard = 0 /\ NotConnected.after = 0
           /\ NotConnected.upTo = 0 /\ NotConnected.rounds = 0
BY DEF NotConnected, Connections, Stages, Unread

\* A connection that was not sent anything, nor had anything queued.
LEMMA NothingSent ==
    ASSUME NEW c, c.sent = <<>>
    PROVE  NoGap(c)
BY DEF NoGap

LEMMA Dropped ==
    ASSUME StreamInv, UNCHANGED <<outbox, publisher, journal, failed>>, Kinds \subseteq Kinds',
           conn' = NotConnected, handling' = handling \/ handling' = 0,
           snapshots' \subseteq snapshots
    PROVE  StreamInv'
<1>1. UNCHANGED <<latest, cursor, applied, skipped>> /\ latest \in Nat
  BY DEF outbox, journal, StreamInv, OutboxSound
<1>2. ConnSound'
  BY <1>1, NotConnectedIs DEF ConnSound, Unread
<1>3. BarrierSound'
  BY <1>1, NotConnectedIs DEF BarrierSound
<1>4. JournalSound'
  <2>1. 0 \in 0 .. latest /\ cursor \in 0 .. latest
    BY <1>1 DEF StreamInv, JournalSound
  <2>2. conn'.after <= cursor
    BY <1>1, <2>1, NotConnectedIs
  <2> QED
    BY <1>1, <2>1, <2>2 DEF StreamInv, JournalSound
<1>5. ASSUME Quiet' PROVE QueuesSound' /\ HeardSound'
  <2>1. HeardSound
    BY <1>5, QuietIs DEF StreamInv
  <2>2. QueuesSound'
    BY <1>1, NotConnectedIs, NoMembers, NothingSent DEF QueuesSound, NoGap
  <2>3. handling' # 0 => \A n \in 1 .. handling' - 1 : Behind(n)'
    BY <1>1, <2>1 DEF HeardSound, Behind
  <2> QED
    BY <1>1, <2>1, <2>2, <2>3, NotConnectedIs DEF HeardSound, Behind
<1>6. conn'.stage = "NONE"
  BY <1>1, NotConnectedIs
<1> QED
  BY <1>2, <1>3, <1>4, <1>5, <1>6, ConnStep

\* A step of a publisher, a mark or a prune.
LEMMA PublisherStepIs ==
    ASSUME StreamInv, UNCHANGED <<latest, conn, runner>>, Kinds \subseteq Kinds',
           OutboxSound', PublisherSound',
           \A p \in Processes : publisher'[p].running \/ publisher'[p].poll.phase # "IDLE" =>
                                publisher[p].running \/ publisher[p].poll.phase # "IDLE",
           "handover" \notin Kinds' =>
              \A p \in Processes : publisher[p].running => publisher'[p].running,
           Retained' \subseteq Retained, Delivered' \subseteq Delivered,
           Quiet' => OrderSound' /\ Delivered \subseteq Delivered'
    PROVE  StreamInv'
<1>1. UNCHANGED <<cursor, applied, skipped, handling, failed, demands, snapshots>>
  BY DEF runner, journal
<1>2. OneLeader'
  <2>1. ASSUME "handover" \notin Kinds' PROVE "handover" \notin Kinds
    BY <2>1
  <2>2. ASSUME "handover" \notin Kinds', NEW r \in Processes, publisher[r].running,
               \A p \in Processes \ {r} : ~ publisher[p].running /\ Poll(p).phase = "IDLE"
        PROVE  /\ publisher'[r].running
               /\ \A p \in Processes \ {r} : ~ publisher'[p].running /\ publisher'[p].poll.phase = "IDLE"
    BY <2>2 DEF Poll
  <2> QED
    BY <2>1, <2>2 DEF StreamInv, OneLeader, Poll
<1>3. ConnSound'
  <2>1. ConnSound
    BY DEF StreamInv
  <2> QED
    BY <2>1 DEF ConnSound
<1>4. BarrierSound'
  <2>1. BarrierSound
    BY DEF StreamInv
  <2> QED
    BY <2>1 DEF BarrierSound
<1>5. JournalSound'
  BY <1>1 DEF StreamInv, JournalSound
<1>6. ASSUME Quiet' PROVE QueuesSound' /\ HeardSound'
  <2>1. QueuesSound /\ HeardSound
    BY <1>6, QuietIs DEF StreamInv
  <2>2. QueuesSound'
    BY <1>6, <2>1 DEF QueuesSound, NoGap
  <2>3. HeardSound'
    BY <1>1, <2>1 DEF HeardSound, Behind
  <2> QED
    BY <2>2, <2>3
<1> QED
  BY <1>2, <1>3, <1>4, <1>5, <1>6 DEF StreamInv

(***************************************************************************)
(* The publisher.                                                          *)
(***************************************************************************)
LEMMA PollIs ==
    ASSUME PublisherSound, latest' = latest, NEW p \in Processes, NEW phase \in Phases,
           NEW batch \in Seq(1 .. latest), SetPoll(p, phase, batch),
           phase = "MARKING" => batch # <<>>
    PROVE  /\ PublisherSound'
           /\ publisher'[p].poll.phase = phase /\ publisher'[p].poll.batch = batch
           /\ publisher'[p].running = publisher[p].running
           /\ \A q \in Processes : q # p => publisher'[q] = publisher[q]
<1>1. publisher \in Publishers(latest)
  BY DEF PublisherSound
<1>2. publisher' = [publisher EXCEPT ![p].poll = [phase |-> phase, batch |-> batch]]
  BY DEF SetPoll
<1>3. publisher[p] \in [running : BOOLEAN, poll : Polls(latest)]
  BY <1>1 DEF Publishers
<1>4. publisher'[p] = [publisher[p] EXCEPT !.poll = [phase |-> phase, batch |-> batch]]
  BY <1>1, <1>2 DEF Publishers
<1>5. \A q \in Processes : q # p => publisher'[q] = publisher[q]
  BY <1>1, <1>2 DEF Publishers
<1>6. [phase |-> phase, batch |-> batch] \in Polls(latest)
  BY DEF Polls
<1>7. /\ publisher'[p].poll = [phase |-> phase, batch |-> batch]
      /\ publisher'[p].running = publisher[p].running
      /\ publisher'[p] \in [running : BOOLEAN, poll : Polls(latest)]
  BY <1>3, <1>4, <1>6
<1>8. publisher' \in Publishers(latest)
  BY <1>1, <1>2, <1>3, <1>4, <1>6 DEF Publishers
<1>9. \A q \in Processes : publisher'[q].poll.phase = "MARKING" => publisher'[q].poll.batch # <<>>
  BY <1>5, <1>7 DEF PublisherSound, Poll
<1> QED
  BY <1>5, <1>7, <1>8, <1>9 DEF PublisherSound, Poll

LEMMA PollTypes ==
    ASSUME PublisherSound, NEW p \in Processes
    PROVE  /\ publisher[p].running \in BOOLEAN /\ Poll(p).phase \in Phases
           /\ Poll(p).batch \in Seq(1 .. latest)
           /\ Poll(p).phase = "MARKING" => Poll(p).batch # <<>>
BY DEF PublisherSound, Publishers, Polls, Poll

\* A poll that goes on, but does not mark.
LEMMA Polled ==
    ASSUME StreamInv, UNCHANGED <<outbox, conn, runner>>, Kinds \subseteq Kinds',
           NEW p \in Processes, NEW phase \in {"IDLE", "CLAIMING", "PUBLISHING"},
           NEW batch \in Seq(1 .. latest), SetPoll(p, phase, batch),
           publisher[p].running \/ Poll(p).phase # "IDLE",
           Quiet' => Poll(p).phase # "MARKING",
           Quiet' /\ phase = "PUBLISHING" =>
              Len(batch) <= Len(pending) /\ \A i \in 1 .. Len(batch) : batch[i] = pending[i]
    PROVE  StreamInv'
<1>1. UNCHANGED <<latest, pending, shelf, aged>> /\ OutboxSound' /\ Retained' = Retained
  BY OutboxSame DEF StreamInv
<1>2. /\ PublisherSound'
      /\ publisher'[p].poll.phase = phase /\ publisher'[p].poll.batch = batch
      /\ publisher'[p].running = publisher[p].running
      /\ \A q \in Processes : q # p => publisher'[q] = publisher[q]
  BY <1>1, PollIs DEF StreamInv, Phases
<1>3. Marked' \subseteq Marked
  BY <1>1, <1>2 DEF Marked, Poll
<1>4. ASSUME Quiet' PROVE Marked \subseteq Marked'
  BY <1>1, <1>2, <1>4 DEF Marked, Poll
<1>5. Delivered' \subseteq Delivered /\ (Quiet' => Delivered \subseteq Delivered')
  BY <1>1, <1>3, <1>4 DEF Delivered
<1>6. ASSUME Quiet' PROVE OrderSound'
  <2>1. OrderSound
    BY <1>6, QuietIs DEF StreamInv
  <2> QED
    BY <1>1, <1>2, <1>6, <2>1 DEF OrderSound, Poll
<1>7. /\ \A q \in Processes : publisher'[q].running \/ publisher'[q].poll.phase # "IDLE" =>
                              publisher[q].running \/ publisher[q].poll.phase # "IDLE"
      /\ \A q \in Processes : publisher[q].running => publisher'[q].running
  BY <1>2 DEF Poll
<1> QED
  BY <1>1, <1>2, <1>5, <1>6, <1>7, PublisherStepIs

LEMMA TickKeeps ==
    ASSUME StreamInv, NEW p \in Processes, Tick(p)
    PROVE  StreamInv'
<1>1. UNCHANGED <<outbox, conn, runner>> /\ SetPoll(p, "CLAIMING", <<>>)
      /\ publisher[p].running /\ Poll(p).phase = "IDLE" /\ Kinds' = Kinds
  BY FaultsSame DEF Tick
<1>2. <<>> \in Seq(1 .. latest)
  OBVIOUS
<1> QED
  BY <1>1, <1>2, Polled

LEMMA ClaimKeeps ==
    ASSUME StreamInv, NEW p \in Processes, ClaimPendingOutbox(p)
    PROVE  StreamInv'
<1> DEFINE n == IF BatchSize < Len(pending) THEN BatchSize ELSE Len(pending)
           batch == SubSeq(pending, 1, n)
<1>1. UNCHANGED <<outbox, conn, runner>> /\ SetPoll(p, "PUBLISHING", batch)
      /\ Poll(p).phase = "CLAIMING" /\ Kinds' = Kinds
  BY FaultsSame DEF ClaimPendingOutbox
<1>2. pending \in Seq(1 .. latest) /\ n \in Nat /\ n <= Len(pending) /\ Len(pending) \in Nat
  BY BoundsAssumption DEF StreamInv, OutboxSound
<1> DEFINE S == 1 .. latest
<1> HIDE DEF n, S
<1>3. /\ batch \in Seq(S) /\ Len(batch) = IF 1 <= n THEN n - 1 + 1 ELSE 0
      /\ \A i \in 1 .. n - 1 + 1 : batch[i] = pending[1 + i - 1]
  <2>1. pending \in Seq(S) /\ 1 \in Nat \ {0}
    BY <1>2 DEF S
  <2> QED
    BY <1>2, <2>1, PartIs
<1> HIDE DEF batch
<1>4. Len(batch) <= Len(pending) /\ \A i \in 1 .. Len(batch) : batch[i] = pending[i]
  BY <1>2, <1>3
<1> QED
  BY <1>1, <1>3, <1>4, Polled DEF S

LEMMA ClaimFailsKeeps ==
    ASSUME StreamInv, NEW p \in Processes, ClaimFails(p)
    PROVE  StreamInv'
<1>1. UNCHANGED <<outbox, conn, runner>> /\ SetPoll(p, "IDLE", <<>>)
      /\ Poll(p).phase = "CLAIMING" /\ Kinds \subseteq Kinds'
  BY FaultIs DEF ClaimFails
<1>2. <<>> \in Seq(1 .. latest)
  OBVIOUS
<1> QED
  BY <1>1, <1>2, Polled

LEMMA RowFailsKeeps ==
    ASSUME StreamInv, NEW p \in Processes, RowFails(p)
    PROVE  StreamInv'
<1>1. UNCHANGED <<outbox, conn, runner>> /\ SetPoll(p, "PUBLISHING", Tail(Poll(p).batch))
      /\ Poll(p).phase # "IDLE" /\ Kinds \subseteq Kinds' /\ ~ Quiet'
  BY FaultIs, NotQuiet DEF RowFails
<1>2. Poll(p).batch \in Seq(1 .. latest) /\ Poll(p).batch # <<>>
  BY PollTypes DEF RowFails, StreamInv
<1>3. Tail(Poll(p).batch) \in Seq(1 .. latest)
  BY <1>2, TailIs
<1> QED
  BY <1>1, <1>3, Polled

\* leaveServing and enterServing.
LEMMA PauseKeeps ==
    ASSUME StreamInv, NEW p \in Processes, PauseScheduling(p)
    PROVE  StreamInv'
<1>1. UNCHANGED <<outbox, conn, runner>> /\ Kinds' = Kinds \cup {"handover"}
  BY FaultIs DEF PauseScheduling
<1>2. UNCHANGED <<latest, pending, shelf, aged>> /\ OutboxSound' /\ Retained' = Retained
  BY <1>1, OutboxSame DEF StreamInv
<1>3. publisher \in Publishers(latest) /\ publisher' = [publisher EXCEPT ![p].running = FALSE]
  BY DEF PauseScheduling, StreamInv, PublisherSound
<1>4. \A q \in Processes : publisher'[q].poll = publisher[q].poll
  BY <1>3 DEF Publishers
<1>5. publisher' \in Publishers(latest)
  BY <1>3 DEF Publishers
<1>6. \A q \in Processes : publisher'[q].running => publisher[q].running
  BY <1>3 DEF Publishers
<1>7. PublisherSound'
  BY <1>2, <1>4, <1>5 DEF StreamInv, PublisherSound, Poll
<1>8. Delivered' = Delivered
  BY <1>2, <1>4 DEF Delivered, Marked, Poll
<1>9. ~ Quiet' /\ "handover" \in Kinds'
  BY <1>1, NotQuiet
<1> QED
  BY <1>1, <1>2, <1>4, <1>6, <1>7, <1>8, <1>9, PublisherStepIs

LEMMA StartKeeps ==
    ASSUME StreamInv, NEW p \in Processes, Start(p)
    PROVE  StreamInv'
<1>1. UNCHANGED <<outbox, conn, runner>> /\ Kinds' = Kinds
  BY FaultsSame DEF Start
<1>2. UNCHANGED <<latest, pending, shelf, aged>> /\ OutboxSound' /\ Retained' = Retained
  BY <1>1, OutboxSame DEF StreamInv
<1>3. publisher \in Publishers(latest) /\ publisher' = [publisher EXCEPT ![p].running = TRUE]
  BY DEF Start, StreamInv, PublisherSound
<1>4. \A q \in Processes : publisher'[q].poll = publisher[q].poll
  BY <1>3 DEF Publishers
<1>5. publisher' \in Publishers(latest)
  BY <1>3 DEF Publishers
<1>6. "handover" \in Kinds
  BY DEF Start, StreamInv, OneLeader
<1>7. PublisherSound'
  BY <1>2, <1>4, <1>5 DEF StreamInv, PublisherSound, Poll
<1>8. Delivered' = Delivered
  BY <1>2, <1>4 DEF Delivered, Marked, Poll
<1>9. ~ Quiet' /\ "handover" \in Kinds'
  BY <1>1, <1>6 DEF Quiet
<1>10. OneLeader' /\ BarrierSound'
  BY <1>9 DEF OneLeader, BarrierSound
<1>11. ConnSound'
  <2>1. ConnSound /\ conn' = conn
    BY <1>1 DEF StreamInv
  <2> QED
    BY <1>2, <2>1 DEF ConnSound
<1>12. JournalSound'
  <2>1. JournalSound /\ conn' = conn /\ UNCHANGED <<cursor, applied, skipped, handling, snapshots>>
    BY <1>1 DEF StreamInv, runner, journal
  <2> QED
    BY <1>2, <2>1 DEF JournalSound
<1> QED
  BY <1>2, <1>7, <1>9, <1>10, <1>11, <1>12 DEF StreamInv

\* A row whose mark is in flight moves to the shelf.
LEMMA MarkKeeps ==
    ASSUME StreamInv, NEW p \in Processes, MarkOutboxPublished(p)
    PROVE  StreamInv'
<1> DEFINE batch == Poll(p).batch
           n == Head(batch)
<1>1. UNCHANGED <<latest, aged, conn, runner>> /\ Kinds' = Kinds /\ Poll(p).phase = "MARKING"
      /\ SetPoll(p, "PUBLISHING", Tail(batch))
  BY FaultsSame DEF MarkOutboxPublished
<1>2. batch \in Seq(1 .. latest) /\ batch # <<>>
  BY <1>1, PollTypes DEF StreamInv
<1>3. /\ n = batch[1] /\ n \in 1 .. latest /\ Tail(batch) \in Seq(1 .. latest)
      /\ Len(batch) \in Nat \ {0} /\ Len(Tail(batch)) = Len(batch) - 1
      /\ \A i \in 1 .. Len(batch) - 1 : Tail(batch)[i] = batch[i + 1]
  BY <1>2, TailIs
<1>4. /\ PublisherSound'
      /\ publisher'[p].poll.phase = "PUBLISHING" /\ publisher'[p].poll.batch = Tail(batch)
      /\ publisher'[p].running = publisher[p].running
      /\ \A q \in Processes : q # p => publisher'[q] = publisher[q]
  BY <1>1, <1>3, PollIs DEF StreamInv, Phases
<1>5. pending \in Seq(1 .. latest) /\ shelf \in Seq(1 .. latest) /\ latest \in Nat
      /\ aged \in 0 .. Len(shelf) /\ Len(pending) \in Nat /\ Len(shelf) \in Nat
  BY DEF StreamInv, OutboxSound
<1>6. CASE n \notin ToSet(pending)
  <2>1. UNCHANGED <<pending, shelf>>
    BY <1>6 DEF MarkOutboxPublished
  <2>2. OutboxSound' /\ Retained' = Retained
    BY <1>1, <2>1 DEF StreamInv, OutboxSound, Retained
  <2>3. Delivered' = Delivered
    BY <1>1, <1>4, <1>6, <2>1 DEF Delivered, Marked, Poll
  <2>4. ASSUME Quiet' PROVE FALSE
    <3>1. OrderSound
      BY <1>1, <2>4, QuietIs DEF StreamInv
    <3>2. Len(batch) <= Len(pending) /\ batch[1] = pending[1]
      BY <1>1, <1>3, <3>1 DEF OrderSound
    <3>3. 1 \in 1 .. Len(pending)
      BY <1>3, <1>5, <3>2
    <3>4. n \in ToSet(pending)
      BY <1>3, <1>5, <3>2, <3>3, Members
    <3> QED
      BY <1>6, <3>4
  <2>5. /\ \A q \in Processes : publisher'[q].running \/ publisher'[q].poll.phase # "IDLE" =>
                                publisher[q].running \/ publisher[q].poll.phase # "IDLE"
        /\ \A q \in Processes : publisher[q].running => publisher'[q].running
    BY <1>1, <1>4 DEF Poll
  <2> QED
    BY <1>1, <1>4, <2>2, <2>3, <2>4, <2>5, PublisherStepIs
<1>7. CASE n \in ToSet(pending)
  <2>1. PICK i \in 1 .. Len(pending) :
           pending[i] = n /\ pending' = RemoveAt(pending, i) /\ shelf' = Append(shelf, n)
    BY <1>7 DEF MarkOutboxPublished
  <2>2. /\ pending' \in Seq(1 .. latest) /\ Len(pending') = Len(pending) - 1
        /\ \A k \in 1 .. Len(pending) - 1 :
              pending'[k] = IF k < i THEN pending[k] ELSE pending[k + 1]
        /\ ToSet(pending') \subseteq ToSet(pending)
        /\ ToSet(pending) \subseteq ToSet(pending') \cup {n}
    <3> DEFINE S == 1 .. latest
    <3>1. pending \in Seq(S)
      BY <1>5
    <3> HIDE DEF S
    <3>2. /\ pending' \in Seq(S) /\ Len(pending') = Len(pending) - 1
          /\ \A k \in 1 .. Len(pending) - 1 :
                pending'[k] = IF k < i THEN pending[k] ELSE pending[k + 1]
          /\ ToSet(pending') \subseteq ToSet(pending)
          /\ ToSet(pending) \subseteq ToSet(pending') \cup {pending[i]}
      BY <2>1, <3>1, RemoveAtIs
    <3> QED
      BY <2>1, <3>2 DEF S
  <2>3. /\ shelf' \in Seq(1 .. latest) /\ Len(shelf') = Len(shelf) + 1
        /\ ToSet(shelf') = ToSet(shelf) \cup {n}
    BY <1>3, <1>5, <2>1, AppendIs
  <2>4. OutboxSound'
    BY <1>1, <1>5, <2>2, <2>3 DEF OutboxSound
  <2>5. Retained' \subseteq Retained
    BY <1>7, <2>2, <2>3 DEF Retained
  <2>6. n \in Marked
    BY <1>1, <1>7 DEF Marked
  <2>7. Marked' \subseteq Marked
    BY <1>4, <2>2 DEF Marked, Poll
  <2>8. Marked \subseteq Marked' \cup {n}
    BY <1>4, <2>2 DEF Marked, Poll
  <2>9. Delivered' = Delivered
    BY <2>3, <2>6, <2>7, <2>8 DEF Delivered
  <2>10. ASSUME Quiet' PROVE OrderSound'
    <3>1. OrderSound /\ OneLeader /\ OutboxSound /\ "handover" \notin Kinds
      BY <1>1, <2>10, QuietIs DEF StreamInv
    <3>2. /\ Len(batch) <= Len(pending) /\ \A k \in 1 .. Len(batch) : batch[k] = pending[k]
          /\ \A k \in 1 .. Len(pending) : pending[k] = latest - Len(pending) + k
          /\ aged = 0 /\ ToSet(shelf) = 1 .. latest - Len(pending)
      BY <1>1, <3>1 DEF OrderSound
    <3>3. Len(pending) \in 0 .. latest
      BY <3>1, OrderIs
    <3>4. i = 1 /\ n = latest - Len(pending) + 1
      <4>1. 1 \in 1 .. Len(batch) /\ 1 \in 1 .. Len(pending)
        BY <1>3, <1>5, <3>2
      <4>2. n = latest - Len(pending) + 1 /\ n = latest - Len(pending) + i
        BY <1>3, <2>1, <3>2, <4>1
      <4> QED
        BY <1>5, <4>2
    <3>5. \A k \in 1 .. Len(pending') : pending'[k] = pending[k + 1]
      BY <1>5, <2>2, <3>4
    <3>6. \A k \in 1 .. Len(pending') : pending'[k] = latest' - Len(pending') + k
      <4>1. ASSUME NEW k \in 1 .. Len(pending') PROVE pending'[k] = latest' - Len(pending') + k
        <5>1. k + 1 \in 1 .. Len(pending)
          BY <1>5, <2>2
        <5>2. pending[k + 1] = latest - Len(pending) + (k + 1)
          BY <3>2, <5>1
        <5> QED
          BY <1>1, <1>5, <2>2, <3>5, <5>2
      <4> QED
        BY <4>1
    <3>7. aged' = 0 /\ ToSet(shelf') = 1 .. latest' - Len(pending')
      <4>1. ToSet(shelf') = (1 .. latest - Len(pending)) \cup {latest - Len(pending) + 1}
        BY <2>3, <3>2, <3>4
      <4>2. latest' - Len(pending') = latest - Len(pending) + 1
        BY <1>1, <1>5, <2>2
      <4>3. latest - Len(pending) \in Nat
        BY <1>5, <3>3
      <4>4. \A m \in Nat : (1 .. m) \cup {m + 1} = 1 .. m + 1
        OBVIOUS
      <4>5. ToSet(shelf') = 1 .. latest - Len(pending) + 1
        BY <4>1, <4>3, <4>4
      <4> QED
        BY <1>1, <3>2, <4>2, <4>5
    <3>8. \A q \in Processes : q # p => publisher'[q].poll.phase = "IDLE"
      BY <1>1, <1>4, <3>1 DEF OneLeader, Poll
    <3>9. /\ Len(Tail(batch)) <= Len(pending')
          /\ \A k \in 1 .. Len(Tail(batch)) : Tail(batch)[k] = pending'[k]
      <4>1. Len(Tail(batch)) <= Len(pending')
        BY <1>3, <1>5, <2>2, <3>2
      <4>2. ASSUME NEW k \in 1 .. Len(Tail(batch)) PROVE Tail(batch)[k] = pending'[k]
        <5>1. k \in 1 .. Len(batch) - 1 /\ k + 1 \in 1 .. Len(batch) /\ k \in 1 .. Len(pending')
          <6> DEFINE u == Len(Tail(batch))
          <6>1. k \in 1 .. u /\ u = Len(batch) - 1 /\ u <= Len(pending')
            BY <1>3, <4>1
          <6> HIDE DEF u
          <6> QED
            BY <1>3, <1>5, <2>2, <6>1
        <5>2. Tail(batch)[k] = batch[k + 1]
          BY <1>3, <5>1
        <5>3. batch[k + 1] = pending[k + 1] /\ pending'[k] = pending[k + 1]
          BY <3>2, <3>5, <5>1
        <5> QED
          BY <5>2, <5>3
      <4> QED
        BY <4>1, <4>2
    <3> QED
      BY <1>4, <3>6, <3>7, <3>8, <3>9 DEF OrderSound, Poll
  <2>11. /\ \A q \in Processes : publisher'[q].running \/ publisher'[q].poll.phase # "IDLE" =>
                                 publisher[q].running \/ publisher[q].poll.phase # "IDLE"
         /\ \A q \in Processes : publisher[q].running => publisher'[q].running
    BY <1>1, <1>4 DEF Poll
  <2> QED
    BY <1>1, <1>4, <2>4, <2>5, <2>9, <2>10, <2>11, PublisherStepIs
<1> QED
  BY <1>6, <1>7

\* The end of a poll may prune what was published a day ago.
LEMMA SettleKeeps ==
    ASSUME StreamInv, NEW p \in Processes, PollSettles(p)
    PROVE  StreamInv'
<1>1. UNCHANGED <<latest, pending, conn, runner>> /\ Kinds' = Kinds
      /\ Poll(p).phase = "PUBLISHING" /\ SetPoll(p, "IDLE", <<>>)
  BY FaultsSame DEF PollSettles
<1> <<>> \in Seq(1 .. latest)
  OBVIOUS
<1>2. /\ PublisherSound'
      /\ publisher'[p].poll.phase = "IDLE" /\ publisher'[p].poll.batch = <<>>
      /\ publisher'[p].running = publisher[p].running
      /\ \A q \in Processes : q # p => publisher'[q] = publisher[q]
  BY <1>1, PollIs DEF StreamInv, Phases
<1>3. shelf \in Seq(1 .. latest) /\ latest \in Nat /\ aged \in 0 .. Len(shelf) /\ Len(shelf) \in Nat
  BY DEF StreamInv, OutboxSound
<1>4. /\ shelf' \in Seq(1 .. latest) /\ ToSet(shelf') \subseteq ToSet(shelf)
      /\ aged' \in 0 .. Len(shelf') /\ (aged = 0 => aged' = 0 /\ shelf' = shelf)
  <2>1. CASE PrunePublishedOutbox
    <3>1. PICK n \in 1 .. aged : shelf' = SubSeq(shelf, n + 1, Len(shelf)) /\ aged' = aged - n
      BY <2>1 DEF PrunePublishedOutbox
    <3>2. n + 1 \in Nat \ {0} /\ n <= Len(shelf)
      BY <1>3
    <3>3. /\ shelf' \in Seq(1 .. latest) /\ ToSet(shelf') \subseteq ToSet(shelf)
          /\ Len(shelf') = IF n + 1 <= Len(shelf) THEN Len(shelf) - (n + 1) + 1 ELSE 0
      <4> DEFINE S == 1 .. latest
      <4>1. shelf \in Seq(S) /\ Len(shelf) \in Nat /\ Len(shelf) <= Len(shelf)
        BY <1>3
      <4> HIDE DEF S
      <4>2. /\ shelf' \in Seq(S) /\ ToSet(shelf') \subseteq ToSet(shelf)
            /\ Len(shelf') = IF n + 1 <= Len(shelf) THEN Len(shelf) - (n + 1) + 1 ELSE 0
        BY <3>1, <3>2, <4>1, PartIs
      <4> QED
        BY <4>2 DEF S
    <3> QED
      BY <1>3, <3>1, <3>2, <3>3
  <2>2. CASE UNCHANGED <<shelf, aged>>
    BY <1>3, <2>2
  <2> QED
    BY <2>1, <2>2 DEF PollSettles
<1>5. OutboxSound' /\ Retained' \subseteq Retained
  BY <1>1, <1>4 DEF StreamInv, OutboxSound, Retained
<1>6. Marked' = Marked
  BY <1>1, <1>2 DEF Marked, Poll
<1>7. Delivered' \subseteq Delivered
  BY <1>4, <1>6 DEF Delivered
<1>8. ASSUME Quiet' PROVE OrderSound' /\ Delivered \subseteq Delivered'
  <2>1. OrderSound
    BY <1>1, <1>8, QuietIs DEF StreamInv
  <2>2. aged' = 0 /\ shelf' = shelf
    BY <1>4, <2>1 DEF OrderSound
  <2> QED
    BY <1>1, <1>2, <1>6, <2>1, <2>2 DEF OrderSound, Poll, Delivered
<1>9. /\ \A q \in Processes : publisher'[q].running \/ publisher'[q].poll.phase # "IDLE" =>
                              publisher[q].running \/ publisher[q].poll.phase # "IDLE"
      /\ \A q \in Processes : publisher[q].running => publisher'[q].running
  BY <1>1, <1>2 DEF Poll
<1> QED
  BY <1>1, <1>2, <1>5, <1>7, <1>8, <1>9, PublisherStepIs

(***************************************************************************)
(* The outbox grows.                                                       *)
(***************************************************************************)
LEMMA ConnectionsGrow ==
    ASSUME NEW n \in Nat, NEW m \in Nat, n <= m, NEW c \in Connections(n)
    PROVE  c \in Connections(m)
<1>1. /\ c.queue \in Seq(1 .. n) /\ c.batch \in Seq(1 .. n)
      /\ c.backlog \in Seq(1 .. n) /\ c.sent \in Seq(1 .. n)
  BY DEF Connections
<1>2. /\ c.queue \in Seq(1 .. m) /\ c.batch \in Seq(1 .. m)
      /\ c.backlog \in Seq(1 .. m) /\ c.sent \in Seq(1 .. m)
  BY <1>1, MoreEvents
<1>3. c.after \in 0 .. m /\ c.upTo \in 0 .. m /\ c.told \in SUBSET (1 .. m)
  BY DEF Connections
<1> QED
  BY <1>2, <1>3 DEF Connections

LEMMA PublishersGrow ==
    ASSUME NEW n \in Nat, NEW m \in Nat, n <= m, publisher \in Publishers(n)
    PROVE  publisher \in Publishers(m)
<1>1. ASSUME NEW p \in Processes
      PROVE  publisher[p] \in [running : BOOLEAN, poll : Polls(m)]
  <2>1. publisher[p] \in [running : BOOLEAN, poll : Polls(n)]
    BY DEF Publishers
  <2>2. publisher[p].poll \in Polls(n)
    BY <2>1
  <2>3. publisher[p].poll.batch \in Seq(1 .. n)
    BY <2>2 DEF Polls
  <2>4. publisher[p].poll.batch \in Seq(1 .. m)
    BY <2>3, MoreEvents
  <2>5. publisher[p].poll \in Polls(m)
    BY <2>2, <2>4 DEF Polls
  <2> QED
    BY <2>1, <2>5
<1> QED
  BY <1>1 DEF Publishers

LEMMA AppendKeeps ==
    ASSUME StreamInv, AppendOutboxEvent
    PROVE  StreamInv'
<1> DEFINE e == latest + 1
<1>1. latest' = e /\ UNCHANGED <<shelf, aged, publisher, conn, runner>>
  BY DEF AppendOutboxEvent
<1>2. /\ latest \in Nat /\ pending \in Seq(1 .. latest) /\ shelf \in Seq(1 .. latest)
      /\ e \in Nat /\ e \in 1 .. e /\ latest <= e /\ aged \in 0 .. Len(shelf)
  BY DEF StreamInv, OutboxSound
<1>3. pending \in Seq(1 .. e) /\ shelf \in Seq(1 .. e)
  BY <1>2, MoreEvents
<1>4. /\ pending' \in Seq(1 .. e) /\ ToSet(pending') = ToSet(pending) \cup {e}
      /\ Kinds \subseteq Kinds' /\ (Quiet' => pending' = Append(pending, e))
  <2> DEFINE S == 1 .. e
  <2>1. pending \in Seq(S) /\ e \in S
    BY <1>2, <1>3
  <2>2. CASE pending' = Append(pending, e) /\ UNCHANGED faults
    <3>1. Kinds' = Kinds
      BY <2>2, FaultsSame
    <3> HIDE DEF S
    <3>2. pending' \in Seq(S) /\ ToSet(pending') = ToSet(pending) \cup {e}
      BY <2>1, <2>2, AppendIs
    <3> QED
      BY <2>2, <3>1, <3>2 DEF S
  <2>3. CASE \E i \in 1 .. Len(pending) : pending' = InsertAt(pending, i, e) /\ Fault("skew")
    <3>1. Kinds' = Kinds \cup {"skew"} /\ ~ Quiet'
      BY <2>3, FaultIs, NotQuiet
    <3> HIDE DEF S
    <3>2. pending' \in Seq(S) /\ ToSet(pending') = ToSet(pending) \cup {e}
      BY <2>1, <2>3, InsertAtIs
    <3> QED
      BY <3>1, <3>2 DEF S
  <2> QED
    BY <2>2, <2>3 DEF AppendOutboxEvent
<1>5. OutboxSound'
  BY <1>1, <1>2, <1>3, <1>4 DEF OutboxSound
<1>6. Retained' = Retained \cup {e} /\ Retained \subseteq 1 .. latest
  BY <1>1, <1>4, OutboxIs DEF Retained, StreamInv
<1>7. PublisherSound'
  <2>1. publisher \in Publishers(latest)
    BY DEF StreamInv, PublisherSound
  <2>2. publisher \in Publishers(e)
    BY <1>2, <2>1, PublishersGrow
  <2> QED
    BY <1>1, <2>2 DEF StreamInv, PublisherSound, Poll
<1>8. Marked' = Marked
  <2>1. \A p \in Processes : Poll(p).phase = "MARKING" => Head(Poll(p).batch) \in 1 .. latest
    <3>1. ASSUME NEW p \in Processes, Poll(p).phase = "MARKING"
          PROVE  Head(Poll(p).batch) \in 1 .. latest
      <4>1. Poll(p).batch \in Seq(1 .. latest) /\ Poll(p).batch # <<>>
        BY <3>1, PollTypes DEF StreamInv
      <4> QED
        BY <4>1, TailIs
    <3> QED
      BY <3>1
  <2>2. e \notin 1 .. latest
    BY <1>2
  <2> QED
    BY <1>1, <1>4, <2>1, <2>2 DEF Marked, Poll
<1>9. Delivered' = Delivered
  BY <1>1, <1>8 DEF Delivered
<1>10. OneLeader'
  BY <1>1, <1>4 DEF StreamInv, OneLeader, Poll
<1>11. ConnSound'
  <2>1. ConnSound
    BY DEF StreamInv
  <2>2. conn \in Connections(latest)
    BY <2>1 DEF ConnSound
  <2>3. conn' \in Connections(latest')
    BY <1>1, <1>2, <2>2, ConnectionsGrow
  <2>4. conn.upTo < e
    BY <1>2, <2>2 DEF Connections
  <2>5. conn.upTo \in Nat
    BY <2>2, <1>2 DEF Connections
  <2>6. conn'.stage = "FLUSH" =>
           \A n \in Retained' : conn'.after < n /\ n <= conn'.upTo => n \in conn'.told
    BY <1>1, <1>2, <1>6, <2>1, <2>4, <2>5 DEF ConnSound
  <2> QED
    BY <1>1, <2>1, <2>3, <2>6 DEF ConnSound
<1>12. BarrierSound'
  <2>1. BarrierSound
    BY DEF StreamInv
  <2> QED
    BY <1>1, <1>4, <1>9, <2>1 DEF BarrierSound
<1>13. JournalSound'
  BY <1>1, <1>2 DEF StreamInv, JournalSound, runner, journal
<1>14. ASSUME Quiet' PROVE OrderSound' /\ QueuesSound' /\ HeardSound'
  <2>1. OrderSound /\ QueuesSound /\ HeardSound
    BY <1>4, <1>14, QuietIs DEF StreamInv
  <2>2. QueuesSound'
    BY <1>1, <1>9, <2>1 DEF QueuesSound, NoGap
  <2>3. HeardSound'
    BY <1>1, <2>1 DEF HeardSound, Behind, runner, journal
  <2>4. /\ Len(pending) \in Nat /\ Len(pending') = Len(pending) + 1
        /\ \A i \in 1 .. Len(pending) : pending'[i] = pending[i]
        /\ pending'[Len(pending) + 1] = e
    <3>1. pending' = Append(pending, e)
      BY <1>4, <1>14
    <3> QED
      BY <1>3, <3>1
  <2>5. \A i \in 1 .. Len(pending') : pending'[i] = latest' - Len(pending') + i
    <3>1. latest' - Len(pending') = latest - Len(pending)
      BY <1>1, <1>2, <2>4
    <3>2. \A i \in 1 .. Len(pending) : pending[i] = latest - Len(pending) + i
      BY <2>1 DEF OrderSound
    <3>3. e = latest - Len(pending) + (Len(pending) + 1)
      BY <1>2, <2>4
    <3>4. ASSUME NEW i \in 1 .. Len(pending') PROVE pending'[i] = latest - Len(pending) + i
      <4>1. i \in 1 .. Len(pending) \/ i = Len(pending) + 1
        BY <2>4
      <4> QED
        BY <2>4, <3>2, <3>3, <4>1
    <3> QED
      BY <3>1, <3>4
  <2>6. aged' = 0 /\ ToSet(shelf') = 1 .. latest' - Len(pending')
    <3>1. latest' - Len(pending') = latest - Len(pending)
      BY <1>1, <1>2, <2>4
    <3> QED
      BY <1>1, <2>1, <3>1 DEF OrderSound
  <2>7. ASSUME NEW p \in Processes, publisher'[p].poll.phase \in {"PUBLISHING", "MARKING"}
        PROVE  /\ Len(publisher'[p].poll.batch) <= Len(pending')
               /\ \A i \in 1 .. Len(publisher'[p].poll.batch) :
                     publisher'[p].poll.batch[i] = pending'[i]
    <3>1. /\ Len(Poll(p).batch) <= Len(pending)
          /\ \A i \in 1 .. Len(Poll(p).batch) : Poll(p).batch[i] = pending[i]
      BY <1>1, <2>1, <2>7 DEF OrderSound, Poll
    <3>2. Len(Poll(p).batch) \in Nat
      BY PollTypes DEF StreamInv
    <3> QED
      BY <1>1, <2>4, <3>1, <3>2 DEF Poll
  <2> QED
    BY <2>2, <2>3, <2>5, <2>6, <2>7 DEF OrderSound, Poll
<1> QED
  BY <1>5, <1>7, <1>10, <1>11, <1>12, <1>13, <1>14 DEF StreamInv

LEMMA DayKeeps ==
    ASSUME StreamInv, DayPasses
    PROVE  StreamInv'
<1>1. /\ Kinds' = Kinds \cup {"day"} /\ ~ Quiet' /\ aged' = Len(shelf)
      /\ UNCHANGED <<latest, pending, shelf, publisher, conn, runner>>
  BY FaultIs, NotQuiet DEF DayPasses
<1>2. OutboxSound' /\ PublisherSound'
  BY <1>1 DEF StreamInv, OutboxSound, PublisherSound, Poll
<1>3. Retained' = Retained /\ Delivered' = Delivered
  BY <1>1 DEF Retained, Delivered, Marked, Poll
<1> QED
  BY <1>1, <1>2, <1>3, PublisherStepIs

(***************************************************************************)
(* The connection opens.                                                   *)
(***************************************************************************)
LEMMA ConnIs ==
    ASSUME NEW n \in Nat, NEW c \in Connections(n)
    PROVE  /\ c.stage \in Stages /\ c.process \in Processes \cup {None} /\ c.after \in 0 .. n
           /\ c.queue \in Seq(1 .. n) /\ c.upTo \in 0 .. n /\ c.told \subseteq 1 .. n
           /\ c.batch \in Seq(1 .. n) /\ c.rounds \in Nat /\ c.backlog \in Seq(1 .. n)
           /\ c.sent \in Seq(1 .. n) /\ c.heard \in Nat
BY DEF Connections

LEMMA StreamIs ==
    ASSUME StreamInv
    PROVE  /\ latest \in Nat /\ conn \in Connections(latest)
           /\ Retained \subseteq 1 .. latest /\ Delivered \subseteq Retained
BY OutboxIs DEF StreamInv, OutboxSound, ConnSound

\* The runner is where it was, and what it heard stays.
LEMMA SameRunner ==
    ASSUME JournalSound, UNCHANGED <<latest, runner>>,
           conn'.after = conn.after, conn'.heard = conn.heard,
           \A i \in 1 .. conn.heard : conn'.sent[i] = conn.sent[i]
    PROVE  JournalSound' /\ (HeardSound => HeardSound')
<1>1. UNCHANGED <<cursor, applied, skipped, handling, failed, demands, snapshots>>
  BY DEF runner, journal
<1>2. JournalSound'
  BY <1>1 DEF JournalSound
<1>3. HeardSound => HeardSound'
  BY <1>1 DEF HeardSound, Behind
<1> QED
  BY <1>2, <1>3

LEMMA ConnectKeeps ==
    ASSUME StreamInv, NEW p \in Processes, Connect(p)
    PROVE  StreamInv'
<1>1. /\ UNCHANGED <<outbox, publisher, runner>> /\ Kinds' = Kinds
      /\ publisher[p].running
      /\ conn' = [NotConnected EXCEPT !.stage = "UPGRADING", !.process = p, !.after = cursor]
  BY FaultsSame DEF Connect, AdmitsUpgrade, GateOpen
<1>2. UNCHANGED <<latest, cursor, applied, skipped, handling, failed, demands, snapshots>>
  BY <1>1, OutboxSame DEF runner, journal
<1>3. latest \in Nat /\ cursor \in 0 .. latest
  BY DEF StreamInv, OutboxSound, JournalSound
<1>4. /\ conn' \in Connections(latest) /\ conn'.stage = "UPGRADING" /\ conn'.process = p
      /\ conn'.after = cursor /\ conn'.queue = <<>> /\ conn'.batch = <<>>
      /\ conn'.backlog = <<>> /\ conn'.sent = <<>> /\ conn'.told = {} /\ conn'.heard = 0
  <2>1. NotConnected \in Connections(latest)
    BY <1>3, NotConnectedIs
  <2> QED
    BY <1>1, <1>3, <2>1 DEF NotConnected, Connections, Stages, Unread
<1>5. ConnSound'
  BY <1>2, <1>4 DEF ConnSound
<1>6. BarrierSound'
  BY <1>4 DEF BarrierSound
<1>7. JournalSound'
  BY <1>2, <1>3, <1>4 DEF StreamInv, JournalSound
<1>8. ASSUME Quiet' PROVE QueuesSound' /\ HeardSound'
  <2>1. HeardSound
    BY <1>1, <1>8, QuietIs DEF StreamInv
  <2>2. HeardSound'
    BY <1>2, <1>4, <2>1 DEF HeardSound, Behind
  <2>3. NoGap(conn)'
    BY <1>4 DEF NoGap
  <2>4. QueuesSound'
    BY <1>4, <2>3, NoMembers DEF QueuesSound
  <2> QED
    BY <2>2, <2>4
<1> QED
  BY <1>1, <1>4, <1>5, <1>6, <1>7, <1>8, ConnStep

\* The opening goes on to its next read, ends, or is refused.
LEMMA MovedOn ==
    ASSUME StreamInv, UNCHANGED <<outbox, publisher, runner, faults>>, conn.stage # "NONE",
           NEW st, NEW u \in 0 .. latest, conn' = [conn EXCEPT !.stage = st, !.upTo = u],
           \/ st = "REFUSED"
           \/ st \in Unread /\ conn.stage \in Unread
           \/ st = "LIVE" /\ conn.stage = "FLUSH" /\ conn.queue = <<>> /\ conn.batch = <<>>
    PROVE  StreamInv'
<1>1. /\ Kinds' = Kinds /\ UNCHANGED latest /\ Delivered' = Delivered
      /\ latest \in Nat /\ conn \in Connections(latest)
  BY FaultsSame, OutboxSame, DeliveredSame, StreamIs
<1>2. /\ conn' \in Connections(latest) /\ conn'.stage = st /\ conn'.process = conn.process
      /\ conn'.after = conn.after /\ conn'.queue = conn.queue /\ conn'.batch = conn.batch
      /\ conn'.backlog = conn.backlog /\ conn'.sent = conn.sent /\ conn'.told = conn.told
      /\ conn'.heard = conn.heard
  <2>1. st \in Stages
    BY DEF Stages
  <2> QED
    BY <1>1, <2>1 DEF Connections
<1>3. ConnSound'
  <2>1. ConnSound
    BY DEF StreamInv
  <2> QED
    BY <1>1, <1>2, <2>1 DEF ConnSound, Unread
<1>4. BarrierSound'
  <2>1. BarrierSound
    BY DEF StreamInv
  <2> QED
    BY <1>1, <1>2, <2>1 DEF BarrierSound, Reached, Unread
<1>5. JournalSound' /\ (HeardSound => HeardSound')
  BY <1>1, <1>2, SameRunner DEF StreamInv
<1>6. QueuesSound => QueuesSound'
  BY <1>1, <1>2 DEF QueuesSound, NoGap
<1> QED
  BY <1>1, <1>2, <1>3, <1>4, <1>5, <1>6, QuietIs, ConnStep DEF StreamInv

LEMMA UpgradeKeeps ==
    ASSUME StreamInv, CompleteUpgrade
    PROVE  StreamInv'
<1>1. UNCHANGED <<outbox, publisher, runner, faults>> /\ conn.stage = "UPGRADING"
  BY DEF CompleteUpgrade
<1>2. CASE conn' = NotConnected
  BY <1>1, <1>2, FaultsSame, Dropped DEF runner
<1>3. CASE conn' = [conn EXCEPT !.stage = "OLDEST"]
  <2>1. conn \in Connections(latest) /\ conn.upTo \in 0 .. latest
    BY StreamIs, ConnIs
  <2>2. conn' = [conn EXCEPT !.stage = "OLDEST", !.upTo = conn.upTo]
    BY <1>3, <2>1 DEF Connections
  <2> QED
    BY <1>1, <2>1, <2>2, MovedOn DEF Unread
<1> QED
  BY <1>2, <1>3 DEF CompleteUpgrade, Registered

LEMMA ReadOldestKeeps ==
    ASSUME StreamInv, ReadOldest
    PROVE  StreamInv'
<1>1. UNCHANGED <<outbox, publisher, runner, faults>> /\ conn.stage = "OLDEST"
  BY DEF ReadOldest
<1>2. conn \in Connections(latest) /\ conn.upTo \in 0 .. latest
  BY StreamIs, ConnIs
<1>3. PICK st \in {"REFUSED", "LATEST"} : conn' = [conn EXCEPT !.stage = st]
  BY DEF ReadOldest
<1>4. conn' = [conn EXCEPT !.stage = st, !.upTo = conn.upTo]
  BY <1>2, <1>3 DEF Connections
<1> QED
  BY <1>1, <1>2, <1>4, MovedOn DEF Unread

LEMMA ReadLatestKeeps ==
    ASSUME StreamInv, ReadLatest
    PROVE  StreamInv'
<1>1. UNCHANGED <<outbox, publisher, runner, faults>> /\ conn.stage = "LATEST"
      /\ conn' = [conn EXCEPT !.stage = "REPLAY", !.upTo = latest] /\ latest \in 0 .. latest
  BY StreamIs DEF ReadLatest
<1> QED
  BY <1>1, MovedOn DEF Unread

LEMMA TooManyRoundsKeeps ==
    ASSUME StreamInv, TooManyRounds
    PROVE  StreamInv'
<1>1. UNCHANGED <<outbox, publisher, runner, faults>> /\ conn.stage = "FLUSH"
      /\ conn' = [conn EXCEPT !.stage = "REFUSED"]
  BY DEF TooManyRounds
<1>2. conn \in Connections(latest) /\ conn.upTo \in 0 .. latest
  BY StreamIs, ConnIs
<1>3. conn' = [conn EXCEPT !.stage = "REFUSED", !.upTo = conn.upTo]
  BY <1>1, <1>2 DEF Connections
<1> QED
  BY <1>1, <1>2, <1>3, MovedOn

LEMMA GoLiveKeeps ==
    ASSUME StreamInv, GoLive
    PROVE  StreamInv'
<1>1. UNCHANGED <<outbox, publisher, runner, faults>> /\ conn.stage = "FLUSH"
      /\ conn.queue = <<>> /\ conn.batch = <<>> /\ conn' = [conn EXCEPT !.stage = "LIVE"]
  BY DEF GoLive
<1>2. conn \in Connections(latest) /\ conn.upTo \in 0 .. latest
  BY StreamIs, ConnIs
<1>3. conn' = [conn EXCEPT !.stage = "LIVE", !.upTo = conn.upTo]
  BY <1>1, <1>2 DEF Connections
<1> QED
  BY <1>1, <1>2, <1>3, MovedOn

(***************************************************************************)
(* Replay and flush.                                                       *)
(***************************************************************************)
\* Under Quiet the delivered events are the first ones.
LEMMA QuietDelivered ==
    ASSUME StreamInv, Quiet
    PROVE  \E k \in 0 .. latest : Delivered = 1 .. k
<1>1. OutboxSound /\ OrderSound /\ PublisherSound /\ latest \in Nat
  BY DEF StreamInv, OutboxSound
<1>2. Len(pending) \in 0 .. latest /\ Len(pending) \in Nat /\ pending \in Seq(1 .. latest)
  BY <1>1, OrderIs DEF OutboxSound
<1> DEFINE k == latest - Len(pending)
<1>3. k \in 0 .. latest /\ ToSet(shelf) = 1 .. k
  BY <1>1, <1>2 DEF OrderSound
<1>4. ASSUME NEW n \in Marked PROVE n = k + 1 /\ Len(pending) # 0
  <2>1. PICK p \in Processes : Poll(p).phase = "MARKING" /\ Head(Poll(p).batch) = n
    BY DEF Marked
  <2>2. Poll(p).batch \in Seq(1 .. latest) /\ Poll(p).batch # <<>>
    BY <1>1, <2>1, PollTypes
  <2>3. Len(Poll(p).batch) \in Nat \ {0} /\ n = Poll(p).batch[1]
    BY <2>1, <2>2, TailIs
  <2>4. /\ Len(Poll(p).batch) <= Len(pending)
        /\ \A i \in 1 .. Len(Poll(p).batch) : Poll(p).batch[i] = pending[i]
    BY <1>1, <2>1 DEF OrderSound
  <2>5. 1 \in 1 .. Len(Poll(p).batch) /\ 1 \in 1 .. Len(pending)
    BY <1>2, <2>3, <2>4
  <2>6. n = pending[1] /\ pending[1] = latest - Len(pending) + 1
    BY <1>1, <2>3, <2>4, <2>5 DEF OrderSound
  <2> QED
    BY <2>5, <2>6
<1>5. CASE Marked = {}
  <2>1. Delivered = 1 .. k
    BY <1>3, <1>5 DEF Delivered
  <2> QED
    BY <1>3, <2>1
<1>6. CASE Marked # {}
  <2>1. Marked = {k + 1} /\ Len(pending) # 0
    BY <1>4, <1>6
  <2>2. (1 .. k) \cup {k + 1} = 1 .. k + 1 /\ k + 1 \in 0 .. latest
    BY <1>1, <1>2, <1>3, <2>1
  <2> HIDE DEF k
  <2>3. Delivered = 1 .. k + 1
    BY <1>3, <2>1, <2>2 DEF Delivered
  <2> QED
    BY <2>2, <2>3
<1> QED
  BY <1>5, <1>6

LEMMA AscendingIs ==
    ASSUME NEW n \in Nat, NEW S \in SUBSET (1 .. n)
    PROVE  /\ Ascending(S) \in Seq(S) /\ ToSet(Ascending(S)) = S
           /\ \A a, b \in 1 .. Len(Ascending(S)) : a < b => Ascending(S)[a] < Ascending(S)[b]
<1> DEFINE q == [i \in S |-> i]
<1>1. S \in SUBSET Nat /\ \A i \in S : q[i] \in Nat
  OBVIOUS
<1>2. IsFiniteSet(S)
  <2>1. IsFiniteSet(1 .. n)
    BY FS_Interval
  <2> QED
    BY <2>1, FS_Subset
<1>3. {q[i] : i \in S} = S /\ \A i, j \in S : q[i] = q[j] => i = j
  OBVIOUS
<1>4. Ascending(S) = InOrder(q, S)
  BY DEF Ascending
<1> HIDE DEF q
<1>5. /\ Ascending(S) \in Seq({q[i] : i \in S}) /\ Len(Ascending(S)) = Cardinality(S)
      /\ ToSet(Ascending(S)) = {q[i] : i \in S}
      /\ (\A i, j \in S : q[i] = q[j] => i = j) =>
            \A a, b \in 1 .. Cardinality(S) : a < b => Ascending(S)[a] < Ascending(S)[b]
  BY <1>1, <1>2, <1>4, InOrderIs
<1> QED
  BY <1>3, <1>5

LEMMA FlushableIs ==
    ASSUME NEW n \in Nat, NEW c \in Connections(n)
    PROVE  LET f == Flushable(c) IN
           /\ f \in Seq(1 .. n) /\ \A a, b \in 1 .. Len(f) : a < b => f[a] <= f[b]
           /\ ToSet(f) = {m \in ToSet(c.queue) : m > c.upTo /\ m \notin c.told}
<1> DEFINE q == c.queue
           S == {i \in DOMAIN q : q[i] > c.upTo /\ q[i] \notin c.told}
           Q == {q[i] : i \in S}
           f == Flushable(c)
<1>1. q \in Seq(1 .. n) /\ DOMAIN q = 1 .. Len(q) /\ Len(q) \in Nat
  BY ConnIs
<1>2. f = InOrder(q, S)
  BY DEF Flushable
<1>3. S \in SUBSET Nat /\ \A i \in S : q[i] \in Nat /\ q[i] \in 1 .. n
  BY <1>1
<1>4. IsFiniteSet(S)
  <2>1. IsFiniteSet(1 .. Len(q)) /\ S \in SUBSET (1 .. Len(q))
    BY <1>1, FS_Interval
  <2> HIDE DEF S
  <2> QED
    BY <2>1, FS_Subset
<1>5. Q = {m \in ToSet(q) : m > c.upTo /\ m \notin c.told} /\ Q \subseteq 1 .. n
  BY <1>1, <1>3 DEF ToSet
<1> HIDE DEF q, S
<1>6. /\ f \in Seq(Q) /\ Len(f) = Cardinality(S) /\ ToSet(f) = Q
      /\ \A a, b \in 1 .. Cardinality(S) : a < b => f[a] <= f[b]
  BY <1>2, <1>3, <1>4, InOrderIs
<1> HIDE DEF Q, f
<1>7. f \in Seq(1 .. n)
  BY <1>5, <1>6, SeqMonotonic
<1> QED
  BY <1>5, <1>6, <1>7 DEF f, q

LEMMA ReplayKeeps ==
    ASSUME StreamInv, Replay
    PROVE  StreamInv'
<1> DEFINE rows == RowsAfter(conn.after)
           s == Ascending(rows)
           u == IF rows = {} THEN conn.upTo ELSE Last(s)
<1>1. /\ UNCHANGED <<outbox, publisher, runner, faults>> /\ conn.stage = "REPLAY"
      /\ conn' = [conn EXCEPT !.stage = "FLUSH", !.told = rows, !.sent = s, !.upTo = u]
  BY DEF Replay
<1>2. /\ Kinds' = Kinds /\ UNCHANGED latest /\ Delivered' = Delivered /\ Retained' = Retained
      /\ latest \in Nat /\ conn \in Connections(latest)
      /\ Retained \subseteq 1 .. latest /\ Delivered \subseteq Retained
  BY <1>1, FaultsSame, OutboxSame, DeliveredSame, StreamIs
<1>3. rows = {n \in Retained : n > conn.after} /\ rows \in SUBSET (1 .. latest)
  BY <1>2 DEF RowsAfter
<1> HIDE DEF rows
<1>4. s \in Seq(rows) /\ ToSet(s) = rows
      /\ \A a, b \in 1 .. Len(s) : a < b => s[a] < s[b]
  BY <1>2, <1>3, AscendingIs
<1> HIDE DEF s
<1>5. s \in Seq(1 .. latest) /\ Len(s) \in Nat /\ \A i \in 1 .. Len(s) : s[i] \in rows
  <2>1. Len(s) \in Nat /\ \A i \in 1 .. Len(s) : s[i] \in rows
    BY <1>4
  <2>2. s \in Seq(1 .. latest)
    <3> DEFINE E == 1 .. latest
    <3>1. rows \subseteq E
      BY <1>3
    <3> HIDE DEF E
    <3>2. s \in Seq(E)
      BY <1>4, <3>1, SeqMonotonic
    <3> QED
      BY <3>2 DEF E
  <2> QED
    BY <2>1, <2>2
<1>6. u \in 0 .. latest
  <2>1. CASE rows = {}
    BY <1>2, <2>1, ConnIs
  <2>2. CASE rows # {}
    <3>1. s # <<>>
      BY <1>4, <2>2, NoMembers
    <3>2. Last(s) = s[Len(s)] /\ Len(s) \in 1 .. Len(s)
      BY <1>5, <3>1 DEF Last
    <3>3. Last(s) \in rows
      BY <1>5, <3>2
    <3> QED
      BY <1>3, <2>2, <3>3
  <2> QED
    BY <2>1, <2>2
<1> HIDE DEF u
<1>7. /\ conn' \in Connections(latest) /\ conn'.stage = "FLUSH" /\ conn'.process = conn.process
      /\ conn'.after = conn.after /\ conn'.queue = conn.queue /\ conn'.batch = conn.batch
      /\ conn'.backlog = conn.backlog /\ conn'.sent = s /\ conn'.told = rows
      /\ conn'.heard = conn.heard /\ conn'.upTo = u
  BY <1>1, <1>2, <1>3, <1>5, <1>6 DEF Connections, Stages
<1>8. /\ conn.sent = <<>> /\ conn.batch = <<>> /\ conn.backlog = <<>> /\ conn.heard = 0
  <2>1. conn.sent = <<>> /\ conn.batch = <<>> /\ conn.backlog = <<>> /\ conn.heard <= Len(conn.sent)
    BY <1>1 DEF StreamInv, ConnSound, Unread
  <2>2. conn.heard \in Nat /\ Len(<<>>) = 0
    BY <1>2, ConnIs
  <2> QED
    BY <2>1, <2>2
<1>9. ConnSound'
  <2>1. ToSet(<<>>) = {} /\ Len(<<>>) = 0
    BY NoMembers
  <2>2. \A i, j \in 1 .. Len(s) : i < j => s[i] # s[j]
    <3>1. \A i \in 1 .. Len(s) : s[i] \in Nat
      BY <1>3, <1>5
    <3> QED
      BY <1>4, <3>1
  <2>3. FlushSound(conn')
    BY <1>4, <1>7, <1>8, <2>1, <2>2 DEF FlushSound
  <2>4. \A n \in Retained' : conn'.after < n /\ n <= conn'.upTo => n \in conn'.told
    BY <1>2, <1>3, <1>7, ConnIs
  <2>5. conn'.heard <= Len(conn'.sent)
    BY <1>5, <1>7, <1>8
  <2> QED
    BY <1>2, <1>7, <2>3, <2>4, <2>5 DEF ConnSound, Unread
<1>10. BarrierSound'
  <2>1. \A n \in Delivered' : n > conn'.after => n \in Reached(conn')
    BY <1>2, <1>3, <1>4, <1>7 DEF Reached
  <2> QED
    BY <2>1 DEF BarrierSound
<1>11. JournalSound' /\ (HeardSound => HeardSound')
  BY <1>1, <1>2, <1>7, <1>8, SameRunner DEF StreamInv
<1>12. ASSUME Quiet PROVE QueuesSound'
  <2>1. QueuesSound /\ OutboxSound /\ OrderSound
    BY <1>12 DEF StreamInv
  <2>2. Retained = 1 .. latest
    BY <2>1, OrderIs
  <2>3. NoGap(conn')
    <3>1. ASSUME NEW i \in 1 .. Len(s), NEW n \in conn.after + 1 .. s[i] - 1
          PROVE  \E j \in 1 .. i - 1 : s[j] = n
      <4>1. s[i] \in 1 .. latest /\ conn.after \in Nat
        BY <1>2, <1>5, ConnIs
      <4>2. n \in rows
        BY <1>2, <1>3, <2>2, <4>1
      <4>3. PICK j \in 1 .. Len(s) : s[j] = n
        BY <1>4, <1>5, <4>2, Members
      <4>4. s[j] < s[i]
        BY <4>1, <4>3
      <4>5. ~ (i < j) /\ i # j
        <5>1. s[j] \in Nat /\ s[i] \in Nat /\ ~ (s[i] < s[j]) /\ s[i] # s[j]
          BY <1>2, <1>3, <1>5, <4>1, <4>4
        <5> QED
          BY <1>4, <5>1
      <4> QED
        BY <1>5, <4>3, <4>5
    <3> QED
      BY <1>7, <3>1 DEF NoGap
  <2> QED
    BY <1>2, <1>7, <2>1, <2>3 DEF QueuesSound
<1> QED
  BY <1>1, <1>2, <1>7, <1>9, <1>10, <1>11, <1>12, QuietIs, ConnStep DEF StreamInv

LEMMA FlushRoundKeeps ==
    ASSUME StreamInv, FlushRound
    PROVE  StreamInv'
<1> DEFINE f == Flushable(conn)
<1>1. /\ UNCHANGED <<outbox, publisher, runner, faults>> /\ conn.stage = "FLUSH"
      /\ conn' = [conn EXCEPT !.batch = f, !.queue = <<>>, !.rounds = @ + 1]
      /\ conn.batch = <<>>
  BY DEF FlushRound
<1>2. /\ Kinds' = Kinds /\ UNCHANGED latest /\ Delivered' = Delivered /\ Retained' = Retained
      /\ latest \in Nat /\ conn \in Connections(latest)
      /\ Retained \subseteq 1 .. latest /\ Delivered \subseteq Retained
  BY <1>1, FaultsSame, OutboxSame, DeliveredSame, StreamIs
<1>3. /\ f \in Seq(1 .. latest) /\ \A a, b \in 1 .. Len(f) : a < b => f[a] <= f[b]
      /\ ToSet(f) = {m \in ToSet(conn.queue) : m > conn.upTo /\ m \notin conn.told}
  BY <1>2, FlushableIs
<1> HIDE DEF f
<1>4. /\ conn' \in Connections(latest) /\ conn'.stage = "FLUSH" /\ conn'.process = conn.process
      /\ conn'.after = conn.after /\ conn'.queue = <<>> /\ conn'.batch = f
      /\ conn'.backlog = conn.backlog /\ conn'.sent = conn.sent /\ conn'.told = conn.told
      /\ conn'.heard = conn.heard /\ conn'.upTo = conn.upTo
  <2>1. conn.rounds + 1 \in Nat /\ <<>> \in Seq(1 .. latest)
    BY <1>2, ConnIs
  <2>2. f \in Seq(1 .. latest)
    BY <1>3
  <2> QED
    BY <1>1, <1>2, <2>1, <2>2 DEF Connections, Stages
<1>5. ConnSound /\ FlushSound(conn)
      /\ \A n \in Retained : conn.after < n /\ n <= conn.upTo => n \in conn.told
  BY <1>1 DEF StreamInv, ConnSound
<1>6. ConnSound'
  <2>1. ToSet(f) \cap ToSet(conn.sent) = {}
    BY <1>3, <1>5 DEF FlushSound
  <2>2. FlushSound(conn')
    BY <1>3, <1>4, <1>5, <2>1 DEF FlushSound
  <2> QED
    BY <1>2, <1>4, <1>5, <2>2 DEF ConnSound, Unread
<1>7. BarrierSound'
  <2>1. ASSUME "handover" \notin Kinds, NEW n \in Delivered, n > conn.after
        PROVE  n \in Reached(conn')
    <3>1. n \in Reached(conn)
      BY <1>1, <2>1 DEF StreamInv, BarrierSound
    <3>2. CASE n \in conn.told
      BY <1>4, <1>5, <3>2 DEF FlushSound, Reached
    <3>3. CASE n \notin conn.told
      <4>1. ~ (n <= conn.upTo) /\ n \in Nat /\ conn.upTo \in Nat
        BY <1>2, <1>5, <2>1, <3>3, ConnIs
      <4>2. n > conn.upTo
        BY <4>1
      <4>3. n \in ToSet(conn.queue) => n \in ToSet(f)
        BY <1>3, <3>3, <4>2
      <4> QED
        BY <1>1, <1>4, <3>1, <4>3, NoMembers DEF Reached
    <3> QED
      BY <3>2, <3>3
  <2> QED
    BY <1>2, <1>4, <2>1 DEF BarrierSound
<1>8. JournalSound' /\ (HeardSound => HeardSound')
  BY <1>1, <1>2, <1>4, SameRunner DEF StreamInv
<1>9. ASSUME QueuesSound PROVE QueuesSound'
  <2>1. ToSet(f) \subseteq Delivered
    BY <1>3, <1>9 DEF QueuesSound
  <2> QED
    BY <1>2, <1>4, <1>9, <2>1, NoMembers DEF QueuesSound, NoGap
<1> QED
  BY <1>1, <1>2, <1>4, <1>6, <1>7, <1>8, <1>9, QuietIs, ConnStep DEF StreamInv

\* One more event is sent, when all before it were.
LEMMA NoGapAppend ==
    ASSUME NEW n \in Nat, NEW c \in Connections(n), NEW h \in 1 .. n, NoGap(c),
           \A m \in c.after + 1 .. h - 1 : m \in ToSet(c.sent),
           NEW d, d.after = c.after, d.sent = Append(c.sent, h)
    PROVE  NoGap(d)
<1> DEFINE s == c.sent
           t == Append(s, h)
<1>1. s \in Seq(1 .. n) /\ c.after \in 0 .. n
  BY ConnIs
<1>2. /\ Len(s) \in Nat /\ Len(t) = Len(s) + 1 /\ t[Len(s) + 1] = h
      /\ \A i \in 1 .. Len(s) : t[i] = s[i]
  BY <1>1
<1>3. /\ \A m : m \in ToSet(s) <=> \E i \in 1 .. Len(s) : s[i] = m
      /\ \A i \in 1 .. Len(s) : \A m \in c.after + 1 .. s[i] - 1 : \E j \in 1 .. i - 1 : s[j] = m
  BY <1>1, Members DEF NoGap
<1> HIDE DEF s, t
<1>4. ASSUME NEW i \in 1 .. Len(t), NEW m \in c.after + 1 .. t[i] - 1
      PROVE  \E j \in 1 .. i - 1 : t[j] = m
  <2>1. CASE i \in 1 .. Len(s)
    <3>1. PICK j \in 1 .. i - 1 : s[j] = m
      BY <1>2, <1>3, <1>4, <2>1
    <3>2. j \in 1 .. Len(s)
      BY <1>2, <2>1
    <3> QED
      BY <1>2, <3>1, <3>2
  <2>2. CASE i = Len(s) + 1
    <3>1. m \in ToSet(s)
      BY <1>2, <1>4, <2>2 DEF s
    <3>2. PICK j \in 1 .. Len(s) : s[j] = m
      BY <1>3, <3>1
    <3>3. j \in 1 .. i - 1 /\ t[j] = m
      BY <1>2, <2>2, <3>2
    <3> QED
      BY <3>3
  <2> QED
    BY <1>2, <2>1, <2>2
<1>5. d.sent = t
  BY DEF t, s
<1> QED
  BY <1>4, <1>5 DEF NoGap

\* What one event of a round does to what was sent.
LEMMA FlushSent ==
    ASSUME NEW n \in Nat, NEW c \in Connections(n), FlushSound(c), c.batch # <<>>,
           NEW d, d.sent = Append(c.sent, Head(c.batch)), d.batch = Tail(c.batch),
           d.told = c.told \cup {Head(c.batch)}, d.backlog = c.backlog
    PROVE  FlushSound(d)
<1> DEFINE s == c.sent
           h == Head(c.batch)
           t == Append(s, h)
           b == c.batch
           u == Tail(b)
           k == Len(s)
<1>1. s \in Seq(1 .. n) /\ b \in Seq(1 .. n) /\ b # <<>>
  BY ConnIs
<1>2. /\ h = b[1] /\ h \in 1 .. n /\ u \in Seq(1 .. n)
      /\ Len(b) \in Nat \ {0} /\ Len(u) = Len(b) - 1
      /\ \A i \in 1 .. Len(b) - 1 : u[i] = b[i + 1]
      /\ ToSet(b) = {h} \cup ToSet(u)
  BY <1>1, TailIs
<1>3. /\ t \in Seq(1 .. n) /\ Len(t) = k + 1
      /\ \A i \in 1 .. k : t[i] = s[i]
      /\ t[k + 1] = h /\ ToSet(t) = ToSet(s) \cup {h}
  <2> DEFINE S == 1 .. n
  <2>1. s \in Seq(S) /\ h \in S
    BY <1>1, <1>2
  <2> HIDE DEF S, s, h
  <2>2. /\ t \in Seq(S) /\ Len(t) = k + 1
        /\ \A i \in 1 .. k : t[i] = s[i]
        /\ t[k + 1] = h /\ ToSet(t) = ToSet(s) \cup {h}
    BY <2>1, AppendIs
  <2> QED
    BY <2>2 DEF S
<1>4. k \in Nat /\ \A i \in 1 .. k : s[i] \in ToSet(s)
  BY <1>1, Members
<1>6. /\ ToSet(s) \subseteq c.told /\ c.told \subseteq ToSet(s) \cup ToSet(c.backlog)
      /\ \A i, j \in 1 .. Len(b) : i < j => b[i] <= b[j]
      /\ \A i, j \in 1 .. k : i < j /\ s[i] = s[j] => \A m \in i .. j : s[m] = s[i]
      /\ \A x \in ToSet(b) \cap ToSet(s) : x = s[k] /\ \A y \in ToSet(b) : x <= y
  BY DEF FlushSound
<1>7. d.sent = t /\ d.batch = u /\ d.told = c.told \cup {h} /\ d.backlog = c.backlog
  OBVIOUS
<1> HIDE DEF s, h, t, b, u, k
<1>5. ToSet(u) \subseteq 1 .. n /\ \A x : x \in ToSet(u) <=> \E i \in 1 .. Len(b) - 1 : u[i] = x
  <2>1. u \in Seq(1 .. n) /\ Len(u) = Len(b) - 1
    BY <1>2
  <2>2. ToSet(u) \subseteq 1 .. n /\ \A x : x \in ToSet(u) <=> \E i \in 1 .. Len(u) : u[i] = x
    BY <2>1, Members
  <2> QED
    BY <2>1, <2>2
<1>8. \A i, j \in 1 .. Len(u) : i < j => u[i] <= u[j]
  <2>1. ASSUME NEW i \in 1 .. Len(u), NEW j \in 1 .. Len(u), i < j PROVE u[i] <= u[j]
    <3>1. i + 1 \in 1 .. Len(b) /\ j + 1 \in 1 .. Len(b) /\ i + 1 < j + 1
      <4>1. i \in 1 .. Len(b) - 1 /\ j \in 1 .. Len(b) - 1 /\ Len(b) \in Nat
        BY <1>2
      <4> QED
        BY <2>1, <4>1
    <3>2. u[i] = b[i + 1] /\ u[j] = b[j + 1]
      BY <1>2
    <3> QED
      BY <1>6, <3>1, <3>2
  <2> QED
    BY <2>1
<1>9. \A x \in ToSet(u) : h <= x
  <2>1. ASSUME NEW i \in 1 .. Len(b) - 1 PROVE h <= u[i]
    <3>1. 1 \in 1 .. Len(b) /\ i + 1 \in 1 .. Len(b) /\ 1 < i + 1
      BY <1>2
    <3> QED
      BY <1>2, <1>6, <3>1
  <2> QED
    BY <1>5, <2>1
<1>10. ASSUME NEW i \in 1 .. k + 1, NEW j \in 1 .. k + 1, i < j, t[i] = t[j], NEW m \in i .. j
       PROVE  t[m] = t[i]
  <2>1. CASE j \in 1 .. k
    <3>1. i \in 1 .. k /\ m \in 1 .. k
      BY <1>4, <1>10, <2>1
    <3> QED
      BY <1>3, <1>6, <1>10, <2>1, <3>1
  <2>2. CASE j = k + 1
    <3>1. i \in 1 .. k /\ s[i] = h
      BY <1>3, <1>4, <1>10, <2>2
    <3>2. h \in ToSet(b) \cap ToSet(s)
      BY <1>2, <1>4, <3>1
    <3>3. h = s[k] /\ k \in 1 .. k
      BY <1>4, <1>6, <3>1, <3>2
    <3>4. \A l \in i .. k : s[l] = h
      BY <1>4, <1>6, <3>1, <3>3
    <3>5. m \in i .. k \/ m = k + 1
      BY <1>4, <2>2, <3>1
    <3>6. m \in i .. k => m \in 1 .. k
      BY <1>4, <3>1
    <3> QED
      BY <1>3, <3>1, <3>4, <3>5, <3>6
  <2> QED
    BY <1>4, <2>1, <2>2
<1>11. ASSUME NEW x \in ToSet(u) \cap ToSet(t) PROVE x = h /\ \A y \in ToSet(u) : x <= y
  <2>1. CASE x \in ToSet(s)
    <3>1. x \in ToSet(b) \cap ToSet(s) /\ h \in ToSet(b)
      BY <1>2, <1>11, <2>1
    <3>2. x <= h /\ h <= x
      BY <1>6, <1>9, <1>11, <3>1
    <3>3. x \in Nat /\ h \in Nat
      BY <1>2, <1>5, <1>11
    <3>4. x = h
      BY <3>2, <3>3
    <3> QED
      BY <1>9, <3>4
  <2>2. CASE x = h
    BY <1>9, <2>2
  <2> QED
    BY <1>3, <1>11, <2>1, <2>2
<1>12. ToSet(t) \subseteq c.told \cup {h} /\ c.told \cup {h} \subseteq ToSet(t) \cup ToSet(c.backlog)
  BY <1>3, <1>6
<1>13. \A i, j \in 1 .. Len(t) : i < j /\ t[i] = t[j] => \A m \in i .. j : t[m] = t[i]
  BY <1>3, <1>10
<1>14. \A x \in ToSet(u) \cap ToSet(t) : x = t[Len(t)] /\ \A y \in ToSet(u) : x <= y
  BY <1>3, <1>11
<1> QED
  BY <1>7, <1>8, <1>12, <1>13, <1>14 DEF FlushSound

LEMMA FlushQueued ==
    ASSUME NEW n \in Nat, NEW c \in Connections(n), FlushSound(c), c.batch # <<>>,
           NEW d, d.sent = c.sent, d.batch = Tail(c.batch),
           d.told = c.told \cup {Head(c.batch)}, d.backlog = Append(c.backlog, Head(c.batch))
    PROVE  FlushSound(d)
<1> DEFINE h == Head(c.batch)
           b == c.batch
           u == Tail(b)
           g == c.backlog
<1>1. b \in Seq(1 .. n) /\ b # <<>> /\ g \in Seq(1 .. n)
  BY ConnIs
<1>2. /\ h = b[1] /\ h \in 1 .. n /\ u \in Seq(1 .. n)
      /\ Len(b) \in Nat \ {0} /\ Len(u) = Len(b) - 1
      /\ \A i \in 1 .. Len(b) - 1 : u[i] = b[i + 1]
      /\ ToSet(b) = {h} \cup ToSet(u)
  BY <1>1, TailIs
<1>3. ToSet(Append(g, h)) = ToSet(g) \cup {h}
  <2> DEFINE S == 1 .. n
  <2>1. g \in Seq(S) /\ h \in S
    BY <1>1, <1>2
  <2> HIDE DEF S, g, h
  <2> QED
    BY <2>1, AppendIs
<1>4. /\ d.batch = u /\ d.backlog = Append(g, h) /\ d.told = c.told \cup {h}
      /\ \A i, j \in 1 .. Len(b) : i < j => b[i] <= b[j]
  BY DEF FlushSound
<1> HIDE DEF h, b, u, g
<1>5. \A i, j \in 1 .. Len(u) : i < j => u[i] <= u[j]
  <2>1. ASSUME NEW i \in 1 .. Len(u), NEW j \in 1 .. Len(u), i < j PROVE u[i] <= u[j]
    <3>1. i + 1 \in 1 .. Len(b) /\ j + 1 \in 1 .. Len(b) /\ i + 1 < j + 1
      <4>1. i \in 1 .. Len(b) - 1 /\ j \in 1 .. Len(b) - 1 /\ Len(b) \in Nat
        BY <1>2
      <4> QED
        BY <2>1, <4>1
    <3>2. u[i] = b[i + 1] /\ u[j] = b[j + 1]
      BY <1>2
    <3> QED
      BY <1>4, <3>1, <3>2
  <2> QED
    BY <2>1
<1>6. /\ ToSet(c.sent) \subseteq c.told
      /\ c.told \subseteq ToSet(c.sent) \cup ToSet(g)
      /\ \A x \in ToSet(b) \cap ToSet(c.sent) :
            x = c.sent[Len(c.sent)] /\ \A y \in ToSet(b) : x <= y
      /\ \A i, j \in 1 .. Len(c.sent) :
            i < j /\ c.sent[i] = c.sent[j] => \A k \in i .. j : c.sent[k] = c.sent[i]
  BY DEF FlushSound, b, g
<1>7. ToSet(u) \subseteq ToSet(b)
  BY <1>2
<1>8. \A x \in ToSet(u) \cap ToSet(c.sent) :
         x = c.sent[Len(c.sent)] /\ \A y \in ToSet(u) : x <= y
  BY <1>6, <1>7
<1>9. /\ ToSet(c.sent) \subseteq d.told
      /\ d.told \subseteq ToSet(c.sent) \cup ToSet(d.backlog)
  BY <1>3, <1>4, <1>6
<1> QED
  BY <1>4, <1>5, <1>6, <1>8, <1>9 DEF FlushSound

LEMMA FlushOneKeeps ==
    ASSUME StreamInv, FlushOne
    PROVE  StreamInv'
<1> DEFINE h == Head(conn.batch)
           u == Tail(conn.batch)
           c == [conn EXCEPT !.batch = u, !.told = @ \cup {h}]
<1>1. /\ UNCHANGED <<outbox, publisher, runner>> /\ conn.stage = "FLUSH" /\ conn.batch # <<>>
      /\ \E busy \in BOOLEAN : BufferState(busy) /\ conn' = SessionDeliver(c, h, busy)
  BY DEF FlushOne
<1>2. /\ UNCHANGED latest /\ Delivered' = Delivered /\ Retained' = Retained
      /\ latest \in Nat /\ conn \in Connections(latest)
      /\ Retained \subseteq 1 .. latest /\ Delivered \subseteq Retained
  BY <1>1, OutboxSame, DeliveredSame, StreamIs
<1>3. /\ conn.batch \in Seq(1 .. latest) /\ conn.sent \in Seq(1 .. latest)
      /\ conn.backlog \in Seq(1 .. latest) /\ conn.told \subseteq 1 .. latest
      /\ conn.heard \in Nat /\ conn.after \in 0 .. latest
  BY <1>2, ConnIs
<1>4. /\ h = conn.batch[1] /\ h \in 1 .. latest /\ u \in Seq(1 .. latest)
      /\ Len(conn.batch) \in Nat \ {0} /\ Len(u) = Len(conn.batch) - 1
      /\ \A i \in 1 .. Len(conn.batch) - 1 : u[i] = conn.batch[i + 1]
      /\ ToSet(conn.batch) = {h} \cup ToSet(u)
  BY <1>1, <1>3, TailIs
<1>5. /\ ConnSound /\ FlushSound(conn) /\ conn.heard <= Len(conn.sent)
      /\ \A n \in Retained : conn.after < n /\ n <= conn.upTo => n \in conn.told
  BY <1>1 DEF StreamInv, ConnSound
<1>6. /\ c \in Connections(latest) /\ c.batch = u /\ c.told = conn.told \cup {h}
      /\ c.stage = "FLUSH" /\ c.process = conn.process /\ c.after = conn.after
      /\ c.queue = conn.queue /\ c.upTo = conn.upTo /\ c.backlog = conn.backlog
      /\ c.sent = conn.sent /\ c.heard = conn.heard
  BY <1>1, <1>2, <1>3, <1>4 DEF Connections
<1>7. CASE BufferState(FALSE) /\ conn' = SessionDeliver(c, h, FALSE)
  <2> DEFINE s == Append(conn.sent, h)
  <2>1. Kinds' = Kinds /\ conn' = [c EXCEPT !.sent = Append(@, h)]
    BY <1>7, FaultsSame DEF BufferState, SessionDeliver
  <2>2. /\ s \in Seq(1 .. latest) /\ Len(s) = Len(conn.sent) + 1
        /\ \A i \in 1 .. Len(conn.sent) : s[i] = conn.sent[i]
        /\ ToSet(s) = ToSet(conn.sent) \cup {h}
    <3> DEFINE S == 1 .. latest
               q == conn.sent
    <3>1. q \in Seq(S) /\ h \in S
      BY <1>3, <1>4
    <3> HIDE DEF S, q, h
    <3>2. /\ Append(q, h) \in Seq(S) /\ Len(Append(q, h)) = Len(q) + 1
          /\ \A i \in 1 .. Len(q) : Append(q, h)[i] = q[i]
          /\ ToSet(Append(q, h)) = ToSet(q) \cup {h}
      BY <3>1, AppendIs
    <3> QED
      BY <3>2 DEF S, q
  <2>3. /\ conn' \in Connections(latest) /\ conn'.batch = u /\ conn'.told = conn.told \cup {h}
        /\ conn'.stage = "FLUSH" /\ conn'.process = conn.process /\ conn'.after = conn.after
        /\ conn'.queue = conn.queue /\ conn'.upTo = conn.upTo /\ conn'.backlog = conn.backlog
        /\ conn'.sent = s /\ conn'.heard = conn.heard
    <3> HIDE DEF c
    <3>1. Append(c.sent, h) = s
      BY <1>6
    <3> HIDE DEF s
    <3> QED
      BY <1>6, <2>1, <2>2, <3>1 DEF Connections
  <2>4. ConnSound'
    <3>1. FlushSound(conn')
      BY <1>1, <1>2, <1>5, <2>3, FlushSent
    <3>2. conn'.heard <= Len(conn'.sent)
      <4>1. Len(conn.sent) \in Nat
        BY <1>3
      <4> HIDE DEF s
      <4> QED
        BY <1>3, <1>5, <2>2, <2>3, <4>1
    <3>3. \A n \in Retained' : conn'.after < n /\ n <= conn'.upTo => n \in conn'.told
      BY <1>2, <1>5, <2>3
    <3> QED
      BY <1>2, <2>3, <3>1, <3>2, <3>3 DEF ConnSound, Unread
  <2>5. BarrierSound'
    <3>1. Reached(conn') = Reached(conn)
      BY <1>4, <2>2, <2>3 DEF Reached
    <3> QED
      BY <1>1, <1>2, <2>1, <2>3, <3>1 DEF BarrierSound, StreamInv
  <2>6. JournalSound' /\ (HeardSound => HeardSound')
    <3>1. \A i \in 1 .. conn.heard : conn'.sent[i] = conn.sent[i]
      BY <1>3, <1>5, <2>2, <2>3
    <3> QED
      BY <1>1, <1>2, <2>3, <3>1, SameRunner DEF StreamInv
  <2>7. ASSUME Quiet PROVE QueuesSound'
    <3>1. QueuesSound /\ "handover" \notin Kinds /\ BarrierSound
      BY <2>7 DEF StreamInv, Quiet
    <3>2. PICK k \in 0 .. latest : Delivered = 1 .. k
      BY <2>7, QuietDelivered
    <3>3. h \in Delivered /\ \A n \in ToSet(conn.queue) : h < n
      BY <1>4, <3>1 DEF QueuesSound
    <3>4. \A x \in ToSet(conn.batch) : h <= x
      <4>1. ASSUME NEW i \in 1 .. Len(conn.batch) PROVE h <= conn.batch[i]
        <5>1. CASE i = 1
          BY <1>4, <5>1
        <5>2. CASE i # 1
          <6>1. 1 \in 1 .. Len(conn.batch) /\ 1 < i
            BY <1>4, <5>2
          <6> QED
            BY <1>4, <1>5, <6>1 DEF FlushSound
        <5> QED
          BY <5>1, <5>2
      <4> QED
        BY <1>3, <4>1, Members
    <3>5. ASSUME NEW m \in conn.after + 1 .. h - 1 PROVE m \in ToSet(conn.sent)
      <4>1. m \in 1 .. k /\ m < h /\ m > conn.after
        <5>1. h \in 1 .. k /\ k \in Nat /\ conn.after \in Nat
          BY <1>2, <1>3, <3>2, <3>3
        <5> HIDE DEF h
        <5> QED
          BY <5>1
      <4>2. m \in Reached(conn)
        BY <1>1, <3>1, <3>2, <4>1 DEF BarrierSound
      <4>3. m \notin ToSet(conn.queue) /\ m \notin ToSet(conn.batch)
        BY <1>2, <1>4, <3>3, <3>4, <4>1
      <4> QED
        BY <3>1, <4>2, <4>3, NoMembers DEF Reached, QueuesSound
    <3>6. NoGap(conn)
      BY <3>1 DEF QueuesSound
    <3>7. NoGap(conn')
      BY <1>2, <1>4, <2>3, <3>5, <3>6, NoGapAppend
    <3> QED
      BY <1>2, <1>4, <2>3, <3>1, <3>7 DEF QueuesSound
  <2> QED
    BY <1>1, <2>1, <2>3, <2>4, <2>5, <2>6, <2>7, QuietIs, ConnStep DEF StreamInv
<1>8. CASE BufferState(TRUE) /\ conn' = SessionDeliver(c, h, TRUE)
  <2> DEFINE g == Append(conn.backlog, h)
  <2>1. Kinds' = Kinds \cup {"busy"} /\ ~ Quiet'
    BY <1>8, FaultIs, NotQuiet DEF BufferState
  <2>2. g \in Seq(1 .. latest) /\ ToSet(g) = ToSet(conn.backlog) \cup {h}
    <3> DEFINE S == 1 .. latest
               q == conn.backlog
    <3>1. q \in Seq(S) /\ h \in S
      BY <1>3, <1>4
    <3> HIDE DEF S, q, h
    <3>2. Append(q, h) \in Seq(S) /\ ToSet(Append(q, h)) = ToSet(q) \cup {h}
      BY <3>1, AppendIs
    <3> QED
      BY <3>2 DEF S, q
  <2>3. CASE conn' = [c EXCEPT !.backlog = Append(@, h)]
    <3>1. /\ conn' \in Connections(latest) /\ conn'.batch = u /\ conn'.told = conn.told \cup {h}
          /\ conn'.stage = "FLUSH" /\ conn'.process = conn.process /\ conn'.after = conn.after
          /\ conn'.queue = conn.queue /\ conn'.upTo = conn.upTo /\ conn'.backlog = g
          /\ conn'.sent = conn.sent /\ conn'.heard = conn.heard
      <4> HIDE DEF c
      <4>1. Append(c.backlog, h) = g
        BY <1>6
      <4> HIDE DEF g
      <4> QED
        BY <1>6, <2>2, <2>3, <4>1 DEF Connections
    <3>2. ConnSound'
      <4>1. FlushSound(conn')
        BY <1>1, <1>2, <1>5, <3>1, FlushQueued
      <4>2. \A n \in Retained' : conn'.after < n /\ n <= conn'.upTo => n \in conn'.told
        BY <1>2, <1>5, <3>1
      <4> QED
        BY <1>2, <1>5, <3>1, <4>1, <4>2 DEF ConnSound, Unread
    <3>3. BarrierSound'
      <4>1. Reached(conn') = Reached(conn)
        BY <1>4, <2>2, <3>1 DEF Reached
      <4> QED
        BY <1>1, <1>2, <2>1, <3>1, <4>1 DEF BarrierSound, StreamInv
    <3>4. JournalSound'
      BY <1>1, <1>2, <3>1, SameRunner DEF StreamInv
    <3> QED
      BY <1>1, <2>1, <3>1, <3>2, <3>3, <3>4, ConnStep
  <2>4. CASE conn' = [c EXCEPT !.stage = "REFUSED"]
    <3>1. /\ conn' \in Connections(latest) /\ conn'.stage = "REFUSED"
          /\ conn'.process = conn.process /\ conn'.after = conn.after
          /\ conn'.sent = conn.sent /\ conn'.heard = conn.heard
      <4> HIDE DEF c
      <4> QED
        BY <1>6, <2>4 DEF Connections, Stages
    <3>2. ConnSound' /\ BarrierSound'
      BY <1>2, <1>5, <3>1 DEF ConnSound, Unread, BarrierSound
    <3>3. JournalSound'
      BY <1>1, <1>2, <3>1, SameRunner DEF StreamInv
    <3> QED
      BY <1>1, <2>1, <3>1, <3>2, <3>3, ConnStep
  <2> QED
    BY <1>8, <2>3, <2>4 DEF SessionDeliver
<1> QED
  BY <1>1, <1>7, <1>8

(***************************************************************************)
(* The hub delivers.                                                       *)
(***************************************************************************)
\* What a delivery leaves of the connection: nothing new, a refusal, or one more
\* event sent, queued for the socket or held back until LIVE.
Delivery(c, d, p, h, busy) ==
    \/ /\ d = c /\ ~ busy
       /\ ~ (c.process = p /\ c.stage \in Opening \cup {"LIVE"})
    \/ /\ d.stage = "REFUSED" /\ d.sent = c.sent /\ d.queue = c.queue
       /\ d.backlog = c.backlog /\ c.stage \in Opening \cup {"LIVE"}
    \/ /\ c.stage = "LIVE" /\ c.process = p /\ ~ busy /\ d.stage = "LIVE"
       /\ d.sent = Append(c.sent, h) /\ d.queue = c.queue /\ d.backlog = c.backlog
    \/ /\ c.stage = "LIVE" /\ c.process = p /\ busy /\ d.stage = "LIVE"
       /\ d.sent = c.sent /\ d.queue = c.queue /\ d.backlog = Append(c.backlog, h)
    \/ /\ c.stage \in Opening /\ c.process = p /\ ~ busy /\ d.stage = c.stage
       /\ d.sent = c.sent /\ d.queue = Append(c.queue, h) /\ d.backlog = c.backlog

LEMMA HubDelivers ==
    ASSUME NEW n \in Nat, NEW c \in Connections(n), NEW p, NEW h \in 1 .. n, NEW busy \in BOOLEAN,
           busy => c.process = p /\ c.stage = "LIVE",
           NEW d, d = HubDeliver(c, p, h, busy)
    PROVE  /\ d \in Connections(n) /\ d.process = c.process /\ d.after = c.after
           /\ d.batch = c.batch /\ d.told = c.told /\ d.upTo = c.upTo /\ d.heard = c.heard
           /\ Delivery(c, d, p, h, busy)
<1>1. /\ c.queue \in Seq(1 .. n) /\ c.sent \in Seq(1 .. n) /\ c.backlog \in Seq(1 .. n)
  BY ConnIs
<1>2. /\ Append(c.queue, h) \in Seq(1 .. n) /\ Append(c.sent, h) \in Seq(1 .. n)
      /\ Append(c.backlog, h) \in Seq(1 .. n)
  BY <1>1
<1>3. "LIVE" \notin Opening /\ "LIVE" \in Stages /\ "REFUSED" \in Stages
  BY DEF Opening, Stages
<1>4. CASE c.process = p /\ c.stage = "LIVE"
  <2>1. d = SessionDeliver(c, h, busy)
    BY <1>3, <1>4 DEF HubDeliver
  <2>2. CASE ~ busy
    <3>1. d = [c EXCEPT !.sent = Append(@, h)]
      BY <2>1, <2>2 DEF SessionDeliver
    <3> QED
      BY <1>2, <1>3, <1>4, <2>2, <3>1 DEF Connections, Delivery
  <2>3. CASE busy /\ d = [c EXCEPT !.backlog = Append(@, h)]
    BY <1>2, <1>3, <1>4, <2>3 DEF Connections, Delivery
  <2>4. CASE busy /\ d = [c EXCEPT !.stage = "REFUSED"]
    BY <1>2, <1>3, <1>4, <2>4 DEF Connections, Delivery
  <2> QED
    BY <2>1, <2>2, <2>3, <2>4 DEF SessionDeliver
<1>5. CASE c.process = p /\ c.stage \in Opening
  <2>1. d = IF Len(c.queue) < OpeningQueueMax THEN [c EXCEPT !.queue = Append(@, h)]
            ELSE [c EXCEPT !.stage = "REFUSED"]
    BY <1>3, <1>5 DEF HubDeliver
  <2>2. CASE d = [c EXCEPT !.queue = Append(@, h)]
    BY <1>2, <1>3, <1>5, <2>2 DEF Connections, Delivery
  <2>3. CASE d = [c EXCEPT !.stage = "REFUSED"]
    BY <1>2, <1>3, <1>5, <2>3 DEF Connections, Delivery
  <2> QED
    BY <2>1, <2>2, <2>3
<1>6. CASE ~ (c.process = p /\ c.stage \in Opening \cup {"LIVE"})
  <2>1. d = c
    BY <1>6 DEF HubDeliver
  <2>2. ~ busy
    BY <1>6
  <2> QED
    BY <1>6, <2>1, <2>2 DEF Delivery
<1> QED
  BY <1>4, <1>5, <1>6

LEMMA PublishKeeps ==
    ASSUME StreamInv, NEW p \in Processes, Publish(p)
    PROVE  StreamInv'
<1> DEFINE batch == Poll(p).batch
           h == Head(batch)
           n == latest
<1>1. /\ UNCHANGED <<outbox, runner>> /\ Poll(p).phase = "PUBLISHING" /\ batch # <<>>
      /\ SetPoll(p, "MARKING", batch)
  BY DEF Publish
<1>2. PICK busy \in BOOLEAN :
         /\ busy => conn.process = p /\ conn.stage = "LIVE"
         /\ BufferState(busy) /\ conn' = HubDeliver(conn, p, h, busy)
  BY DEF Publish
<1>3. /\ UNCHANGED <<latest, pending, shelf, aged>> /\ OutboxSound' /\ Retained' = Retained
      /\ latest \in Nat /\ conn \in Connections(latest)
      /\ Retained \subseteq 1 .. latest /\ Delivered \subseteq Retained
  BY <1>1, OutboxSame, StreamIs DEF StreamInv
<1>4. batch \in Seq(1 .. latest) /\ Len(batch) \in Nat \ {0} /\ h = batch[1] /\ h \in 1 .. latest
  <2>1. batch \in Seq(1 .. latest)
    BY PollTypes DEF StreamInv
  <2> QED
    BY <1>1, <2>1, TailIs
<1>5. /\ PublisherSound'
      /\ publisher'[p].poll.phase = "MARKING" /\ publisher'[p].poll.batch = batch
      /\ publisher'[p].running = publisher[p].running
      /\ \A q \in Processes : q # p => publisher'[q] = publisher[q]
  BY <1>1, <1>3, <1>4, PollIs DEF StreamInv, Phases
<1>6. /\ conn' \in Connections(latest) /\ conn'.process = conn.process /\ conn'.after = conn.after
      /\ conn'.batch = conn.batch /\ conn'.told = conn.told /\ conn'.upTo = conn.upTo
      /\ conn'.heard = conn.heard
      /\ Delivery(conn, conn', p, h, busy)
  <2>1. /\ latest \in Nat /\ conn \in Connections(latest) /\ h \in 1 .. latest
        /\ busy \in BOOLEAN /\ (busy => conn.process = p /\ conn.stage = "LIVE")
        /\ conn' = HubDeliver(conn, p, h, busy)
    BY <1>2, <1>3, <1>4
  <2> HIDE DEF h
  <2> QED
    BY <2>1, HubDelivers
<1>7. Kinds \subseteq Kinds' /\ (~ busy => Kinds' = Kinds) /\ (busy => ~ Quiet')
  <2>1. CASE busy
    BY <1>2, <2>1, FaultIs, NotQuiet DEF BufferState
  <2>2. CASE ~ busy
    BY <1>2, <2>2, FaultsSame DEF BufferState
  <2> QED
    BY <2>1, <2>2
<1>8. Marked \subseteq Marked' /\ Marked' \subseteq Marked \cup {h}
  BY <1>1, <1>3, <1>5 DEF Marked, Poll
<1>9. Delivered \subseteq Delivered' /\ Delivered' \subseteq Delivered \cup {h}
  BY <1>3, <1>8 DEF Delivered
<1>10. OneLeader'
  <2>1. ASSUME "handover" \notin Kinds', NEW r \in Processes, publisher[r].running,
               \A q \in Processes \ {r} : ~ publisher[q].running /\ Poll(q).phase = "IDLE",
               conn.stage # "NONE" => conn.process = r
        PROVE  /\ publisher'[r].running /\ (conn'.stage # "NONE" => conn'.process = r)
               /\ \A q \in Processes \ {r} : ~ publisher'[q].running /\ publisher'[q].poll.phase = "IDLE"
    <3>1. p = r
      BY <1>1, <2>1
    <3>2. conn'.stage # "NONE" => conn.stage # "NONE"
      BY <1>6 DEF Opening, Delivery
    <3> QED
      BY <1>5, <1>6, <2>1, <3>1, <3>2 DEF Poll
  <2>2. "handover" \notin Kinds' => "handover" \notin Kinds
    BY <1>7
  <2> QED
    BY <2>1, <2>2 DEF OneLeader, StreamInv, Poll
<1>11. /\ conn.queue \in Seq(1 .. n) /\ conn.sent \in Seq(1 .. n) /\ conn.backlog \in Seq(1 .. n)
       /\ conn.heard \in Nat /\ conn.after \in 0 .. n
  BY <1>3, ConnIs
<1>12. ASSUME NEW s \in Seq(1 .. n)
       PROVE  /\ Len(Append(s, h)) = Len(s) + 1 /\ ToSet(Append(s, h)) = ToSet(s) \cup {h}
              /\ Len(s) \in Nat /\ \A i \in 1 .. Len(s) : Append(s, h)[i] = s[i]
  <2> DEFINE S == 1 .. n
  <2>1. s \in Seq(S) /\ h \in S
    BY <1>4
  <2>2. Len(s) \in Nat
    OBVIOUS
  <2> HIDE DEF S, h
  <2> QED
    BY <2>1, <2>2, AppendIs
<1>13. ConnSound /\ BarrierSound /\ JournalSound
  BY DEF StreamInv
<1> HIDE DEF h
<1>14. conn'.heard <= Len(conn'.sent) /\ \A i \in 1 .. conn.heard : conn'.sent[i] = conn.sent[i]
  <2>1. conn.heard <= Len(conn.sent)
    BY <1>13 DEF ConnSound
  <2>2. CASE conn'.sent = conn.sent
    BY <1>6, <2>1, <2>2
  <2>3. CASE conn'.sent = Append(conn.sent, h)
    <3>1. /\ Len(conn'.sent) = Len(conn.sent) + 1 /\ Len(conn.sent) \in Nat
          /\ \A i \in 1 .. Len(conn.sent) : conn'.sent[i] = conn.sent[i]
      BY <1>11, <1>12, <2>3
    <3> QED
      BY <1>6, <1>11, <2>1, <3>1
  <2> QED
    BY <1>6, <2>2, <2>3 DEF Delivery
<1>15. ConnSound'
  <2>1. conn'.stage \in Unread =>
          conn'.batch = <<>> /\ conn'.sent = <<>> /\ conn'.backlog = <<>> /\ conn'.told = {}
    BY <1>6, <1>13 DEF ConnSound, Unread, Opening, Delivery
  <2>2. conn'.stage = "LIVE" => conn'.queue = <<>> /\ conn'.batch = <<>>
    BY <1>6, <1>13 DEF ConnSound, Opening, Delivery
  <2>3. ASSUME conn'.stage = "FLUSH"
        PROVE  /\ FlushSound(conn')
               /\ \A m \in Retained' : conn'.after < m /\ m <= conn'.upTo => m \in conn'.told
    <3>1. conn.stage = "FLUSH" /\ conn'.sent = conn.sent /\ conn'.backlog = conn.backlog
      BY <1>6, <2>3 DEF Delivery
    <3> QED
      BY <1>3, <1>6, <1>13, <3>1 DEF ConnSound, FlushSound
  <2> QED
    BY <1>3, <1>6, <1>14, <2>1, <2>2, <2>3 DEF ConnSound
<1>16. BarrierSound'
  <2>1. ASSUME "handover" \notin Kinds', conn'.stage \in {"FLUSH", "LIVE"},
               NEW m \in Delivered', m > conn'.after
        PROVE  m \in Reached(conn')
    <3>1. "handover" \notin Kinds
      BY <1>7, <2>1
    <3>2. PICK r \in Processes :
             /\ \A q \in Processes \ {r} : ~ publisher[q].running /\ Poll(q).phase = "IDLE"
             /\ conn.stage # "NONE" => conn.process = r
      BY <3>1 DEF StreamInv, OneLeader
    <3>3. conn.stage \in {"FLUSH", "LIVE"}
      BY <1>6, <2>1 DEF Delivery
    <3>4. conn.process = p
      BY <1>1, <3>2, <3>3
    <3>5. Reached(conn) \cup {h} \subseteq Reached(conn')
      <4>1. ToSet(conn'.sent) \cup ToSet(conn'.queue) \cup ToSet(conn'.backlog)
              = ToSet(conn.sent) \cup ToSet(conn.queue) \cup ToSet(conn.backlog) \cup {h}
        BY <1>6, <1>11, <1>12, <2>1, <3>3, <3>4 DEF Opening, Delivery
      <4> QED
        BY <1>6, <4>1 DEF Reached
    <3>6. m \in Delivered => m \in Reached(conn)
      BY <1>6, <1>13, <2>1, <3>1, <3>3 DEF BarrierSound
    <3> QED
      BY <1>9, <2>1, <3>5, <3>6
  <2> QED
    BY <2>1 DEF BarrierSound
<1>17. JournalSound' /\ (HeardSound => HeardSound')
  BY <1>1, <1>3, <1>6, <1>13, <1>14, SameRunner
<1>18. ASSUME Quiet' PROVE OrderSound' /\ QueuesSound'
  <2>1. Quiet /\ OrderSound /\ QueuesSound /\ OutboxSound /\ "handover" \notin Kinds /\ ~ busy
    BY <1>7, <1>18, QuietIs DEF StreamInv
  <2>2. OrderSound'
    <3>1. /\ Len(batch) <= Len(pending)
          /\ \A i \in 1 .. Len(batch) : batch[i] = pending[i]
      BY <1>1, <2>1 DEF OrderSound
    <3>2. ASSUME NEW q \in Processes, publisher'[q].poll.phase \in {"PUBLISHING", "MARKING"}
          PROVE  /\ Len(publisher'[q].poll.batch) <= Len(pending')
                 /\ \A i \in 1 .. Len(publisher'[q].poll.batch) :
                       publisher'[q].poll.batch[i] = pending'[i]
      <4>1. CASE q = p
        BY <1>3, <1>5, <3>1, <4>1
      <4>2. CASE q # p
        BY <1>3, <1>5, <2>1, <3>2, <4>2 DEF OrderSound, Poll
      <4> QED
        BY <4>1, <4>2
    <3> QED
      BY <1>3, <2>1, <3>2 DEF OrderSound, Poll
  <2>3. Marked = {}
    <3>1. PICK r \in Processes :
             \A q \in Processes \ {r} : ~ publisher[q].running /\ Poll(q).phase = "IDLE"
      BY <2>1 DEF StreamInv, OneLeader
    <3>2. p = r
      BY <1>1, <3>1
    <3> QED
      BY <1>1, <3>1, <3>2 DEF Marked
  <2> DEFINE k == latest - Len(pending)
  <2>4. Delivered = 1 .. k
    BY <2>1, <2>3 DEF Delivered, OrderSound
  <2>5. h = k + 1 /\ k \in Nat /\ 1 \in 1 .. Len(pending)
    <3>1. Len(batch) <= Len(pending) /\ \A i \in 1 .. Len(batch) : batch[i] = pending[i]
      BY <1>1, <2>1 DEF OrderSound
    <3>2. Len(pending) \in 0 .. latest
      BY <2>1, OrderIs
    <3>3. 1 \in 1 .. Len(batch) /\ 1 \in 1 .. Len(pending) /\ k \in Nat
      BY <1>3, <1>4, <3>1, <3>2
    <3>4. h = pending[1] /\ pending[1] = latest - Len(pending) + 1
      BY <1>4, <2>1, <3>1, <3>3 DEF OrderSound
    <3> QED
      BY <3>3, <3>4
  <2>6. h \in Delivered'
    <3>1. pending \in Seq(1 .. latest) /\ h = pending[1]
      BY <1>1, <1>4, <2>1, <2>5 DEF OutboxSound, OrderSound
    <3>2. h \in ToSet(pending)
      BY <2>5, <3>1, Members
    <3>3. h \in Marked'
      BY <1>3, <1>5, <3>2 DEF Marked, Poll, h
    <3> QED
      BY <3>3 DEF Delivered
  <2> HIDE DEF k
  <2>7. \A b \in Delivered : b < h
    BY <2>4, <2>5
  <2>8. conn'.backlog = <<>>
    BY <1>6, <2>1 DEF QueuesSound, Delivery
  <2>9. ToSet(conn'.queue) \subseteq ToSet(conn.queue) \cup {h}
    BY <1>6, <1>11, <1>12 DEF Delivery
  <2>10. NoGap(conn')
    <3>1. CASE conn'.sent = conn.sent
      BY <1>6, <2>1, <3>1 DEF QueuesSound, NoGap
    <3>2. CASE conn.stage = "LIVE" /\ conn.process = p /\ conn'.sent = Append(conn.sent, h)
      <4>1. ASSUME NEW m \in conn.after + 1 .. h - 1 PROVE m \in ToSet(conn.sent)
        <5>1. m \in 1 .. k /\ m > conn.after
          <6>1. conn.after \in Nat
            BY <1>3, <1>11
          <6> QED
            BY <2>5, <6>1
        <5>2. m \in Reached(conn)
          BY <1>13, <2>1, <2>4, <3>2, <5>1 DEF BarrierSound
        <5>3. conn.queue = <<>> /\ conn.batch = <<>> /\ conn.backlog = <<>>
          BY <1>13, <2>1, <3>2 DEF ConnSound, QueuesSound
        <5> QED
          BY <5>2, <5>3, NoMembers DEF Reached
      <4>2. NoGap(conn)
        BY <2>1 DEF QueuesSound
      <4> QED
        BY <1>3, <1>4, <1>6, <3>2, <4>1, <4>2, NoGapAppend
    <3> QED
      BY <1>6, <3>1, <3>2 DEF Delivery
  <2>11. ToSet(conn'.queue) \cup ToSet(conn'.batch) \subseteq Delivered'
    BY <1>6, <1>9, <2>1, <2>6, <2>9 DEF QueuesSound
  <2>12. \A b \in ToSet(conn'.batch), m \in ToSet(conn'.queue) : b < m
    BY <1>6, <2>1, <2>7, <2>9 DEF QueuesSound
  <2> QED
    BY <2>2, <2>8, <2>10, <2>11, <2>12 DEF QueuesSound
<1> QED
  BY <1>3, <1>5, <1>7, <1>10, <1>15, <1>16, <1>17, <1>18, QuietIs DEF StreamInv

(***************************************************************************)
(* The runner.                                                             *)
(***************************************************************************)
LEMMA TakeKeeps ==
    ASSUME StreamInv, TakeEvent
    PROVE  StreamInv'
<1> DEFINE s == conn.sent
           k == conn.heard + 1
           n == s[k]
<1>1. /\ UNCHANGED <<outbox, publisher, journal, failed, demands, snapshots, faults>>
      /\ handling = 0 /\ Received # <<>> /\ conn' = [conn EXCEPT !.heard = @ + 1]
      /\ handling' = IF Head(Received) > cursor THEN Head(Received) ELSE 0
  BY DEF TakeEvent
<1>2. /\ Kinds' = Kinds /\ UNCHANGED <<latest, cursor, applied, skipped, failed, snapshots>>
      /\ Delivered' = Delivered /\ Retained' = Retained
      /\ latest \in Nat /\ conn \in Connections(latest)
  BY <1>1, FaultsSame, OutboxSame, DeliveredSame, StreamIs DEF journal
<1>3. s \in Seq(1 .. latest) /\ conn.heard \in Nat /\ Len(s) \in Nat /\ conn.after \in 0 .. latest
  BY <1>2, ConnIs
<1>4. k \in 1 .. Len(s) /\ n \in 1 .. latest /\ Head(Received) = n
  <2>1. ASSUME ~ k <= Len(s) PROVE FALSE
    <3>1. k \in Int /\ Len(s) \in Int /\ Len(s) < k
      BY <1>3, <2>1
    <3> HIDE DEF s, k
    <3>2. SubSeq(s, k, Len(s)) = <<>>
      BY <3>1, SubSeqEmpty
    <3> QED
      BY <1>1, <3>2 DEF Received, s, k
  <2>2. k \in 1 .. Len(s)
    BY <1>3, <2>1
  <2>3. Len(s) \in k .. Len(s)
    BY <1>3, <2>2
  <2>4. Head(SubSeq(s, k, Len(s))) = s[k]
    <3> HIDE DEF k, s
    <3>1. s \in Seq(1 .. latest)
      BY <1>3
    <3> QED
      BY <2>2, <2>3, <3>1, HeadTailOfSubSeq
  <2>5. Head(Received) = n
    BY <2>4 DEF Received
  <2>6. s[k] \in 1 .. latest
    <3> HIDE DEF k, s
    <3>1. s \in Seq(1 .. latest)
      BY <1>3
    <3> QED
      BY <2>2, <3>1, ElementOfSeq
  <2> QED
    BY <2>2, <2>5, <2>6
<1>5. /\ conn' \in Connections(latest) /\ conn'.stage = conn.stage /\ conn'.process = conn.process
      /\ conn'.after = conn.after /\ conn'.queue = conn.queue /\ conn'.batch = conn.batch
      /\ conn'.backlog = conn.backlog /\ conn'.sent = s /\ conn'.told = conn.told
      /\ conn'.heard = k /\ conn'.upTo = conn.upTo
  <2>1. conn.heard + 1 \in Nat
    BY <1>3
  <2> QED
    BY <1>1, <1>2, <2>1 DEF Connections
<1>6. ConnSound /\ BarrierSound /\ JournalSound
  BY DEF StreamInv
<1>7. ConnSound'
  BY <1>2, <1>3, <1>4, <1>5, <1>6 DEF ConnSound, FlushSound
<1>8. BarrierSound'
  BY <1>2, <1>5, <1>6 DEF BarrierSound, Reached
<1>9. JournalSound'
  BY <1>1, <1>2, <1>4, <1>5, <1>6 DEF JournalSound
<1>10. ASSUME Quiet PROVE QueuesSound' /\ HeardSound'
  <2>1. QueuesSound /\ HeardSound
    BY <1>10 DEF StreamInv
  <2>2. QueuesSound'
    BY <1>2, <1>5, <2>1 DEF QueuesSound, NoGap
  <2>3. \A m : Behind(m)' = Behind(m)
    BY <1>2 DEF Behind
  <2>4. cursor \in Nat /\ conn.after <= cursor
    BY <1>2, <1>6 DEF JournalSound
  <2>5. \A i \in 1 .. conn.heard : Behind(s[i])
    <3>1. \A i \in 1 .. conn.heard : Behind(s[i]) \/ s[i] = 0
      BY <1>1, <2>1 DEF HeardSound
    <3>2. ASSUME NEW i \in 1 .. conn.heard PROVE s[i] # 0
      <4>1. i \in 1 .. Len(s)
        BY <1>3, <1>4
      <4>2. s[i] \in 1 .. latest
        <5> HIDE DEF s
        <5> QED
          BY <1>3, <4>1, ElementOfSeq
      <4> QED
        BY <1>2, <4>2
    <3> QED
      BY <3>1, <3>2
  <2>6. Behind(n) \/ n = handling'
    BY <1>1, <1>3, <1>4, <2>4 DEF Behind
  <2>7. \A i \in 1 .. k : Behind(s[i]) \/ s[i] = handling'
    <3>1. \A i \in 1 .. k : i \in 1 .. conn.heard \/ i = k
      BY <1>3
    <3> QED
      BY <2>5, <2>6, <3>1
  <2>8. ASSUME handling' # 0, NEW m \in 1 .. handling' - 1 PROVE Behind(m)
    <3>1. handling' = n
      BY <1>1, <1>4, <2>8
    <3>2. CASE m <= conn.after
      BY <1>3, <2>4, <3>2 DEF Behind
    <3>3. CASE ~ m <= conn.after
      <4>1. m \in conn.after + 1 .. s[k] - 1
        BY <1>3, <1>4, <2>8, <3>1, <3>3
      <4>2. PICK j \in 1 .. k - 1 : s[j] = m
        BY <1>4, <2>1, <4>1 DEF QueuesSound, NoGap
      <4>3. j \in 1 .. conn.heard
        BY <1>3
      <4> QED
        BY <2>5, <4>2, <4>3
    <3> QED
      BY <3>2, <3>3
  <2>9. \A m \in 1 .. cursor : m \in applied \cup skipped \cup failed
    BY <2>1 DEF HeardSound
  <2>10. HeardSound'
    <3> HIDE DEF k, s
    <3> QED
      BY <1>2, <1>5, <2>3, <2>7, <2>8, <2>9 DEF HeardSound
  <2> QED
    BY <2>2, <2>10
<1> QED
  BY <1>1, <1>2, <1>5, <1>7, <1>8, <1>9, <1>10, QuietIs, ConnStep DEF StreamInv

\* A step that leaves the connection and the outbox alone.
LEMMA RunnerStep ==
    ASSUME StreamInv, UNCHANGED <<outbox, publisher, conn>>, Kinds \subseteq Kinds',
           JournalSound', Quiet' => HeardSound'
    PROVE  StreamInv'
<1>1. /\ UNCHANGED latest /\ Retained' = Retained /\ Delivered' = Delivered
      /\ ConnSound /\ BarrierSound
  BY OutboxSame, DeliveredSame DEF StreamInv
<1>2. ConnSound'
  BY <1>1 DEF ConnSound
<1>3. BarrierSound'
  BY <1>1 DEF BarrierSound
<1>4. QueuesSound => QueuesSound'
  BY <1>1 DEF QueuesSound, NoGap
<1> QED
  BY <1>2, <1>3, <1>4, QuietIs, ConnStep DEF StreamInv

LEMMA CommitKeeps ==
    ASSUME StreamInv, Commit
    PROVE  StreamInv'
<1>1. /\ handling # 0 /\ handling' = 0
      /\ UNCHANGED <<outbox, publisher, conn, skipped, demands, snapshots, faults>>
      /\ IF handling > cursor
         THEN /\ cursor' = handling /\ applied' = applied \cup {handling}
              /\ failed' = failed \ {handling}
         ELSE UNCHANGED <<cursor, applied, failed>>
  BY DEF Commit
<1>2. Kinds' = Kinds /\ UNCHANGED latest
  BY <1>1, FaultsSame, OutboxSame
<1>3. /\ JournalSound /\ cursor \in Nat /\ handling \in 0 .. latest /\ latest \in Nat
      /\ conn.after \in Nat /\ conn \in Connections(latest)
      /\ conn.heard \in Nat /\ conn.sent \in Seq(1 .. latest) /\ conn.heard <= Len(conn.sent)
  <2>1. conn \in Connections(latest) /\ latest \in Nat
    BY StreamIs
  <2> QED
    BY <2>1, ConnIs DEF StreamInv, JournalSound, ConnSound
<1>4. CASE handling > cursor
  <2>1. cursor' = handling /\ applied' = applied \cup {handling} /\ failed' = failed \ {handling}
    BY <1>1, <1>4
  <2>2. JournalSound'
    <3>1. applied \cup skipped \subseteq 1 .. cursor /\ applied \cap skipped = {}
      BY <1>3 DEF JournalSound
    <3>2. 1 .. cursor \subseteq 1 .. handling /\ handling \in 1 .. handling
          /\ handling \notin 1 .. cursor
      BY <1>3, <1>4
    <3>3. applied' \cup skipped' \subseteq 1 .. cursor' /\ applied' \cap skipped' = {}
      BY <1>1, <2>1, <3>1, <3>2
    <3>4. conn'.after <= cursor' /\ cursor' \in 0 .. latest' /\ handling' \in 0 .. latest'
          /\ snapshots' \subseteq 0 .. latest'
      BY <1>1, <1>2, <1>3, <1>4, <2>1 DEF JournalSound
    <3> QED
      BY <3>3, <3>4 DEF JournalSound
  <2>3. ASSUME Quiet PROVE HeardSound'
    <3>1. HeardSound
      BY <2>3 DEF StreamInv
    <3>2. ASSUME NEW m \in Nat, Behind(m) \/ m = handling PROVE Behind(m)'
      BY <1>3, <1>4, <2>1, <3>2 DEF Behind
    <3>3. ASSUME NEW m \in 1 .. handling PROVE m \in applied' \cup skipped' \cup failed'
      <4>1. CASE m = handling
        BY <2>1, <4>1
      <4>2. CASE m # handling
        <5>1. m \in 1 .. handling - 1
          BY <1>3, <4>2
        <5>2. m \in 1 .. cursor \/ m \in failed
          BY <1>1, <1>3, <3>1, <5>1 DEF HeardSound, Behind
        <5> QED
          BY <1>1, <2>1, <3>1, <4>2, <5>2 DEF HeardSound
      <4> QED
        BY <4>1, <4>2
    <3>4. ASSUME NEW i \in 1 .. conn.heard PROVE Behind(conn.sent[i])'
      <4>1. conn.sent[i] \in Nat
        BY <1>3
      <4>2. Behind(conn.sent[i]) \/ conn.sent[i] = handling
        BY <3>1 DEF HeardSound
      <4>3. conn' = conn
        BY <1>1
      <4> QED
        BY <1>3, <1>4, <2>1, <4>1, <4>2, <4>3 DEF Behind
    <3> QED
      BY <1>1, <2>1, <3>3, <3>4 DEF HeardSound
  <2> QED
    BY <1>1, <1>2, <2>2, <2>3, QuietIs, RunnerStep
<1>5. CASE ~ handling > cursor
  <2>1. UNCHANGED <<cursor, applied, failed>>
    BY <1>1, <1>5
  <2>2. JournalSound'
    BY <1>1, <1>2, <1>3, <2>1 DEF JournalSound
  <2>3. ASSUME Quiet PROVE HeardSound'
    <3>1. HeardSound
      BY <2>3 DEF StreamInv
    <3>2. Behind(handling)
      BY <1>3, <1>5 DEF Behind
    <3> QED
      BY <1>1, <2>1, <3>1, <3>2 DEF HeardSound, Behind
  <2> QED
    BY <1>1, <1>2, <2>2, <2>3, QuietIs, RunnerStep
<1> QED
  BY <1>4, <1>5

LEMMA ProcessFailsKeeps ==
    ASSUME StreamInv, ProcessFails
    PROVE  StreamInv'
<1>1. /\ handling # 0 /\ handling' = 0 /\ failed' = failed \cup {handling}
      /\ UNCHANGED <<outbox, publisher, conn, cursor, applied, skipped, demands, snapshots>>
      /\ Kinds \subseteq Kinds'
  BY FaultIs DEF ProcessFails, journal
<1>2. UNCHANGED latest /\ latest \in Nat
  BY <1>1, OutboxSame, StreamIs
<1>3. JournalSound'
  BY <1>1, <1>2 DEF StreamInv, JournalSound
<1>4. ASSUME Quiet' PROVE HeardSound'
  <2>1. HeardSound
    BY <1>1, <1>4, QuietIs DEF StreamInv
  <2> QED
    BY <1>1, <2>1 DEF HeardSound, Behind
<1> QED
  BY <1>1, <1>3, <1>4, RunnerStep

LEMMA ReadPortfolioKeeps ==
    ASSUME StreamInv, ReadPortfolio
    PROVE  StreamInv'
<1>1. /\ snapshots' = snapshots \cup {latest} /\ Kinds' = Kinds
      /\ UNCHANGED <<outbox, publisher, conn, cursor, applied, skipped, handling, failed>>
  BY FaultsSame DEF ReadPortfolio, journal
<1>2. UNCHANGED latest /\ latest \in Nat
  BY <1>1, OutboxSame, StreamIs
<1>3. JournalSound'
  BY <1>1, <1>2 DEF StreamInv, JournalSound
<1>4. HeardSound => HeardSound'
  BY <1>1 DEF HeardSound, Behind
<1> QED
  BY <1>1, <1>3, <1>4, QuietIs, RunnerStep DEF StreamInv

LEMMA ResyncFailsKeeps ==
    ASSUME StreamInv, ResyncFails
    PROVE  StreamInv'
<1>1. /\ Kinds \subseteq Kinds' /\ snapshots' = snapshots
      /\ UNCHANGED <<outbox, publisher, conn, cursor, applied, skipped, handling, failed>>
  BY FaultIs DEF ResyncFails, journal
<1>2. UNCHANGED latest
  BY <1>1, OutboxSame
<1>3. JournalSound'
  BY <1>1, <1>2 DEF StreamInv, JournalSound
<1>4. HeardSound => HeardSound'
  BY <1>1 DEF HeardSound, Behind
<1> QED
  BY <1>1, <1>3, <1>4, QuietIs, RunnerStep DEF StreamInv

LEMMA ResyncKeeps ==
    ASSUME StreamInv, NEW s, Resync(s)
    PROVE  StreamInv'
<1>1. /\ s \in snapshots /\ snapshots' = snapshots \ {s}
      /\ UNCHANGED <<outbox, publisher, conn, applied, handling, failed, demands, faults>>
      /\ IF s > cursor THEN cursor' = s /\ skipped' = skipped \cup (cursor + 1 .. s)
         ELSE UNCHANGED <<cursor, skipped>>
  BY DEF Resync
<1>2. Kinds' = Kinds /\ UNCHANGED latest /\ latest \in Nat /\ conn.after \in Nat
  BY <1>1, FaultsSame, OutboxSame, StreamIs, ConnIs
<1>3. JournalSound /\ cursor \in Nat /\ s \in 0 .. latest
  BY <1>1, <1>2 DEF StreamInv, JournalSound
<1>4. CASE s > cursor
  <2>1. cursor' = s /\ skipped' = skipped \cup (cursor + 1 .. s)
    BY <1>1, <1>4
  <2>2. JournalSound'
    <3>1. applied \cup skipped \subseteq 1 .. cursor /\ applied \cap skipped = {}
      BY <1>3 DEF JournalSound
    <3>2. /\ 1 .. cursor \subseteq 1 .. s /\ cursor + 1 .. s \subseteq 1 .. s
          /\ (1 .. cursor) \cap (cursor + 1 .. s) = {}
      BY <1>3, <1>4
    <3>3. applied' \cup skipped' \subseteq 1 .. cursor' /\ applied' \cap skipped' = {}
      BY <1>1, <2>1, <3>1, <3>2
    <3>4. conn'.after <= cursor' /\ cursor' \in 0 .. latest' /\ handling' \in 0 .. latest'
          /\ snapshots' \subseteq 0 .. latest'
      BY <1>1, <1>2, <1>3, <1>4, <2>1 DEF JournalSound
    <3> QED
      BY <3>3, <3>4 DEF JournalSound
  <2>3. ASSUME Quiet PROVE HeardSound'
    <3>1. HeardSound
      BY <2>3 DEF StreamInv
    <3>2. \A m \in Nat : Behind(m) => Behind(m)'
      BY <1>1, <1>3, <1>4, <2>1 DEF Behind
    <3>3. \A m \in 1 .. s : m \in 1 .. cursor \/ m \in cursor + 1 .. s
      BY <1>3
    <3>4. \A m \in 1 .. s : m \in applied' \cup skipped' \cup failed'
      BY <1>1, <2>1, <3>1, <3>3 DEF HeardSound
    <3>5. ASSUME NEW i \in 1 .. conn.heard PROVE Behind(conn.sent[i])' \/ conn.sent[i] = handling
      <4>1. conn.sent[i] \in Nat
        <5>1. /\ conn.sent \in Seq(1 .. latest) /\ conn.heard \in Nat
              /\ conn.heard <= Len(conn.sent)
          BY <1>2, StreamIs, ConnIs DEF StreamInv, ConnSound
        <5> QED
          BY <1>2, <5>1
      <4>2. conn' = conn /\ UNCHANGED failed
        BY <1>1
      <4>3. Behind(conn.sent[i]) \/ conn.sent[i] = handling
        BY <3>1 DEF HeardSound
      <4> QED
        BY <1>3, <1>4, <2>1, <4>1, <4>2, <4>3 DEF Behind
    <3>6. handling # 0 => \A m \in 1 .. handling - 1 : Behind(m)'
      <4>1. ASSUME handling # 0, NEW m \in 1 .. handling - 1 PROVE Behind(m)'
        <5>1. Behind(m) /\ m \in Nat
          BY <3>1, <4>1 DEF HeardSound
        <5>2. UNCHANGED failed
          BY <1>1
        <5> QED
          BY <1>3, <1>4, <2>1, <5>1, <5>2 DEF Behind
      <4> QED
        BY <4>1
    <3> QED
      BY <1>1, <2>1, <3>4, <3>5, <3>6 DEF HeardSound
  <2> QED
    BY <1>1, <1>2, <2>2, <2>3, QuietIs, RunnerStep
<1>5. CASE ~ s > cursor
  <2>1. UNCHANGED <<cursor, skipped>>
    BY <1>1, <1>5
  <2>2. JournalSound'
    BY <1>1, <1>2, <1>3, <2>1 DEF JournalSound
  <2>3. HeardSound => HeardSound'
    BY <1>1, <2>1 DEF HeardSound, Behind
  <2> QED
    BY <1>1, <1>2, <2>2, <2>3, QuietIs, RunnerStep DEF StreamInv
<1> QED
  BY <1>4, <1>5

(***************************************************************************)
(* The invariant holds.                                                    *)
(***************************************************************************)
LEMMA InitSound == Init => StreamInv
<1> SUFFICES ASSUME Init PROVE StreamInv
  OBVIOUS
<1>1. /\ latest = 0 /\ pending = <<>> /\ shelf = <<>> /\ aged = 0 /\ conn = NotConnected
      /\ cursor = 0 /\ applied = {} /\ skipped = {} /\ handling = 0 /\ snapshots = {}
      /\ faults = EmptyBag
  BY DEF Init
<1>2. PICK r \in Processes :
         publisher = [q \in Processes |-> [running |-> q = r, poll |-> Idle]]
  BY DEF Init
<1>3. Kinds = {}
  BY <1>1 DEF Kinds, BagToSet, EmptyBag, SetToBag
<1>4. OutboxSound
  BY <1>1 DEF OutboxSound
<1>5. \A q \in Processes : publisher[q].running = (q = r) /\ Poll(q).phase = "IDLE"
                           /\ Poll(q).batch = <<>>
  BY <1>2 DEF Poll, Idle
<1>6. PublisherSound
  <2>1. Idle \in Polls(latest)
    BY DEF Idle, Polls, Phases
  <2>2. publisher \in Publishers(latest)
    BY <1>2, <2>1 DEF Publishers
  <2> QED
    BY <1>5, <2>2 DEF PublisherSound
<1>7. conn \in Connections(latest)
  BY <1>1, NotConnectedIs
<1>8. OneLeader
  BY <1>1, <1>5, NotConnectedIs DEF OneLeader
<1>9. ConnSound /\ BarrierSound
  <2>1. Len(<<>>) = 0
    OBVIOUS
  <2> QED
    BY <1>1, <1>7, <2>1, NotConnectedIs DEF ConnSound, BarrierSound, Unread
<1>10. JournalSound
  BY <1>1, NotConnectedIs DEF JournalSound
<1>11. OrderSound
  BY <1>1, <1>5, NoMembers DEF OrderSound
<1>12. QueuesSound
  BY <1>1, NotConnectedIs, NothingSent, NoMembers DEF QueuesSound
<1>13. HeardSound
  BY <1>1, NotConnectedIs DEF HeardSound
<1> QED
  BY <1>4, <1>6, <1>8, <1>9, <1>10, <1>11, <1>12, <1>13 DEF StreamInv

\* A connection that ends takes nothing with it.
LEMMA EndKeeps ==
    ASSUME StreamInv, \/ \E p \in Processes : CloseAll(p)
                      \/ HearRefusal \/ ConnectionLost \/ RunnerRestarts
    PROVE  StreamInv'
<1>1. CASE \E p \in Processes : CloseAll(p)
  BY <1>1, FaultsSame, Dropped DEF CloseAll, runner
<1>2. CASE HearRefusal
  BY <1>2, FaultsSame, Dropped DEF HearRefusal
<1>3. CASE ConnectionLost
  BY <1>3, FaultIs, Dropped DEF ConnectionLost, runner
<1>4. CASE RunnerRestarts
  BY <1>4, FaultIs, Dropped DEF RunnerRestarts
<1> QED
  BY <1>1, <1>2, <1>3, <1>4

LEMMA StutterKeeps ==
    ASSUME StreamInv, UNCHANGED vars
    PROVE  StreamInv'
<1>1. UNCHANGED <<outbox, publisher, conn, runner, faults>>
  BY DEF vars
<1>2. Kinds' = Kinds /\ UNCHANGED latest
  BY <1>1, FaultsSame, OutboxSame
<1>3. JournalSound' /\ (HeardSound => HeardSound')
  BY <1>1, <1>2, SameRunner DEF StreamInv
<1> QED
  BY <1>1, <1>2, <1>3, QuietIs, RunnerStep DEF StreamInv

LEMMA StepKeeps == StreamInv /\ [Next]_vars => StreamInv'
<1> SUFFICES ASSUME StreamInv, [Next]_vars PROVE StreamInv'
  OBVIOUS
<1>1. CASE AppendOutboxEvent \/ DayPasses
  BY <1>1, AppendKeeps, DayKeeps
<1>2. ASSUME NEW p \in Processes,
             \/ PublisherStep(p) \/ ClaimFails(p) \/ RowFails(p)
             \/ PauseScheduling(p) \/ Start(p) \/ Connect(p)
      PROVE  StreamInv'
  BY <1>2, TickKeeps, ClaimKeeps, PublishKeeps, MarkKeeps, SettleKeeps, ClaimFailsKeeps,
     RowFailsKeeps, PauseKeeps, StartKeeps, ConnectKeeps DEF PublisherStep
<1>3. CASE OpeningStep
  BY <1>3, UpgradeKeeps, ReadOldestKeeps, ReadLatestKeeps, ReplayKeeps, FlushRoundKeeps,
     FlushOneKeeps, TooManyRoundsKeeps, GoLiveKeeps DEF OpeningStep
<1>4. CASE TakeEvent \/ Commit \/ ProcessFails \/ ReadPortfolio \/ ResyncFails
  BY <1>4, TakeKeeps, CommitKeeps, ProcessFailsKeeps, ReadPortfolioKeeps, ResyncFailsKeeps
<1>5. CASE \E s \in 0 .. MaxEvents : Resync(s)
  BY <1>5, ResyncKeeps
<1>6. CASE \/ \E p \in Processes : CloseAll(p)
           \/ HearRefusal \/ ConnectionLost \/ RunnerRestarts
  BY <1>6, EndKeeps
<1>7. CASE UNCHANGED vars
  BY <1>7, StutterKeeps
<1> QED
  BY <1>1, <1>2, <1>3, <1>4, <1>5, <1>6, <1>7 DEF Next

\* Every reachable state is sound, in the sense of the inductive invariant.
THEOREM StreamInvariant == Spec => []StreamInv
BY InitSound, StepKeeps, PTL DEF Spec

(***************************************************************************)
(* The promises.                                                           *)
(***************************************************************************)
\* No event is both written off by a RESYNC record and applied, whatever the
\* journal's commit and a resync that overlaps it do to the cursor.
THEOREM NothingIsCountedTwice == Spec => []AccountedOnce
<1>1. StreamInv => AccountedOnce
  BY DEF StreamInv, JournalSound, AccountedOnce
<1> QED
  BY <1>1, StreamInvariant, PTL

\* The runner's cursor passes an event only once it is applied, written off or
\* reported, as long as the publisher works in order, whatever connections,
\* restarts, failed events and resyncs overlap.
THEOREM NothingIsLostSilently == Spec => []NoSilentLoss
<1>1. StreamInv => NoSilentLoss
  BY DEF StreamInv, HeardSound, Quiet, Kinds, NoSilentLoss
<1> QED
  BY <1>1, StreamInvariant, PTL

\* What is marked published reaches every connection that promoteToLive is
\* replaying to or has made live, until the leader hands over, and is not sent
\* again behind another event before the connection is live.
THEOREM TheBarrierHolds == Spec => []BarrierHolds
<1>1. ASSUME StreamInv PROVE BarrierHolds
  <2>1. ASSUME conn.stage \in {"FLUSH", "LIVE"}, ~ BagIn("handover", faults),
               NEW n \in ToSet(shelf), n > conn.after
        PROVE  n \in Reached(conn)
    <3>1. "handover" \notin Kinds /\ n \in Delivered
      BY <2>1 DEF BagIn, Kinds, Delivered
    <3> QED
      BY <1>1, <2>1, <3>1 DEF StreamInv, BarrierSound
  <2>2. conn.stage = "FLUSH" =>
           \A i, j \in 1 .. Len(conn.sent) :
              i < j /\ conn.sent[i] = conn.sent[j] =>
                  \A k \in i .. j : conn.sent[k] = conn.sent[i]
    BY <1>1 DEF StreamInv, ConnSound, FlushSound
  <2> QED
    BY <2>1, <2>2 DEF BarrierHolds
<1> QED
  BY <1>1, StreamInvariant, PTL

(***************************************************************************)
(* The limits of the type invariant.                                       *)
(***************************************************************************)
PollLimit == \A p \in Processes : Len(Poll(p).batch) <= BatchSize

ConnLimit ==
    /\ Len(conn.queue) <= OpeningQueueMax
    /\ conn.rounds <= PromoteMaxRounds + 1
    /\ Len(conn.backlog) <= BacklogMax

\* A connection is only opened while one more resync may be in flight.
ResyncLimit ==
    /\ demands \in Nat /\ IsFiniteSet(snapshots)
    /\ demands + Cardinality(snapshots) <= MaxResyncs
    /\ conn.stage # "NONE" => demands + Cardinality(snapshots) < MaxResyncs

CountLimit ==
    /\ latest <= MaxEvents /\ Kinds \subseteq FaultKinds
    /\ cursor = 0 \/ cursor \in applied \cup skipped

LEMMA PollLimitKept ==
    ASSUME StreamInv, StreamInv', PollLimit, [Next]_vars
    PROVE  PollLimit'
<1>1. publisher \in Publishers(latest) /\ publisher' \in Publishers(latest')
  BY DEF StreamInv, PublisherSound
<1>2. BatchSize \in Nat
  BY BoundsAssumption
<1>3. ASSUME NEW p \in Processes, NEW phase, NEW batch, SetPoll(p, phase, batch),
             Len(batch) <= BatchSize
      PROVE  PollLimit'
  <2>1. publisher' = [publisher EXCEPT ![p].poll = [phase |-> phase, batch |-> batch]]
    BY <1>3 DEF SetPoll
  <2>2. publisher'[p].poll.batch = batch
    BY <1>1, <2>1 DEF Publishers
  <2>3. \A q \in Processes : q # p => publisher'[q] = publisher[q]
    BY <1>1, <2>1 DEF Publishers
  <2> QED
    BY <1>3, <2>2, <2>3 DEF PollLimit, Poll
<1>4. ASSUME NEW p \in Processes,
             \/ Tick(p) \/ ClaimFails(p) \/ PollSettles(p)
      PROVE  PollLimit'
  <2>1. Len(<<>>) <= BatchSize
    BY <1>2
  <2> QED
    BY <1>3, <1>4, <2>1 DEF Tick, ClaimFails, PollSettles
<1>5. ASSUME NEW p \in Processes, ClaimPendingOutbox(p) PROVE PollLimit'
  <2> DEFINE n == IF BatchSize < Len(pending) THEN BatchSize ELSE Len(pending)
  <2>1. pending \in Seq(1 .. latest) /\ n \in Nat /\ n <= Len(pending) /\ n <= BatchSize
    BY <1>2 DEF StreamInv, OutboxSound
  <2>2. SetPoll(p, "PUBLISHING", SubSeq(pending, 1, n))
    BY <1>5 DEF ClaimPendingOutbox
  <2> HIDE DEF n
  <2>3. Len(SubSeq(pending, 1, n)) = n
    BY <2>1
  <2> QED
    BY <1>3, <2>1, <2>2, <2>3
<1>6. ASSUME NEW p \in Processes, Publish(p) PROVE PollLimit'
  BY <1>3, <1>6 DEF Publish, PollLimit
<1>7. ASSUME NEW p \in Processes, MarkOutboxPublished(p) \/ RowFails(p) PROVE PollLimit'
  <2>1. /\ Poll(p).batch \in Seq(1 .. latest) /\ Poll(p).batch # <<>>
        /\ SetPoll(p, "PUBLISHING", Tail(Poll(p).batch))
    BY <1>7, PollTypes DEF MarkOutboxPublished, RowFails, StreamInv
  <2>2. Len(Poll(p).batch) \in Nat /\ Len(Tail(Poll(p).batch)) = Len(Poll(p).batch) - 1
    BY <2>1, TailIs
  <2>3. Len(Tail(Poll(p).batch)) <= BatchSize
    BY <1>2, <2>2 DEF PollLimit
  <2> QED
    BY <1>3, <2>1, <2>3
<1>8. ASSUME NEW p \in Processes, PauseScheduling(p) \/ Start(p) PROVE PollLimit'
  BY <1>1, <1>8 DEF PauseScheduling, Start, Publishers, PollLimit, Poll
<1>9. CASE UNCHANGED publisher
  BY <1>9 DEF PollLimit, Poll
<1>10. \/ UNCHANGED publisher
       \/ \E p \in Processes :
            \/ Tick(p) \/ ClaimFails(p) \/ PollSettles(p) \/ ClaimPendingOutbox(p) \/ Publish(p)
            \/ MarkOutboxPublished(p) \/ RowFails(p) \/ PauseScheduling(p) \/ Start(p)
  BY DEF vars, Next, PublisherStep, OpeningStep, AppendOutboxEvent, DayPasses, Connect, CloseAll,
         CompleteUpgrade, ReadOldest, ReadLatest, Replay, FlushRound, FlushOne, TooManyRounds,
         GoLive, TakeEvent, Commit, ProcessFails, HearRefusal, ReadPortfolio, ResyncFails, Resync,
         ConnectionLost, RunnerRestarts
<1> QED
  BY <1>4, <1>5, <1>6, <1>7, <1>8, <1>9, <1>10

\* A delivery respects the limits of the queues it adds to.
LEMMA DeliveryLimit ==
    ASSUME NEW n \in Nat, NEW c \in Connections(n), NEW h \in 1 .. n, NEW busy \in BOOLEAN,
           NEW d, d = SessionDeliver(c, h, busy),
           Len(c.backlog) <= BacklogMax
    PROVE  /\ Len(d.backlog) <= BacklogMax /\ d.queue = c.queue /\ d.rounds = c.rounds
           /\ d.stage = c.stage \/ d.stage = "REFUSED"
<1>1. c.backlog \in Seq(1 .. n)
  BY ConnIs
<1>2. Len(Append(c.backlog, h)) = Len(c.backlog) + 1 /\ Len(c.backlog) \in Nat
  BY <1>1
<1>3. CASE d = [c EXCEPT !.sent = Append(@, h)]
  BY <1>3 DEF Connections
<1>4. CASE d = [c EXCEPT !.stage = "REFUSED"]
  BY <1>4 DEF Connections
<1>5. CASE d = [c EXCEPT !.backlog = Append(@, h)] /\ Len(c.backlog) < BacklogMax
  <2>1. /\ d.backlog = Append(c.backlog, h) /\ d.queue = c.queue /\ d.rounds = c.rounds
        /\ d.stage = c.stage
    BY <1>5 DEF Connections
  <2> QED
    BY <1>2, <1>5, <2>1, BoundsAssumption
<1> QED
  BY <1>3, <1>4, <1>5 DEF SessionDeliver

LEMMA PublishLimit ==
    ASSUME StreamInv, NEW p \in Processes, Publish(p)
    PROVE  /\ conn'.rounds = conn.rounds /\ (conn'.stage # "NONE" => conn.stage # "NONE")
           /\ ConnLimit => ConnLimit'
<1> DEFINE h == Head(Poll(p).batch)
<1>1. latest \in Nat /\ conn \in Connections(latest)
  BY StreamIs
<1>2. h \in 1 .. latest
  <2>1. Poll(p).batch \in Seq(1 .. latest) /\ Poll(p).batch # <<>>
    BY PollTypes DEF Publish, StreamInv
  <2> QED
    BY <2>1, TailIs
<1>3. PICK busy \in BOOLEAN : conn' = HubDeliver(conn, p, h, busy)
  BY DEF Publish
<1> HIDE DEF h
<1>4. CASE conn.process = p /\ conn.stage = "LIVE"
  <2>1. conn' = SessionDeliver(conn, h, busy)
    BY <1>3, <1>4 DEF HubDeliver, Opening
  <2>2. ASSUME ConnLimit PROVE ConnLimit'
    <3>1. Len(conn.backlog) <= BacklogMax
      BY <2>2 DEF ConnLimit
    <3>2. /\ Len(conn'.backlog) <= BacklogMax /\ conn'.queue = conn.queue
          /\ conn'.rounds = conn.rounds
      BY <1>1, <1>2, <2>1, <3>1, DeliveryLimit
    <3> QED
      BY <2>2, <3>2 DEF ConnLimit
  <2>3. conn'.rounds = conn.rounds
    BY <1>1, <2>1 DEF SessionDeliver, Connections
  <2> QED
    BY <1>4, <2>2, <2>3
<1>5. CASE conn.process = p /\ conn.stage \in Opening
  <2>1. conn' = IF Len(conn.queue) < OpeningQueueMax THEN [conn EXCEPT !.queue = Append(@, h)]
                ELSE [conn EXCEPT !.stage = "REFUSED"]
    BY <1>3, <1>5 DEF HubDeliver, Opening
  <2>2. CASE Len(conn.queue) < OpeningQueueMax /\ conn' = [conn EXCEPT !.queue = Append(@, h)]
    <3>1. /\ conn'.queue = Append(conn.queue, h) /\ conn'.rounds = conn.rounds
          /\ conn'.backlog = conn.backlog
      BY <1>1, <2>2 DEF Connections
    <3>2. Len(conn'.queue) = Len(conn.queue) + 1 /\ Len(conn.queue) \in Nat
      <4>1. conn.queue \in Seq(1 .. latest)
        BY <1>1, ConnIs
      <4> QED
        BY <1>2, <3>1, <4>1
    <3> QED
      BY <1>5, <2>2, <3>1, <3>2, BoundsAssumption DEF ConnLimit, Opening
  <2>3. CASE conn' = [conn EXCEPT !.stage = "REFUSED"]
    BY <1>1, <1>5, <2>3 DEF Connections, ConnLimit, Opening
  <2> QED
    BY <2>1, <2>2, <2>3
<1>6. CASE ~ (conn.process = p /\ conn.stage \in Opening \cup {"LIVE"})
  BY <1>3, <1>6 DEF HubDeliver, ConnLimit
<1> QED
  BY <1>4, <1>5, <1>6

LEMMA FlushOneLimit ==
    ASSUME StreamInv, FlushOne
    PROVE  /\ conn'.rounds = conn.rounds /\ conn.stage # "NONE"
           /\ ConnLimit => ConnLimit'
<1> DEFINE h == Head(conn.batch)
           c == [conn EXCEPT !.batch = Tail(@), !.told = @ \cup {h}]
<1>1. latest \in Nat /\ conn \in Connections(latest) /\ conn.stage = "FLUSH"
  BY StreamIs DEF FlushOne
<1>2. conn.batch \in Seq(1 .. latest) /\ conn.batch # <<>>
  BY <1>1, ConnIs DEF FlushOne
<1>3. h \in 1 .. latest /\ Tail(conn.batch) \in Seq(1 .. latest)
  BY <1>2, TailIs
<1>4. /\ c \in Connections(latest) /\ c.queue = conn.queue /\ c.backlog = conn.backlog
      /\ c.rounds = conn.rounds
  BY <1>1, <1>3, ConnIs DEF Connections
<1>5. PICK busy \in BOOLEAN : conn' = SessionDeliver(c, h, busy)
  BY DEF FlushOne
<1> HIDE DEF c, h
<1>6. ASSUME ConnLimit PROVE ConnLimit'
  <2>1. Len(c.backlog) <= BacklogMax
    BY <1>4, <1>6 DEF ConnLimit
  <2>2. Len(conn'.backlog) <= BacklogMax /\ conn'.queue = c.queue /\ conn'.rounds = c.rounds
    BY <1>1, <1>3, <1>4, <1>5, <2>1, DeliveryLimit
  <2> QED
    BY <1>4, <1>6, <2>2 DEF ConnLimit
<1>7. conn'.rounds = conn.rounds
  BY <1>4, <1>5 DEF SessionDeliver, Connections
<1> QED
  BY <1>1, <1>6, <1>7

LEMMA ConnLimitKept ==
    ASSUME StreamInv, ConnLimit, [Next]_vars
    PROVE  ConnLimit'
<1>1. latest \in Nat /\ conn \in Connections(latest)
  BY StreamIs
<1>2. OpeningQueueMax \in Nat /\ BacklogMax \in Nat /\ PromoteMaxRounds \in Nat
  BY BoundsAssumption
<1>3. ASSUME conn'.queue = <<>>, conn'.backlog = <<>>, conn'.rounds = 0 PROVE ConnLimit'
  BY <1>2, <1>3 DEF ConnLimit
<1>4. CASE \/ conn' = NotConnected
           \/ \E p \in Processes : Connect(p)
  <2>1. /\ NotConnected.queue = <<>> /\ NotConnected.backlog = <<>> /\ NotConnected.rounds = 0
        /\ NotConnected \in Connections(latest)
    BY <1>1, NotConnectedIs
  <2>2. ASSUME NEW p \in Processes, Connect(p) PROVE ConnLimit'
    <3>1. conn' = [NotConnected EXCEPT !.stage = "UPGRADING", !.process = p, !.after = cursor]
      BY <2>2 DEF Connect
    <3>2. conn'.queue = <<>> /\ conn'.backlog = <<>> /\ conn'.rounds = 0
      BY <3>1 DEF NotConnected
    <3> QED
      BY <1>3, <3>2
  <2> QED
    BY <1>3, <1>4, <2>1, <2>2
<1>5. CASE \E p \in Processes : Publish(p)
  BY <1>5, PublishLimit
<1>6. CASE FlushOne
  BY <1>6, FlushOneLimit
<1>7. CASE FlushRound
  <2>1. /\ conn'.queue = <<>> /\ conn'.backlog = conn.backlog /\ conn'.rounds = conn.rounds + 1
        /\ conn.rounds <= PromoteMaxRounds /\ conn.rounds \in Nat
    BY <1>1, <1>7 DEF FlushRound, Connections
  <2> QED
    BY <1>2, <2>1 DEF ConnLimit
<1>8. CASE \/ CompleteUpgrade /\ conn' # NotConnected
           \/ ReadOldest \/ ReadLatest \/ Replay \/ TooManyRounds \/ GoLive \/ TakeEvent
  <2>1. conn'.queue = conn.queue /\ conn'.backlog = conn.backlog /\ conn'.rounds = conn.rounds
    BY <1>1, <1>8 DEF CompleteUpgrade, Registered, ReadOldest, ReadLatest, Replay, TooManyRounds,
                      GoLive, TakeEvent, Connections
  <2> QED
    BY <2>1 DEF ConnLimit
<1>9. CASE UNCHANGED conn
  BY <1>9 DEF ConnLimit
<1>10. \/ UNCHANGED conn \/ conn' = NotConnected
       \/ \E p \in Processes : Publish(p) \/ Connect(p)
       \/ FlushOne \/ FlushRound \/ CompleteUpgrade \/ ReadOldest \/ ReadLatest \/ Replay
       \/ TooManyRounds \/ GoLive \/ TakeEvent
  BY DEF vars, Next, PublisherStep, OpeningStep, AppendOutboxEvent, DayPasses, CloseAll,
         Tick, ClaimFails, PollSettles, ClaimPendingOutbox, MarkOutboxPublished, RowFails,
         PauseScheduling, Start, Commit, ProcessFails, HearRefusal, ReadPortfolio, ResyncFails,
         Resync, ConnectionLost, RunnerRestarts
<1> QED
  BY <1>4, <1>5, <1>6, <1>7, <1>8, <1>9, <1>10

LEMMA ResyncLimitKept ==
    ASSUME StreamInv, ResyncLimit, [Next]_vars
    PROVE  ResyncLimit'
<1>1. Cardinality(snapshots) \in Nat /\ IsFiniteSet(snapshots) /\ demands \in Nat
      /\ MaxResyncs \in Nat
  BY FS_CardinalityType, BoundsAssumption DEF ResyncLimit
<1>2. latest \in Nat /\ conn \in Connections(latest)
  BY StreamIs
<1>3. ASSUME UNCHANGED <<demands, snapshots>>, conn'.stage # "NONE" => conn.stage # "NONE"
      PROVE  ResyncLimit'
  BY <1>3 DEF ResyncLimit
<1>4. ASSUME NEW p \in Processes, Connect(p) PROVE ResyncLimit'
  BY <1>4 DEF Connect, runner, ResyncLimit
<1>5. CASE HearRefusal
  <2>1. /\ demands' = demands + 1 /\ snapshots' = snapshots /\ conn'.stage = "NONE"
        /\ demands + Cardinality(snapshots) < MaxResyncs
    BY <1>5 DEF HearRefusal, NotConnected, ResyncLimit
  <2> QED
    BY <1>1, <2>1 DEF ResyncLimit
<1>6. CASE ReadPortfolio
  <2>1. /\ demands' = demands - 1 /\ demands > 0 /\ snapshots' = snapshots \cup {latest}
        /\ conn' = conn
    BY <1>6 DEF ReadPortfolio
  <2>2. IsFiniteSet(snapshots') /\ Cardinality(snapshots') \in Nat
        /\ Cardinality(snapshots') <= Cardinality(snapshots) + 1
    <3>1. /\ IsFiniteSet(snapshots')
          /\ Cardinality(snapshots') = IF latest \in snapshots THEN Cardinality(snapshots)
                                       ELSE Cardinality(snapshots) + 1
      BY <1>1, <2>1, FS_AddElement
    <3> QED
      BY <1>1, <3>1
  <2> QED
    BY <1>1, <2>1, <2>2 DEF ResyncLimit
<1>7. CASE ResyncFails
  <2>1. demands' = demands - 1 /\ demands > 0 /\ UNCHANGED <<snapshots, conn>>
    BY <1>7 DEF ResyncFails
  <2> QED
    BY <1>1, <2>1 DEF ResyncLimit
<1>8. ASSUME NEW s, Resync(s) PROVE ResyncLimit'
  <2>1. snapshots' = snapshots \ {s} /\ UNCHANGED <<demands, conn>>
    BY <1>8 DEF Resync
  <2>2. IsFiniteSet(snapshots') /\ Cardinality(snapshots') \in Nat
        /\ Cardinality(snapshots') <= Cardinality(snapshots)
    <3>1. /\ IsFiniteSet(snapshots')
          /\ Cardinality(snapshots') = IF s \in snapshots THEN Cardinality(snapshots) - 1
                                       ELSE Cardinality(snapshots)
      BY <1>1, <2>1, FS_RemoveElement
    <3>2. Cardinality(snapshots') \in Nat
      BY <3>1, FS_CardinalityType
    <3> QED
      BY <1>1, <3>1, <3>2
  <2> QED
    BY <1>1, <2>1, <2>2 DEF ResyncLimit
<1>9. CASE RunnerRestarts
  <2>1. demands' = 0 /\ snapshots' = {} /\ conn'.stage = "NONE"
    BY <1>9 DEF RunnerRestarts, NotConnected
  <2> QED
    BY <1>1, <2>1, FS_EmptySet DEF ResyncLimit
<1>10. CASE \/ \E p \in Processes : CloseAll(p)
            \/ ConnectionLost
  <2>1. UNCHANGED <<demands, snapshots>> /\ conn'.stage = "NONE"
    BY <1>10 DEF CloseAll, ConnectionLost, runner, NotConnected
  <2> QED
    BY <1>3, <2>1
<1>11. ASSUME NEW p \in Processes, Publish(p) PROVE ResyncLimit'
  <2>1. UNCHANGED <<demands, snapshots>>
    BY <1>11 DEF Publish, runner
  <2> QED
    BY <1>3, <1>11, <2>1, PublishLimit
<1>12. CASE FlushOne
  <2>1. UNCHANGED <<demands, snapshots>>
    BY <1>12 DEF FlushOne, runner
  <2> QED
    BY <1>3, <1>12, <2>1, FlushOneLimit
<1>13. CASE \/ CompleteUpgrade \/ ReadOldest \/ ReadLatest \/ Replay \/ FlushRound
            \/ TooManyRounds \/ GoLive
  <2>1. UNCHANGED <<demands, snapshots>> /\ conn.stage # "NONE"
    BY <1>13 DEF CompleteUpgrade, ReadOldest, ReadLatest, Replay, FlushRound, TooManyRounds,
                 GoLive, runner
  <2> QED
    BY <1>3, <2>1
<1>14. CASE TakeEvent
  <2>1. UNCHANGED <<demands, snapshots>> /\ conn'.stage = conn.stage
    BY <1>2, <1>14 DEF TakeEvent, Connections
  <2> QED
    BY <1>3, <2>1
<1>15. CASE UNCHANGED <<conn, demands, snapshots>>
  BY <1>3, <1>15
<1>16. \/ UNCHANGED <<conn, demands, snapshots>>
       \/ \E p \in Processes : Connect(p) \/ CloseAll(p) \/ Publish(p)
       \/ HearRefusal \/ ReadPortfolio \/ ResyncFails \/ (\E s \in 0 .. MaxEvents : Resync(s))
       \/ RunnerRestarts \/ ConnectionLost \/ OpeningStep \/ TakeEvent
  BY DEF vars, runner, Next, PublisherStep, AppendOutboxEvent, DayPasses,
         Tick, ClaimFails, PollSettles, ClaimPendingOutbox, MarkOutboxPublished, RowFails,
         PauseScheduling, Start, Commit, ProcessFails
<1> QED
  BY <1>4, <1>5, <1>6, <1>7, <1>8, <1>9, <1>10, <1>11, <1>12, <1>13, <1>14, <1>15, <1>16
     DEF OpeningStep

LEMMA CountLimitKept ==
    ASSUME StreamInv, CountLimit, [Next]_vars
    PROVE  CountLimit'
<1>1. latest' <= MaxEvents
  <2>1. CASE AppendOutboxEvent
    <3>1. latest \in Nat /\ latest < MaxEvents /\ latest' = latest + 1 /\ MaxEvents \in Nat
      BY <2>1, StreamIs, BoundsAssumption DEF AppendOutboxEvent
    <3> QED
      BY <3>1
  <2>2. CASE UNCHANGED latest
    BY <2>2 DEF CountLimit
  <2>3. AppendOutboxEvent \/ UNCHANGED latest
    BY DEF vars, outbox, Next, PublisherStep, OpeningStep, DayPasses, Connect, CloseAll, Publish,
           Tick, ClaimFails, PollSettles, ClaimPendingOutbox, MarkOutboxPublished, RowFails,
           PauseScheduling, Start, CompleteUpgrade, ReadOldest, ReadLatest, Replay, FlushRound,
           FlushOne, TooManyRounds, GoLive, TakeEvent, Commit, ProcessFails, HearRefusal,
           ReadPortfolio, ResyncFails, Resync, ConnectionLost, RunnerRestarts
  <2> QED
    BY <2>1, <2>2, <2>3
<1>2. Kinds' \subseteq FaultKinds
  <2>1. ASSUME NEW kind, Fault(kind) PROVE Kinds' \subseteq FaultKinds
    BY <2>1, FaultIs DEF Fault, CountLimit
  <2>2. CASE faults' = faults
    BY <2>2, FaultsSame DEF CountLimit
  <2>3. faults' = faults \/ \E kind \in {"skew", "publish", "busy", "process", "day", "drop", "handover"} :
                               Fault(kind)
    BY DEF vars, Next, PublisherStep, OpeningStep, AppendOutboxEvent, DayPasses, Connect, CloseAll,
           Publish, BufferState, Tick, ClaimFails, PollSettles, ClaimPendingOutbox,
           MarkOutboxPublished, RowFails, PauseScheduling, Start, CompleteUpgrade, ReadOldest,
           ReadLatest, Replay, FlushRound, FlushOne, TooManyRounds, GoLive, TakeEvent, Commit,
           ProcessFails, HearRefusal, ReadPortfolio, ResyncFails, Resync, ConnectionLost,
           RunnerRestarts
  <2> QED
    BY <2>1, <2>2, <2>3
<1>3. cursor' = 0 \/ cursor' \in applied' \cup skipped'
  <2>1. CASE Commit
    BY <2>1 DEF Commit, CountLimit
  <2>2. ASSUME NEW s, Resync(s) PROVE cursor' = 0 \/ cursor' \in applied' \cup skipped'
    <3>1. CASE s > cursor
      <4>1. cursor' = s /\ skipped' = skipped \cup (cursor + 1 .. s)
        BY <2>2, <3>1 DEF Resync
      <4>2. cursor \in Nat /\ s \in Nat
        <5>1. s \in snapshots /\ latest \in Nat
          BY <2>2, StreamIs DEF Resync
        <5> QED
          BY <5>1 DEF StreamInv, JournalSound
      <4> QED
        BY <3>1, <4>1, <4>2
    <3>2. CASE ~ s > cursor
      BY <2>2, <3>2 DEF Resync, CountLimit
    <3> QED
      BY <3>1, <3>2
  <2>3. CASE UNCHANGED journal
    BY <2>3 DEF journal, CountLimit
  <2>4. Commit \/ (\E s \in 0 .. MaxEvents : Resync(s)) \/ UNCHANGED journal
    BY DEF vars, runner, Next, PublisherStep, OpeningStep, AppendOutboxEvent, DayPasses, Connect,
           CloseAll, Publish, Tick, ClaimFails, PollSettles, ClaimPendingOutbox,
           MarkOutboxPublished, RowFails, PauseScheduling, Start, CompleteUpgrade, ReadOldest,
           ReadLatest, Replay, FlushRound, FlushOne, TooManyRounds, GoLive, TakeEvent,
           ProcessFails, HearRefusal, ReadPortfolio, ResyncFails, ConnectionLost, RunnerRestarts
  <2> QED
    BY <2>1, <2>2, <2>3, <2>4
<1> QED
  BY <1>1, <1>2, <1>3 DEF CountLimit

\* Every queue of the publisher, the hub and the session stays within its limit,
\* and the cursor is always the last event the journal applied or jumped over.
THEOREM LimitsHold == Spec => []TypeOK
<1> DEFINE Limits == PollLimit /\ ConnLimit /\ ResyncLimit /\ CountLimit
<1>1. Init => Limits
  <2> SUFFICES ASSUME Init PROVE Limits
    OBVIOUS
  <2>1. Len(<<>>) = 0 /\ Kinds = {}
    BY DEF Init, Kinds, BagToSet, EmptyBag, SetToBag
  <2>2. PollLimit
    BY <2>1, BoundsAssumption DEF Init, PollLimit, Poll, Idle
  <2>3. ConnLimit
    BY <2>1, BoundsAssumption DEF Init, ConnLimit, NotConnected
  <2>4. ResyncLimit
    BY FS_EmptySet, BoundsAssumption DEF Init, ResyncLimit, NotConnected
  <2>5. CountLimit
    BY <2>1, BoundsAssumption DEF Init, CountLimit
  <2> QED
    BY <2>2, <2>3, <2>4, <2>5
<1>2. StreamInv /\ Limits /\ [Next]_vars => Limits'
  BY StepKeeps, PollLimitKept, ConnLimitKept, ResyncLimitKept, CountLimitKept
<1>3. ASSUME StreamInv, Limits PROVE TypeOK
  <2>1. latest \in Nat /\ conn \in Connections(latest) /\ MaxEvents \in Nat
    BY <1>3, StreamIs, BoundsAssumption
  <2>2. /\ latest \in 0 .. MaxEvents
        /\ pending \in Seq(1 .. latest) /\ shelf \in Seq(1 .. latest) /\ aged \in 0 .. Len(shelf)
    BY <1>3, <2>1 DEF StreamInv, OutboxSound, CountLimit
  <2>3. \A p \in Processes :
          /\ publisher[p].running \in BOOLEAN
          /\ Poll(p).phase \in {"IDLE", "CLAIMING", "PUBLISHING", "MARKING"}
          /\ Poll(p).batch \in Seq(1 .. latest) /\ Len(Poll(p).batch) <= BatchSize
    BY <1>3, PollTypes DEF StreamInv, PollLimit, Phases
  <2>4. /\ conn.stage \in Opening \cup {"NONE", "UPGRADING", "LIVE", "REFUSED"}
        /\ conn.process \in Processes \cup {None}
    BY <2>1, ConnIs DEF Stages, Unread, Opening
  <2>5. /\ Len(conn.queue) <= OpeningQueueMax /\ conn.rounds <= PromoteMaxRounds + 1
        /\ Len(conn.backlog) <= BacklogMax
    BY <1>3 DEF ConnLimit
  <2>6. conn.heard <= Len(conn.sent)
    BY <1>3 DEF StreamInv, ConnSound
  <2>7. /\ applied \cup skipped \subseteq 1 .. latest /\ handling \in 0 .. latest
        /\ cursor = 0 \/ cursor \in applied \cup skipped
    <3>1. cursor \in 0 .. latest /\ applied \cup skipped \subseteq 1 .. cursor
          /\ handling \in 0 .. latest
      BY <1>3 DEF StreamInv, JournalSound
    <3>2. 1 .. cursor \subseteq 1 .. latest
      BY <2>1, <3>1
    <3> QED
      BY <1>3, <3>1, <3>2 DEF CountLimit
  <2>8. demands + Cardinality(snapshots) <= MaxResyncs /\ BagToSet(faults) \subseteq FaultKinds
    BY <1>3 DEF ResyncLimit, CountLimit, Kinds
  <2> QED
    BY <2>2, <2>3, <2>4, <2>5, <2>6, <2>7, <2>8 DEF TypeOK
<1> HIDE DEF Limits
<1> QED
  BY <1>1, <1>2, <1>3, StreamInvariant, PTL DEF Spec
=============================================================================
