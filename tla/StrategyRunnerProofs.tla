------------------------ MODULE StrategyRunnerProofs ------------------------
(***************************************************************************)
(* The runner never sends an order twice or past its latch, charges every  *)
(* order against the day's limit and leaves none resting after a sweep, for *)
(* any number of sweeps, attempts, sessions and faults.                    *)
(***************************************************************************)
EXTENDS StrategyRunner, FiniteSetTheorems, SequenceTheorems, WellFoundedInduction, TLAPS

(***************************************************************************)
(* The inductive invariant.                                                *)
(***************************************************************************)
Places == {"rest", "next", "await", "idle", "read", "cycle", "relogin", "tick"} \cup Submitting
Phases == {"DOWN", "WAITING", "STARTING", "RECOVERING", "RESUMING", "RUNNING"}
Before == {"DOWN", "WAITING", "STARTING"}

\* The log: every decision once, ticks and fills numbered as they came.
LogSound ==
    /\ decided \in Seq(Known)
    /\ \A i, j \in 1 .. Len(decided) : decided[i] = decided[j] => i = j
    /\ \A d \in Known :
         /\ d[1] = "tick" => d = TickDecision(d[2]) /\ d[2] \in 1 .. ticks
         /\ d[1] = "fill" => d = FillDecisionId(d[2]) /\ d[2] \in 1 .. cursor + 1
    /\ settled \subseteq Known /\ unsent \subseteq settled
    /\ events \in 0 .. MaxEvents /\ cursor \in 0 .. events /\ ticks \in 0 .. MaxTicks

SessionsSound ==
    /\ sessions \in Nat /\ expired \subseteq 1 .. sessions
    /\ cell \in Seq(1 .. sessions) /\ current \in Seq(1 .. sessions)

SwitchSound ==
    /\ engagements \in Nat /\ engagement \in 0 .. engagements
    /\ file \in [by : {"nobody", "operator", "runner"}, at : 0 .. engagements]
    /\ phase \in Phases
    /\ {persisted, resuming, armed, swept} \subseteq BOOLEAN

\* A thread, given the decisions of the log and the number of sessions.
ThreadSound(th, known, n) ==
    /\ th \in [pc : Places, job : {th.job}, todo : Seq(ToSet(th.todo)), tries : 0 .. MaxAttempts,
               renewed : BOOLEAN, via : Seq(1 .. n), passes : Nat]
    /\ \A d \in ToSet(th.todo) : d \in known \/ ~ IsPlace(d)
    /\ th.pc \in Submitting => th.job \in known
    /\ th.pc \in {"sent", "renew"} => th.tries # 0
    /\ th.pc = "sent" => th.via # <<>>

ThreadsSound ==
    /\ thread = [t \in Threads |-> thread[t]]
    /\ \A t \in Threads : ThreadSound(thread[t], Known, sessions)

\* Who does what: a tick is the cycle's, a fill the event queue's, a cancel a
\* sweep's, but for what a start replays. Nothing runs before the start.
RoleSound(t, th, ph) ==
    /\ ph \in Before => th.pc = "rest"
    /\ t = "main" =>
         /\ th.pc \in {"rest", "next", "await", "cycle", "relogin", "tick"} \cup Submitting
         /\ ph = "RECOVERING" => th.pc \in {"next"} \cup Submitting
         /\ ph # "RECOVERING" => /\ th.pc \in Submitting => th.job[1] = "tick"
                                 /\ th.todo = <<>>
    /\ t = "drain" =>
         /\ th.pc \in {"rest", "next"} \cup Submitting
         /\ th.pc \in Submitting => th.job[1] = "fill"
         /\ th.todo = <<>>
         /\ ph # "RUNNING" => th.pc = "rest"
    /\ t \in Sweepers =>
         /\ th.pc \in {"rest", "next", "idle", "read", "relogin"} \cup Submitting
         /\ th.pc \in Submitting => ~ IsPlace(th.job)
         /\ \A d \in ToSet(th.todo) : ~ IsPlace(d)

RolesSound ==
    /\ \A t \in Threads : RoleSound(t, thread[t], phase)
    /\ thread["main"].pc = "tick" => ticks < MaxTicks

\* The orders of the ledger are of recorded decisions, and so are those that may
\* still arrive.
OrdersSound ==
    /\ IsFiniteSet(orders) /\ open \subseteq orders /\ stray \subseteq orders
    /\ \A o \in orders : /\ o = <<o[1], o[2], <<o[2]>>>> /\ o[1] \in 1 .. sessions
                         /\ o[2] \in Known /\ IsPlace(o[2])
    /\ \A r \in late : r = <<r[1], r[2], r[3]>> /\ r[1] \in 1 .. sessions /\ r[2] \in Known

\* A placement under way.
Placing(th) == th.pc = "sent" /\ IsPlace(th.job)

\* The latch: nothing sweeps before it is down, the file of an engagement is
\* believed for life, and a placement that is still under way when the latch
\* comes down keeps a sweep waiting or another one armed.
LatchSound ==
    /\ engagement = 0 => /\ \A i \in Sweepers : thread[i].pc = "rest"
                         /\ ~ armed /\ ~ swept /\ ~ resuming
    /\ phase = "DOWN" => engagement = 0
    /\ phase \in Before => ~ swept /\ ~ armed /\ current = <<>>
    /\ file.by = "runner" => file.at # 0 /\ (phase # "DOWN" => engagement # 0)
    /\ resuming => /\ phase \in {"WAITING", "STARTING", "RECOVERING"}
                   /\ \A t \in Threads : ~ Placing(thread[t])
    /\ engagement # 0 /\ ~ armed /\ (\E t \in Threads : Placing(thread[t])) =>
         /\ ~ swept /\ thread["sweep"].pc = "idle"
         /\ \A i \in Resweeps : thread[i].pc = "rest"

\* A sweep that found nothing leaves nothing, until another one is armed.
SweepSound ==
    swept /\ ~ armed /\ HasSession => \A o \in open : o[1] = Last(current) => o \in stray

\* In a life without a restart each decision is submitted once, and one that was
\* halted before its first request never reached the ledger.
NoRestart == {"crash", "create"} \cap BagToSet(faults) = {}

ChargeSound(th) ==
    th.pc \in Submitting /\ IsPlace(th.job) =>
      /\ th.job \notin unsent
      /\ th.tries = 0 => /\ \A o \in orders : o[2] # th.job
                         /\ \A r \in late : r[2] # th.job

ChargesSound ==
    NoRestart =>
      /\ phase \in Before => decided = <<>>
      /\ phase = "RECOVERING" => thread["main"].pc = "next" /\ thread["main"].todo = <<>>
      /\ \A d \in Known : d[1] = "fill" => d[2] <= cursor
      /\ \A t \in Threads : ChargeSound(thread[t])
      /\ \A o \in orders : o[2] \notin unsent
      /\ \A r \in late : IsPlace(r[2]) => r[2] \notin unsent

RunnerInv ==
    /\ LogSound /\ SessionsSound /\ SwitchSound /\ ThreadsSound /\ RolesSound
    /\ OrdersSound /\ LatchSound /\ SweepSound /\ ChargesSound

(***************************************************************************)
(* Sequences.                                                              *)
(***************************************************************************)
\* A set of naturals has a smallest member.
LEMMA SmallestNat ==
    ASSUME NEW T \in SUBSET Nat, T # {}
    PROVE  \E x \in T : \A y \in T : x <= y
<1>1. PICK x \in T : \A y \in T : ~ (<<y, x>> \in OpToRel(<, Nat))
  BY NatLessThanWellFounded, WFMin
<1>2. ASSUME NEW y \in T PROVE x <= y
  <2>1. ~ (<<y, x>> \in OpToRel(<, Nat))
    BY <1>1
  <2>2. ~ (y < x)
    BY <2>1 DEF OpToRel
  <2> QED
    BY <2>2
<1> QED
  BY <1>2

\* A sequence is one of its members.
LEMMA SeqMembers ==
    ASSUME NEW S, NEW s \in Seq(S)
    PROVE  ToSet(s) \subseteq S /\ s \in Seq(ToSet(s))
<1>1. \A i \in 1 .. Len(s) : s[i] \in S /\ s[i] \in ToSet(s)
  BY DEF ToSet
<1>2. ToSet(s) \subseteq S
  BY <1>1 DEF ToSet
<1> QED
  BY <1>1, <1>2

\* The last member is a member.
LEMMA LastMember ==
    ASSUME NEW S, NEW s \in Seq(S), s # <<>>
    PROVE  Last(s) \in S
BY DEF Last

\* One more member at the end.
LEMMA AppendIs ==
    ASSUME NEW S, NEW s \in Seq(S), NEW x
    PROVE  /\ Append(s, x) \in Seq(S \cup {x}) /\ Append(s, x) # <<>>
           /\ ToSet(Append(s, x)) = ToSet(s) \cup {x} /\ Last(Append(s, x)) = x
<1> DEFINE a == Append(s, x)
<1>1. /\ a \in Seq(S \cup {x}) /\ Len(a) = Len(s) + 1 /\ a[Len(a)] = x
      /\ \A i \in 1 .. Len(s) : a[i] = s[i]
  OBVIOUS
<1>2. DOMAIN a = 1 .. Len(s) + 1 /\ DOMAIN s = 1 .. Len(s) /\ Len(s) \in Nat
  BY <1>1
<1> HIDE DEF a
<1>3. ASSUME NEW y PROVE y \in ToSet(a) <=> y \in ToSet(s) \cup {x}
  <2>1. ASSUME NEW i \in DOMAIN a, a[i] = y PROVE y \in ToSet(s) \cup {x}
    BY <1>1, <1>2, <2>1 DEF ToSet
  <2>2. ASSUME NEW i \in DOMAIN s, s[i] = y PROVE y \in ToSet(a)
    BY <1>1, <1>2, <2>2 DEF ToSet
  <2>3. x \in ToSet(a)
    BY <1>1, <1>2 DEF ToSet
  <2> QED
    BY <2>1, <2>2, <2>3 DEF ToSet
<1>4. a # <<>>
  BY <1>1, <1>2
<1> QED
  BY <1>1, <1>3, <1>4 DEF a, Last

\* The first of a list and what is left of it.
LEMMA ListIs ==
    ASSUME NEW s, s \in Seq(ToSet(s)), s # <<>>
    PROVE  /\ Head(s) \in ToSet(s) /\ Tail(s) \in Seq(ToSet(Tail(s)))
           /\ ToSet(Tail(s)) \subseteq ToSet(s)
<1>1. Head(s) \in ToSet(s) /\ Tail(s) \in Seq(ToSet(s))
  OBVIOUS
<1> DEFINE S == ToSet(s)
           u == Tail(s)
<1> HIDE DEF S, u
<1>2. u \in Seq(S)
  BY <1>1 DEF u, S
<1>3. ToSet(u) \subseteq S /\ u \in Seq(ToSet(u))
  BY <1>2, SeqMembers
<1> QED
  BY <1>1, <1>3 DEF u, S

\* Nothing to do is a list.
LEMMA EmptyList == <<>> \in Seq(ToSet(<<>>)) /\ ToSet(<<>>) = {}
<1>1. ToSet(<<>>) = {}
  BY DEF ToSet
<1> QED
  BY <1>1

\* A sequence of sessions among more sessions.
LEMMA MoreSessions ==
    ASSUME NEW n \in Nat, NEW s \in Seq(1 .. n), NEW m \in Nat, n <= m
    PROVE  s \in Seq(1 .. m)
<1>1. 1 .. n \subseteq 1 .. m
  OBVIOUS
<1>2. Len(s) \in Nat /\ \A i \in 1 .. Len(s) : s[i] \in 1 .. n
  OBVIOUS
<1>3. s = [i \in 1 .. Len(s) |-> s[i]]
  OBVIOUS
<1> QED
  BY <1>1, <1>2, <1>3

\* Every finite set can be listed.
LEMMA SetToSeqIs ==
    ASSUME NEW S, IsFiniteSet(S)
    PROVE  LET s == SetToSeq(S) IN s \in Seq(S) /\ ToSet(s) \subseteq S /\ s \in Seq(ToSet(s))
<1> DEFINE n == Cardinality(S)
           s == SetToSeq(S)
<1>1. n \in Nat /\ \E f : f \in Bijection(1 .. n, S)
  <2>1. n \in Nat /\ ExistsBijection(1 .. n, S)
    BY FS_CardinalityType, Zenon
  <2> QED
    BY <2>1 DEF ExistsBijection
<1>2. \E f \in [1 .. n -> S] : IsInjective(f)
  BY <1>1 DEF Bijection, Injection, Surjection, IsInjective
<1>3. s \in [1 .. n -> S]
  BY <1>2 DEF SetToSeq
<1>4. s \in Seq(S)
  BY <1>1, <1>3
<1> HIDE DEF s
<1> QED
  BY <1>4, SeqMembers DEF s

\* p lists, of every beginning of the log up to k, what has no outcome.
Lists(p, k, log, out) ==
    p = [i \in 0 .. k |-> IF i = 0 THEN <<>>
                          ELSE IF log[i] \in out THEN p[i - 1] ELSE Append(p[i - 1], log[i])]

LEMMA ListsExist ==
    ASSUME NEW log, NEW out, NEW n \in Nat
    PROVE  \E p : Lists(p, n, log, out)
<1> DEFINE T == {k \in 0 .. n : ~ \E p : Lists(p, k, log, out)}
<1> SUFFICES ASSUME T # {} PROVE FALSE
  OBVIOUS
<1>0. T \in SUBSET Nat
  OBVIOUS
<1>1. PICK k \in T : \A y \in T : k <= y
  <2> HIDE DEF T
  <2> QED
    BY <1>0, SmallestNat
<1>2. CASE k = 0
  <2>1. Lists([i \in 0 .. 0 |-> <<>>], 0, log, out)
    BY DEF Lists
  <2> QED
    BY <1>1, <1>2, <2>1
<1>3. CASE k # 0
  <2>1. k - 1 \in 0 .. n /\ k - 1 \notin T
    BY <1>1, <1>3
  <2>2. PICK p : Lists(p, k - 1, log, out)
    BY <2>1
  <2> DEFINE g == [i \in 0 .. k |->
                     IF i = k THEN IF log[k] \in out THEN p[k - 1] ELSE Append(p[k - 1], log[k])
                     ELSE p[i]]
             h == [i \in 0 .. k |->
                     IF i = 0 THEN <<>>
                     ELSE IF log[i] \in out THEN g[i - 1] ELSE Append(g[i - 1], log[i])]
  <2>3. ASSUME NEW i \in 0 .. k PROVE g[i] = h[i]
    <3>1. CASE i = k
      BY <1>3, <3>1
    <3>2. CASE i # k
      <4>1. i \in 0 .. k - 1
        BY <3>2
      <4>2. p[i] = IF i = 0 THEN <<>>
                   ELSE IF log[i] \in out THEN p[i - 1] ELSE Append(p[i - 1], log[i])
        BY <2>2, <4>1 DEF Lists
      <4> QED
        BY <3>2, <4>1, <4>2
    <3> QED
      BY <3>1, <3>2
  <2>4. g = h
    BY <2>3
  <2>5. Lists(g, k, log, out)
    BY <2>4 DEF Lists
  <2> QED
    BY <1>1, <2>5
<1> QED
  BY <1>2, <1>3

LEMMA ListsOfLog ==
    ASSUME NEW S, NEW log \in Seq(S), NEW out, NEW p, Lists(p, Len(log), log, out)
    PROVE  p[Len(log)] \in Seq(S)
<1> DEFINE T == {k \in 0 .. Len(log) : p[k] \notin Seq(S)}
<1> SUFFICES ASSUME T # {} PROVE FALSE
  OBVIOUS
<1>0. T \in SUBSET Nat
  OBVIOUS
<1>1. PICK k \in T : \A y \in T : k <= y
  <2> HIDE DEF T
  <2> QED
    BY <1>0, SmallestNat
<1>2. k \in 0 .. Len(log) /\ p[k] \notin Seq(S) /\ Len(log) \in Nat
  BY <1>1 DEF T
<1>3. p[k] = IF k = 0 THEN <<>>
             ELSE IF log[k] \in out THEN p[k - 1] ELSE Append(p[k - 1], log[k])
  BY <1>2 DEF Lists
<1>4. k # 0
  BY <1>2, <1>3
<1>5. k - 1 \in 0 .. Len(log) /\ k - 1 \notin T
  BY <1>1, <1>2, <1>4, <1>0
<1>6. p[k - 1] \in Seq(S) /\ log[k] \in S
  BY <1>2, <1>4, <1>5 DEF T
<1>7. CASE log[k] \in out
  <2>1. p[k] = p[k - 1]
    BY <1>3, <1>4, <1>7
  <2> QED
    BY <1>2, <1>6, <2>1
<1>8. CASE log[k] \notin out
  <2>1. p[k] = Append(p[k - 1], log[k])
    BY <1>3, <1>4, <1>8
  <2>2. Append(p[k - 1], log[k]) \in Seq(S)
    BY <1>6
  <2> QED
    BY <1>2, <2>1, <2>2
<1> QED
  BY <1>7, <1>8

\* The decisions without an outcome are of the log.
LEMMA PendingIs ==
    ASSUME decided \in Seq(Known)
    PROVE  /\ PendingDecisions \in Seq(Known)
           /\ decided = <<>> => PendingDecisions = <<>>
<1> DEFINE n == Len(decided)
           p == CHOOSE p : Lists(p, n, decided, settled)
<1>1. n \in Nat
  OBVIOUS
<1>2. Lists(p, n, decided, settled)
  <2>1. \E q : Lists(q, n, decided, settled)
    BY <1>1, ListsExist
  <2> HIDE DEF n
  <2> QED
    BY <2>1
<1>3. PendingDecisions = p[n]
  BY DEF PendingDecisions, Lists
<1> HIDE DEF p
<1>4. p[n] \in Seq(Known)
  BY <1>2, ListsOfLog
<1>5. ASSUME decided = <<>> PROVE p[n] = <<>>
  <2>1. n = 0
    BY <1>5
  <2> QED
    BY <1>2, <2>1 DEF Lists
<1> QED
  BY <1>3, <1>4, <1>5

-----------------------------------------------------------------------------
(* Faults, threads and what a step leaves of the invariant.                *)

LEMMA ThreadNames ==
    /\ Threads = {"main", "drain"} \cup Sweepers /\ Sweepers = {"sweep"} \cup Resweeps
    /\ "main" \notin Sweepers /\ "drain" \notin Sweepers /\ "sweep" \notin Resweeps
BY RunnerAssumption DEF Threads, Sweepers

\* Faults are never forgotten.
LEMMA FaultsGrow ==
    ASSUME NEW kind, Fault(kind)
    PROVE  /\ NoRestart' => NoRestart
           /\ kind \in {"crash", "create"} => ~ NoRestart'
<1>1. BagToSet(faults') = BagToSet(faults) \cup {kind}
  <2>1. faults' = faults (+) SetToBag({kind})
    BY DEF Fault
  <2> QED
    BY <2>1 DEF BagToSet, (+), SetToBag
<1> QED
  BY <1>1 DEF NoRestart

LEMMA FaultsSame ==
    ASSUME faults' = faults
    PROVE  NoRestart' <=> NoRestart
BY DEF NoRestart

LEMMA OneThread ==
    ASSUME ThreadsSound, NEW t \in Threads, NEW x, thread' = [thread EXCEPT ![t] = x]
    PROVE  /\ thread' = [u \in Threads |-> thread'[u]] /\ thread'[t] = x
           /\ \A u \in Threads : u # t => thread'[u] = thread[u]
BY DEF ThreadsSound

\* A thread is sound next to a longer log and more sessions.
LEMMA ThreadMono ==
    ASSUME NEW th, NEW k, NEW n \in Nat, ThreadSound(th, k, n),
           NEW l, k \subseteq l, NEW m \in Nat, n <= m
    PROVE  ThreadSound(th, l, m)
<1>1. th.via \in Seq(1 .. n)
  BY DEF ThreadSound
<1>2. th.via \in Seq(1 .. m)
  BY <1>1, MoreSessions
<1> QED
  BY <1>2 DEF ThreadSound

LEMMA ThreadsAfter ==
    ASSUME ThreadsSound, SessionsSound, sessions' \in Nat, sessions <= sessions',
           Known \subseteq Known', thread' = [t \in Threads |-> thread'[t]],
           \A t \in Threads : thread'[t] = thread[t] \/ ThreadSound(thread'[t], Known', sessions')
    PROVE  ThreadsSound'
<1>1. sessions \in Nat
  BY DEF SessionsSound
<1>2. ASSUME NEW t \in Threads PROVE ThreadSound(thread'[t], Known', sessions')
  <2>1. CASE thread'[t] = thread[t]
    <3>1. ThreadSound(thread[t], Known, sessions)
      BY DEF ThreadsSound
    <3>2. ThreadSound(thread[t], Known', sessions')
      BY <1>1, <3>1, ThreadMono
    <3> QED
      BY <2>1, <3>2
  <2> QED
    BY <2>1
<1> QED
  BY <1>2 DEF ThreadsSound

LEMMA RolesAfter ==
    ASSUME RolesSound, phase' = phase \/ (phase \notin Before \cup {"RECOVERING"} /\ phase' = "RUNNING"),
           thread'["main"].pc = "tick" => ticks' < MaxTicks,
           \A t \in Threads : thread'[t] = thread[t] \/ RoleSound(t, thread'[t], phase')
    PROVE  RolesSound'
<1>1. ASSUME NEW t \in Threads PROVE RoleSound(t, thread'[t], phase')
  <2>1. CASE thread'[t] = thread[t]
    <3>1. RoleSound(t, thread[t], phase)
      BY DEF RolesSound
    <3> QED
      BY <2>1, <3>1 DEF RoleSound, Before
  <2> QED
    BY <2>1
<1> QED
  BY <1>1 DEF RolesSound

\* A change of a thread that leaves the latch alone: a sweep that has begun goes
\* on, and a placement is only sent while the latch is up.
Quiet(t, a, b) ==
    /\ t \in Sweepers => engagement # 0 /\ a.pc \notin {"idle", "rest"} /\ ~ Placing(b)
    /\ Placing(b) => Placing(a) \/ engagement = 0

LEMMA LatchAfter ==
    ASSUME LatchSound, UNCHANGED <<engagement, armed, resuming, file>>,
           phase' = phase \/ (phase \notin Before /\ phase' \notin Before /\ ~ resuming),
           swept' => swept, current' = current \/ current' = <<>> \/ phase \notin Before,
           \A t \in Threads : thread'[t] = thread[t] \/ Quiet(t, thread[t], thread'[t])
    PROVE  LatchSound'
<1>1. ASSUME engagement = 0 PROVE \A i \in Sweepers : thread'[i].pc = "rest"
  BY <1>1, ThreadNames DEF LatchSound, Quiet
<1>2. ASSUME NEW t \in Threads, Placing(thread'[t]), engagement # 0 \/ resuming
      PROVE  Placing(thread[t])
  BY <1>2 DEF LatchSound, Quiet
<1>3. ASSUME engagement # 0, ~ armed, NEW t \in Threads, Placing(thread'[t])
      PROVE  /\ ~ swept /\ thread'["sweep"].pc = "idle"
             /\ \A i \in Resweeps : thread'[i].pc = "rest"
  <2>1. Placing(thread[t])
    BY <1>2, <1>3
  <2>2. /\ ~ swept /\ thread["sweep"].pc = "idle"
        /\ \A i \in Resweeps : thread[i].pc = "rest"
    BY <1>3, <2>1 DEF LatchSound
  <2> QED
    BY <2>2, ThreadNames DEF Quiet
<1>4. \A t \in Threads : resuming => ~ Placing(thread'[t])
  BY <1>2 DEF LatchSound
<1>5. ASSUME phase \in Before PROVE ~ swept' /\ ~ armed /\ current' = <<>>
  BY <1>5 DEF LatchSound
<1>6. CASE phase' = phase
  BY <1>1, <1>3, <1>4, <1>5, <1>6 DEF LatchSound, Placing
<1>7. CASE phase \notin Before /\ phase' \notin Before /\ ~ resuming
  BY <1>1, <1>3, <1>4, <1>7 DEF LatchSound, Placing, Before
<1> QED
  BY <1>6, <1>7

\* Nothing of a decision has reached the ledger or may still.
Fresh(d) == (\A o \in orders : o[2] # d) /\ (\A r \in late : r[2] # d)

\* No two threads carry out one placement.
LEMMA JobsDiffer ==
    ASSUME RolesSound, ChargesSound, NoRestart, NEW t \in Threads, NEW u \in Threads, t # u,
           thread[t].pc \in Submitting, thread[u].pc \in Submitting, IsPlace(thread[t].job),
           IsPlace(thread[u].job)
    PROVE  thread[t].job # thread[u].job
<1>1. phase # "RECOVERING" \/ (t # "main" /\ u # "main")
  BY DEF ChargesSound, Submitting
<1>2. t \notin Sweepers /\ u \notin Sweepers
  BY DEF RolesSound, RoleSound
<1>3. RoleSound(t, thread[t], phase) /\ RoleSound(u, thread[u], phase)
  BY DEF RolesSound
<1>4. t = "main" => thread[t].job[1] = "tick"
  BY <1>1, <1>3 DEF RoleSound
<1>5. t = "drain" => thread[t].job[1] = "fill"
  BY <1>3 DEF RoleSound
<1>6. u = "main" => thread[u].job[1] = "tick"
  BY <1>1, <1>3 DEF RoleSound
<1>7. u = "drain" => thread[u].job[1] = "fill"
  BY <1>3 DEF RoleSound
<1> QED
  BY <1>2, <1>4, <1>5, <1>6, <1>7, ThreadNames

LEMMA RestIs ==
    /\ Rest.pc = "rest" /\ Rest.todo = <<>>
    /\ \A k, n : n \in Nat => ThreadSound(Rest, k, n)
<1>1. \A n \in Nat : <<>> \in Seq(1 .. n)
  OBVIOUS
<1>2. 0 \in 0 .. MaxAttempts
  BY RunnerAssumption
<1>3. "rest" \in Places /\ "rest" \notin Submitting
  BY DEF Places, Submitting
<1> QED
  BY <1>1, <1>2, <1>3, EmptyList DEF Rest, ThreadSound

LEMMA RestAs ==
    ASSUME NEW p \in Places \ Submitting, NEW k, NEW n \in Nat
    PROVE  LET x == [Rest EXCEPT !.pc = p]
           IN  x.pc = p /\ x.todo = <<>> /\ ThreadSound(x, k, n)
<1>1. <<>> \in Seq(1 .. n)
  OBVIOUS
<1>2. 0 \in 0 .. MaxAttempts
  BY RunnerAssumption
<1>3. p \notin {"sent", "renew"}
  BY DEF Submitting
<1> QED
  BY <1>1, <1>2, <1>3, EmptyList DEF Rest, ThreadSound

LEMMA ThreadFields ==
    ASSUME NEW th, NEW k, NEW n, ThreadSound(th, k, n)
    PROVE  /\ th = [pc |-> th.pc, job |-> th.job, todo |-> th.todo, tries |-> th.tries,
                    renewed |-> th.renewed, via |-> th.via, passes |-> th.passes]
           /\ th.pc \in Places /\ th.todo \in Seq(ToSet(th.todo)) /\ th.tries \in 0 .. MaxAttempts
           /\ th.renewed \in BOOLEAN /\ th.via \in Seq(1 .. n) /\ th.passes \in Nat
           /\ \A d \in ToSet(th.todo) : d \in k \/ ~ IsPlace(d)
           /\ th.pc \in Submitting => th.job \in k
           /\ th.pc \in {"sent", "renew"} => th.tries # 0
           /\ th.pc = "sent" => th.via # <<>>
BY DEF ThreadSound

LEMMA DoneIs ==
    ASSUME NEW th, NEW k, NEW n \in Nat, ThreadSound(th, k, n)
    PROVE  /\ Done(th).pc = "next" /\ Done(th).todo = th.todo
           /\ ThreadSound(Done(th), k, n)
<1> DEFINE x == Done(th)
<1>0. /\ th = [pc |-> th.pc, job |-> th.job, todo |-> th.todo, tries |-> th.tries,
               renewed |-> th.renewed, via |-> th.via, passes |-> th.passes]
      /\ th.todo \in Seq(ToSet(th.todo)) /\ th.passes \in Nat
      /\ \A d \in ToSet(th.todo) : d \in k \/ ~ IsPlace(d)
  BY ThreadFields
<1>1. x \in [pc : {"next"}, job : {<<>>}, todo : {th.todo}, tries : {0},
             renewed : {FALSE}, via : {<<>>}, passes : {th.passes}]
  BY <1>0 DEF Done
<1>2. "next" \in Places /\ "next" \notin Submitting
  BY DEF Places, Submitting
<1>3. 0 \in 0 .. MaxAttempts /\ <<>> \in Seq(1 .. n)
  BY RunnerAssumption
<1> HIDE DEF x
<1>5. x.pc = "next" /\ x.todo = th.todo /\ ThreadSound(x, k, n)
  BY <1>0, <1>1, <1>2, <1>3 DEF ThreadSound
<1> QED
  BY <1>5 DEF x

LEMMA SubmitIs ==
    ASSUME NEW th, NEW k, NEW n \in Nat, ThreadSound(th, k, n), NEW l, k \subseteq l, NEW d \in l
    PROVE  LET x == Submit(th, d)
           IN  /\ x.pc = "attempt" /\ x.job = d /\ x.todo = th.todo /\ x.tries = 0
               /\ ThreadSound(x, l, n)
<1> DEFINE x == Submit(th, d)
<1>0. /\ th = [pc |-> th.pc, job |-> th.job, todo |-> th.todo, tries |-> th.tries,
               renewed |-> th.renewed, via |-> th.via, passes |-> th.passes]
      /\ th.todo \in Seq(ToSet(th.todo)) /\ th.passes \in Nat
      /\ \A e \in ToSet(th.todo) : e \in k \/ ~ IsPlace(e)
  BY ThreadFields
<1>1. x \in [pc : {"attempt"}, job : {d}, todo : {th.todo}, tries : {0},
             renewed : {FALSE}, via : {<<>>}, passes : {th.passes}]
  BY <1>0 DEF Submit
<1>2. "attempt" \in Places
  BY DEF Places, Submitting
<1>3. 0 \in 0 .. MaxAttempts /\ <<>> \in Seq(1 .. n)
  BY RunnerAssumption
<1> HIDE DEF x
<1>4. \A e \in ToSet(th.todo) : e \in l \/ ~ IsPlace(e)
  BY <1>0
<1>5. /\ x.pc = "attempt" /\ x.job = d /\ x.todo = th.todo /\ x.tries = 0
      /\ ThreadSound(x, l, n)
  BY <1>0, <1>1, <1>2, <1>3, <1>4 DEF ThreadSound
<1> QED
  BY <1>5 DEF x

\* A thread at another await, with the same list.
LEMMA MovedIs ==
    ASSUME NEW th, NEW k, NEW n \in Nat, ThreadSound(th, k, n),
           NEW p \in Places \ Submitting
    PROVE  LET x == [th EXCEPT !.pc = p]
           IN  x.pc = p /\ x.todo = th.todo /\ ThreadSound(x, k, n)
<1> DEFINE x == [th EXCEPT !.pc = p]
<1>0. /\ th = [pc |-> th.pc, job |-> th.job, todo |-> th.todo, tries |-> th.tries,
               renewed |-> th.renewed, via |-> th.via, passes |-> th.passes]
      /\ th.todo \in Seq(ToSet(th.todo)) /\ th.passes \in Nat /\ th.tries \in 0 .. MaxAttempts
      /\ th.renewed \in BOOLEAN /\ th.via \in Seq(1 .. n)
      /\ \A e \in ToSet(th.todo) : e \in k \/ ~ IsPlace(e)
  BY ThreadFields
<1>1. x = [pc |-> p, job |-> th.job, todo |-> th.todo, tries |-> th.tries,
           renewed |-> th.renewed, via |-> th.via, passes |-> th.passes]
  BY <1>0
<1> HIDE DEF x
<1>2. p \in Places /\ p \notin Submitting /\ p \notin {"sent", "renew"}
  BY DEF Submitting
<1>3. x.pc = p /\ x.todo = th.todo /\ ThreadSound(x, k, n)
  BY <1>0, <1>1, <1>2 DEF ThreadSound
<1> QED
  BY <1>3 DEF x

\* What a submission makes of its thread.
LEMMA RoleKept ==
    ASSUME NEW t \in Threads, NEW th, RoleSound(t, th, phase), th.pc \in Submitting,
           NEW x, x.todo = th.todo, x.pc \in Submitting \cup {"next"},
           x.pc \in Submitting => x.job = th.job
    PROVE  RoleSound(t, x, phase)
<1>1. phase \notin Before
  BY DEF RoleSound, Submitting
<1>2. x.pc \notin {"rest", "tick"} /\ "next" \notin Submitting
  BY DEF Submitting
<1>3. CASE t = "main"
  BY <1>1, <1>2, <1>3, ThreadNames DEF RoleSound
<1>4. CASE t = "drain"
  <2>1. phase = "RUNNING"
    BY <1>4 DEF RoleSound, Submitting
  <2> QED
    BY <1>1, <1>2, <1>4, <2>1, ThreadNames DEF RoleSound
<1>5. CASE t \in Sweepers
  BY <1>1, <1>2, <1>5, ThreadNames DEF RoleSound
<1> QED
  BY <1>3, <1>4, <1>5, ThreadNames

LEMMA RoleRests ==
    ASSUME NEW t \in Threads, NEW th, RoleSound(t, th, phase),
           t # "main" \/ phase # "RECOVERING",
           NEW x, x.pc = "rest", x.todo = <<>>
    PROVE  RoleSound(t, x, phase)
BY EmptyList DEF RoleSound, Submitting

-----------------------------------------------------------------------------
(* The ledger.                                                             *)

\* The order a request asks for.
OrderOf(r) == <<r[1], r[2], <<r[2]>>>>

LEMMA LedgerDoesIs ==
    ASSUME NEW r, LedgerDoes(r), open \subseteq orders
    PROVE  /\ orders' = IF IsPlace(r[2]) THEN orders \cup {OrderOf(r)} ELSE orders
           /\ open' \subseteq open \cup (orders' \ orders) /\ open' \subseteq orders'
<1>1. CASE IsPlace(r[2])
  <2>1. LedgerPlaces(r[1], r[2], r[3])
    BY <1>1 DEF LedgerDoes
  <2>2. IF OrderOf(r) \in orders THEN UNCHANGED <<orders, open>>
        ELSE orders' = orders \cup {OrderOf(r)} /\ open' = open \cup {OrderOf(r)}
    BY <2>1, Zenon DEF LedgerPlaces, OrderOf, DeriveIdempotencyKey
  <2> HIDE DEF OrderOf
  <2> QED
    BY <1>1, <2>2
<1>2. CASE ~ IsPlace(r[2])
  <2>1. LedgerCancels(r[1], r[2])
    BY <1>2 DEF LedgerDoes
  <2>2. open' \subseteq open /\ orders' = orders
    BY <2>1 DEF LedgerCancels
  <2> QED
    BY <1>2, <2>2
<1> QED
  BY <1>1, <1>2

\* The order of a request of a session, for a recorded decision.
LEMMA OrderOfIs ==
    ASSUME NEW r, NEW s, r[1] \in s, NEW k, r[2] \in k, IsPlace(r[2])
    PROVE  LET o == OrderOf(r)
           IN  /\ o = <<o[1], o[2], <<o[2]>>>> /\ o[1] = r[1] /\ o[2] = r[2]
               /\ o[1] \in s /\ o[2] \in k /\ IsPlace(o[2])
BY DEF OrderOf

LEMMA OrdersAfter ==
    ASSUME OrdersSound, SessionsSound, sessions' \in Nat, sessions <= sessions',
           Known \subseteq Known',
           NEW r, r[1] \in 1 .. sessions, r[2] \in Known, LedgerDoes(r),
           stray' \subseteq stray \cup (orders' \ orders),
           \A q \in late' : q \in late \/ (q = <<q[1], q[2], q[3]>> /\ q[1] \in 1 .. sessions /\ q[2] \in Known)
    PROVE  OrdersSound'
<1>1. /\ orders' = IF IsPlace(r[2]) THEN orders \cup {OrderOf(r)} ELSE orders
      /\ open' \subseteq orders'
  BY LedgerDoesIs DEF OrdersSound
<1>2. IsFiniteSet(orders')
  BY <1>1, FS_AddElement DEF OrdersSound
<1>3. 1 .. sessions \subseteq 1 .. sessions'
  BY DEF SessionsSound
<1>4. stray' \subseteq orders'
  BY <1>1 DEF OrdersSound
<1>5. ASSUME NEW o \in orders'
      PROVE  /\ o = <<o[1], o[2], <<o[2]>>>> /\ o[1] \in 1 .. sessions'
             /\ o[2] \in Known' /\ IsPlace(o[2])
  <2>1. CASE o \in orders
    BY <1>3, <2>1 DEF OrdersSound
  <2>2. CASE o \notin orders
    <3>1. o = OrderOf(r) /\ IsPlace(r[2])
      BY <1>1, <2>2
    <3> QED
      BY <1>3, <3>1, OrderOfIs
  <2> QED
    BY <2>1, <2>2
<1>6. ASSUME NEW q \in late'
      PROVE  q = <<q[1], q[2], q[3]>> /\ q[1] \in 1 .. sessions' /\ q[2] \in Known'
  BY <1>3 DEF OrdersSound
<1> QED
  BY <1>1, <1>2, <1>4, <1>5, <1>6 DEF OrdersSound

\* The orders next to a longer log and more sessions.
LEMMA OrdersStay ==
    ASSUME OrdersSound, SessionsSound, sessions' \in Nat, sessions <= sessions',
           Known \subseteq Known', UNCHANGED <<orders, stray>>, open' \subseteq open,
           \A q \in late' : q \in late \/ (q = <<q[1], q[2], q[3]>> /\ q[1] \in 1 .. sessions /\ q[2] \in Known)
    PROVE  OrdersSound'
<1>1. 1 .. sessions \subseteq 1 .. sessions'
  BY DEF SessionsSound
<1>2. ASSUME NEW q \in late'
      PROVE  q = <<q[1], q[2], q[3]>> /\ q[1] \in 1 .. sessions' /\ q[2] \in Known'
  BY <1>1 DEF OrdersSound
<1>3. ASSUME NEW o \in orders
      PROVE  /\ o = <<o[1], o[2], <<o[2]>>>> /\ o[1] \in 1 .. sessions'
             /\ o[2] \in Known' /\ IsPlace(o[2])
  BY <1>1 DEF OrdersSound
<1> QED
  BY <1>2, <1>3 DEF OrdersSound

-----------------------------------------------------------------------------
(* The steps that leave the threads alone.                                 *)

\* A placement leaves only while the latch file is not the runner's.
Holds ==
    \A t \in Threads :
        (thread'[t].pc = "sent" /\ thread[t].pc # "sent" /\ IsPlace(thread'[t].job))
            => file.by # "runner"

\* What a step keeps.
Kept == RunnerInv' /\ Holds

LEMMA SweepStays ==
    ASSUME SweepSound, swept' => swept, armed => armed', current' = current \/ current' = <<>>,
           open' \subseteq open, stray \subseteq stray'
    PROVE  SweepSound'
BY DEF SweepSound, HasSession

LEMMA KnownSame ==
    ASSUME decided' = decided
    PROVE  Known' = Known
BY DEF Known

LEMMA LateArrivalKeeps ==
    ASSUME RunnerInv, LateArrival
    PROVE  Kept
<1>1. PICK r \in late :
        /\ late' = late \ {r}
        /\ \/ LedgerDoes(r) /\ stray' = stray \cup (orders' \ orders)
           \/ UNCHANGED <<orders, open, stray>>
  BY DEF LateArrival
<1>2. UNCHANGED <<files, memory, sessions, expired, events, ticks, engagements, faults>>
  BY DEF LateArrival
<1>3. r[1] \in 1 .. sessions /\ r[2] \in Known
  BY DEF RunnerInv, OrdersSound
<1>4. /\ \A o \in orders' : o \in orders \/ (o[2] = r[2] /\ IsPlace(r[2]))
      /\ open' \subseteq open \cup (orders' \ orders)
      /\ stray \cup (orders' \ orders) \subseteq stray'
  <2>1. CASE LedgerDoes(r) /\ stray' = stray \cup (orders' \ orders)
    <3>1. /\ orders' = IF IsPlace(r[2]) THEN orders \cup {OrderOf(r)} ELSE orders
          /\ open' \subseteq open \cup (orders' \ orders)
      BY <2>1, LedgerDoesIs DEF RunnerInv, OrdersSound
    <3>2. OrderOf(r)[2] = r[2]
      BY DEF OrderOf
    <3> QED
      BY <2>1, <3>1, <3>2
  <2>2. CASE UNCHANGED <<orders, open, stray>>
    BY <2>2
  <2> QED
    BY <1>1, <2>1, <2>2
<1>5. LogSound' /\ SessionsSound' /\ SwitchSound' /\ ThreadsSound' /\ RolesSound' /\ LatchSound'
  <2>1. LogSound' /\ SessionsSound' /\ SwitchSound'
    BY <1>2 DEF RunnerInv, LogSound, SessionsSound, SwitchSound, files, memory, Known
  <2>2. ThreadsSound' /\ RolesSound'
    BY <1>2 DEF RunnerInv, ThreadsSound, RolesSound, files, memory, Known
  <2>3. LatchSound'
    BY <1>2 DEF RunnerInv, LatchSound, files, memory, Placing
  <2> QED
    BY <2>1, <2>2, <2>3
<1>6. OrdersSound'
  <2>1. sessions' = sessions /\ sessions \in Nat /\ Known' = Known
    BY <1>2, KnownSame DEF RunnerInv, SessionsSound, files
  <2>2. CASE LedgerDoes(r) /\ stray' = stray \cup (orders' \ orders)
    BY <1>1, <1>3, <2>1, <2>2, OrdersAfter DEF RunnerInv
  <2>3. CASE UNCHANGED <<orders, open, stray>>
    BY <1>1, <2>1, <2>3, OrdersStay DEF RunnerInv
  <2> QED
    BY <1>1, <2>2, <2>3
<1>7. SweepSound'
  BY <1>2, <1>4 DEF RunnerInv, SweepSound, memory, HasSession
<1>8. ChargesSound'
  <2> SUFFICES ASSUME NoRestart' PROVE ChargesSound'
    BY DEF ChargesSound
  <2>1. NoRestart
    BY <1>2, FaultsSame
  <2>2. IsPlace(r[2]) => r[2] \notin unsent
    BY <2>1 DEF RunnerInv, ChargesSound
  <2>3. ASSUME NEW t \in Threads PROVE ChargeSound(thread[t])'
    <3>1. ChargeSound(thread[t]) /\ thread'[t] = thread[t]
      BY <1>2, <2>1 DEF RunnerInv, ChargesSound, memory
    <3> QED
      BY <1>1, <1>2, <1>4, <3>1 DEF ChargeSound, files
  <2>4. (\A o \in orders' : o[2] \notin unsent) /\ \A q \in late' : IsPlace(q[2]) => q[2] \notin unsent
    BY <1>1, <1>4, <2>1, <2>2 DEF RunnerInv, ChargesSound
  <2> QED
    BY <1>2, <2>1, <2>3, <2>4 DEF RunnerInv, ChargesSound, files, memory, Known
<1>9. Holds
  BY <1>2 DEF Holds, memory
<1> QED
  BY <1>5, <1>6, <1>7, <1>8, <1>9 DEF Kept, RunnerInv

LEMMA OrderFillsKeeps ==
    ASSUME RunnerInv, OrderFills
    PROVE  Kept
<1>1. /\ events < MaxEvents /\ events' = events + 1 /\ open' \subseteq open
      /\ UNCHANGED <<files, memory, sessions, expired, orders, late, stray, ticks,
                     engagements, faults>>
  BY DEF OrderFills
<1>2. LogSound' /\ SessionsSound' /\ SwitchSound'
  <2>1. MaxEvents \in Nat
    BY RunnerAssumption
  <2>2. LogSound'
    BY <1>1, <2>1 DEF RunnerInv, LogSound, files, Known
  <2> QED
    BY <1>1, <2>2 DEF RunnerInv, SessionsSound, SwitchSound, files, memory
<1>3. ThreadsSound' /\ RolesSound' /\ LatchSound'
  BY <1>1 DEF RunnerInv, ThreadsSound, RolesSound, LatchSound, files, memory, Known, Placing
<1>4. OrdersSound' /\ SweepSound'
  BY <1>1 DEF RunnerInv, OrdersSound, SweepSound, files, memory, Known, HasSession
<1>5. ChargesSound'
  BY <1>1 DEF RunnerInv, ChargesSound, ChargeSound, NoRestart, files, memory, Known
<1>6. Holds
  BY <1>1 DEF Holds, memory
<1> QED
  BY <1>2, <1>3, <1>4, <1>5, <1>6 DEF Kept, RunnerInv

LEMMA SessionExpiresKeeps ==
    ASSUME RunnerInv, SessionExpires
    PROVE  Kept
<1>1. /\ sessions > 0 /\ expired' = expired \cup {sessions} /\ Fault("expiry")
      /\ UNCHANGED <<files, memory, sessions, orders, open, late, stray, events,
                     ticks, engagements>>
  BY DEF SessionExpires
<1>2. LogSound' /\ SessionsSound' /\ SwitchSound'
  BY <1>1 DEF RunnerInv, LogSound, SessionsSound, SwitchSound, files, memory, Known
<1>3. ThreadsSound' /\ RolesSound' /\ LatchSound'
  BY <1>1 DEF RunnerInv, ThreadsSound, RolesSound, LatchSound, files, memory, Known, Placing
<1>4. OrdersSound' /\ SweepSound'
  BY <1>1 DEF RunnerInv, OrdersSound, SweepSound, files, memory, Known, HasSession
<1>5. ChargesSound'
  <2>1. NoRestart' => NoRestart
    BY <1>1, FaultsGrow
  <2> QED
    BY <1>1, <2>1 DEF RunnerInv, ChargesSound, ChargeSound, files, memory, Known
<1>6. Holds
  BY <1>1 DEF Holds, memory
<1> QED
  BY <1>2, <1>3, <1>4, <1>5, <1>6 DEF Kept, RunnerInv

\* The latch file in other hands.
LEMMA FileChangeKeeps ==
    ASSUME RunnerInv, NEW kind, Fault(kind),
           file' \in [by : {"nobody", "operator"}, at : {0}],
           UNCHANGED <<decided, settled, unsent, cursor, cell, memory, ledger, ticks, engagements>>
    PROVE  Kept
<1>1. LogSound' /\ SessionsSound'
  BY DEF RunnerInv, LogSound, SessionsSound, memory, ledger, Known
<1>2. SwitchSound'
  BY DEF RunnerInv, SwitchSound, memory
<1>3. ThreadsSound' /\ RolesSound'
  BY DEF RunnerInv, ThreadsSound, RolesSound, memory, ledger, Known
<1>4. LatchSound'
  BY DEF RunnerInv, LatchSound, memory, Placing
<1>5. OrdersSound' /\ SweepSound'
  BY DEF RunnerInv, OrdersSound, SweepSound, memory, ledger, Known, HasSession
<1>6. ChargesSound'
  <2>1. NoRestart' => NoRestart
    BY FaultsGrow
  <2> QED
    BY <2>1 DEF RunnerInv, ChargesSound, ChargeSound, memory, ledger, Known
<1>7. Holds
  BY DEF Holds, memory
<1> QED
  BY <1>1, <1>2, <1>3, <1>4, <1>5, <1>6, <1>7 DEF Kept, RunnerInv

LEMMA OperatorKeeps ==
    ASSUME RunnerInv, OperatorWrites \/ OperatorClears
    PROVE  Kept
<1>1. CASE OperatorWrites
  BY <1>1, FileChangeKeeps DEF OperatorWrites
<1>2. CASE OperatorClears
  BY <1>2, FileChangeKeeps DEF OperatorClears
<1> QED
  BY <1>1, <1>2

-----------------------------------------------------------------------------
(* A start and its end.                                                    *)

LEMMA BootKeeps ==
    ASSUME RunnerInv, Boot
    PROVE  Kept
<1>1. /\ phase = "DOWN" /\ phase' = "WAITING"
      /\ engagements' = IF file.by = "operator" THEN engagements + 1 ELSE engagements
      /\ engagement' = CASE file.by = "nobody" -> 0 [] file.by = "runner" -> file.at
                         [] file.by = "operator" -> engagements'
      /\ persisted' = (file.by = "runner") /\ resuming' = (file.by # "nobody")
      /\ UNCHANGED <<files, current, failures, thread, armed, swept, ledger, ticks, faults>>
  BY DEF Boot
<1>2. /\ file.by \in {"nobody", "operator", "runner"} /\ file.at \in 0 .. engagements
      /\ engagements \in Nat
  BY DEF RunnerInv, SwitchSound
<1>3. LogSound' /\ SessionsSound' /\ ThreadsSound' /\ OrdersSound' /\ SweepSound'
  BY <1>1 DEF RunnerInv, LogSound, SessionsSound, ThreadsSound, OrdersSound, SweepSound, files,
              ledger, Known, HasSession
<1>4. SwitchSound'
  <2>1. /\ engagements' \in Nat /\ engagements <= engagements'
        /\ engagement' \in 0 .. engagements'
    BY <1>1, <1>2
  <2>2. file \in [by : {"nobody", "operator", "runner"}, at : 0 .. engagements']
    BY <1>2, <2>1 DEF RunnerInv, SwitchSound
  <2>3. persisted' \in BOOLEAN /\ resuming' \in BOOLEAN
    BY <1>1
  <2> QED
    BY <1>1, <2>1, <2>2, <2>3 DEF RunnerInv, SwitchSound, files, Phases
<1>5. \A t \in Threads : thread[t].pc = "rest" /\ thread'[t] = thread[t]
  BY <1>1 DEF RunnerInv, RolesSound, RoleSound, Before
<1>6. RolesSound'
  BY <1>1, <1>5 DEF RunnerInv, RolesSound, RoleSound, Before
<1>7. LatchSound'
  <2>1. ~ armed /\ ~ swept /\ current = <<>>
    BY <1>1 DEF RunnerInv, LatchSound, Before
  <2>2. engagement' = 0 => file.by = "nobody" \/ (file.by = "runner" /\ file.at = 0)
    BY <1>1, <1>2
  <2>3. file.by = "runner" => file.at # 0 /\ engagement' = file.at
    BY <1>1, <1>2 DEF RunnerInv, LatchSound
  <2>4. engagement' = 0 => ~ resuming'
    BY <1>1, <2>2, <2>3
  <2>5. \A t \in Threads : ~ Placing(thread[t])
    BY <1>5 DEF Placing
  <2> QED
    BY <1>1, <1>5, <2>1, <2>3, <2>4, <2>5, ThreadNames DEF LatchSound, files, Before, Placing
<1>8. ChargesSound'
  BY <1>1, <1>5, FaultsSame DEF RunnerInv, ChargesSound, ChargeSound, files, ledger, Known, Before
<1>9. Holds
  BY <1>1 DEF Holds
<1> QED
  BY <1>3, <1>4, <1>6, <1>7, <1>8, <1>9 DEF Kept, RunnerInv

LEMMA AwaitServingKeeps ==
    ASSUME RunnerInv, AwaitServing
    PROVE  Kept
<1>1. /\ phase = "WAITING" /\ phase' = "STARTING"
      /\ UNCHANGED <<files, current, engagement, persisted, resuming, failures, thread,
                     armed, swept, world>>
  BY DEF AwaitServing
<1>2. LogSound' /\ SessionsSound' /\ SwitchSound' /\ ThreadsSound' /\ OrdersSound' /\ SweepSound'
  <2>1. LogSound' /\ SessionsSound' /\ ThreadsSound' /\ OrdersSound' /\ SweepSound'
    BY <1>1 DEF RunnerInv, LogSound, SessionsSound, ThreadsSound, OrdersSound, SweepSound, files,
                world, ledger, Known, HasSession
  <2>2. SwitchSound'
    BY <1>1 DEF RunnerInv, SwitchSound, files, world, Phases
  <2> QED
    BY <2>1, <2>2
<1>3. \A t \in Threads : thread[t].pc = "rest" /\ thread'[t] = thread[t]
  BY <1>1 DEF RunnerInv, RolesSound, RoleSound, Before
<1>4. RolesSound'
  BY <1>1, <1>3 DEF RunnerInv, RolesSound, RoleSound, Before, world
<1>5. LatchSound'
  BY <1>1 DEF RunnerInv, LatchSound, files, Before, Placing
<1>6. ChargesSound'
  BY <1>1, FaultsSame DEF RunnerInv, ChargesSound, ChargeSound, files, world, ledger, Known, Before
<1>7. Holds
  BY <1>1 DEF Holds
<1> QED
  BY <1>2, <1>4, <1>5, <1>6, <1>7 DEF Kept, RunnerInv

\* The request of a thread that has one under way.
LEMMA RequestIs ==
    ASSUME NEW th, NEW k, NEW n, ThreadSound(th, k, n), th.pc = "sent"
    PROVE  LET r == Request(th)
           IN  /\ r = <<r[1], r[2], r[3]>> /\ r[2] = th.job
               /\ r[1] \in 1 .. n /\ r[1] = Last(th.via) /\ r[2] \in k
<1>1. th.via \in Seq(1 .. n) /\ th.via # <<>> /\ th.job \in k
  BY ThreadFields DEF Submitting
<1>2. Last(th.via) \in 1 .. n
  BY <1>1, LastMember
<1> DEFINE l == Last(th.via)
<1> HIDE DEF l
<1>3. Request(th) = <<l, th.job, th.tries>>
  BY DEF Request, l
<1> QED
  BY <1>1, <1>2, <1>3 DEF l

LEMMA DiesKeeps ==
    ASSUME RunnerInv, Dies, ~ NoRestart', LogSound', Known \subseteq Known', UNCHANGED <<cell, file>>
    PROVE  Kept
<1>1. /\ phase' = "DOWN" /\ current' = <<>> /\ engagement' = 0
      /\ persisted' = FALSE /\ resuming' = FALSE /\ armed' = FALSE /\ swept' = FALSE
      /\ thread' = [t \in Threads |-> Rest]
      /\ late' = late \cup {Request(thread[t]) : t \in {u \in Threads : thread[u].pc = "sent"}}
      /\ UNCHANGED <<sessions, expired, orders, open, stray, events, ticks, engagements>>
  BY DEF Dies
<1>2. sessions \in Nat
  BY DEF RunnerInv, SessionsSound
<1>3. \A t \in Threads : thread'[t] = Rest
  BY <1>1
<1>4. SessionsSound' /\ SwitchSound'
  <2>1. <<>> \in Seq(1 .. sessions)
    OBVIOUS
  <2>2. SessionsSound'
    BY <1>1, <2>1 DEF RunnerInv, SessionsSound
  <2>3. engagements \in Nat /\ 0 \in 0 .. engagements
    BY DEF RunnerInv, SwitchSound
  <2>4. SwitchSound'
    BY <1>1, <2>3 DEF RunnerInv, SwitchSound, Phases
  <2> QED
    BY <2>2, <2>4
<1>5. ThreadsSound'
  BY <1>1, <1>2, <1>3, RestIs DEF ThreadsSound
<1>6. RolesSound'
  <2>1. \A t \in Threads : RoleSound(t, Rest, "DOWN")
    BY RestIs, EmptyList DEF RoleSound, Submitting
  <2> QED
    BY <1>1, <1>3, <2>1, RestIs, ThreadNames DEF RolesSound
<1>7. OrdersSound'
  <2>1. ASSUME NEW q \in late', q \notin late
        PROVE  q = <<q[1], q[2], q[3]>> /\ q[1] \in 1 .. sessions /\ q[2] \in Known
    <3>1. PICK t \in Threads : thread[t].pc = "sent" /\ q = Request(thread[t])
      BY <1>1, <2>1
    <3>2. ThreadSound(thread[t], Known, sessions)
      BY DEF RunnerInv, ThreadsSound
    <3> QED
      BY <3>1, <3>2, RequestIs
  <2> QED
    BY <1>1, <1>2, <2>1, OrdersStay DEF RunnerInv
<1>8. LatchSound'
  BY <1>1, <1>3, RestIs, ThreadNames DEF RunnerInv, LatchSound, Placing
<1>9. SweepSound' /\ ChargesSound'
  BY <1>1 DEF SweepSound, ChargesSound
<1>10. Holds
  BY <1>3, RestIs DEF Holds
<1> QED
  BY <1>4, <1>5, <1>6, <1>7, <1>8, <1>9, <1>10 DEF Kept, RunnerInv

LEMMA CrashKeeps ==
    ASSUME RunnerInv, Crash \/ EstablishFails
    PROVE  Kept
<1>1. Dies /\ UNCHANGED files /\ \E k \in {"crash", "create"} : Fault(k)
  BY DEF Crash, EstablishFails
<1>2. ~ NoRestart'
  BY <1>1, FaultsGrow
<1>3. LogSound' /\ Known' = Known
  BY <1>1 DEF RunnerInv, LogSound, files, Dies, Known
<1> QED
  BY <1>1, <1>2, <1>3, DiesKeeps DEF files

\* A decision in the log, once.
LEMMA RecordedIs ==
    ASSUME LogSound, NEW d, decided' = Recorded(d)
    PROVE  /\ Known' = Known \cup {d} /\ decided' \in Seq(Known')
           /\ \A i, j \in 1 .. Len(decided') : decided'[i] = decided'[j] => i = j
<1>1. decided \in Seq(Known) /\ \A i, j \in 1 .. Len(decided) : decided[i] = decided[j] => i = j
  BY DEF LogSound
<1>2. CASE d \in Known
  <2>1. decided' = decided
    BY <1>2 DEF Recorded
  <2> QED
    BY <1>1, <1>2, <2>1, KnownSame
<1>3. CASE d \notin Known
  <2>1. decided' = Append(decided, d)
    BY <1>3 DEF Recorded
  <2>2. Known' = Known \cup {d} /\ decided' \in Seq(Known \cup {d})
    <3>1. /\ Append(decided, d) \in Seq(Known \cup {d})
          /\ ToSet(Append(decided, d)) = ToSet(decided) \cup {d}
      BY <1>1, AppendIs
    <3> QED
      BY <2>1, <3>1 DEF Known
  <2>3. /\ Len(decided') = Len(decided) + 1 /\ decided'[Len(decided')] = d
        /\ \A i \in 1 .. Len(decided) : decided'[i] = decided[i] /\ decided[i] \in Known
        /\ Len(decided) \in Nat
    BY <1>1, <2>1
  <2>4. ASSUME NEW i \in 1 .. Len(decided'), NEW j \in 1 .. Len(decided'), decided'[i] = decided'[j]
        PROVE  i = j
    BY <1>1, <1>3, <2>3, <2>4
  <2> QED
    BY <2>2, <2>4
<1> QED
  BY <1>2, <1>3

\* The log, with a decision that is well formed.
LEMMA LogGrows ==
    ASSUME LogSound, NEW d, decided' = Recorded(d),
           UNCHANGED <<settled, unsent, events>>, cursor' \in cursor .. events,
           ticks' \in ticks .. MaxTicks,
           d[1] = "tick" => d = TickDecision(d[2]) /\ d[2] \in 1 .. ticks',
           d[1] = "fill" => d = FillDecisionId(d[2]) /\ d[2] \in 1 .. cursor' + 1
    PROVE  LogSound'
<1>1. /\ Known' = Known \cup {d} /\ decided' \in Seq(Known')
      /\ \A i, j \in 1 .. Len(decided') : decided'[i] = decided'[j] => i = j
  BY RecordedIs
<1>2. /\ events \in 0 .. MaxEvents /\ cursor \in 0 .. events /\ ticks \in 0 .. MaxTicks
      /\ settled \subseteq Known /\ unsent \subseteq settled
  BY DEF LogSound
<1>3. MaxEvents \in Nat /\ MaxTicks \in Nat
  BY RunnerAssumption
<1>4. cursor' \in 0 .. events /\ cursor <= cursor' /\ ticks <= ticks' /\ ticks' \in 0 .. MaxTicks
  BY <1>2, <1>3
<1>5. ASSUME NEW e \in Known'
      PROVE  /\ e[1] = "tick" => e = TickDecision(e[2]) /\ e[2] \in 1 .. ticks'
             /\ e[1] = "fill" => e = FillDecisionId(e[2]) /\ e[2] \in 1 .. cursor' + 1
  <2>1. CASE e \in Known
    <3>1. /\ e[1] = "tick" => e = TickDecision(e[2]) /\ e[2] \in 1 .. ticks
          /\ e[1] = "fill" => e = FillDecisionId(e[2]) /\ e[2] \in 1 .. cursor + 1
      BY <2>1 DEF LogSound
    <3> QED
      BY <1>2, <1>3, <1>4, <3>1
  <2>2. CASE e = d
    BY <2>2
  <2> QED
    BY <1>1, <2>1, <2>2
<1> QED
  BY <1>1, <1>2, <1>4, <1>5 DEF LogSound

\* The decision of a fill event.
LEMMA FillDecisionIs ==
    ASSUME NEW e
    PROVE  /\ FillDecisionId(e)[1] = "fill" /\ FillDecisionId(e)[2] = e /\ IsPlace(FillDecisionId(e))
           /\ TickDecision(e)[1] = "tick" /\ TickDecision(e)[2] = e /\ IsPlace(TickDecision(e))
BY DEF FillDecisionId, TickDecision, IsPlace

LEMMA DieInFillKeeps ==
    ASSUME RunnerInv, DieInFill
    PROVE  Kept
<1> DEFINE d == FillDecisionId(cursor + 1)
<1>1. /\ Fault("crash") /\ Dies /\ cursor < events
      /\ decided' = Recorded(d) /\ UNCHANGED <<settled, unsent, cursor, cell, file>>
  BY DEF DieInFill
<1>2. events' = events /\ ticks' = ticks /\ ~ NoRestart'
  BY <1>1, FaultsGrow DEF Dies
<1>3. d[1] = "fill" /\ d[2] = cursor + 1 /\ d = FillDecisionId(d[2])
  BY FillDecisionIs
<1> HIDE DEF d
<1>4. LogSound'
  <2>1. /\ events \in Nat /\ cursor \in 0 .. events /\ ticks \in 0 .. MaxTicks /\ MaxTicks \in Nat
    BY RunnerAssumption DEF RunnerInv, LogSound
  <2>2. cursor' \in cursor .. events /\ ticks' \in ticks .. MaxTicks /\ d[2] \in 1 .. cursor' + 1
    BY <1>1, <1>2, <1>3, <2>1
  <2> QED
    BY <1>1, <1>2, <1>3, <2>2, LogGrows DEF RunnerInv
<1>5. Known \subseteq Known'
  BY <1>1, RecordedIs DEF RunnerInv
<1> QED
  BY <1>1, <1>2, <1>4, <1>5, DiesKeeps

LEMMA EstablishKeeps ==
    ASSUME RunnerInv, Establish
    PROVE  Kept
<1>1. /\ phase = "STARTING" /\ phase' = "RECOVERING"
      /\ thread' = [thread EXCEPT !["main"].pc = "next", !["main"].todo = PendingDecisions]
      /\ UNCHANGED <<decided, settled, unsent, cursor, file, engagement, persisted,
                     resuming, failures, armed, swept, expired, orders, open, late, stray,
                     events, ticks, engagements, faults>>
      /\ \/ cell' = cell /\ sessions' = sessions
         \/ sessions' = sessions + 1 /\ cell' = Append(cell, sessions')
      /\ current' = cell'
  BY DEF Establish
<1>2. \A t \in Threads : thread[t].pc = "rest"
  BY <1>1 DEF RunnerInv, RolesSound, RoleSound, Before
<1>3. sessions \in Nat /\ sessions' \in Nat /\ sessions <= sessions' /\ cell' \in Seq(1 .. sessions')
  <2>1. sessions \in Nat /\ cell \in Seq(1 .. sessions)
    BY DEF RunnerInv, SessionsSound
  <2>2. CASE cell' = cell /\ sessions' = sessions
    BY <2>1, <2>2
  <2>3. CASE sessions' = sessions + 1 /\ cell' = Append(cell, sessions')
    <3>1. cell \in Seq(1 .. sessions')
      BY <2>1, <2>3, MoreSessions
    <3>2. sessions' \in 1 .. sessions'
      BY <2>1, <2>3
    <3> QED
      BY <2>1, <2>3, <3>1, <3>2
  <2> QED
    BY <1>1, <2>2, <2>3
<1>4. SessionsSound'
  <2>1. 1 .. sessions \subseteq 1 .. sessions'
    BY <1>3
  <2> QED
    BY <1>1, <1>3, <2>1 DEF RunnerInv, SessionsSound
<1>5. Known' = Known /\ LogSound' /\ SwitchSound'
  BY <1>1 DEF RunnerInv, LogSound, SwitchSound, Known, Phases
<1> DEFINE x == thread'["main"]
           list == PendingDecisions
<1>6. /\ thread' = [t \in Threads |-> thread'[t]]
      /\ \A t \in Threads : t # "main" => thread'[t] = thread[t]
      /\ x = [thread["main"] EXCEPT !.pc = "next", !.todo = list]
  BY <1>1, ThreadNames DEF RunnerInv, ThreadsSound
<1>7. /\ list \in Seq(ToSet(list)) /\ ToSet(list) \subseteq Known
      /\ decided = <<>> => list = <<>>
  <2>1. list \in Seq(Known) /\ (decided = <<>> => list = <<>>)
    BY PendingIs DEF RunnerInv, LogSound
  <2> HIDE DEF list
  <2> QED
    BY <2>1, SeqMembers
<1> HIDE DEF list
<1>8. x.pc = "next" /\ x.todo = list /\ ThreadSound(x, Known, sessions)
  <2> DEFINE th == thread["main"]
  <2>1. ThreadSound(th, Known, sessions)
    BY ThreadNames DEF RunnerInv, ThreadsSound
  <2>2. /\ th \in [pc : {th.pc}, job : {th.job}, todo : {th.todo}, tries : {th.tries},
                   renewed : {th.renewed}, via : {th.via}, passes : {th.passes}]
        /\ th.tries \in 0 .. MaxAttempts
        /\ th.renewed \in BOOLEAN /\ th.via \in Seq(1 .. sessions) /\ th.passes \in Nat
    BY <2>1 DEF ThreadSound
  <2>3. x = [th EXCEPT !.pc = "next", !.todo = list]
    BY <1>6
  <2> HIDE DEF th, x
  <2>4. x \in [pc : {"next"}, job : {th.job}, todo : {list}, tries : {th.tries},
               renewed : {th.renewed}, via : {th.via}, passes : {th.passes}]
    BY <2>2, <2>3
  <2>5. "next" \in Places /\ "next" \notin Submitting
    BY DEF Places, Submitting
  <2> QED
    BY <1>7, <2>2, <2>4, <2>5 DEF ThreadSound
<1>9. ThreadsSound'
  <2>1. ThreadSound(x, Known', sessions')
    BY <1>3, <1>5, <1>8, ThreadMono
  <2>2. \A t \in Threads : thread'[t] = thread[t] \/ ThreadSound(thread'[t], Known', sessions')
    BY <1>6, <2>1
  <2> QED
    BY <1>3, <1>5, <1>6, <2>2, ThreadsAfter DEF RunnerInv
<1>10. RolesSound'
  <2>1. RoleSound("main", x, "RECOVERING")
    BY <1>8, ThreadNames DEF RoleSound, Submitting, Before
  <2>2. \A t \in Threads : t # "main" => RoleSound(t, thread[t], "RECOVERING")
    BY <1>2, ThreadNames DEF RunnerInv, RolesSound, RoleSound, Before, Submitting
  <2>3. \A t \in Threads : RoleSound(t, thread'[t], "RECOVERING")
    BY <1>6, <2>1, <2>2
  <2> QED
    BY <1>1, <1>8, <2>3 DEF RolesSound
<1>11. \A t \in Threads : ~ Placing(thread'[t])
  BY <1>2, <1>6, <1>8 DEF Placing
<1>12. LatchSound'
  <2>1. \A i \in Sweepers : thread'[i] = thread[i]
    BY <1>6, ThreadNames
  <2> QED
    BY <1>1, <1>11, <2>1 DEF RunnerInv, LatchSound, Placing, Before
<1>13. OrdersSound'
  BY <1>1, <1>3, <1>5, OrdersStay DEF RunnerInv
<1>14. SweepSound'
  BY <1>1 DEF RunnerInv, LatchSound, SweepSound, Before
<1>15. ChargesSound'
  <2> SUFFICES ASSUME NoRestart' PROVE ChargesSound'
    BY DEF ChargesSound
  <2>1. NoRestart
    BY <1>1, FaultsSame
  <2>2. decided = <<>>
    BY <1>1, <2>1 DEF RunnerInv, ChargesSound, Before
  <2>3. \A t \in Threads : ChargeSound(thread[t])'
    <3>1. \A t \in Threads : thread'[t].pc \notin Submitting
      BY <1>2, <1>6, <1>8 DEF Submitting
    <3> QED
      BY <3>1 DEF ChargeSound
  <2>4. x.todo = <<>>
    BY <1>7, <1>8, <2>2
  <2> QED
    BY <1>1, <1>5, <1>8, <2>1, <2>3, <2>4 DEF RunnerInv, ChargesSound, Before
<1>16. Holds
  BY <1>6, <1>8 DEF Holds
<1> QED
  BY <1>4, <1>5, <1>9, <1>10, <1>12, <1>13, <1>14, <1>15, <1>16 DEF Kept, RunnerInv

\* A write of the latch file that may fail.
LEMMA PersistIs ==
    ASSUME RunnerInv, Persist, engagement # 0
    PROVE  /\ persisted' \in BOOLEAN
           /\ file' = file \/ (file'.by = "runner" /\ file'.at # 0)
           /\ file' \in [by : {"nobody", "operator", "runner"}, at : 0 .. engagements]
<1>1. /\ persisted \in BOOLEAN /\ engagement \in 0 .. engagements
      /\ file \in [by : {"nobody", "operator", "runner"}, at : 0 .. engagements]
  BY DEF RunnerInv, SwitchSound
<1>2. /\ persisted' \in {persisted, TRUE}
      /\ file' = file \/ file' = [by |-> "runner", at |-> engagement]
  BY DEF Persist
<1>3. persisted' \in BOOLEAN
  BY <1>1, <1>2
<1>4. CASE file' = [by |-> "runner", at |-> engagement]
  BY <1>1, <1>3, <1>4
<1> QED
  BY <1>1, <1>2, <1>3, <1>4

LEMMA CyclePersistsKeeps ==
    ASSUME RunnerInv, CyclePersists
    PROVE  Kept
<1>1. /\ phase = "RUNNING" /\ engagement # 0 /\ Persist
      /\ UNCHANGED <<decided, settled, unsent, cursor, cell, phase, current, engagement,
                     resuming, failures, thread, armed, swept, world>>
  BY DEF CyclePersists, Idle
<1>2. /\ persisted' \in BOOLEAN
      /\ file' = file \/ (file'.by = "runner" /\ file'.at # 0)
      /\ file' \in [by : {"nobody", "operator", "runner"}, at : 0 .. engagements]
  BY <1>1, PersistIs
<1>3. LogSound' /\ SessionsSound' /\ ThreadsSound' /\ RolesSound'
  BY <1>1 DEF RunnerInv, LogSound, SessionsSound, ThreadsSound, RolesSound, world, ledger, Known
<1>4. SwitchSound'
  BY <1>1, <1>2 DEF RunnerInv, SwitchSound, world
<1>5. LatchSound'
  BY <1>1, <1>2 DEF RunnerInv, LatchSound, Placing
<1>6. OrdersSound' /\ SweepSound'
  BY <1>1 DEF RunnerInv, OrdersSound, SweepSound, world, ledger, Known, HasSession
<1>7. ChargesSound'
  BY <1>1, FaultsSame DEF RunnerInv, ChargesSound, ChargeSound, world, ledger, Known
<1>8. Holds
  BY <1>1 DEF Holds
<1> QED
  BY <1>3, <1>4, <1>5, <1>6, <1>7, <1>8 DEF Kept, RunnerInv

\* A thread that comes to rest.
LEMMA RestingIs ==
    ASSUME RunnerInv
    PROVE  ThreadSound(Rest, Known, sessions)
BY RestIs DEF RunnerInv, SessionsSound

LEMMA ResumeKeeps ==
    ASSUME RunnerInv, Resume
    PROVE  Kept
<1>1. /\ phase = "RECOVERING" /\ thread["main"].pc = "next" /\ thread["main"].todo = <<>>
      /\ resuming' = FALSE
      /\ UNCHANGED <<decided, settled, unsent, cursor, cell, current, engagement,
                     failures, armed, world>>
  BY DEF Resume
<1>2. \/ /\ ~ resuming /\ phase' = "RUNNING"
         /\ thread' = [thread EXCEPT !["main"] = Rest]
         /\ UNCHANGED <<file, persisted, swept>>
      \/ /\ resuming /\ phase' = "RESUMING"
         /\ thread' = [thread EXCEPT !["main"] = [Rest EXCEPT !.pc = "await"],
                                     !["sweep"] = [Rest EXCEPT !.pc = "idle"]]
         /\ Persist /\ swept' = FALSE
  BY DEF Resume
<1> DEFINE a == [Rest EXCEPT !.pc = "await"]
           i == [Rest EXCEPT !.pc = "idle"]
<1>3. sessions \in Nat /\ thread = [t \in Threads |-> thread[t]]
  BY DEF RunnerInv, SessionsSound, ThreadsSound
<1>4. /\ a.pc = "await" /\ a.todo = <<>> /\ ThreadSound(a, Known, sessions)
      /\ i.pc = "idle" /\ i.todo = <<>> /\ ThreadSound(i, Known, sessions)
  <2>1. {"await", "idle"} \subseteq Places \ Submitting
    BY DEF Places, Submitting
  <2> QED
    BY <1>3, <2>1, RestAs
<1> HIDE DEF a, i
<1>5. /\ thread' = [t \in Threads |-> thread'[t]]
      /\ thread'["main"] = Rest \/ thread'["main"] = a
      /\ thread'["sweep"] = thread["sweep"] \/ (thread'["sweep"] = i /\ resuming)
      /\ ~ resuming => thread'["main"] = Rest /\ thread'["sweep"] = thread["sweep"]
      /\ resuming => thread'["main"] = a /\ thread'["sweep"] = i
      /\ \A t \in Threads : t # "main" /\ t # "sweep" => thread'[t] = thread[t]
  <2>0. "main" \in Threads /\ "sweep" \in Threads /\ "main" # "sweep"
    BY ThreadNames
  <2>1. CASE thread' = [thread EXCEPT !["main"] = Rest] /\ ~ resuming
    BY <1>3, <2>0, <2>1
  <2>2. CASE thread' = [thread EXCEPT !["main"] = a, !["sweep"] = i] /\ resuming
    BY <1>3, <2>0, <2>2
  <2> QED
    BY <1>2, <2>1, <2>2 DEF a, i
<1>6. Known' = Known /\ sessions' = sessions
  BY <1>1 DEF Known, world, ledger
<1>7. LogSound' /\ SessionsSound'
  BY <1>1 DEF RunnerInv, LogSound, SessionsSound, world, ledger, Known
<1>8. resuming => engagement # 0
  BY DEF RunnerInv, LatchSound
<1>9. SwitchSound'
  <2>1. CASE resuming
    <3>1. Persist
      BY <1>2, <2>1
    <3>2. persisted' \in BOOLEAN /\ file' \in [by : {"nobody", "operator", "runner"}, at : 0 .. engagements]
      BY <1>8, <2>1, <3>1, PersistIs
    <3> QED
      BY <1>1, <1>2, <2>1, <3>2 DEF RunnerInv, SwitchSound, world, Phases
  <2>2. CASE ~ resuming
    BY <1>1, <1>2, <2>2 DEF RunnerInv, SwitchSound, world, Phases
  <2> QED
    BY <2>1, <2>2
<1>10. ThreadsSound'
  <2>1. \A t \in Threads : thread'[t] = thread[t] \/ ThreadSound(thread'[t], Known, sessions)
    BY <1>4, <1>5, RestingIs
  <2> QED
    BY <1>3, <1>5, <1>6, <2>1, ThreadsAfter DEF RunnerInv
<1>11. RolesSound'
  <2>1. phase' \in {"RUNNING", "RESUMING"}
    BY <1>2
  <2>2. RoleSound("main", thread'["main"], phase')
    BY <1>4, <1>5, <2>1, RestIs, ThreadNames DEF RoleSound, Before, Submitting
  <2>3. RoleSound("drain", thread["drain"], phase)
    BY ThreadNames DEF RunnerInv, RolesSound
  <2>4. RoleSound("drain", thread'["drain"], phase')
    BY <1>1, <1>5, <2>1, <2>3, ThreadNames DEF RoleSound, Before
  <2>5. ASSUME NEW t \in Sweepers PROVE RoleSound(t, thread'[t], phase')
    <3>1. RoleSound(t, thread[t], phase)
      BY ThreadNames DEF RunnerInv, RolesSound
    <3>2. CASE thread'[t] = i
      BY <1>4, <2>1, <3>2, ThreadNames, EmptyList DEF RoleSound, Before, Submitting
    <3>3. CASE thread'[t] = thread[t]
      BY <2>1, <3>1, <3>3, ThreadNames DEF RoleSound, Before
    <3> QED
      BY <1>5, <3>2, <3>3, ThreadNames
  <2>6. thread'["main"].pc # "tick"
    BY <1>4, <1>5, RestIs
  <2> QED
    BY <2>2, <2>4, <2>5, <2>6, ThreadNames DEF RolesSound
<1>12. \A t \in Threads : ~ Placing(thread'[t])
  <2>1. thread["drain"].pc = "rest"
    BY <1>1, ThreadNames DEF RunnerInv, RolesSound, RoleSound
  <2>2. \A t \in Sweepers : ~ Placing(thread[t])
    BY ThreadNames DEF RunnerInv, RolesSound, RoleSound, Placing, Submitting
  <2>3. ~ Placing(Rest) /\ ~ Placing(a) /\ ~ Placing(i)
    BY <1>4, RestIs DEF Placing
  <2>4. ~ Placing(thread["drain"])
    BY <2>1 DEF Placing
  <2> QED
    BY <1>5, <2>2, <2>3, <2>4, ThreadNames
<1>13. LatchSound'
  <2>1. CASE ~ resuming
    <3>1. \A t \in Threads : thread'[t] = thread[t] \/ Quiet(t, thread[t], thread'[t])
      BY <1>5, <1>12, <2>1, ThreadNames DEF Quiet
    <3>2. UNCHANGED <<engagement, armed, resuming, file>>
      BY <1>1, <1>2, <2>1 DEF RunnerInv, SwitchSound
    <3>3. /\ phase \notin Before /\ phase' \notin Before /\ ~ resuming
          /\ (swept' => swept) /\ current' = current
      BY <1>1, <1>2, <2>1 DEF Before
    <3> QED
      BY <3>1, <3>2, <3>3, LatchAfter DEF RunnerInv
  <2>2. CASE resuming
    <3>1. file' = file \/ (file'.by = "runner" /\ file'.at # 0)
      BY <1>2, <1>8, <2>2, PersistIs
    <3> QED
      BY <1>1, <1>2, <1>8, <1>12, <2>2, <3>1 DEF RunnerInv, LatchSound, Before
  <2> QED
    BY <2>1, <2>2
<1>14. OrdersSound'
  BY <1>1 DEF RunnerInv, OrdersSound, world, ledger, Known
<1>15. SweepSound'
  BY <1>1, <1>2 DEF RunnerInv, SweepSound, world, ledger, HasSession
<1>16. ChargesSound'
  <2> SUFFICES ASSUME NoRestart' PROVE ChargesSound'
    BY DEF ChargesSound
  <2>1. NoRestart
    BY <1>1, FaultsSame DEF world
  <2>2. \A t \in Threads : thread'[t] = thread[t] \/ thread'[t].pc \notin Submitting
    BY <1>4, <1>5, RestIs DEF Submitting
  <2>3. \A t \in Threads : ChargeSound(thread[t])'
    BY <1>1, <2>1, <2>2 DEF RunnerInv, ChargesSound, ChargeSound, world, ledger
  <2> QED
    BY <1>1, <1>2, <2>1, <2>3 DEF RunnerInv, ChargesSound, Known, world, ledger, Before
<1>17. Holds
  BY <1>12 DEF Holds, Placing
<1> QED
  BY <1>7, <1>9, <1>10, <1>11, <1>13, <1>14, <1>15, <1>16, <1>17 DEF Kept, RunnerInv

-----------------------------------------------------------------------------
(* The steps of one thread.                                                *)

\* What one thread does leaves the charges alone if it starts no submission
\* and sends nothing for the first time.
Calm(a, b) ==
    b.pc \in Submitting /\ IsPlace(b.job) =>
        a.pc \in Submitting /\ b.job = a.job /\ (b.tries = 0 => a.tries = 0)

LEMMA ChargesAfter ==
    ASSUME ChargesSound, NoRestart' => NoRestart, phase' = phase \/ phase' \notin Before \cup {"RECOVERING"},
           UNCHANGED <<unsent, orders, late>>, cursor' = cursor,
           NoRestart => /\ \A d \in Known' : d \in Known \/ d[1] # "fill"
                        /\ phase' \in Before => decided' = decided
                        /\ phase' = "RECOVERING" => thread'["main"] = thread["main"]
                        /\ \A t \in Threads : thread'[t] = thread[t] \/ Calm(thread[t], thread'[t])
    PROVE  ChargesSound'
<1> SUFFICES ASSUME NoRestart' PROVE ChargesSound'
  BY DEF ChargesSound
<1>1. NoRestart
  OBVIOUS
<1>2. ASSUME NEW t \in Threads PROVE ChargeSound(thread[t])'
  <2>1. ChargeSound(thread[t])
    BY <1>1 DEF ChargesSound
  <2>2. thread'[t] = thread[t] \/ Calm(thread[t], thread'[t])
    BY <1>1
  <2> QED
    BY <2>1, <2>2 DEF ChargeSound, Calm
<1>3. \A d \in Known' : d[1] = "fill" => d[2] <= cursor'
  BY <1>1 DEF ChargesSound
<1>4. phase' \in Before => decided' = <<>>
  BY <1>1 DEF ChargesSound
<1>5. phase' = "RECOVERING" => thread'["main"].pc = "next" /\ thread'["main"].todo = <<>>
  BY <1>1 DEF ChargesSound
<1> QED
  BY <1>1, <1>2, <1>3, <1>4, <1>5 DEF ChargesSound

\* One thread moves; the files of the latch and of the session stay.
Alone(t, x) ==
    /\ thread' = [thread EXCEPT ![t] = x]
    /\ UNCHANGED <<cell, file, engagement, engagements, persisted, resuming, sessions, expired, armed>>
    /\ phase' = phase \/ (phase \notin Before \cup {"RECOVERING"} /\ phase' = "RUNNING" /\ ~ resuming)
    /\ swept' \in BOOLEAN /\ (swept' => swept)
    /\ current' = current \/ current' = <<>>

LEMMA AloneKeeps ==
    ASSUME RunnerInv, NEW t \in Threads, NEW x, Alone(t, x), Known \subseteq Known',
           ThreadSound(x, Known', sessions), RoleSound(t, x, phase'), Quiet(t, thread[t], x),
           thread'["main"].pc = "tick" => ticks' < MaxTicks
    PROVE  /\ SessionsSound' /\ SwitchSound' /\ ThreadsSound' /\ RolesSound' /\ LatchSound'
           /\ thread'[t] = x /\ \A u \in Threads : u # t => thread'[u] = thread[u]
           /\ x.pc # "sent" => Holds
<1>1. /\ thread' = [u \in Threads |-> thread'[u]] /\ thread'[t] = x
      /\ \A u \in Threads : u # t => thread'[u] = thread[u]
  BY OneThread DEF RunnerInv, Alone
<1>2. SessionsSound'
  <2>1. <<>> \in Seq(1 .. sessions)
    OBVIOUS
  <2> QED
    BY <2>1 DEF RunnerInv, SessionsSound, Alone
<1>3. SwitchSound'
  BY DEF RunnerInv, SwitchSound, Alone, Phases
<1>4. ThreadsSound'
  <2>1. sessions' \in Nat /\ sessions <= sessions' /\ sessions' = sessions
    BY DEF RunnerInv, SessionsSound, Alone
  <2>2. \A u \in Threads : thread'[u] = thread[u] \/ ThreadSound(thread'[u], Known', sessions')
    BY <1>1, <2>1
  <2> QED
    BY <1>1, <2>1, <2>2, ThreadsAfter DEF RunnerInv
<1>5. RolesSound'
  <2>1. phase' = phase \/ (phase \notin Before \cup {"RECOVERING"} /\ phase' = "RUNNING")
    BY DEF Alone
  <2>2. \A u \in Threads : thread'[u] = thread[u] \/ RoleSound(u, thread'[u], phase')
    BY <1>1
  <2> QED
    BY <2>1, <2>2, RolesAfter DEF RunnerInv
<1>6. LatchSound'
  <2>1. \A u \in Threads : thread'[u] = thread[u] \/ Quiet(u, thread[u], thread'[u])
    BY <1>1
  <2>2. /\ UNCHANGED <<engagement, armed, resuming, file>> /\ (swept' => swept)
        /\ phase' = phase \/ (phase \notin Before /\ phase' \notin Before /\ ~ resuming)
        /\ current' = current \/ current' = <<>>
    BY DEF Alone, Before
  <2> QED
    BY <2>1, <2>2, LatchAfter DEF RunnerInv
<1>7. x.pc # "sent" => Holds
  BY <1>1 DEF Holds
<1> QED
  BY <1>1, <1>2, <1>3, <1>4, <1>5, <1>6, <1>7

\* What stays with the log and the ledger.
LEMMA LedgerStays ==
    ASSUME RunnerInv, UNCHANGED <<decided, unsent, cursor, ledger, ticks>>,
           settled' = settled \/ (settled \subseteq settled' /\ settled' \subseteq Known),
           swept' => swept, armed' = armed, current' = current \/ current' = <<>>
    PROVE  LogSound' /\ OrdersSound' /\ SweepSound' /\ Known' = Known
<1>1. LogSound' /\ Known' = Known
  <2>1. settled \subseteq settled' /\ settled' \subseteq Known
    BY DEF RunnerInv, LogSound
  <2> QED
    BY <2>1 DEF RunnerInv, LogSound, ledger, Known
<1>2. OrdersSound'
  BY DEF RunnerInv, OrdersSound, ledger, Known
<1>3. SweepSound'
  BY SweepStays DEF RunnerInv, ledger
<1> QED
  BY <1>1, <1>2, <1>3

\* A thread moves between two awaits, settles a decision at most and leaves the
\* ledger alone.
LEMMA QuietStep ==
    ASSUME RunnerInv, NEW t \in Threads, NEW x, Alone(t, x),
           UNCHANGED <<decided, unsent, cursor, ledger, ticks>>,
           settled' = settled \/ (settled \subseteq settled' /\ settled' \subseteq Known),
           faults' = faults \/ \E kind : Fault(kind),
           ThreadSound(x, Known, sessions), RoleSound(t, x, phase'), Quiet(t, thread[t], x),
           Calm(thread[t], x), x.pc = "tick" => ticks < MaxTicks,
           phase' = "RECOVERING" /\ NoRestart => t # "main", x.pc # "sent" \/ Holds
    PROVE  Kept
<1>1. LogSound' /\ OrdersSound' /\ SweepSound' /\ Known' = Known
  BY LedgerStays DEF Alone
<1>2. thread'["main"].pc = "tick" => ticks' < MaxTicks
  <2>1. thread'["main"] = thread["main"] \/ thread'["main"] = x
    BY OneThread, ThreadNames DEF RunnerInv, Alone
  <2> QED
    BY <2>1 DEF RunnerInv, RolesSound
<1>3. /\ SessionsSound' /\ SwitchSound' /\ ThreadsSound' /\ RolesSound' /\ LatchSound'
      /\ thread'[t] = x /\ \A u \in Threads : u # t => thread'[u] = thread[u]
      /\ Holds
  BY <1>1, <1>2, AloneKeeps
<1>4. ChargesSound'
  <2>1. NoRestart' => NoRestart
    BY FaultsSame, FaultsGrow
  <2>2. phase' = phase \/ phase' \notin Before \cup {"RECOVERING"}
    BY DEF Alone, Before
  <2>3. \A u \in Threads : thread'[u] = thread[u] \/ Calm(thread[u], thread'[u])
    BY <1>3
  <2>4. NoRestart /\ phase' = "RECOVERING" => thread'["main"] = thread["main"]
    BY <1>3, ThreadNames
  <2> QED
    BY <1>1, <2>1, <2>2, <2>3, <2>4, ChargesAfter DEF RunnerInv, ledger
<1> QED
  BY <1>1, <1>3, <1>4 DEF Kept, RunnerInv

\* Each thread, by itself.
LEMMA ThreadOf ==
    ASSUME RunnerInv, NEW t \in Threads
    PROVE  /\ ThreadSound(thread[t], Known, sessions) /\ RoleSound(t, thread[t], phase)
           /\ sessions \in Nat /\ swept \in BOOLEAN /\ resuming \in BOOLEAN
           /\ thread = [u \in Threads |-> thread[u]]
BY DEF RunnerInv, ThreadsSound, RolesSound, SessionsSound, SwitchSound

\* Nothing sweeps while the latch is up.
LEMMA SweepsAreEngaged ==
    ASSUME RunnerInv, NEW i \in Sweepers, thread[i].pc # "rest"
    PROVE  engagement # 0
BY DEF RunnerInv, LatchSound

LEMMA SweepAwaitedKeeps ==
    ASSUME RunnerInv, SweepAwaited
    PROVE  Kept
<1>1. /\ thread["main"].pc = "await" /\ phase' = "RUNNING"
      /\ thread' = [thread EXCEPT !["main"] = Rest]
      /\ UNCHANGED <<files, current, engagement, persisted, resuming, failures, armed,
                     swept, world>>
  BY DEF SweepAwaited
<1>2. "main" \in Threads /\ RoleSound("main", thread["main"], phase)
  BY ThreadOf, ThreadNames
<1>3. phase \notin Before \cup {"RECOVERING"}
  BY <1>1, <1>2 DEF RoleSound, Submitting
<1>4. ~ resuming
  BY <1>3 DEF RunnerInv, LatchSound, Before
<1>5. Alone("main", Rest)
  BY <1>1, <1>2, <1>3, <1>4, ThreadOf DEF Alone, files, world, ledger
<1>6. RoleSound("main", Rest, phase')
  BY <1>1, RestIs, ThreadNames DEF RoleSound, Submitting, Before
<1>7. Quiet("main", thread["main"], Rest) /\ Calm(thread["main"], Rest)
  BY RestIs, ThreadNames DEF Quiet, Calm, Placing, Submitting
<1> QED
  BY <1>1, <1>2, <1>5, <1>6, <1>7, RestIs, RestingIs, QuietStep DEF files, world, Before

LEMMA CycleStartsKeeps ==
    ASSUME RunnerInv, CycleStarts
    PROVE  Kept
<1>1. /\ phase = "RUNNING" /\ thread["main"].pc = "rest"
      /\ thread' = [thread EXCEPT !["main"].pc = "cycle"]
      /\ UNCHANGED <<files, phase, current, engagement, persisted, resuming, failures,
                     armed, swept, world>>
  BY DEF CycleStarts, Idle
<1> DEFINE x == [thread["main"] EXCEPT !.pc = "cycle"]
<1>2. /\ "main" \in Threads /\ RoleSound("main", thread["main"], phase)
      /\ ThreadSound(thread["main"], Known, sessions) /\ sessions \in Nat
  BY ThreadOf, ThreadNames
<1>3. x.pc = "cycle" /\ x.todo = thread["main"].todo /\ ThreadSound(x, Known, sessions)
  <2>1. "cycle" \in Places \ Submitting
    BY DEF Places, Submitting
  <2> QED
    BY <1>2, <2>1, MovedIs
<1>4. thread' = [thread EXCEPT !["main"] = x]
  BY <1>1, <1>2, ThreadOf
<1> HIDE DEF x
<1>5. Alone("main", x)
  BY <1>1, <1>2, <1>4, ThreadOf DEF Alone, files, world, ledger
<1>6. RoleSound("main", x, phase')
  BY <1>1, <1>2, <1>3, ThreadNames DEF RoleSound, Submitting, Before
<1>7. Quiet("main", thread["main"], x) /\ Calm(thread["main"], x)
  BY <1>3, ThreadNames DEF Quiet, Calm, Placing, Submitting
<1> QED
  BY <1>1, <1>2, <1>3, <1>5, <1>6, <1>7, QuietStep DEF files, world

\* A 401 on the portfolio, of the cycle or of a sweep.
LEMMA PortfolioExpiredIs ==
    ASSUME RunnerInv, NEW t \in Threads, PortfolioExpired(t)
    PROVE  /\ current' = current \/ current' = <<>>
           /\ \E x : /\ thread' = [thread EXCEPT ![t] = x]
                     /\ ThreadSound(x, Known, sessions)
                     /\ \/ x = Rest
                        \/ x.pc = "relogin" /\ x.todo = thread[t].todo
<1>1. /\ ThreadSound(thread[t], Known, sessions) /\ thread = [u \in Threads |-> thread[u]]
      /\ sessions \in Nat
  BY ThreadOf
<1>2. CASE thread' = [thread EXCEPT ![t] = Rest] /\ UNCHANGED current
  BY <1>2, RestingIs
<1>3. CASE /\ thread' = [thread EXCEPT ![t].pc = "relogin", ![t].via = current, ![t].renewed = TRUE]
           /\ current' = <<>>
  <2> DEFINE th == thread[t]
             x == [th EXCEPT !.pc = "relogin", !.via = current, !.renewed = TRUE]
  <2>1. thread' = [thread EXCEPT ![t] = x]
    BY <1>1, <1>3
  <2>2. /\ th \in [pc : {th.pc}, job : {th.job}, todo : {th.todo}, tries : {th.tries},
                   renewed : {th.renewed}, via : {th.via}, passes : {th.passes}]
        /\ th.tries \in 0 .. MaxAttempts /\ th.passes \in Nat
        /\ th.todo \in Seq(ToSet(th.todo))
        /\ \A d \in ToSet(th.todo) : d \in Known \/ ~ IsPlace(d)
    BY <1>1 DEF ThreadSound
  <2> HIDE DEF th
  <2>3. x \in [pc : {"relogin"}, job : {th.job}, todo : {th.todo}, tries : {th.tries},
               renewed : {TRUE}, via : {current}, passes : {th.passes}]
    BY <2>2
  <2> HIDE DEF x
  <2>4. "relogin" \in Places /\ "relogin" \notin Submitting
    BY DEF Places, Submitting
  <2>5. current \in Seq(1 .. sessions)
    BY DEF RunnerInv, SessionsSound
  <2>6. ThreadSound(x, Known, sessions) /\ x.pc = "relogin" /\ x.todo = th.todo
    BY <2>2, <2>3, <2>4, <2>5 DEF ThreadSound
  <2> QED
    BY <1>3, <2>1, <2>6 DEF th
<1> QED
  BY <1>2, <1>3 DEF PortfolioExpired

LEMMA CyclePortfolioKeeps ==
    ASSUME RunnerInv, CyclePortfolio
    PROVE  Kept
<1>1. /\ thread["main"].pc = "cycle"
      /\ UNCHANGED <<files, phase, engagement, persisted, resuming, failures, armed,
                     swept, ledger, ticks, engagements>>
  BY DEF CyclePortfolio
<1> DEFINE a == [Rest EXCEPT !.pc = "tick"]
<1>2. /\ "main" \in Threads /\ RoleSound("main", thread["main"], phase)
      /\ ThreadSound(thread["main"], Known, sessions) /\ sessions \in Nat
  BY ThreadOf, ThreadNames
<1>3. a.pc = "tick" /\ a.todo = <<>> /\ ThreadSound(a, Known, sessions)
  <2>1. "tick" \in Places \ Submitting
    BY DEF Places, Submitting
  <2> QED
    BY <1>2, <2>1, RestAs
<1>4. phase \notin Before \cup {"RECOVERING"} /\ thread["main"].todo = <<>>
  BY <1>1, <1>2 DEF RoleSound, Submitting
<1>5. /\ faults' = faults \/ \E kind : Fault(kind)
      /\ current' = current \/ current' = <<>>
      /\ \E x : /\ thread' = [thread EXCEPT !["main"] = x] /\ ThreadSound(x, Known, sessions)
                /\ x.pc \in {"rest", "tick", "relogin"} /\ x.todo = <<>>
                /\ x.pc = "tick" => ticks < MaxTicks
  <2>1. CASE /\ thread' = [thread EXCEPT !["main"] = Rest] /\ UNCHANGED current
             /\ faults' = faults \/ Fault("portfolio")
    BY <2>1, RestIs, RestingIs
  <2>2. CASE PortfolioExpired("main") /\ UNCHANGED faults
    BY <1>2, <1>4, <2>2, PortfolioExpiredIs, RestIs
  <2>3. CASE /\ thread' = [thread EXCEPT !["main"] = IF engagement = 0 /\ ticks < MaxTicks
                                                     THEN a ELSE Rest]
             /\ UNCHANGED <<current, faults>>
    <3> HIDE DEF a
    <3>1. CASE engagement = 0 /\ ticks < MaxTicks
      BY <1>3, <2>3, <3>1
    <3>2. CASE ~ (engagement = 0 /\ ticks < MaxTicks)
      BY <2>3, <3>2, RestIs, RestingIs
    <3> QED
      BY <3>1, <3>2
  <2> QED
    BY <2>1, <2>2, <2>3 DEF CyclePortfolio
<1>6. PICK x : /\ thread' = [thread EXCEPT !["main"] = x] /\ ThreadSound(x, Known, sessions)
               /\ x.pc \in {"rest", "tick", "relogin"} /\ x.todo = <<>>
               /\ x.pc = "tick" => ticks < MaxTicks
  BY <1>5
<1>7. Alone("main", x)
  BY <1>1, <1>2, <1>5, <1>6, ThreadOf DEF Alone, files, ledger
<1>8. RoleSound("main", x, phase')
  BY <1>1, <1>4, <1>6, ThreadNames DEF RoleSound, Submitting
<1>9. Quiet("main", thread["main"], x) /\ Calm(thread["main"], x)
  BY <1>6, ThreadNames DEF Quiet, Calm, Placing, Submitting
<1> QED
  BY <1>1, <1>2, <1>4, <1>5, <1>6, <1>7, <1>8, <1>9, QuietStep DEF files

LEMMA SweepLosesKeeps ==
    ASSUME RunnerInv, NEW i \in Sweepers, SweepLoses(i)
    PROVE  Kept
<1>1. /\ thread[i].pc = "read" /\ swept' = FALSE
      /\ UNCHANGED <<files, phase, engagement, persisted, resuming, failures, armed,
                     ledger, ticks, engagements>>
  BY DEF SweepLoses
<1>2. /\ i \in Threads /\ i # "main" /\ i # "drain" /\ RoleSound(i, thread[i], phase)
      /\ engagement # 0
  BY <1>1, ThreadOf, ThreadNames, SweepsAreEngaged
<1>3. /\ faults' = faults \/ \E kind : Fault(kind)
      /\ current' = current \/ current' = <<>>
      /\ \E x : /\ thread' = [thread EXCEPT ![i] = x] /\ ThreadSound(x, Known, sessions)
                /\ x.pc \in {"rest", "relogin"} /\ (x.todo = <<>> \/ x.todo = thread[i].todo)
  <2>1. CASE /\ thread' = [thread EXCEPT ![i] = Rest] /\ UNCHANGED current
             /\ faults' = faults \/ Fault("portfolio")
    BY <2>1, RestIs, RestingIs
  <2>2. CASE PortfolioExpired(i) /\ UNCHANGED faults
    BY <1>2, <2>2, PortfolioExpiredIs, RestIs
  <2> QED
    BY <2>1, <2>2 DEF SweepLoses
<1>4. PICK x : /\ thread' = [thread EXCEPT ![i] = x] /\ ThreadSound(x, Known, sessions)
               /\ x.pc \in {"rest", "relogin"} /\ (x.todo = <<>> \/ x.todo = thread[i].todo)
  BY <1>3
<1>5. Alone(i, x)
  BY <1>1, <1>2, <1>3, <1>4 DEF Alone, files, ledger
<1>6. RoleSound(i, x, phase')
  <2>1. phase \notin Before
    BY <1>1, <1>2 DEF RoleSound
  <2> QED
    BY <1>1, <1>2, <1>4, <2>1, EmptyList DEF RoleSound, Submitting
<1>7. Quiet(i, thread[i], x) /\ Calm(thread[i], x)
  BY <1>1, <1>2, <1>4 DEF Quiet, Calm, Placing, Submitting
<1> QED
  BY <1>1, <1>2, <1>3, <1>4, <1>5, <1>6, <1>7, QuietStep DEF files

LEMMA SweepPassEndsKeeps ==
    ASSUME RunnerInv, NEW i \in Sweepers, SweepPassEnds(i)
    PROVE  Kept
<1>1. /\ thread[i].pc = "next" /\ thread' = [thread EXCEPT ![i].pc = "read"]
      /\ UNCHANGED <<files, phase, current, engagement, persisted, resuming, failures,
                     armed, swept, world>>
  BY DEF SweepPassEnds
<1> DEFINE x == [thread[i] EXCEPT !.pc = "read"]
<1>2. /\ i \in Threads /\ i # "main" /\ i # "drain" /\ RoleSound(i, thread[i], phase)
      /\ ThreadSound(thread[i], Known, sessions) /\ sessions \in Nat /\ engagement # 0
  BY <1>1, ThreadOf, ThreadNames, SweepsAreEngaged
<1>3. x.pc = "read" /\ x.todo = thread[i].todo /\ ThreadSound(x, Known, sessions)
  <2>1. "read" \in Places \ Submitting
    BY DEF Places, Submitting
  <2> QED
    BY <1>2, <2>1, MovedIs
<1>4. thread' = [thread EXCEPT ![i] = x]
  BY <1>1, <1>2, ThreadOf
<1> HIDE DEF x
<1>5. Alone(i, x)
  BY <1>1, <1>2, <1>4, ThreadOf DEF Alone, files, world, ledger
<1>6. RoleSound(i, x, phase')
  BY <1>1, <1>2, <1>3 DEF RoleSound, Submitting
<1>7. Quiet(i, thread[i], x) /\ Calm(thread[i], x)
  BY <1>1, <1>2, <1>3 DEF Quiet, Calm, Placing, Submitting
<1> QED
  BY <1>1, <1>2, <1>3, <1>5, <1>6, <1>7, QuietStep DEF files, world

LEMMA SubmissionEndsKeeps ==
    ASSUME RunnerInv, NEW t \in {"main", "drain"}, SubmissionEnds(t)
    PROVE  Kept
<1>1. /\ phase = "RUNNING" /\ thread' = [thread EXCEPT ![t] = Rest]
      /\ UNCHANGED <<files, phase, current, engagement, persisted, resuming, failures,
                     armed, swept, world>>
  BY DEF SubmissionEnds
<1>2. t \in Threads /\ t \notin Sweepers /\ RoleSound(t, thread[t], phase)
  BY ThreadOf, ThreadNames
<1>3. Alone(t, Rest)
  BY <1>1, <1>2, ThreadOf DEF Alone, files, world, ledger
<1>4. RoleSound(t, Rest, phase')
  BY <1>1, <1>2, RestIs, RoleRests
<1>5. Quiet(t, thread[t], Rest) /\ Calm(thread[t], Rest)
  BY <1>2, RestIs DEF Quiet, Calm, Placing, Submitting
<1> QED
  BY <1>1, <1>2, <1>3, <1>4, <1>5, RestIs, RestingIs, QuietStep DEF files, world

-----------------------------------------------------------------------------
(* OrderGateway.submit.                                                    *)

LEMMA ThrowKeeps ==
    ASSUME RunnerInv, NEW t \in Threads, thread[t].pc \in Submitting \cup {"relogin"}, Throw(t),
           UNCHANGED <<decided, cursor, cell>>,
           (faults' = faults /\ thread[t].pc # "relogin") \/ Fault("create")
    PROVE  Kept
<1>1. CASE t = "main" /\ phase = "RECOVERING"
  <2>1. Dies /\ UNCHANGED <<file, settled, unsent>>
    BY <1>1 DEF Throw
  <2>2. ~ NoRestart'
    <3>1. CASE faults' = faults /\ thread[t].pc # "relogin"
      <4>1. thread["main"].pc # "next"
        BY <1>1, <3>1 DEF Submitting
      <4>2. ~ NoRestart
        BY <1>1, <4>1 DEF RunnerInv, ChargesSound
      <4> QED
        BY <3>1, <4>2, FaultsSame
    <3>2. CASE Fault("create")
      BY <3>2, FaultsGrow
    <3> QED
      BY <3>1, <3>2
  <2>3. LogSound' /\ Known' = Known
    BY <2>1 DEF RunnerInv, LogSound, Dies, Known
  <2> QED
    BY <2>1, <2>2, <2>3, DiesKeeps
<1>2. CASE ~ (t = "main" /\ phase = "RECOVERING")
  <2>1. /\ thread' = [thread EXCEPT ![t] = Rest] /\ swept' = (swept /\ t \notin Sweepers)
        /\ UNCHANGED <<phase, current, engagement, persisted, resuming, armed,
                       failures, file, settled, unsent, ledger, ticks, engagements>>
    BY <1>2 DEF Throw
  <2>2. RoleSound(t, thread[t], phase)
    BY ThreadOf
  <2>3. Alone(t, Rest)
    BY <2>1 DEF Alone, ledger
  <2>4. RoleSound(t, Rest, phase')
    BY <1>2, <2>1, <2>2, RestIs, RoleRests
  <2>5. Quiet(t, thread[t], Rest) /\ Calm(thread[t], Rest)
    <3>1. thread[t].pc \notin {"idle", "rest"}
      BY DEF Submitting
    <3>2. t \in Sweepers => engagement # 0
      BY <3>1, SweepsAreEngaged
    <3> QED
      BY <3>1, <3>2, RestIs DEF Quiet, Calm, Placing, Submitting
  <2> QED
    BY <1>2, <2>1, <2>3, <2>4, <2>5, RestIs, RestingIs, QuietStep
<1> QED
  BY <1>1, <1>2

LEMMA NextJobKeeps ==
    ASSUME RunnerInv, NEW t \in Threads, NextJob(t)
    PROVE  Kept
<1> DEFINE th == thread[t]
           d == Head(th.todo)
           y == [th EXCEPT !.todo = Tail(th.todo)]
           x == Submit(y, d)
<1>1. /\ th.pc = "next" /\ th.todo # <<>> /\ decided' = Recorded(d)
      /\ thread' = [thread EXCEPT ![t] = x]
      /\ UNCHANGED <<settled, unsent, cursor, cell, file, phase, current, engagement,
                     persisted, resuming, failures, armed, swept, world>>
  BY DEF NextJob
<1>2. /\ ThreadSound(th, Known, sessions) /\ RoleSound(t, th, phase) /\ sessions \in Nat
      /\ thread = [u \in Threads |-> thread[u]] /\ swept \in BOOLEAN
  BY ThreadOf
<1>3. /\ d \in ToSet(th.todo) /\ Tail(th.todo) \in Seq(ToSet(Tail(th.todo)))
      /\ ToSet(Tail(th.todo)) \subseteq ToSet(th.todo)
      /\ \A e \in ToSet(th.todo) : e \in Known \/ ~ IsPlace(e)
  <2>1. th.todo \in Seq(ToSet(th.todo))
    BY <1>2, ThreadFields
  <2>2. \A e \in ToSet(th.todo) : e \in Known \/ ~ IsPlace(e)
    BY <1>2, ThreadFields
  <2> HIDE DEF th
  <2> QED
    BY <1>1, <2>1, <2>2, ListIs
<1>4. Known' = Known \cup {d}
  BY <1>1, RecordedIs DEF RunnerInv
<1>5. /\ x.pc = "attempt" /\ x.job = d /\ x.todo = Tail(th.todo) /\ x.tries = 0
      /\ ThreadSound(x, Known', sessions)
  <2>1. /\ th \in [pc : {th.pc}, job : {th.job}, todo : {th.todo}, tries : {th.tries},
                   renewed : {th.renewed}, via : {th.via}, passes : {th.passes}]
        /\ th.tries \in 0 .. MaxAttempts
        /\ th.renewed \in BOOLEAN /\ th.via \in Seq(1 .. sessions) /\ th.passes \in Nat
    BY <1>2 DEF ThreadSound
  <2>2. th.pc = "next"
    BY <1>1
  <2> HIDE DEF th
  <2>3. y \in [pc : {th.pc}, job : {th.job}, todo : {Tail(th.todo)}, tries : {th.tries},
               renewed : {th.renewed}, via : {th.via}, passes : {th.passes}]
    BY <2>1
  <2>4. "next" \in Places /\ "next" \notin Submitting
    BY DEF Places, Submitting
  <2> HIDE DEF y, d
  <2>5. y.todo = Tail(th.todo) /\ ThreadSound(y, Known, sessions)
    BY <1>3, <2>1, <2>2, <2>3, <2>4 DEF ThreadSound
  <2>6. d \in Known' /\ Known \subseteq Known'
    BY <1>4
  <2> DEFINE known == Known'
  <2> HIDE DEF known, x
  <2>7. /\ Submit(y, d).pc = "attempt" /\ Submit(y, d).job = d /\ Submit(y, d).todo = y.todo
        /\ Submit(y, d).tries = 0 /\ ThreadSound(Submit(y, d), known, sessions)
    <3>1. d \in known /\ Known \subseteq known
      BY <2>6 DEF known
    <3> QED
      BY <1>2, <2>5, <3>1, SubmitIs
  <2> QED
    BY <2>5, <2>7 DEF known, x
<1> HIDE DEF x, y
<1>6. (phase = "RECOVERING" /\ t = "main") \/ t \in Sweepers
  BY <1>1, <1>2, ThreadNames DEF RoleSound
<1>7. t \in Sweepers => ~ IsPlace(d) /\ \A e \in ToSet(th.todo) : ~ IsPlace(e)
  BY <1>2, <1>3 DEF RoleSound
<1>8. phase \notin Before
  BY <1>1, <1>2 DEF RoleSound
<1>9. RoleSound(t, x, phase')
  <2>1. CASE t = "main" /\ phase = "RECOVERING"
    BY <1>1, <1>5, <2>1, ThreadNames DEF RoleSound, Submitting, Before
  <2>2. CASE t \in Sweepers
    BY <1>1, <1>3, <1>5, <1>7, <1>8, <2>2, ThreadNames DEF RoleSound, Submitting
  <2> QED
    BY <1>6, <2>1, <2>2
<1>10. Alone(t, x)
  BY <1>1, <1>2 DEF Alone, world, ledger
<1>11. Quiet(t, th, x)
  <2>1. t \in Sweepers => engagement # 0
    BY <1>1, SweepsAreEngaged
  <2> QED
    BY <1>1, <1>5, <2>1 DEF Quiet, Placing
<1>12. LogSound'
  <2>1. /\ events \in Nat /\ cursor \in 0 .. events /\ ticks \in 0 .. MaxTicks /\ MaxTicks \in Nat
    BY RunnerAssumption DEF RunnerInv, LogSound
  <2>2. cursor' \in cursor .. events /\ ticks' \in ticks .. MaxTicks
    BY <1>1, <2>1 DEF world
  <2>3. /\ d[1] = "tick" => d = TickDecision(d[2]) /\ d[2] \in 1 .. ticks'
        /\ d[1] = "fill" => d = FillDecisionId(d[2]) /\ d[2] \in 1 .. cursor' + 1
    <3>1. CASE d \in Known
      BY <1>1, <3>1 DEF RunnerInv, LogSound, world
    <3>2. CASE ~ IsPlace(d)
      BY <3>2 DEF IsPlace
    <3> QED
      BY <1>3, <3>1, <3>2
  <2> HIDE DEF d
  <2> QED
    BY <1>1, <2>2, <2>3, LogGrows DEF RunnerInv, world, ledger
<1>13. /\ SessionsSound' /\ SwitchSound' /\ ThreadsSound' /\ RolesSound' /\ LatchSound'
       /\ thread'[t] = x /\ \A u \in Threads : u # t => thread'[u] = thread[u]
       /\ Holds
  <2>1. thread'["main"].pc = "tick" => ticks' < MaxTicks
    <3>1. thread'["main"] = thread["main"] \/ thread'["main"] = x
      BY <1>1, <1>2, ThreadNames
    <3> QED
      BY <1>1, <1>5, <3>1 DEF RunnerInv, RolesSound, world
  <2> QED
    BY <1>4, <1>5, <1>9, <1>10, <1>11, <2>1, AloneKeeps
<1>14. OrdersSound' /\ SweepSound'
  <2>1. sessions' = sessions /\ UNCHANGED <<orders, open, late, stray>>
    BY <1>1 DEF world, ledger
  <2>2. OrdersSound'
    BY <1>2, <1>4, <2>1, OrdersStay DEF RunnerInv
  <2>3. SweepSound'
    BY <1>1, <2>1, SweepStays DEF RunnerInv
  <2> QED
    BY <2>2, <2>3
<1>15. ChargesSound'
  <2>1. NoRestart' => NoRestart
    BY <1>1, FaultsSame DEF world
  <2>2. ASSUME NoRestart PROVE t \in Sweepers
    BY <1>1, <1>6, <2>2 DEF RunnerInv, ChargesSound
  <2>3. NoRestart => d[1] # "fill"
    BY <1>7, <2>2 DEF IsPlace
  <2>4. NoRestart => \A u \in Threads : thread'[u] = thread[u] \/ Calm(thread[u], thread'[u])
    BY <1>5, <1>7, <1>13, <2>2 DEF Calm
  <2>5. NoRestart => thread'["main"] = thread["main"]
    BY <1>13, <2>2, ThreadNames
  <2>6. UNCHANGED <<unsent, orders, late, cursor, phase>>
    BY <1>1 DEF world, ledger
  <2> HIDE DEF d
  <2> QED
    BY <1>4, <1>8, <2>1, <2>3, <2>4, <2>5, <2>6, ChargesAfter DEF RunnerInv
<1> QED
  BY <1>12, <1>13, <1>14, <1>15 DEF Kept, RunnerInv

\* A thread in the middle of a submission.
LEMMA SubmittingIs ==
    ASSUME RunnerInv, NEW t \in Threads, thread[t].pc \in Submitting
    PROVE  /\ thread[t].job \in Known /\ phase \notin Before
           /\ thread[t].pc \notin {"rest", "idle", "next"}
           /\ t \in Sweepers => engagement # 0 /\ ~ IsPlace(thread[t].job)
           /\ phase = "RECOVERING" /\ NoRestart => t # "main"
<1>1. ThreadSound(thread[t], Known, sessions) /\ RoleSound(t, thread[t], phase)
  BY ThreadOf
<1>2. thread[t].job \in Known
  BY <1>1, ThreadFields
<1>3. thread[t].pc \notin {"rest", "idle", "next"}
  BY DEF Submitting
<1>4. phase \notin Before
  BY <1>1, <1>3 DEF RoleSound
<1>5. t \in Sweepers => engagement # 0 /\ ~ IsPlace(thread[t].job)
  BY <1>1, <1>3, SweepsAreEngaged DEF RoleSound
<1>6. phase = "RECOVERING" /\ NoRestart => t # "main"
  BY <1>3 DEF RunnerInv, ChargesSound
<1> QED
  BY <1>2, <1>3, <1>4, <1>5, <1>6

\* It goes on with the same decision.
LEMMA RetryIs ==
    ASSUME NEW th, NEW k, NEW n, ThreadSound(th, k, n), th.pc \in Submitting, NEW m,
           NEW x, x \in [pc : Submitting, job : {th.job}, todo : {th.todo}, tries : 1 .. MaxAttempts,
                         renewed : BOOLEAN, via : Seq(1 .. m), passes : {th.passes}],
           x.pc = "sent" => x.via # <<>>
    PROVE  /\ ThreadSound(x, k, m) /\ x.todo = th.todo /\ x.job = th.job /\ x.tries # 0
           /\ x.pc \in Submitting
<1>1. /\ th.todo \in Seq(ToSet(th.todo)) /\ th.passes \in Nat /\ th.job \in k
      /\ \A d \in ToSet(th.todo) : d \in k \/ ~ IsPlace(d)
  BY ThreadFields
<1>2. Submitting \subseteq Places
  BY DEF Places
<1>3. 1 .. MaxAttempts \subseteq 0 .. MaxAttempts /\ 0 \notin 1 .. MaxAttempts
  BY RunnerAssumption
<1>4. x \in [pc : Places, job : {x.job}, todo : Seq(ToSet(x.todo)), tries : 0 .. MaxAttempts,
             renewed : BOOLEAN, via : Seq(1 .. m), passes : Nat]
  BY <1>1, <1>2, <1>3
<1> QED
  BY <1>1, <1>3, <1>4 DEF ThreadSound

\* A submission that ends, its decision settled.
LEMMA DoneStep ==
    ASSUME RunnerInv, NEW t \in Threads, thread[t].pc \in Submitting,
           settled' = settled \cup {thread[t].job}, Alone(t, Done(thread[t])), phase' = phase,
           UNCHANGED <<decided, unsent, cursor, ledger, ticks>>,
           faults' = faults \/ \E kind : Fault(kind)
    PROVE  Kept
<1> DEFINE th == thread[t]
           x == Done(th)
<1>1. ThreadSound(th, Known, sessions) /\ RoleSound(t, th, phase) /\ sessions \in Nat
  BY ThreadOf
<1>2. x.pc = "next" /\ x.todo = th.todo /\ ThreadSound(x, Known, sessions)
  BY <1>1, DoneIs
<1>3. /\ th.job \in Known /\ th.pc \notin {"rest", "idle", "next"}
      /\ t \in Sweepers => engagement # 0
      /\ phase = "RECOVERING" /\ NoRestart => t # "main"
  BY SubmittingIs
<1>4. Alone(t, x)
  OBVIOUS
<1>5. settled \subseteq settled' /\ settled' \subseteq Known
  BY <1>3 DEF RunnerInv, LogSound
<1> HIDE DEF x
<1>6. RoleSound(t, x, phase')
  <2>1. x.pc \notin Submitting
    BY <1>2 DEF Submitting
  <2> QED
    BY <1>1, <1>2, <2>1, RoleKept
<1>7. Quiet(t, th, x) /\ Calm(th, x)
  BY <1>2, <1>3 DEF Quiet, Calm, Placing, Submitting
<1> QED
  BY <1>2, <1>3, <1>4, <1>5, <1>6, <1>7, QuietStep

\* The latch catches a place.
LEMMA HaltKeeps ==
    ASSUME RunnerInv, NEW t \in Threads, thread[t].pc \in Submitting, ~ Permits(thread[t].job),
           Halt(t, thread[t].tries),
           UNCHANGED <<decided, cursor, cell, file, phase, current, engagement, persisted,
                       resuming, armed, swept, ledger, ticks, engagements>>,
           faults' = faults \/ \E kind : Fault(kind)
    PROVE  Kept
<1> DEFINE th == thread[t]
           x == Done(th)
           d == th.job
<1>1. /\ settled' = settled \cup {d} /\ unsent' = IF th.tries = 0 THEN unsent \cup {d} ELSE unsent
      /\ thread' = [thread EXCEPT ![t] = Done(@)]
  BY DEF Halt
<1>2. /\ ThreadSound(th, Known, sessions) /\ RoleSound(t, th, phase) /\ sessions \in Nat
      /\ thread = [u \in Threads |-> thread[u]] /\ swept \in BOOLEAN
  BY ThreadOf
<1>3. thread' = [thread EXCEPT ![t] = x]
  BY <1>1, <1>2
<1>4. IsPlace(d) /\ engagement # 0
  BY DEF Permits
<1>5. /\ d \in Known /\ th.pc \notin {"rest", "idle", "next"}
      /\ phase = "RECOVERING" /\ NoRestart => t # "main"
  BY SubmittingIs
<1>6. x.pc = "next" /\ x.todo = th.todo /\ ThreadSound(x, Known, sessions)
  BY <1>2, DoneIs
<1> HIDE DEF x
<1>7. Alone(t, x)
  BY <1>2, <1>3 DEF Alone, ledger
<1>8. CASE th.tries # 0
  BY <1>1, <1>7, <1>8, DoneStep DEF x
<1>9. CASE th.tries = 0
  <2>1. unsent' = unsent \cup {d}
    BY <1>1, <1>9
  <2>2. LogSound' /\ Known' = Known
    BY <1>1, <1>5, <2>1 DEF RunnerInv, LogSound, ledger, Known
  <2>3. OrdersSound' /\ SweepSound'
    <3>1. OrdersSound'
      BY DEF RunnerInv, OrdersSound, ledger, Known
    <3> QED
      BY <3>1 DEF RunnerInv, SweepSound, ledger, HasSession
  <2>4. RoleSound(t, x, phase')
    <3>1. x.pc \notin Submitting
      BY <1>6 DEF Submitting
    <3> QED
      BY <1>2, <1>6, <3>1, RoleKept
  <2>5. Quiet(t, th, x)
    BY <1>4, <1>5, <1>6 DEF Quiet, Placing
  <2>6. thread'["main"].pc = "tick" => ticks' < MaxTicks
    <3>1. thread'["main"] = thread["main"] \/ thread'["main"] = x
      BY <1>2, <1>3, ThreadNames
    <3> QED
      BY <1>6, <3>1 DEF RunnerInv, RolesSound
  <2>7. /\ SessionsSound' /\ SwitchSound' /\ ThreadsSound' /\ RolesSound' /\ LatchSound'
        /\ thread'[t] = x /\ \A u \in Threads : u # t => thread'[u] = thread[u]
        /\ Holds
    BY <1>6, <1>7, <2>2, <2>4, <2>5, <2>6, AloneKeeps
  <2>8. ChargesSound'
    <3> SUFFICES ASSUME NoRestart' PROVE ChargesSound'
      BY DEF ChargesSound
    <3>1. NoRestart
      BY FaultsSame, FaultsGrow
    <3>2. Fresh(d)
      BY <1>4, <1>9, <3>1 DEF RunnerInv, ChargesSound, ChargeSound, Fresh
    <3>3. ASSUME NEW u \in Threads PROVE ChargeSound(thread[u])'
      <4>1. CASE u = t
        BY <1>6, <2>7, <4>1 DEF ChargeSound, Submitting
      <4>2. CASE u # t
        <5>1. thread'[u] = thread[u] /\ ChargeSound(thread[u])
          BY <2>7, <3>1, <4>2 DEF RunnerInv, ChargesSound
        <5>2. thread[u].pc \in Submitting /\ IsPlace(thread[u].job) => thread[u].job # d
          BY <1>4, <3>1, <4>2, JobsDiffer DEF RunnerInv
        <5> QED
          BY <2>1, <5>1, <5>2 DEF ChargeSound, ledger
      <4> QED
        BY <4>1, <4>2
    <3>4. /\ \A o \in orders : o[2] \notin unsent'
          /\ \A r \in late : IsPlace(r[2]) => r[2] \notin unsent'
      BY <2>1, <3>1, <3>2 DEF RunnerInv, ChargesSound, Fresh
    <3>5. phase = "RECOVERING" => thread'["main"] = thread["main"]
      BY <1>5, <2>7, <3>1, ThreadNames
    <3> QED
      BY <2>2, <3>1, <3>3, <3>4, <3>5 DEF RunnerInv, ChargesSound, ledger
  <2> QED
    BY <2>2, <2>3, <2>7, <2>8 DEF Kept, RunnerInv
<1> QED
  BY <1>8, <1>9

\* A 401, or no session to ask with.
LEMMA SessionExpiredKeeps ==
    ASSUME RunnerInv, NEW t \in Threads, thread[t].pc \in Submitting,
           NEW n \in 1 .. MaxAttempts, SessionExpired(t, n),
           ~ Permits(thread[t].job) => n = thread[t].tries,
           UNCHANGED <<decided, cursor, cell, file, phase, engagement, persisted,
                       resuming, failures, armed, swept, world>>
    PROVE  Kept
<1> DEFINE th == thread[t]
<1>1. /\ ThreadSound(th, Known, sessions) /\ RoleSound(t, th, phase) /\ sessions \in Nat
      /\ thread = [u \in Threads |-> thread[u]] /\ swept \in BOOLEAN
  BY ThreadOf
<1>2. CASE ~ Permits(th.job) /\ Halt(t, n) /\ UNCHANGED current
  BY <1>2, HaltKeeps DEF world
<1>3. CASE /\ thread' = [thread EXCEPT ![t].pc = "renew", ![t].renewed = TRUE,
                                       ![t].tries = n, ![t].via = current]
           /\ current' = <<>>
           /\ UNCHANGED <<settled, unsent>>
  <2> DEFINE x == [th EXCEPT !.pc = "renew", !.renewed = TRUE, !.tries = n, !.via = current]
  <2>1. thread' = [thread EXCEPT ![t] = x]
    BY <1>1, <1>3
  <2>2. th \in [pc : {th.pc}, job : {th.job}, todo : {th.todo}, tries : {th.tries},
                renewed : {th.renewed}, via : {th.via}, passes : {th.passes}]
    BY <1>1 DEF ThreadSound
  <2> HIDE DEF th
  <2>3. x \in [pc : {"renew"}, job : {th.job}, todo : {th.todo}, tries : {n},
               renewed : {TRUE}, via : {current}, passes : {th.passes}]
    BY <2>2
  <2> HIDE DEF x
  <2>4. current \in Seq(1 .. sessions) /\ "renew" \in Submitting /\ x.pc = "renew"
    BY <2>3 DEF RunnerInv, SessionsSound, Submitting
  <2>5. x \in [pc : Submitting, job : {th.job}, todo : {th.todo}, tries : 1 .. MaxAttempts,
               renewed : BOOLEAN, via : Seq(1 .. sessions), passes : {th.passes}]
    BY <2>3, <2>4
  <2>6. th.pc \in Submitting
    BY DEF th
  <2>7. /\ ThreadSound(x, Known, sessions) /\ x.todo = th.todo /\ x.job = th.job /\ x.tries # 0
        /\ x.pc \in Submitting
    BY <1>1, <2>4, <2>5, <2>6, RetryIs
  <2>8. Alone(t, x)
    BY <1>1, <1>3, <2>1 DEF Alone, world, ledger
  <2>9. RoleSound(t, x, phase')
    BY <1>1, <2>6, <2>7, RoleKept
  <2>10. /\ th.pc \notin {"rest", "idle", "next"}
         /\ t \in Sweepers => engagement # 0
         /\ phase = "RECOVERING" /\ NoRestart => t # "main"
    BY SubmittingIs DEF th
  <2>11. Quiet(t, th, x) /\ Calm(th, x)
    BY <2>4, <2>6, <2>7, <2>10 DEF Quiet, Calm, Placing
  <2> QED
    BY <1>3, <2>4, <2>7, <2>8, <2>9, <2>10, <2>11, QuietStep DEF world, th
<1>4. CASE /\ settled' = settled \cup {th.job}
           /\ thread' = [thread EXCEPT ![t] = Done(@)]
           /\ UNCHANGED <<unsent, current>>
  <2>1. thread' = [thread EXCEPT ![t] = Done(th)]
    BY <1>1, <1>4
  <2>2. Alone(t, Done(th))
    BY <1>1, <1>4, <2>1 DEF Alone, world, ledger
  <2> QED
    BY <1>4, <2>2, DoneStep DEF world
<1> QED
  BY <1>2, <1>3, <1>4 DEF SessionExpired

LEMMA AttemptKeeps ==
    ASSUME RunnerInv, NEW t \in Threads, Attempt(t)
    PROVE  Kept
<1> DEFINE th == thread[t]
<1>1. th.pc = "attempt" /\ th.pc \in Submitting
  BY DEF Attempt, Submitting
<1>2. /\ ThreadSound(th, Known, sessions) /\ RoleSound(t, th, phase) /\ sessions \in Nat
      /\ thread = [u \in Threads |-> thread[u]] /\ swept \in BOOLEAN
      /\ th.tries \in 0 .. MaxAttempts
  BY ThreadOf, ThreadFields
<1>3. CASE th.tries = MaxAttempts
  <2>1. Throw(t) /\ UNCHANGED <<decided, cursor, cell, faults>>
    BY <1>3 DEF Attempt
  <2>2. th.pc # "relogin"
    BY <1>1
  <2> QED
    BY <1>1, <2>1, <2>2, ThrowKeeps
<1>4. CASE th.tries # MaxAttempts
  <2>1. /\ \/ /\ ~ Permits(th.job)
              /\ Halt(t, th.tries)
              /\ UNCHANGED current
           \/ /\ Permits(th.job) /\ ~ HasSession
              /\ SessionExpired(t, th.tries + 1)
           \/ /\ Permits(th.job) /\ HasSession
              /\ thread' = [thread EXCEPT ![t].pc = "sent", ![t].tries = @ + 1,
                                          ![t].via = current]
              /\ UNCHANGED <<settled, unsent, current>>
        /\ UNCHANGED <<decided, cursor, cell, file, phase, engagement, persisted,
                       resuming, failures, armed, swept, world>>
    BY <1>4 DEF Attempt
  <2>2. th.tries + 1 \in 1 .. MaxAttempts
    BY <1>2, <1>4, RunnerAssumption
  <2>3. CASE ~ Permits(th.job) /\ Halt(t, th.tries) /\ UNCHANGED current
    BY <1>1, <2>1, <2>3, HaltKeeps DEF world
  <2>4. CASE Permits(th.job) /\ SessionExpired(t, th.tries + 1)
    BY <1>1, <2>1, <2>2, <2>4, SessionExpiredKeeps
  <2>5. CASE /\ Permits(th.job) /\ HasSession
             /\ thread' = [thread EXCEPT ![t].pc = "sent", ![t].tries = @ + 1,
                                         ![t].via = current]
             /\ UNCHANGED <<settled, unsent, current>>
    <3> DEFINE n == th.tries + 1
               x == [th EXCEPT !.pc = "sent", !.tries = n, !.via = current]
    <3>1. thread' = [thread EXCEPT ![t] = x]
      BY <1>2, <2>5
    <3>2. th \in [pc : {th.pc}, job : {th.job}, todo : {th.todo}, tries : {th.tries},
                  renewed : {th.renewed}, via : {th.via}, passes : {th.passes}]
          /\ th.renewed \in BOOLEAN
      BY <1>2 DEF ThreadSound
    <3>3. IsPlace(th.job) => engagement = 0
      BY <2>5 DEF Permits
    <3>4. /\ n \in 1 .. MaxAttempts
          /\ th.pc \in Submitting /\ th.pc \notin {"rest", "idle", "next", "sent"}
          /\ t \in Sweepers => engagement # 0 /\ ~ IsPlace(th.job)
          /\ phase = "RECOVERING" /\ NoRestart => t # "main"
          /\ phase \notin Before
      BY <1>1, <2>2, SubmittingIs
    <3> HIDE DEF th, n
    <3>5. x \in [pc : {"sent"}, job : {th.job}, todo : {th.todo}, tries : {n},
                 renewed : {th.renewed}, via : {current}, passes : {th.passes}]
      BY <3>2
    <3> HIDE DEF x
    <3>6. current \in Seq(1 .. sessions) /\ "sent" \in Submitting /\ x.pc = "sent" /\ x.via # <<>>
      BY <2>5, <3>5 DEF RunnerInv, SessionsSound, Submitting, HasSession
    <3>7. x \in [pc : Submitting, job : {th.job}, todo : {th.todo}, tries : 1 .. MaxAttempts,
                 renewed : BOOLEAN, via : Seq(1 .. sessions), passes : {th.passes}]
      BY <3>2, <3>4, <3>5, <3>6
    <3>8. /\ ThreadSound(x, Known, sessions) /\ x.todo = th.todo /\ x.job = th.job /\ x.tries # 0
          /\ x.pc \in Submitting
      BY <1>2, <3>4, <3>6, <3>7, RetryIs
    <3>9. Alone(t, x)
      BY <1>2, <2>1, <2>5, <3>1 DEF Alone, world, ledger
    <3>10. RoleSound(t, x, phase')
      BY <1>2, <2>1, <3>4, <3>8, RoleKept
    <3>11. Quiet(t, th, x) /\ Calm(th, x)
      BY <3>3, <3>4, <3>6, <3>8 DEF Quiet, Calm, Placing
    <3>12. Holds
      <4>1. /\ thread'[t] = x
            /\ \A u \in Threads : u # t => thread'[u] = thread[u]
        BY <3>1, OneThread DEF RunnerInv
      <4>2. IsPlace(x.job) => file.by # "runner"
        BY <3>3, <3>4, <3>8 DEF RunnerInv, LatchSound, Before
      <4> QED
        BY <4>1, <4>2 DEF Holds
    <3> QED
      BY <2>1, <2>5, <3>4, <3>6, <3>8, <3>9, <3>10, <3>11, <3>12, QuietStep DEF world, th
  <2> QED
    BY <2>1, <2>3, <2>4, <2>5
<1> QED
  BY <1>3, <1>4

LEMMA AnsweredExpiredKeeps ==
    ASSUME RunnerInv, NEW t \in Threads, AnsweredExpired(t)
    PROVE  Kept
<1>1. /\ thread[t].pc = "sent" /\ SessionExpired(t, thread[t].tries)
      /\ UNCHANGED <<decided, cursor, cell, file, phase, engagement, persisted,
                     resuming, failures, armed, swept, world>>
  BY DEF AnsweredExpired
<1>2. thread[t].tries \in 1 .. MaxAttempts
  <2>1. thread[t].tries \in 0 .. MaxAttempts /\ thread[t].tries # 0
    BY <1>1, ThreadOf, ThreadFields
  <2> QED
    BY <2>1, RunnerAssumption
<1>3. thread[t].pc \in Submitting
  BY <1>1 DEF Submitting
<1> QED
  BY <1>1, <1>2, <1>3, SessionExpiredKeeps

\* A request that reaches the ledger places the thread's decision at most, and
\* places nothing that a sweep has been through already.
LEMMA RequestArrives ==
    ASSUME RunnerInv, NEW t \in Threads, thread[t].pc = "sent",
           LedgerDoes(Request(thread[t])) \/ UNCHANGED <<orders, open>>
    PROVE  /\ \A o \in orders' : o \in orders \/ (o[2] = thread[t].job /\ IsPlace(thread[t].job))
           /\ swept /\ ~ armed => open' \subseteq open
<1> DEFINE r == Request(thread[t])
<1>1. CASE LedgerDoes(r)
  <2>1. r[2] = thread[t].job
    BY ThreadOf, RequestIs
  <2> HIDE DEF r
  <2>2. /\ orders' = IF IsPlace(r[2]) THEN orders \cup {OrderOf(r)} ELSE orders
        /\ open' \subseteq open \cup (orders' \ orders)
    BY <1>1, LedgerDoesIs DEF RunnerInv, OrdersSound
  <2>3. swept /\ ~ armed => ~ IsPlace(thread[t].job)
    BY DEF RunnerInv, LatchSound, Placing
  <2>4. OrderOf(r)[2] = r[2]
    BY DEF OrderOf
  <2> QED
    BY <2>1, <2>2, <2>3, <2>4
<1>2. CASE UNCHANGED <<orders, open>>
  BY <1>2
<1> QED
  BY <1>1, <1>2

\* The orders after it, and the requests that are still under way.
LEMMA OrdersArrive ==
    ASSUME RunnerInv, NEW t \in Threads, thread[t].pc = "sent",
           LedgerDoes(Request(thread[t])) \/ UNCHANGED <<orders, open>>,
           late' \subseteq late \cup {Request(thread[t])},
           UNCHANGED <<decided, stray, sessions>>
    PROVE  OrdersSound'
<1> DEFINE r == Request(thread[t])
<1>1. r = <<r[1], r[2], r[3]>> /\ r[1] \in 1 .. sessions /\ r[2] \in Known
  BY ThreadOf, RequestIs
<1>2. Known' = Known /\ sessions' = sessions /\ sessions \in Nat
  BY KnownSame, ThreadOf
<1> HIDE DEF r
<1>3. \A q \in late' : q \in late \/ (q = <<q[1], q[2], q[3]>> /\ q[1] \in 1 .. sessions /\ q[2] \in Known)
  BY <1>1 DEF r
<1>4. CASE LedgerDoes(r)
  BY <1>1, <1>2, <1>3, <1>4, OrdersAfter DEF RunnerInv
<1>5. CASE UNCHANGED <<orders, open>>
  BY <1>2, <1>3, <1>5, OrdersStay DEF RunnerInv
<1> QED
  BY <1>4, <1>5 DEF r

\* The charges after it.
LEMMA ChargesArrive ==
    ASSUME RunnerInv, NEW t \in Threads, thread[t].pc = "sent", NoRestart' => NoRestart,
           UNCHANGED <<unsent, decided, cursor, phase>>,
           \A o \in orders' : o \in orders \/ (o[2] = thread[t].job /\ IsPlace(thread[t].job)),
           \A r \in late' : r \in late \/ r[2] = thread[t].job,
           \A u \in Threads : u # t => \/ thread'[u] = thread[u]
                                       \/ u = "sweep" /\ thread'[u].pc \notin Submitting,
           thread'[t].pc \in Submitting => thread'[t].job = thread[t].job /\ thread'[t].tries # 0
    PROVE  ChargesSound'
<1> SUFFICES ASSUME NoRestart' PROVE ChargesSound'
  BY DEF ChargesSound
<1> DEFINE d == thread[t].job
<1>1. NoRestart /\ thread[t].pc \in Submitting
  BY DEF Submitting
<1>2. IsPlace(d) => d \notin unsent
  BY <1>1 DEF RunnerInv, ChargesSound, ChargeSound
<1>3. ASSUME NEW u \in Threads PROVE ChargeSound(thread[u])'
  <2>1. CASE u = t
    BY <1>2, <2>1 DEF ChargeSound
  <2>2. CASE u # t
    <3>1. ChargeSound(thread[u])
      BY <1>1 DEF RunnerInv, ChargesSound
    <3>2. thread[u].pc \in Submitting /\ IsPlace(thread[u].job) /\ IsPlace(d) => thread[u].job # d
      BY <1>1, <2>2, JobsDiffer DEF RunnerInv
    <3> QED
      BY <2>2, <3>1, <3>2 DEF ChargeSound
  <2> QED
    BY <2>1, <2>2
<1>4. (\A o \in orders' : o[2] \notin unsent) /\ \A r \in late' : IsPlace(r[2]) => r[2] \notin unsent
  BY <1>1, <1>2 DEF RunnerInv, ChargesSound
<1>5. phase = "RECOVERING" => thread'["main"] = thread["main"]
  BY <1>1, SubmittingIs, ThreadNames
<1>6. Known' = Known
  BY KnownSame
<1> QED
  BY <1>1, <1>3, <1>4, <1>5, <1>6 DEF RunnerInv, ChargesSound

LEMMA AnsweredKeeps ==
    ASSUME RunnerInv, NEW t \in Threads, Answered(t)
    PROVE  Kept
<1> DEFINE th == thread[t]
           x == Done(th)
<1>1. /\ th.pc = "sent" /\ th.pc \in Submitting
      /\ LedgerDoes(Request(th)) \/ UNCHANGED <<orders, open>>
      /\ faults' = faults \/ Fault("verdict")
      /\ settled' = settled \cup {th.job} /\ thread' = [thread EXCEPT ![t] = Done(@)]
      /\ UNCHANGED <<decided, unsent, cursor, cell, file, phase, current, engagement,
                     persisted, resuming, armed, swept, sessions, expired, late,
                     stray, events, ticks, engagements>>
  BY DEF Answered, Submitting
<1>2. /\ ThreadSound(th, Known, sessions) /\ RoleSound(t, th, phase) /\ sessions \in Nat
      /\ thread = [u \in Threads |-> thread[u]] /\ swept \in BOOLEAN
  BY ThreadOf
<1>3. /\ th.job \in Known /\ th.pc \notin {"rest", "idle", "next"}
      /\ t \in Sweepers => engagement # 0
  BY <1>1, SubmittingIs
<1>4. x.pc = "next" /\ x.todo = th.todo /\ ThreadSound(x, Known, sessions)
  BY <1>2, DoneIs
<1>5. thread' = [thread EXCEPT ![t] = x]
  BY <1>1, <1>2
<1> HIDE DEF x
<1>6. Alone(t, x)
  BY <1>1, <1>2, <1>5 DEF Alone
<1>7. x.pc \notin Submitting
  BY <1>4 DEF Submitting
<1>8. RoleSound(t, x, phase')
  BY <1>1, <1>2, <1>4, <1>7, RoleKept
<1>9. Quiet(t, th, x)
  BY <1>3, <1>4 DEF Quiet, Placing
<1>10. LogSound' /\ Known' = Known
  BY <1>1, <1>3 DEF RunnerInv, LogSound, Known
<1>11. /\ SessionsSound' /\ SwitchSound' /\ ThreadsSound' /\ RolesSound' /\ LatchSound'
       /\ thread'[t] = x /\ \A u \in Threads : u # t => thread'[u] = thread[u]
       /\ Holds
  <2>1. thread'["main"].pc = "tick" => ticks' < MaxTicks
    <3>1. thread'["main"] = thread["main"] \/ thread'["main"] = x
      BY <1>2, <1>5, ThreadNames
    <3> QED
      BY <1>1, <1>4, <3>1 DEF RunnerInv, RolesSound
  <2> QED
    BY <1>4, <1>6, <1>8, <1>9, <1>10, <2>1, AloneKeeps
<1>12. OrdersSound'
  BY <1>1, OrdersArrive
<1>13. /\ \A o \in orders' : o \in orders \/ (o[2] = th.job /\ IsPlace(th.job))
       /\ swept /\ ~ armed => open' \subseteq open
  BY <1>1, RequestArrives
<1>14. SweepSound'
  BY <1>1, <1>13 DEF RunnerInv, SweepSound, HasSession
<1>15. ChargesSound'
  <2>1. NoRestart' => NoRestart
    BY <1>1, FaultsSame, FaultsGrow
  <2> QED
    BY <1>1, <1>7, <1>11, <1>13, <2>1, ChargesArrive
<1> QED
  BY <1>10, <1>11, <1>12, <1>14, <1>15 DEF Kept, RunnerInv

-----------------------------------------------------------------------------
(* The latch comes down.                                                   *)

LEMMA EngageIs ==
    ASSUME RunnerInv, NEW t \in Threads \ Sweepers, NEW y, Engage([thread EXCEPT ![t] = y]),
           UNCHANGED <<cell, phase, current, resuming, armed, sessions, expired, decided, ticks>>,
           phase \notin Before, ThreadSound(y, Known, sessions), RoleSound(t, y, phase),
           y = thread[t] \/ y.pc \notin {"tick", "sent"}
    PROVE  /\ SessionsSound' /\ SwitchSound' /\ ThreadsSound' /\ RolesSound' /\ LatchSound'
           /\ SweepSound' /\ Holds /\ thread'[t] = y
           /\ \A u \in Threads : u # t => \/ thread'[u] = thread[u]
                                          \/ u = "sweep" /\ thread'[u].pc \notin Submitting
<1> DEFINE i == [Rest EXCEPT !.pc = "idle"]
<1>1. /\ engagement = 0 /\ engagements' = engagements + 1 /\ engagement' = engagements + 1
      /\ \/ file' = [by |-> "runner", at |-> engagements + 1] /\ persisted' = TRUE
         \/ file' = file /\ persisted' = FALSE
      /\ thread' = [[thread EXCEPT ![t] = y] EXCEPT !["sweep"] = i]
      /\ swept' = FALSE
  BY DEF Engage
<1>2. sessions \in Nat /\ thread = [u \in Threads |-> thread[u]]
  BY ThreadOf
<1>3. i.pc = "idle" /\ i.todo = <<>> /\ ThreadSound(i, Known, sessions)
  <2>1. "idle" \in Places \ Submitting
    BY DEF Places, Submitting
  <2> QED
    BY <1>2, <2>1, RestAs
<1> HIDE DEF i
<1>4. /\ thread' = [u \in Threads |-> thread'[u]] /\ thread'[t] = y /\ thread'["sweep"] = i
      /\ \A u \in Threads : u # t /\ u # "sweep" => thread'[u] = thread[u]
      /\ "sweep" \in Threads /\ t # "sweep"
  <2>1. "sweep" \in Threads /\ t # "sweep"
    BY ThreadNames
  <2> QED
    BY <1>1, <1>2, <2>1
<1>5. i.pc \notin Submitting
  BY <1>3 DEF Submitting
<1>6. SessionsSound'
  BY DEF RunnerInv, SessionsSound
<1>7. engagements \in Nat /\ file \in [by : {"nobody", "operator", "runner"}, at : 0 .. engagements]
  BY DEF RunnerInv, SwitchSound
<1>8. SwitchSound'
  <2>0. engagements \in Nat
    BY <1>7
  <2>1. /\ engagements' \in Nat /\ engagement' \in 0 .. engagements'
        /\ 0 .. engagements \subseteq 0 .. engagements'
    BY <1>1, <2>0
  <2>3. persisted' \in BOOLEAN
    BY <1>1
  <2>2. file' \in [by : {"nobody", "operator", "runner"}, at : 0 .. engagements']
    BY <1>1, <1>7, <2>1
  <2> QED
    BY <1>1, <2>1, <2>2, <2>3 DEF RunnerInv, SwitchSound
<1>9. Known' = Known
  BY KnownSame
<1>10. ThreadsSound'
  <2>1. \A u \in Threads : thread'[u] = thread[u] \/ ThreadSound(thread'[u], Known, sessions)
    BY <1>3, <1>4
  <2> QED
    BY <1>2, <1>4, <1>9, <2>1, ThreadsAfter DEF RunnerInv
<1>11. RolesSound'
  <2>1. RoleSound("sweep", i, phase)
    BY <1>3, <1>5, ThreadNames, EmptyList DEF RoleSound
  <2>2. \A u \in Threads : thread'[u] = thread[u] \/ RoleSound(u, thread'[u], phase')
    BY <1>4, <2>1
  <2>3. thread'["main"].pc = "tick" => ticks' < MaxTicks
    BY <1>4, ThreadNames DEF RunnerInv, RolesSound
  <2> QED
    BY <2>2, <2>3, RolesAfter DEF RunnerInv
<1>12. LatchSound'
  <2>1. engagement' # 0 /\ ~ resuming
    BY <1>1, <1>7 DEF RunnerInv, LatchSound
  <2>2. file'.by = "runner" => file'.at # 0
    BY <1>1, <1>7 DEF RunnerInv, LatchSound
  <2>3. \A u \in Resweeps : thread'[u].pc = "rest"
    BY <1>1, <1>4, ThreadNames DEF RunnerInv, LatchSound
  <2> QED
    BY <1>1, <1>3, <1>4, <2>1, <2>2, <2>3 DEF LatchSound, Before
<1>13. SweepSound'
  BY <1>1 DEF SweepSound
<1>14. Holds
  BY <1>3, <1>4 DEF Holds
<1> QED
  BY <1>4, <1>5, <1>6, <1>8, <1>10, <1>11, <1>12, <1>13, <1>14

LEMMA CycleEngagesKeeps ==
    ASSUME RunnerInv, CycleEngages
    PROVE  Kept
<1> DEFINE a == [Rest EXCEPT !.pc = "await"]
<1>1. /\ phase = "RUNNING" /\ Engage([thread EXCEPT !["main"] = a])
      /\ faults' = faults \/ Fault("loss")
      /\ UNCHANGED <<decided, settled, unsent, cursor, cell, phase, current, resuming,
                     failures, armed, ledger, ticks>>
  BY DEF CycleEngages, Idle
<1>2. "main" \in Threads \ Sweepers /\ sessions \in Nat
  BY ThreadOf, ThreadNames
<1>3. a.pc = "await" /\ a.todo = <<>> /\ ThreadSound(a, Known, sessions)
  <2>1. "await" \in Places \ Submitting
    BY DEF Places, Submitting
  <2> QED
    BY <1>2, <2>1, RestAs
<1> HIDE DEF a
<1>4. a.pc \notin Submitting /\ phase \notin Before
  BY <1>1, <1>3 DEF Submitting, Before
<1>5. RoleSound("main", a, phase)
  BY <1>1, <1>3, <1>4, ThreadNames DEF RoleSound
<1>6. /\ SessionsSound' /\ SwitchSound' /\ ThreadsSound' /\ RolesSound' /\ LatchSound'
      /\ SweepSound' /\ Holds /\ thread'["main"] = a
      /\ \A u \in Threads : u # "main" => \/ thread'[u] = thread[u]
                                          \/ u = "sweep" /\ thread'[u].pc \notin Submitting
  BY <1>1, <1>2, <1>3, <1>4, <1>5, EngageIs DEF ledger
<1>7. LogSound' /\ OrdersSound' /\ Known' = Known
  BY <1>1 DEF RunnerInv, LogSound, OrdersSound, ledger, Known
<1>8. ChargesSound'
  <2>1. NoRestart' => NoRestart
    BY <1>1, FaultsSame, FaultsGrow
  <2>2. \A u \in Threads : thread'[u] = thread[u] \/ Calm(thread[u], thread'[u])
    BY <1>4, <1>6 DEF Calm
  <2> QED
    BY <1>1, <1>7, <2>1, <2>2, ChargesAfter DEF RunnerInv, ledger, Before
<1> QED
  BY <1>6, <1>7, <1>8 DEF Kept, RunnerInv

LEMMA WedgeKeeps ==
    ASSUME RunnerInv, Wedge
    PROVE  Kept
<1>1. /\ phase = "RUNNING" /\ Fault("wedge")
      /\ UNCHANGED <<decided, settled, unsent, cursor, cell, phase, current, resuming,
                     failures, armed, ledger, ticks>>
  BY DEF Wedge
<1> DEFINE m == thread["main"]
<1>2. /\ "main" \in Threads \ Sweepers /\ sessions \in Nat
      /\ ThreadSound(m, Known, sessions) /\ RoleSound("main", m, phase)
      /\ thread = [thread EXCEPT !["main"] = m]
  BY ThreadOf, ThreadNames
<1>3. phase \notin Before
  BY <1>1 DEF Before
<1>4. LogSound' /\ OrdersSound' /\ Known' = Known
  BY <1>1 DEF RunnerInv, LogSound, OrdersSound, ledger, Known
<1>5. /\ SessionsSound' /\ SwitchSound' /\ ThreadsSound' /\ RolesSound' /\ LatchSound'
      /\ SweepSound' /\ Holds
      /\ \A u \in Threads : \/ thread'[u] = thread[u]
                            \/ thread'[u].pc \notin Submitting /\ u = "sweep"
  <2>1. CASE Engage(thread)
    <3>1. Engage([thread EXCEPT !["main"] = m])
      BY <1>2, <2>1
    <3> QED
      BY <1>1, <1>2, <1>3, <3>1, EngageIs DEF ledger
  <2>2. CASE UNCHANGED thread /\ Untouched
    <3>1. SessionsSound' /\ SwitchSound' /\ SweepSound'
      BY <1>1, <2>2 DEF RunnerInv, SessionsSound, SwitchSound, SweepSound, HasSession, Untouched, ledger
    <3>2. ThreadsSound' /\ RolesSound' /\ LatchSound'
      BY <1>1, <1>4, <2>2 DEF RunnerInv, ThreadsSound, RolesSound, LatchSound, Untouched, Placing, ledger
    <3> QED
      BY <2>2, <3>1, <3>2 DEF Holds
  <2> QED
    BY <2>1, <2>2 DEF Wedge
<1>6. ChargesSound'
  <2>1. NoRestart' => NoRestart
    BY <1>1, FaultsGrow
  <2>2. \A u \in Threads : thread'[u] = thread[u] \/ Calm(thread[u], thread'[u])
    BY <1>5 DEF Calm
  <2> QED
    BY <1>1, <1>4, <2>1, <2>2, ChargesAfter DEF RunnerInv, ledger, Before
<1> QED
  BY <1>4, <1>5, <1>6 DEF Kept, RunnerInv

LEMMA AttemptFailsKeeps ==
    ASSUME RunnerInv, NEW t \in Threads, AttemptFails(t)
    PROVE  Kept
<1> DEFINE th == thread[t]
           trips == failures' = TripAfter /\ engagement = 0
           halted == IsPlace(th.job) /\ (trips \/ engagement # 0)
           y == IF halted \/ th.tries = MaxAttempts THEN Done(th) ELSE [th EXCEPT !.pc = "attempt"]
<1>1. /\ th.pc = "sent" /\ th.pc \in Submitting
      /\ LedgerDoes(Request(th)) \/ UNCHANGED <<orders, open>>
      /\ late' \subseteq late \cup {Request(th)}
      /\ \E kind : Fault(kind)
      /\ settled' = IF halted THEN settled \cup {th.job} ELSE settled
      /\ IF trips THEN Engage([thread EXCEPT ![t] = y])
         ELSE thread' = [thread EXCEPT ![t] = y] /\ Untouched
      /\ UNCHANGED <<decided, unsent, cursor, cell, phase, current, resuming, armed,
                     sessions, expired, stray, events, ticks>>
  <2>1. /\ LedgerDoes(Request(th)) \/ UNCHANGED <<orders, open>>
        /\ late' \subseteq late \cup {Request(th)}
        /\ \E kind : Fault(kind)
    BY DEF AttemptFails, TimesOut
  <2>2. /\ th.pc = "sent" /\ th.pc \in Submitting
        /\ settled' = IF halted THEN settled \cup {th.job} ELSE settled
        /\ IF trips THEN Engage([thread EXCEPT ![t] = y])
           ELSE thread' = [thread EXCEPT ![t] = y] /\ Untouched
        /\ UNCHANGED <<decided, unsent, cursor, cell, phase, current, resuming, armed,
                       sessions, expired, stray, events, ticks>>
    BY DEF AttemptFails, Submitting
  <2> QED
    BY <2>1, <2>2
<1>2. /\ ThreadSound(th, Known, sessions) /\ RoleSound(t, th, phase) /\ sessions \in Nat
      /\ thread = [u \in Threads |-> thread[u]] /\ swept \in BOOLEAN
  BY ThreadOf
<1>3. /\ th.job \in Known /\ th.pc \notin {"rest", "idle", "next"} /\ phase \notin Before
      /\ t \in Sweepers => engagement # 0 /\ ~ IsPlace(th.job)
  BY <1>1, SubmittingIs
<1>4. /\ ThreadSound(y, Known, sessions) /\ y.todo = th.todo /\ y.pc \in {"next", "attempt"}
      /\ y.pc = "attempt" => y.job = th.job /\ y.tries # 0
  <2>1. CASE halted \/ th.tries = MaxAttempts
    <3>1. y = Done(th)
      BY <2>1
    <3> HIDE DEF y, halted, th
    <3>2. Done(th).pc = "next" /\ Done(th).todo = th.todo /\ ThreadSound(Done(th), Known, sessions)
      BY <1>2, DoneIs
    <3> QED
      BY <3>1, <3>2
  <2>2. CASE ~ (halted \/ th.tries = MaxAttempts)
    <3> DEFINE x == [th EXCEPT !.pc = "attempt"]
    <3>1. y = x
      BY <2>2
    <3>2. /\ th \in [pc : {th.pc}, job : {th.job}, todo : {th.todo}, tries : {th.tries},
                     renewed : {th.renewed}, via : {th.via}, passes : {th.passes}]
          /\ th.renewed \in BOOLEAN /\ th.via \in Seq(1 .. sessions)
      BY <1>2 DEF ThreadSound
    <3>3. th.tries \in 1 .. MaxAttempts
      <4>1. th.tries \in 0 .. MaxAttempts /\ th.tries # 0
        BY <1>1, <1>2, ThreadFields
      <4> QED
        BY <4>1, RunnerAssumption
    <3>4. th.pc \in Submitting
      BY <1>1
    <3> HIDE DEF th, y
    <3>5. x \in [pc : {"attempt"}, job : {th.job}, todo : {th.todo}, tries : {th.tries},
                 renewed : {th.renewed}, via : {th.via}, passes : {th.passes}]
      BY <3>2
    <3> HIDE DEF x
    <3>6. "attempt" \in Submitting /\ x.pc = "attempt" /\ x.pc # "sent"
      BY <3>5 DEF Submitting
    <3>7. x \in [pc : Submitting, job : {th.job}, todo : {th.todo}, tries : 1 .. MaxAttempts,
                 renewed : BOOLEAN, via : Seq(1 .. sessions), passes : {th.passes}]
      BY <3>2, <3>3, <3>5, <3>6
    <3>8. /\ ThreadSound(x, Known, sessions) /\ x.todo = th.todo /\ x.job = th.job /\ x.tries # 0
      BY <1>2, <3>4, <3>6, <3>7, RetryIs
    <3> QED
      BY <3>1, <3>6, <3>8
  <2> QED
    BY <2>1, <2>2
<1> HIDE DEF y
<1>5. RoleSound(t, y, phase)
  <2>1. y.pc \in Submitting \cup {"next"} /\ (y.pc \in Submitting => y.job = th.job)
    BY <1>4 DEF Submitting
  <2> QED
    BY <1>1, <1>2, <1>4, <2>1, RoleKept
<1>6. LogSound' /\ Known' = Known
  BY <1>1, <1>3 DEF RunnerInv, LogSound, Known
<1>7. OrdersSound'
  BY <1>1, OrdersArrive
<1>8. /\ \A o \in orders' : o \in orders \/ (o[2] = th.job /\ IsPlace(th.job))
      /\ swept /\ ~ armed => open' \subseteq open
  BY <1>1, RequestArrives
<1>9. /\ SessionsSound' /\ SwitchSound' /\ ThreadsSound' /\ RolesSound' /\ LatchSound'
      /\ SweepSound' /\ Holds /\ thread'[t] = y
      /\ \A u \in Threads : u # t => \/ thread'[u] = thread[u]
                                     \/ u = "sweep" /\ thread'[u].pc \notin Submitting
  <2>1. CASE trips
    <3>1. t \in Threads \ Sweepers
      BY <1>3, <2>1
    <3>2. Engage([thread EXCEPT ![t] = y]) /\ y.pc \notin {"tick", "sent"}
      BY <1>1, <1>4, <2>1
    <3> QED
      BY <1>1, <1>3, <1>4, <1>5, <3>1, <3>2, EngageIs
  <2>2. CASE ~ trips
    <3>1. thread' = [thread EXCEPT ![t] = y] /\ Untouched
      BY <1>1, <2>2
    <3>2. Alone(t, y)
      BY <1>1, <1>2, <3>1 DEF Alone, Untouched
    <3>3. Quiet(t, th, y)
      BY <1>3, <1>4 DEF Quiet, Placing
    <3>4. thread'["main"].pc = "tick" => ticks' < MaxTicks
      <4>1. thread'["main"] = thread["main"] \/ thread'["main"] = y
        BY <1>2, <3>1, ThreadNames
      <4> QED
        BY <1>1, <1>4, <4>1 DEF RunnerInv, RolesSound
    <3>5. /\ SessionsSound' /\ SwitchSound' /\ ThreadsSound' /\ RolesSound' /\ LatchSound'
          /\ thread'[t] = y /\ \A u \in Threads : u # t => thread'[u] = thread[u]
          /\ Holds
      BY <1>1, <1>4, <1>5, <1>6, <3>2, <3>3, <3>4, AloneKeeps
    <3>6. SweepSound'
      BY <1>1, <1>8, <3>1 DEF RunnerInv, SweepSound, HasSession, Untouched
    <3> QED
      BY <3>5, <3>6
  <2> QED
    BY <2>1, <2>2
<1>10. ChargesSound'
  <2>1. NoRestart' => NoRestart
    BY <1>1, FaultsGrow
  <2>2. \A r \in late' : r \in late \/ r[2] = th.job
    <3>1. Request(th)[2] = th.job
      BY <1>1, <1>2, RequestIs
    <3> QED
      BY <1>1, <3>1
  <2>3. y.pc \in Submitting => y.job = th.job /\ y.tries # 0
    BY <1>4 DEF Submitting
  <2> QED
    BY <1>1, <1>8, <1>9, <2>1, <2>2, <2>3, ChargesArrive
<1> QED
  BY <1>6, <1>7, <1>9, <1>10 DEF Kept, RunnerInv

-----------------------------------------------------------------------------
(* A new session.                                                          *)

LEMMA RenewedKeeps ==
    ASSUME RunnerInv, NEW t \in Threads, thread[t].pc \in {"renew", "relogin"},
           sessions' = sessions + 1, cell' = Append(thread[t].via, sessions'), current' = cell',
           thread' = [thread EXCEPT ![t].pc = CASE @ = "renew" -> "attempt"
                                                [] @ = "relogin" /\ t = "main" -> "cycle"
                                                [] OTHER -> "read",
                                    ![t].via = <<>>],
           UNCHANGED <<decided, cursor, settled, unsent, file, phase, engagement, persisted,
                       resuming, failures, armed, swept, expired, orders, open,
                       late, stray, events, ticks, engagements, faults>>
    PROVE  Kept
<1> DEFINE th == thread[t]
           p == IF th.pc = "renew" THEN "attempt" ELSE IF t = "main" THEN "cycle" ELSE "read"
           x == [th EXCEPT !.pc = p, !.via = <<>>]
<1>1. /\ ThreadSound(th, Known, sessions) /\ RoleSound(t, th, phase) /\ sessions \in Nat
      /\ thread = [u \in Threads |-> thread[u]]
  BY ThreadOf
<1>2. thread' = [thread EXCEPT ![t] = x]
  <2>1. (CASE th.pc = "renew" -> "attempt" [] th.pc = "relogin" /\ t = "main" -> "cycle"
          [] OTHER -> "read") = p
    OBVIOUS
  <2> QED
    BY <1>1, <2>1
<1>3. phase \notin Before /\ th.pc \in Places
  BY <1>1, ThreadFields DEF RoleSound
<1>4. /\ th \in [pc : {th.pc}, job : {th.job}, todo : {th.todo}, tries : {th.tries},
                 renewed : {th.renewed}, via : {th.via}, passes : {th.passes}]
      /\ th.renewed \in BOOLEAN /\ th.via \in Seq(1 .. sessions) /\ th.passes \in Nat
      /\ th.tries \in 0 .. MaxAttempts /\ th.todo \in Seq(ToSet(th.todo))
      /\ \A d \in ToSet(th.todo) : d \in Known \/ ~ IsPlace(d)
      /\ th.pc \in Submitting => th.job \in Known
  BY <1>1 DEF ThreadSound
<1>5. /\ p \in {"attempt", "cycle", "read"} /\ th.pc \in {"renew", "relogin"}
      /\ p = "attempt" => th.pc = "renew"
      /\ p = "cycle" => t = "main" /\ th.pc = "relogin"
      /\ p = "read" => t # "main" /\ th.pc = "relogin"
  OBVIOUS
<1> HIDE DEF th, p
<1>6. x \in [pc : {p}, job : {th.job}, todo : {th.todo}, tries : {th.tries},
             renewed : {th.renewed}, via : {<<>>}, passes : {th.passes}]
  BY <1>4
<1> HIDE DEF x
<1>7. x.pc = p /\ x.job = th.job /\ x.todo = th.todo /\ x.tries = th.tries
  BY <1>6
<1>8. ThreadSound(x, Known, sessions)
  <2>1. p \in Places /\ p \notin {"sent", "renew"} /\ (p \in Submitting => th.pc \in Submitting)
    BY <1>5 DEF Places, Submitting
  <2>2. <<>> \in Seq(1 .. sessions)
    OBVIOUS
  <2>3. x \in [pc : Places, job : {x.job}, todo : Seq(ToSet(x.todo)), tries : 0 .. MaxAttempts,
               renewed : BOOLEAN, via : Seq(1 .. sessions), passes : Nat]
    BY <1>4, <1>6, <2>1, <2>2
  <2> QED
    BY <1>4, <1>7, <2>1, <2>3 DEF ThreadSound
<1>9. RoleSound(t, x, phase)
  <2>1. CASE th.pc = "renew"
    <3>1. th.pc \in Submitting /\ x.pc \in Submitting
      BY <1>5, <1>7, <2>1 DEF Submitting, p
    <3> QED
      BY <1>1, <1>7, <3>1, RoleKept
  <2>2. CASE th.pc = "relogin"
    <3>1. x.pc \in {"cycle", "read"} /\ x.pc \notin Submitting
      BY <1>5, <1>7, <2>2 DEF Submitting
    <3>2. t # "drain" /\ (t = "main" => phase # "RECOVERING" /\ x.todo = <<>>)
      BY <1>1, <1>7, <2>2 DEF RoleSound, Submitting
    <3> QED
      BY <1>1, <1>3, <1>5, <1>7, <3>1, <3>2, ThreadNames DEF RoleSound
  <2> QED
    BY <1>5, <2>1, <2>2
<1>10. /\ thread' = [u \in Threads |-> thread'[u]] /\ thread'[t] = x
       /\ \A u \in Threads : u # t => thread'[u] = thread[u]
  BY <1>2, OneThread DEF RunnerInv
<1>11. Quiet(t, th, x) /\ Calm(th, x)
  <2>1. t \in Sweepers => engagement # 0
    BY <1>5, SweepsAreEngaged DEF th
  <2> QED
    BY <1>5, <1>7, <2>1 DEF Quiet, Calm, Placing, Submitting
<1>12. /\ sessions' \in Nat /\ sessions <= sessions' /\ cell' \in Seq(1 .. sessions')
       /\ cell' # <<>> /\ Last(cell') = sessions'
  <2>1. sessions' \in Nat /\ sessions <= sessions' /\ sessions' \in 1 .. sessions'
    BY <1>1
  <2>2. th.via \in Seq(1 .. sessions')
    BY <1>1, <1>4, <2>1, MoreSessions
  <2>3. cell' = Append(th.via, sessions')
    BY DEF th
  <2> DEFINE n == sessions'
             c == cell'
  <2> HIDE DEF n, c
  <2>4. c \in Seq((1 .. n) \cup {n}) /\ c # <<>> /\ Last(c) = n
    <3>1. th.via \in Seq(1 .. n) /\ c = Append(th.via, n)
      BY <2>2, <2>3 DEF n, c
    <3> QED
      BY <3>1, AppendIs
  <2>5. (1 .. n) \cup {n} = 1 .. n
    BY <2>1 DEF n
  <2> QED
    BY <2>1, <2>4, <2>5 DEF n, c
<1>13. SessionsSound'
  <2>1. 1 .. sessions \subseteq 1 .. sessions'
    BY <1>1, <1>12
  <2> QED
    BY <1>12, <2>1 DEF RunnerInv, SessionsSound
<1>14. LogSound' /\ SwitchSound' /\ Known' = Known
  BY DEF RunnerInv, LogSound, SwitchSound, Known
<1>15. ThreadsSound'
  <2>1. ThreadSound(x, Known', sessions')
    BY <1>1, <1>8, <1>12, <1>14, ThreadMono
  <2>2. \A u \in Threads : thread'[u] = thread[u] \/ ThreadSound(thread'[u], Known', sessions')
    BY <1>10, <2>1
  <2> QED
    BY <1>10, <1>12, <1>14, <2>2, ThreadsAfter DEF RunnerInv
<1>16. RolesSound'
  <2>1. \A u \in Threads : thread'[u] = thread[u] \/ RoleSound(u, thread'[u], phase')
    BY <1>9, <1>10
  <2>2. thread'["main"].pc = "tick" => ticks' < MaxTicks
    BY <1>5, <1>7, <1>10, ThreadNames DEF RunnerInv, RolesSound
  <2> QED
    BY <2>1, <2>2, RolesAfter DEF RunnerInv
<1>17. LatchSound'
  <2>1. \A u \in Threads : thread'[u] = thread[u] \/ Quiet(u, thread[u], thread'[u])
    BY <1>10, <1>11 DEF th
  <2> QED
    BY <1>3, <2>1, LatchAfter DEF RunnerInv
<1>18. OrdersSound'
  BY <1>12, <1>14, OrdersStay DEF RunnerInv
<1>19. SweepSound'
  <2>1. \A o \in open : o[1] # sessions'
    BY <1>1 DEF RunnerInv, OrdersSound
  <2> QED
    BY <1>12, <2>1 DEF SweepSound
<1>20. ChargesSound'
  <2>1. \A u \in Threads : thread'[u] = thread[u] \/ Calm(thread[u], thread'[u])
    BY <1>10, <1>11 DEF th
  <2>2. NoRestart /\ phase' = "RECOVERING" => thread'["main"] = thread["main"]
    <3>1. NoRestart /\ phase = "RECOVERING" => thread["main"].pc = "next"
      BY DEF RunnerInv, ChargesSound
    <3> QED
      BY <1>5, <1>10, <3>1, ThreadNames DEF th
  <2>3. NoRestart' => NoRestart
    BY FaultsSame
  <2> QED
    BY <1>14, <2>1, <2>2, <2>3, ChargesAfter DEF RunnerInv
<1>21. Holds
  BY <1>5, <1>7, <1>10 DEF Holds
<1> QED
  BY <1>13, <1>14, <1>15, <1>16, <1>17, <1>18, <1>19, <1>20, <1>21 DEF Kept, RunnerInv

LEMMA RenewKeeps ==
    ASSUME RunnerInv, NEW t \in Threads, Renew(t)
    PROVE  Kept
<1>1. thread[t].pc \in {"renew", "relogin"} /\ thread[t].pc \in Submitting \cup {"relogin"}
      /\ UNCHANGED <<decided, cursor>>
  BY DEF Renew, Submitting
<1>2. CASE /\ sessions' = sessions + 1
           /\ cell' = Append(thread[t].via, sessions')
           /\ current' = cell'
           /\ thread' = [thread EXCEPT ![t].pc = CASE @ = "renew" -> "attempt"
                                                   [] @ = "relogin" /\ t = "main" -> "cycle"
                                                   [] OTHER -> "read",
                                       ![t].via = <<>>]
           /\ UNCHANGED <<settled, unsent, file, phase, engagement, persisted,
                          resuming, failures, armed, swept, expired, orders, open,
                          late, stray, events, ticks, engagements, faults>>
  BY <1>1, <1>2, RenewedKeeps
<1>3. CASE /\ Fault("create") /\ UNCHANGED cell
           /\ thread[t].pc = "renew" /\ ~ Permits(thread[t].job)
           /\ Halt(t, thread[t].tries)
           /\ UNCHANGED <<file, phase, current, engagement, persisted, resuming,
                          failures, armed, swept, ledger, ticks, engagements>>
  <2>1. thread[t].pc \in Submitting
    BY <1>3 DEF Submitting
  <2> QED
    BY <1>1, <1>3, <2>1, HaltKeeps
<1>4. CASE Fault("create") /\ UNCHANGED cell /\ Throw(t)
  BY <1>1, <1>4, ThrowKeeps
<1> QED
  BY <1>2, <1>3, <1>4 DEF Renew

-----------------------------------------------------------------------------
(* New decisions.                                                          *)

\* A submission of a decision that nothing knows yet.
LEMMA ChargesStart ==
    ASSUME RunnerInv, NEW t \in Threads, NEW d, NoRestart => d \notin Known,
           Known' = Known \cup {d}, cursor' \in Nat, cursor <= cursor',
           NoRestart /\ d[1] = "fill" => d[2] <= cursor', thread'[t].job = d,
           \A u \in Threads : u # t => thread'[u] = thread[u],
           phase \notin Before \cup {"RECOVERING"},
           UNCHANGED <<unsent, orders, late, phase, faults>>
    PROVE  ChargesSound'
<1> SUFFICES ASSUME NoRestart' PROVE ChargesSound'
  BY DEF ChargesSound
<1>1. NoRestart /\ d \notin Known
  BY FaultsSame
<1>2. Fresh(d) /\ d \notin unsent
  BY <1>1 DEF RunnerInv, OrdersSound, LogSound, Fresh
<1>3. ASSUME NEW u \in Threads PROVE ChargeSound(thread[u])'
  <2>1. CASE u = t
    BY <1>2, <2>1 DEF ChargeSound, Fresh
  <2>2. CASE u # t
    BY <1>1, <2>2 DEF RunnerInv, ChargesSound, ChargeSound
  <2> QED
    BY <2>1, <2>2
<1>4. ASSUME NEW e \in Known', e[1] = "fill" PROVE e[2] <= cursor'
  <2>1. CASE e \in Known
    <3>1. e[2] <= cursor /\ e[2] \in 1 .. cursor + 1 /\ cursor \in Nat
      <4>1. cursor \in 0 .. events /\ events \in 0 .. MaxEvents
        BY DEF RunnerInv, LogSound
      <4> QED
        BY <1>1, <1>4, <2>1, <4>1 DEF RunnerInv, ChargesSound, LogSound
    <3> QED
      BY <3>1
  <2>2. CASE e = d
    BY <1>1, <1>4, <2>2
  <2> QED
    BY <2>1, <2>2
<1> QED
  BY <1>1, <1>3, <1>4 DEF RunnerInv, ChargesSound

LEMMA ApplyDecisionKeeps ==
    ASSUME RunnerInv, ApplyDecision
    PROVE  Kept
<1> DEFINE m == thread["main"]
           n == ticks + 1
           d == TickDecision(n)
           x == Submit(m, d)
<1>1. /\ m.pc = "tick"
      /\ UNCHANGED <<settled, unsent, cursor, cell, file, phase, current, engagement,
                     persisted, resuming, failures, armed, swept, ledger, engagements,
                     faults>>
  BY DEF ApplyDecision
<1>2. /\ ThreadSound(m, Known, sessions) /\ RoleSound("main", m, phase) /\ sessions \in Nat
      /\ thread = [u \in Threads |-> thread[u]] /\ swept \in BOOLEAN
      /\ "main" \in Threads /\ "main" \notin Sweepers
  BY ThreadOf, ThreadNames
<1>3. phase \notin Before \cup {"RECOVERING"} /\ m.todo = <<>>
  BY <1>1, <1>2 DEF RoleSound, Submitting
<1>4. CASE /\ thread' = [thread EXCEPT !["main"] = Rest]
           /\ UNCHANGED <<decided, ticks>>
  <2>1. Alone("main", Rest)
    BY <1>1, <1>2, <1>4 DEF Alone, ledger
  <2>2. RoleSound("main", Rest, phase')
    BY <1>1, <1>2, <1>3, RestIs, RoleRests
  <2>3. Quiet("main", m, Rest) /\ Calm(m, Rest)
    BY <1>2, RestIs DEF Quiet, Calm, Placing, Submitting
  <2> QED
    BY <1>1, <1>2, <1>3, <1>4, <2>1, <2>2, <2>3, RestIs, RestingIs, QuietStep
<1>5. CASE /\ ticks' = n
           /\ decided' = Append(decided, TickDecision(ticks'))
           /\ thread' = [thread EXCEPT !["main"] = Submit(@, TickDecision(ticks'))]
  <2>1. /\ ticks \in 0 .. MaxTicks /\ ticks < MaxTicks /\ MaxTicks \in Nat
        /\ events \in Nat /\ cursor \in 0 .. events
    BY <1>1, RunnerAssumption DEF RunnerInv, RolesSound, LogSound
  <2>2. n \in Nat /\ n \in 1 .. n /\ ticks' \in ticks .. MaxTicks
    BY <1>5, <2>1
  <2>3. d[1] = "tick" /\ d[2] = n /\ IsPlace(d) /\ d = TickDecision(d[2])
    BY FillDecisionIs
  <2>4. d \notin Known
    <3>1. \A e \in Known : e[1] = "tick" => e[2] \in 1 .. ticks
      BY DEF RunnerInv, LogSound
    <3> QED
      BY <2>1, <2>3, <3>1
  <2>5. decided' = Recorded(d) /\ thread' = [thread EXCEPT !["main"] = x]
    BY <1>2, <1>5, <2>4 DEF Recorded
  <2> HIDE DEF d
  <2>6. Known' = Known \cup {d} /\ Known \subseteq Known' /\ d \in Known'
    BY <2>5, RecordedIs DEF RunnerInv
  <2>7. /\ x.pc = "attempt" /\ x.job = d /\ x.todo = m.todo /\ x.tries = 0
        /\ ThreadSound(x, Known', sessions)
    <3> DEFINE known == Known'
    <3> HIDE DEF known, x
    <3>1. d \in known /\ Known \subseteq known
      BY <2>6 DEF known
    <3>2. /\ Submit(m, d).pc = "attempt" /\ Submit(m, d).job = d /\ Submit(m, d).todo = m.todo
          /\ Submit(m, d).tries = 0 /\ ThreadSound(Submit(m, d), known, sessions)
      BY <1>2, <3>1, SubmitIs
    <3> QED
      BY <3>2 DEF known, x
  <2> HIDE DEF x
  <2>8. Alone("main", x)
    BY <1>1, <1>2, <2>5 DEF Alone, ledger
  <2>9. RoleSound("main", x, phase')
    BY <1>1, <1>2, <1>3, <2>3, <2>7, ThreadNames DEF RoleSound, Submitting
  <2>10. Quiet("main", m, x)
    BY <1>2, <2>7 DEF Quiet, Placing
  <2>11. /\ SessionsSound' /\ SwitchSound' /\ ThreadsSound' /\ RolesSound' /\ LatchSound'
         /\ thread'["main"] = x /\ \A u \in Threads : u # "main" => thread'[u] = thread[u]
         /\ Holds
    <3>1. thread'["main"].pc # "tick"
      BY <1>2, <2>5, <2>7
    <3> QED
      BY <1>2, <2>6, <2>7, <2>8, <2>9, <2>10, <3>1, AloneKeeps
  <2>12. LogSound'
    <3>1. cursor' \in cursor .. events
      BY <1>1, <2>1
    <3>2. d[1] = "tick" => d = TickDecision(d[2]) /\ d[2] \in 1 .. ticks'
      BY <1>5, <2>2, <2>3
    <3>3. d[1] = "fill" => d = FillDecisionId(d[2]) /\ d[2] \in 1 .. cursor' + 1
      BY <2>3
    <3> QED
      BY <1>1, <2>2, <2>5, <3>1, <3>2, <3>3, LogGrows DEF RunnerInv, ledger
  <2>13. OrdersSound' /\ SweepSound'
    <3>1. OrdersSound'
      BY <1>1, <1>2, <2>6, OrdersStay DEF RunnerInv, ledger
    <3> QED
      BY <1>1, <3>1, SweepStays DEF RunnerInv, ledger
  <2>14. ChargesSound'
    <3>1. cursor' \in Nat /\ cursor <= cursor' /\ d[1] # "fill"
      BY <1>1, <2>1, <2>3
    <3> QED
      BY <1>1, <1>2, <1>3, <2>4, <2>6, <2>7, <2>11, <3>1, ChargesStart DEF ledger
  <2> QED
    BY <2>11, <2>12, <2>13, <2>14 DEF Kept, RunnerInv
<1> QED
  BY <1>4, <1>5 DEF ApplyDecision

LEMMA ProcessFillKeeps ==
    ASSUME RunnerInv, ProcessFill
    PROVE  Kept
<1> DEFINE m == thread["drain"]
           e == cursor + 1
           d == FillDecisionId(e)
           x == Submit(Rest, d)
<1>1. /\ phase = "RUNNING" /\ m.pc \in {"rest", "next"} /\ cursor < events /\ cursor' = e
      /\ \/ decided' = Recorded(d) /\ thread' = [thread EXCEPT !["drain"] = x]
         \/ thread' = [thread EXCEPT !["drain"] = Rest] /\ UNCHANGED decided
      /\ UNCHANGED <<settled, unsent, cell, file, phase, current, engagement,
                     persisted, resuming, failures, armed, swept, world>>
  BY DEF ProcessFill
<1>2. /\ RoleSound("drain", m, phase) /\ sessions \in Nat
      /\ thread = [u \in Threads |-> thread[u]] /\ swept \in BOOLEAN
      /\ "drain" \in Threads /\ "drain" \notin Sweepers /\ "drain" # "main"
  BY ThreadOf, ThreadNames
<1>3. phase \notin Before \cup {"RECOVERING"}
  BY <1>1 DEF Before
<1>4. /\ ticks \in 0 .. MaxTicks /\ MaxTicks \in Nat /\ events \in Nat /\ cursor \in 0 .. events
  BY RunnerAssumption DEF RunnerInv, LogSound
<1>5. cursor' \in Nat /\ cursor <= cursor' /\ cursor' \in cursor .. events /\ ticks' \in ticks .. MaxTicks
  BY <1>1, <1>4 DEF world
<1>6. d[1] = "fill" /\ d[2] = e /\ IsPlace(d) /\ d = FillDecisionId(d[2]) /\ e \in 1 .. cursor' + 1
  BY <1>1, <1>4, FillDecisionIs
<1>7. UNCHANGED <<sessions, orders, open, late, stray, events, ticks, faults>>
  BY <1>1 DEF world, ledger
<1> HIDE DEF d
<1>8. CASE decided' = Recorded(d) /\ thread' = [thread EXCEPT !["drain"] = x]
  <2>1. Known' = Known \cup {d} /\ Known \subseteq Known' /\ d \in Known'
    BY <1>8, RecordedIs DEF RunnerInv
  <2>2. /\ x.pc = "attempt" /\ x.job = d /\ x.todo = <<>> /\ x.tries = 0
        /\ ThreadSound(x, Known', sessions)
    <3> DEFINE known == Known'
    <3> HIDE DEF known, x
    <3>1. d \in known /\ Known \subseteq known /\ ThreadSound(Rest, Known, sessions)
      BY <2>1, RestingIs DEF known
    <3>2. /\ Submit(Rest, d).pc = "attempt" /\ Submit(Rest, d).job = d
          /\ Submit(Rest, d).todo = Rest.todo
          /\ Submit(Rest, d).tries = 0 /\ ThreadSound(Submit(Rest, d), known, sessions)
      BY <1>2, <3>1, SubmitIs
    <3> QED
      BY <3>2, RestIs DEF known, x
  <2> HIDE DEF x
  <2>3. Alone("drain", x)
    BY <1>1, <1>2, <1>8 DEF Alone, world, ledger
  <2>4. RoleSound("drain", x, phase')
    BY <1>1, <1>2, <1>3, <1>6, <2>2, ThreadNames DEF RoleSound, Submitting
  <2>5. Quiet("drain", m, x)
    BY <1>2, <2>2 DEF Quiet, Placing
  <2>6. /\ SessionsSound' /\ SwitchSound' /\ ThreadsSound' /\ RolesSound' /\ LatchSound'
        /\ thread'["drain"] = x /\ \A u \in Threads : u # "drain" => thread'[u] = thread[u]
        /\ Holds
    <3>1. thread'["main"] = thread["main"]
      BY <1>2, <1>8, ThreadNames
    <3>2. thread'["main"].pc = "tick" => ticks' < MaxTicks
      BY <1>7, <3>1 DEF RunnerInv, RolesSound
    <3> QED
      BY <1>2, <2>1, <2>2, <2>3, <2>4, <2>5, <3>2, AloneKeeps
  <2>7. LogSound'
    <3>1. d[1] = "tick" => d = TickDecision(d[2]) /\ d[2] \in 1 .. ticks'
      BY <1>6
    <3>2. d[1] = "fill" => d = FillDecisionId(d[2]) /\ d[2] \in 1 .. cursor' + 1
      BY <1>6
    <3> QED
      BY <1>1, <1>5, <1>7, <1>8, <3>1, <3>2, LogGrows DEF RunnerInv
  <2>8. OrdersSound' /\ SweepSound'
    <3>1. OrdersSound'
      BY <1>2, <1>7, <2>1, OrdersStay DEF RunnerInv
    <3> QED
      BY <1>1, <1>7, <3>1, SweepStays DEF RunnerInv
  <2>9. ChargesSound'
    <3>1. NoRestart => d \notin Known
      <4>1. NoRestart => \A k \in Known : k[1] = "fill" => k[2] <= cursor
        BY DEF RunnerInv, ChargesSound
      <4> QED
        BY <1>4, <1>6, <4>1
    <3>2. d[2] <= cursor'
      BY <1>1, <1>4, <1>6
    <3> QED
      BY <1>1, <1>2, <1>3, <1>5, <1>7, <2>1, <2>2, <2>6, <3>1, <3>2, ChargesStart
  <2> QED
    BY <2>6, <2>7, <2>8, <2>9 DEF Kept, RunnerInv
<1>9. CASE thread' = [thread EXCEPT !["drain"] = Rest] /\ UNCHANGED decided
  <2>1. Alone("drain", Rest)
    BY <1>1, <1>2, <1>9 DEF Alone, world, ledger
  <2>2. RoleSound("drain", Rest, phase')
    BY <1>1, <1>2, RestIs, RoleRests
  <2>3. Quiet("drain", m, Rest) /\ Calm(m, Rest)
    BY <1>2, RestIs DEF Quiet, Calm, Placing, Submitting
  <2>4. Known' = Known
    BY <1>9, KnownSame
  <2>5. /\ SessionsSound' /\ SwitchSound' /\ ThreadsSound' /\ RolesSound' /\ LatchSound'
        /\ thread'["drain"] = Rest /\ \A u \in Threads : u # "drain" => thread'[u] = thread[u]
        /\ Holds
    <3>1. thread'["main"] = thread["main"]
      BY <1>2, <1>9, ThreadNames
    <3>2. thread'["main"].pc = "tick" => ticks' < MaxTicks
      BY <1>7, <3>1 DEF RunnerInv, RolesSound
    <3> QED
      BY <1>2, <2>1, <2>2, <2>3, <2>4, <3>2, RestIs, RestingIs, AloneKeeps
  <2>6. LogSound'
    <3>1. \A k \in Known : k[1] = "fill" => k = FillDecisionId(k[2]) /\ k[2] \in 1 .. cursor' + 1
      <4>0. cursor \in Nat
        BY <1>4
      <4>1. ASSUME NEW n \in 1 .. cursor + 1 PROVE n \in 1 .. cursor' + 1
        BY <4>0, <1>1
      <4> QED
        BY <4>1 DEF RunnerInv, LogSound
    <3>2. cursor' \in 0 .. events
      BY <1>4, <1>5
    <3> QED
      BY <1>1, <1>7, <1>9, <2>4, <3>1, <3>2 DEF RunnerInv, LogSound
  <2>7. OrdersSound' /\ SweepSound'
    <3>1. OrdersSound'
      BY <1>2, <1>7, <2>4, OrdersStay DEF RunnerInv
    <3> QED
      BY <1>1, <1>7, <3>1, SweepStays DEF RunnerInv
  <2>8. ChargesSound'
    <3> SUFFICES ASSUME NoRestart' PROVE ChargesSound'
      BY DEF ChargesSound
    <3>1. NoRestart
      BY <1>7, FaultsSame
    <3>2. ASSUME NEW u \in Threads PROVE ChargeSound(thread[u])'
      <4>1. thread'[u] = thread[u] \/ thread'[u].pc \notin Submitting
        BY <2>5, RestIs DEF Submitting
      <4> QED
        BY <1>1, <1>7, <3>1, <4>1 DEF RunnerInv, ChargesSound, ChargeSound
    <3>3. \A k \in Known : k[1] = "fill" => k[2] <= cursor'
      <4>1. \A k \in Known : k[1] = "fill" => k[2] <= cursor /\ k[2] \in 1 .. cursor + 1
        BY <3>1 DEF RunnerInv, ChargesSound, LogSound
      <4> QED
        BY <1>4, <1>5, <4>1
    <3> QED
      BY <1>1, <1>3, <1>7, <2>4, <3>1, <3>2, <3>3 DEF RunnerInv, ChargesSound
  <2> QED
    BY <2>5, <2>6, <2>7, <2>8 DEF Kept, RunnerInv
<1> QED
  BY <1>1, <1>8, <1>9

-----------------------------------------------------------------------------
(* KillSwitch.#runSweep.                                                   *)

\* A sweep goes ahead over nothing in flight, or leaves another one armed.
LEMMA SweepBeginsKeeps ==
    ASSUME RunnerInv, NEW i \in Sweepers, SweepBegins(i)
    PROVE  Kept
<1> DEFINE th == thread[i]
           x == [th EXCEPT !.pc = "read"]
<1>1. /\ th.pc = "idle" /\ thread' = [thread EXCEPT ![i].pc = "read"]
      /\ \/ InFlight = {} /\ UNCHANGED <<armed, faults>>
         \/ Fault("slow") /\ armed' = TRUE
      /\ UNCHANGED <<files, phase, current, engagement, persisted, resuming, failures,
                     swept, ledger, ticks, engagements>>
  BY DEF SweepBegins
<1>2. /\ ThreadSound(th, Known, sessions) /\ RoleSound(i, th, phase) /\ sessions \in Nat
      /\ thread = [u \in Threads |-> thread[u]]
      /\ i \in Threads /\ i # "main" /\ i # "drain" /\ engagement # 0
  BY <1>1, ThreadOf, ThreadNames, SweepsAreEngaged
<1>3. x.pc = "read" /\ x.todo = th.todo /\ ThreadSound(x, Known, sessions)
  <2>1. "read" \in Places \ Submitting
    BY DEF Places, Submitting
  <2> QED
    BY <1>2, <2>1, MovedIs
<1>4. thread' = [thread EXCEPT ![i] = x]
  BY <1>1, <1>2
<1> HIDE DEF x
<1>5. /\ thread' = [u \in Threads |-> thread'[u]] /\ thread'[i] = x
      /\ \A u \in Threads : u # i => thread'[u] = thread[u]
  BY <1>2, <1>4, OneThread DEF RunnerInv
<1>6. Known' = Known /\ sessions' = sessions /\ UNCHANGED <<decided, unsent, cursor, file, orders, open, late, stray>>
  BY <1>1 DEF files, ledger, Known
<1>7. LogSound' /\ SessionsSound' /\ OrdersSound'
  BY <1>1 DEF RunnerInv, LogSound, SessionsSound, OrdersSound, files, ledger, Known
<1>8. SwitchSound'
  BY <1>1 DEF RunnerInv, SwitchSound, files
<1>9. ThreadsSound'
  <2>1. \A u \in Threads : thread'[u] = thread[u] \/ ThreadSound(thread'[u], Known', sessions')
    BY <1>3, <1>5, <1>6
  <2> QED
    BY <1>2, <1>5, <1>6, <2>1, ThreadsAfter DEF RunnerInv
<1>10. RolesSound'
  <2>1. RoleSound(i, x, phase')
    BY <1>1, <1>2, <1>3 DEF RoleSound, Submitting
  <2>2. \A u \in Threads : thread'[u] = thread[u] \/ RoleSound(u, thread'[u], phase')
    BY <1>5, <2>1
  <2>3. thread'["main"].pc = "tick" => ticks' < MaxTicks
    BY <1>1, <1>2, <1>5, ThreadNames DEF RunnerInv, RolesSound
  <2> QED
    BY <1>1, <2>2, <2>3, RolesAfter DEF RunnerInv
<1>11. \A u \in Threads : Placing(thread'[u]) => u # i /\ Placing(thread[u])
  BY <1>3, <1>5 DEF Placing
<1>12. phase \notin Before
  BY <1>1, <1>2 DEF RoleSound
<1>13. LatchSound'
  <2>1. armed' \/ \A u \in Threads : ~ Placing(thread'[u])
    BY <1>1, <1>11 DEF InFlight, Placing, Submitting
  <2> QED
    BY <1>1, <1>2, <1>6, <1>11, <1>12, <2>1 DEF RunnerInv, LatchSound, Placing, Before
<1>14. SweepSound'
  BY <1>1, <1>6 DEF RunnerInv, SweepSound, HasSession
<1>15. ChargesSound'
  <2>1. NoRestart' => NoRestart
    BY <1>1, FaultsSame, FaultsGrow
  <2>2. \A u \in Threads : thread'[u] = thread[u] \/ Calm(thread[u], thread'[u])
    BY <1>3, <1>5 DEF Calm, Submitting
  <2>3. thread'["main"] = thread["main"]
    BY <1>2, <1>5, ThreadNames
  <2> QED
    BY <1>1, <1>6, <2>1, <2>2, <2>3, ChargesAfter DEF RunnerInv
<1>16. Holds
  BY <1>11 DEF Holds, Placing
<1> QED
  BY <1>7, <1>8, <1>9, <1>10, <1>13, <1>14, <1>15, <1>16 DEF Kept, RunnerInv

LEMMA SweepAgainKeeps ==
    ASSUME RunnerInv, SweepAgain
    PROVE  Kept
<1> DEFINE x == [Rest EXCEPT !.pc = "idle"]
<1>1. /\ armed /\ InFlight = {} /\ armed' = FALSE /\ swept' = FALSE
      /\ UNCHANGED <<files, phase, current, engagement, persisted, resuming, failures, world>>
  BY DEF SweepAgain
<1>2. PICK i \in Resweeps : thread[i].pc = "rest" /\ thread' = [thread EXCEPT ![i] = x]
  BY DEF SweepAgain
<1>3. /\ sessions \in Nat /\ thread = [u \in Threads |-> thread[u]]
      /\ i \in Threads /\ i # "main" /\ i # "drain" /\ i \in Sweepers /\ engagement # 0
      /\ phase \notin Before
  BY <1>1, ThreadOf, ThreadNames DEF RunnerInv, LatchSound
<1>4. x.pc = "idle" /\ x.todo = <<>> /\ ThreadSound(x, Known, sessions)
  <2>1. "idle" \in Places \ Submitting
    BY DEF Places, Submitting
  <2> QED
    BY <1>3, <2>1, RestAs
<1> HIDE DEF x
<1>5. /\ thread' = [u \in Threads |-> thread'[u]] /\ thread'[i] = x
      /\ \A u \in Threads : u # i => thread'[u] = thread[u]
  BY <1>2, <1>3, OneThread DEF RunnerInv
<1>6. Known' = Known /\ UNCHANGED <<sessions, decided, unsent, cursor, file, orders, open, late, stray, ticks, faults>>
  BY <1>1 DEF files, world, ledger, Known
<1>7. LogSound' /\ SessionsSound' /\ OrdersSound'
  BY <1>1 DEF RunnerInv, LogSound, SessionsSound, OrdersSound, files, world, ledger, Known
<1>8. SwitchSound'
  BY <1>1 DEF RunnerInv, SwitchSound, files, world
<1>9. ThreadsSound'
  <2>1. \A u \in Threads : thread'[u] = thread[u] \/ ThreadSound(thread'[u], Known', sessions')
    BY <1>4, <1>5, <1>6
  <2> QED
    BY <1>3, <1>5, <1>6, <2>1, ThreadsAfter DEF RunnerInv
<1>10. x.pc \notin Submitting
  BY <1>4 DEF Submitting
<1>11. RolesSound'
  <2>1. RoleSound(i, x, phase')
    BY <1>1, <1>3, <1>4, <1>10, EmptyList DEF RoleSound
  <2>2. \A u \in Threads : thread'[u] = thread[u] \/ RoleSound(u, thread'[u], phase')
    BY <1>5, <2>1
  <2>3. thread'["main"].pc = "tick" => ticks' < MaxTicks
    BY <1>3, <1>5, <1>6, ThreadNames DEF RunnerInv, RolesSound
  <2> QED
    BY <1>1, <2>2, <2>3, RolesAfter DEF RunnerInv
<1>12. \A u \in Threads : ~ Placing(thread'[u])
  BY <1>1, <1>4, <1>5 DEF InFlight, Placing, Submitting
<1>13. LatchSound'
  BY <1>1, <1>3, <1>6, <1>12 DEF RunnerInv, LatchSound, Placing, Before
<1>14. SweepSound'
  BY <1>1 DEF SweepSound
<1>15. ChargesSound'
  <2>1. NoRestart' => NoRestart
    BY <1>6, FaultsSame
  <2>2. \A u \in Threads : thread'[u] = thread[u] \/ Calm(thread[u], thread'[u])
    BY <1>5, <1>10 DEF Calm
  <2>3. thread'["main"] = thread["main"]
    BY <1>3, <1>5, ThreadNames
  <2> QED
    BY <1>1, <1>6, <2>1, <2>2, <2>3, ChargesAfter DEF RunnerInv
<1>16. Holds
  BY <1>12 DEF Holds, Placing
<1> QED
  BY <1>7, <1>8, <1>9, <1>11, <1>13, <1>14, <1>15, <1>16 DEF Kept, RunnerInv

LEMMA SweepReadsKeeps ==
    ASSUME RunnerInv, NEW i \in Sweepers, SweepReads(i)
    PROVE  Kept
<1> DEFINE th == thread[i]
           resting == {o \in open : o[1] = Last(current)}
           kills == {KillDecision(engagement, o) : o \in resting}
           list == SetToSeq(kills)
           y == [th EXCEPT !.pc = "next", !.passes = @ + 1, !.renewed = FALSE, !.todo = list]
           x == IF resting = {} \/ th.passes = MaxPasses THEN Rest ELSE y
<1>1. /\ th.pc = "read" /\ Valid(current) /\ swept' = (resting = {})
      /\ UNCHANGED <<files, phase, current, engagement, persisted, resuming, failures,
                     armed, world>>
  BY DEF SweepReads
<1>2. /\ ThreadSound(th, Known, sessions) /\ RoleSound(i, th, phase) /\ sessions \in Nat
      /\ thread = [u \in Threads |-> thread[u]]
      /\ i \in Threads /\ i # "main" /\ i # "drain" /\ engagement # 0
  BY <1>1, ThreadOf, ThreadNames, SweepsAreEngaged
<1>3. thread' = [thread EXCEPT ![i] = x]
  BY DEF SweepReads
<1>4. /\ list \in Seq(ToSet(list)) /\ \A d \in ToSet(list) : ~ IsPlace(d)
  <2>1. IsFiniteSet(resting)
    <3>1. resting \subseteq orders /\ IsFiniteSet(orders)
      BY DEF RunnerInv, OrdersSound
    <3> QED
      BY <3>1, FS_Subset
  <2>2. IsFiniteSet(kills)
    <3> DEFINE f == [o \in resting |-> KillDecision(engagement, o)]
    <3> HIDE DEF resting
    <3>1. f \in Surjection(resting, kills)
      BY DEF Surjection
    <3> HIDE DEF f, kills
    <3> QED
      BY <2>1, <3>1, FS_Surjection
  <2>3. \A d \in kills : ~ IsPlace(d)
    BY DEF KillDecision, IsPlace
  <2> HIDE DEF kills
  <2> QED
    BY <2>2, <2>3, SetToSeqIs
<1> HIDE DEF list
<1>5. y.pc = "next" /\ y.todo = list /\ ThreadSound(y, Known, sessions)
  <2>1. /\ th \in [pc : {th.pc}, job : {th.job}, todo : {th.todo}, tries : {th.tries},
                   renewed : {th.renewed}, via : {th.via}, passes : {th.passes}]
        /\ th.tries \in 0 .. MaxAttempts /\ th.passes \in Nat /\ th.via \in Seq(1 .. sessions)
    BY <1>2 DEF ThreadSound
  <2> HIDE DEF th
  <2>2. y \in [pc : {"next"}, job : {th.job}, todo : {list}, tries : {th.tries},
               renewed : {FALSE}, via : {th.via}, passes : {th.passes + 1}]
    BY <2>1
  <2> HIDE DEF y
  <2>3. "next" \in Places /\ "next" \notin Submitting /\ th.passes + 1 \in Nat
    BY <2>1 DEF Places, Submitting
  <2>4. y.pc = "next" /\ y.todo = list
    BY <2>2
  <2>5. y \in [pc : Places, job : {y.job}, todo : Seq(ToSet(y.todo)), tries : 0 .. MaxAttempts,
               renewed : BOOLEAN, via : Seq(1 .. sessions), passes : Nat]
    BY <1>4, <2>1, <2>2, <2>3
  <2> QED
    BY <1>4, <2>3, <2>4, <2>5 DEF ThreadSound
<1> HIDE DEF y
<1>6. /\ x.pc \in {"rest", "next"} /\ ThreadSound(x, Known, sessions)
      /\ \A d \in ToSet(x.todo) : ~ IsPlace(d)
  <2>1. CASE x = Rest
    BY <2>1, RestIs, RestingIs, EmptyList
  <2>2. CASE x = y
    BY <1>4, <1>5, <2>2
  <2> QED
    BY <2>1, <2>2
<1> HIDE DEF x
<1>7. /\ thread' = [u \in Threads |-> thread'[u]] /\ thread'[i] = x
      /\ \A u \in Threads : u # i => thread'[u] = thread[u]
  BY <1>2, <1>3, OneThread DEF RunnerInv
<1>8. /\ Known' = Known /\ swept' \in BOOLEAN
      /\ UNCHANGED <<sessions, decided, unsent, cursor, file, orders, open, late, stray, ticks, faults>>
  BY <1>1 DEF files, world, ledger, Known
<1>9. LogSound' /\ SessionsSound' /\ OrdersSound'
  BY <1>1 DEF RunnerInv, LogSound, SessionsSound, OrdersSound, files, world, ledger, Known
<1>10. SwitchSound'
  BY <1>1, <1>8 DEF RunnerInv, SwitchSound, files, world
<1>11. ThreadsSound'
  <2>1. \A u \in Threads : thread'[u] = thread[u] \/ ThreadSound(thread'[u], Known', sessions')
    BY <1>6, <1>7, <1>8
  <2> QED
    BY <1>2, <1>7, <1>8, <2>1, ThreadsAfter DEF RunnerInv
<1>12. x.pc \notin Submitting /\ phase \notin Before
  BY <1>1, <1>2, <1>6 DEF Submitting, RoleSound
<1>13. RolesSound'
  <2>1. RoleSound(i, x, phase')
    BY <1>1, <1>2, <1>6, <1>12 DEF RoleSound
  <2>2. \A u \in Threads : thread'[u] = thread[u] \/ RoleSound(u, thread'[u], phase')
    BY <1>7, <2>1
  <2>3. thread'["main"].pc = "tick" => ticks' < MaxTicks
    BY <1>2, <1>7, <1>8, ThreadNames DEF RunnerInv, RolesSound
  <2> QED
    BY <1>1, <2>2, <2>3, RolesAfter DEF RunnerInv
<1>14. \A u \in Threads : Placing(thread'[u]) => Placing(thread[u])
  BY <1>6, <1>7 DEF Placing
<1>15. armed \/ \A u \in Threads : ~ Placing(thread[u])
  BY <1>1, <1>2, ThreadNames DEF RunnerInv, LatchSound
<1>16. LatchSound'
  <2>1. ~ resuming \/ \A u \in Threads : ~ Placing(thread'[u])
    BY <1>14 DEF RunnerInv, LatchSound
  <2> QED
    BY <1>1, <1>2, <1>8, <1>12, <1>14, <1>15, <2>1 DEF RunnerInv, LatchSound, Before, Placing
<1>17. SweepSound'
  BY <1>1, <1>8 DEF SweepSound
<1>18. ChargesSound'
  <2>1. NoRestart' => NoRestart
    BY <1>8, FaultsSame
  <2>2. \A u \in Threads : thread'[u] = thread[u] \/ Calm(thread[u], thread'[u])
    BY <1>7, <1>12 DEF Calm
  <2>3. thread'["main"] = thread["main"]
    BY <1>2, <1>7, ThreadNames
  <2> QED
    BY <1>1, <1>8, <2>1, <2>2, <2>3, ChargesAfter DEF RunnerInv
<1>19. Holds
  BY <1>14 DEF Holds, Placing
<1> QED
  BY <1>9, <1>10, <1>11, <1>13, <1>16, <1>17, <1>18, <1>19 DEF Kept, RunnerInv

-----------------------------------------------------------------------------
(* The theorems.                                                           *)

LEMMA InitSound == Init => RunnerInv
<1> SUFFICES ASSUME Init PROVE RunnerInv
  OBVIOUS
<1>1. Known = {}
  BY DEF Init, Known, ToSet
<1>2. /\ MaxEvents \in Nat /\ MaxTicks \in Nat
      /\ <<>> \in Seq({}) /\ <<>> \in Seq(1 .. 0)
  BY RunnerAssumption
<1>3. LogSound
  BY <1>1, <1>2 DEF Init, LogSound
<1>4. SessionsSound
  BY <1>2 DEF Init, SessionsSound
<1>5. SwitchSound
  <2>1. file \in [by : {"nobody", "operator", "runner"}, at : 0 .. 0]
    BY DEF Init
  <2> QED
    BY <2>1 DEF Init, SwitchSound, Phases
<1>6. \A t \in Threads : thread[t] = Rest
  BY DEF Init
<1>7. ThreadsSound
  BY <1>6, RestIs DEF Init, ThreadsSound
<1>8. RolesSound
  <2>1. \A t \in Threads : RoleSound(t, Rest, "DOWN")
    BY RestIs, EmptyList DEF RoleSound, Submitting
  <2> QED
    BY <1>6, <2>1, RestIs, ThreadNames DEF Init, RolesSound
<1>9. OrdersSound
  BY FS_EmptySet DEF Init, OrdersSound
<1>10. \A t \in Threads : ~ Placing(thread[t]) /\ thread[t].pc = "rest"
  BY <1>6, RestIs DEF Placing
<1>11. LatchSound
  BY <1>10, ThreadNames DEF Init, LatchSound
<1>12. SweepSound
  BY DEF Init, SweepSound
<1>13. ChargesSound
  BY <1>1, <1>10 DEF Init, ChargesSound, ChargeSound, Submitting
<1> QED
  BY <1>3, <1>4, <1>5, <1>7, <1>8, <1>9, <1>11, <1>12, <1>13 DEF RunnerInv

LEMMA StutterKeeps ==
    ASSUME RunnerInv, UNCHANGED vars
    PROVE  Kept
<1>1. UNCHANGED <<files, memory, ledger, ticks, engagements, faults>>
  BY DEF vars, world
<1>2. LogSound' /\ SessionsSound' /\ SwitchSound'
  BY <1>1 DEF RunnerInv, LogSound, SessionsSound, SwitchSound, files, memory, ledger, Known
<1>3. ThreadsSound' /\ RolesSound' /\ LatchSound'
  BY <1>1 DEF RunnerInv, ThreadsSound, RolesSound, LatchSound, files, memory, ledger, Known, Placing
<1>4. OrdersSound' /\ SweepSound'
  BY <1>1 DEF RunnerInv, OrdersSound, SweepSound, files, memory, ledger, Known, HasSession
<1>5. ChargesSound'
  BY <1>1, FaultsSame DEF RunnerInv, ChargesSound, ChargeSound, files, memory, ledger, Known
<1>6. Holds
  BY <1>1 DEF Holds, memory
<1> QED
  BY <1>2, <1>3, <1>4, <1>5, <1>6 DEF Kept, RunnerInv

LEMMA StepKeeps ==
    ASSUME RunnerInv, [Next]_vars
    PROVE  Kept
<1>1. CASE Main
  BY <1>1, BootKeeps, AwaitServingKeeps, EstablishKeeps, ResumeKeeps, SweepAwaitedKeeps,
     CycleEngagesKeeps, CyclePersistsKeeps, CycleStartsKeeps, CyclePortfolioKeeps,
     ApplyDecisionKeeps DEF Main
<1>2. CASE ProcessFill \/ SweepAgain
  BY <1>2, ProcessFillKeeps, SweepAgainKeeps
<1>3. ASSUME NEW t \in Threads, Send(t) PROVE Kept
  BY <1>3, NextJobKeeps, AttemptKeeps, AnsweredKeeps, AnsweredExpiredKeeps, RenewKeeps DEF Send
<1>4. ASSUME NEW t \in {"main", "drain"}, SubmissionEnds(t) PROVE Kept
  BY <1>4, SubmissionEndsKeeps
<1>5. ASSUME NEW i \in Sweepers, Sweep(i) PROVE Kept
  BY <1>5, SweepBeginsKeeps, SweepReadsKeeps, SweepLosesKeeps, SweepPassEndsKeeps DEF Sweep
<1>6. CASE Environment
  <2>1. ASSUME NEW t \in Threads, AttemptFails(t) PROVE Kept
    BY <2>1, AttemptFailsKeeps
  <2> QED
    BY <1>6, <2>1, LateArrivalKeeps, OrderFillsKeeps, SessionExpiresKeeps, CrashKeeps,
       DieInFillKeeps, WedgeKeeps, OperatorKeeps DEF Environment
<1>7. CASE UNCHANGED vars
  BY <1>7, StutterKeeps
<1> QED
  BY <1>1, <1>2, <1>3, <1>4, <1>5, <1>6, <1>7 DEF Next, Steps

\* The invariant: whatever is lost, retried, replayed or crashed, the log, the
\* sessions, the latch, the sweeps and the charges stay sound.
THEOREM RunnerInvariant == Spec => []RunnerInv
<1>1. Init => RunnerInv
  BY InitSound
<1>2. RunnerInv /\ [Next]_vars => RunnerInv'
  BY StepKeeps DEF Kept
<1> QED
  BY <1>1, <1>2, PTL DEF Spec

\* The files and the memory of the runner have their types, whatever it went
\* through: no position, session or attempt out of its range.
THEOREM RunnerTypes == Spec => []TypeOK
<1>1. RunnerInv => TypeOK
  <2> SUFFICES ASSUME RunnerInv
               PROVE  TypeOK
    OBVIOUS
  <2>1. \A t \in Threads :
          /\ thread[t].pc \in Places
          /\ thread[t].tries \in 0 .. MaxAttempts
          /\ thread[t].pc \in Submitting => thread[t].job \in Known
    BY DEF RunnerInv, ThreadsSound, ThreadSound
  <2>2. cursor \in 0 .. events
    BY DEF RunnerInv, LogSound
  <2> QED
    BY <2>1, <2>2 DEF RunnerInv, LogSound, SessionsSound, SwitchSound, OrdersSound, Phases, Places, TypeOK
<1> QED
  BY <1>1, RunnerInvariant, PTL

\* OrderGateway: one order of a session for a decision, of a decision that was
\* written to the log first, through every retry, crash and late request.
THEOREM OneOrderForEachDecision == Spec => []OneOrderPerDecision
<1>1. RunnerInv => OneOrderPerDecision
  <2> SUFFICES ASSUME RunnerInv, NEW o \in orders
               PROVE  /\ o[2] \in Known
                      /\ \A p \in orders : o[1] = p[1] /\ o[2] = p[2] => o = p
    BY DEF OneOrderPerDecision
  <2>1. \A p \in orders : p = <<p[1], p[2], <<p[2]>>>> /\ p[2] \in Known
    BY DEF RunnerInv, OrdersSound
  <2> QED
    BY <2>1
<1> QED
  BY <1>1, RunnerInvariant, PTL

\* The risk gate's day: while the process lives every order at the ledger counts
\* against the limit, also one whose submission was halted or failed.
THEOREM EveryOrderIsCharged == Spec => []OrdersAreCharged
<1>1. RunnerInv => OrdersAreCharged
  BY DEF RunnerInv, OrdersSound, ChargesSound, NoRestart, OrdersAreCharged, DailyEntries
<1> QED
  BY <1>1, RunnerInvariant, PTL

\* KillSwitch: a latch whose last sweep found nothing leaves no order of the
\* session resting, for any number of sweeps, slow gateways and renewals.
THEOREM SweepsLeaveNothing == Spec => []SweptClean
<1>1. RunnerInv => SweptClean
  BY DEF RunnerInv, SweepSound, SweptClean
<1> QED
  BY <1>1, RunnerInvariant, PTL

\* KillSwitch: with its engagement on disk no placement leaves, in this life or
\* in any later one.
THEOREM TheLatchHolds == Spec => LatchHolds
<1>1. RunnerInv /\ [Next]_vars =>
        [\A t \in Threads :
            (thread'[t].pc = "sent" /\ thread[t].pc # "sent" /\ IsPlace(thread'[t].job))
               => file.by # "runner"]_vars
  BY StepKeeps DEF Kept, Holds
<1> QED
  BY <1>1, RunnerInvariant, PTL DEF Spec, LatchHolds
=============================================================================
