----------------------- MODULE RuntimeLifecycleProofs -----------------------
(***************************************************************************)
(* Leadership is well typed, two leaders never carry the same token and no *)
(* advisory lock is leaked, for any number of processes, markets and       *)
(* faults.                                                                 *)
(***************************************************************************)
EXTENDS RuntimeLifecycle, TLAPS

\* Where start() and a re-election stand tells how far the process's lease
\* generation is: nobody elects before start() has its first bundle, and a
\* re-election between two generations still sees the old one complete.
PhasesAgree(p) ==
    /\ mode[p] \in {"NEW", "DOWN"} => gen[p].step = "none" /\ elect[p] = "idle"
    /\ start[p] \in {"none", "restore"} => gen[p].step = "none"
    /\ elect[p] # "idle" => start[p] \in {"names", "connect", "done"}
    /\ elect[p] \in {"teardown", "release", "yield", "connect"}
          => gen[p].step = "ok"

\* The registry has leases of its own, in the bundle or on their way out, only
\* behind a complete generation, and a bundle is given away once.
OneCustodian(p) ==
    /\ gen[p].step # "ok" => bundle[p] = {} /\ releasing[p].markets = {}
    /\ elect[p] \in {"release", "yield"} => bundle[p] = {}
    /\ stop[p] \in {"release", "stopped"} => bundle[p] = {} /\ IsSettled(p)
    /\ releasing[p].by = "none" => releasing[p].markets = {}
    /\ releasing[p].by = "elect" => elect[p] = "release"
    /\ releasing[p].by = "stop" => stop[p] = "release"

\* The inductive invariant.
LifecycleInv ==
    /\ TypeOK
    /\ \A p \in Procs : PhasesAgree(p) /\ OneCustodian(p)
    /\ LocksInCustody
    /\ OneCurrentLeader

(***************************************************************************)
(* Types.                                                                  *)
(***************************************************************************)
Generation == [step : Settled \cup {"poll", "locked", "commit", "undo"},
               at : 1 .. Len(Order) + 1, abort : BOOLEAN, lost : BOOLEAN,
               failed : BOOLEAN, reelected : BOOLEAN]

ProcessTypes ==
    /\ mode \in [Procs -> Modes]
    /\ live \in [Procs -> BOOLEAN]
    /\ start \in [Procs -> {"none", "restore", "acquire", "names", "connect",
                             "done"}]
    /\ elect \in [Procs -> {"idle", "teardown", "release", "yield", "acquire",
                             "connect"}]
    /\ stop \in [Procs -> {"none", "drain", "close", "release", "stopped"}]
    /\ aborted \in [Procs -> BOOLEAN]
    /\ cut \in [Procs -> SUBSET {"start", "elect"}]

GenerationTypes ==
    /\ gen \in [Procs -> Generation]
    /\ \A p \in Procs : gen[p].step \in {"poll", "locked", "commit"}
                           => gen[p].at <= Len(Order)

LeaseTypes ==
    /\ lease \in [Procs -> [Markets -> [state : {"NONE", "HELD", "LOST"},
                                         token : Nat]]]
    /\ bundle \in [Procs -> SUBSET Markets]
    /\ releasing \in [Procs -> [by : {"none", "elect", "stop"},
                                 markets : SUBSET Markets]]
    /\ lock \in [Markets -> Procs \cup {None, Ghost}]
    /\ token \in [Markets -> Nat]

CounterTypes ==
    /\ failures \in [Procs -> 0 .. FailureLimit]
    /\ faults \in 0 .. MaxFaults

\* The type invariant, group by group.
LEMMA TypeGroups ==
    TypeOK <=> ProcessTypes /\ GenerationTypes /\ LeaseTypes /\ CounterTypes
BY DEF TypeOK, ProcessTypes, GenerationTypes, Generation, LeaseTypes,
       CounterTypes

\* Modes, program counters and latches keep their types.
LEMMA ProcessTypesStep ==
    ASSUME TypeOK, [Next]_vars
    PROVE  ProcessTypes'
<1> USE DEF ProcessTypes, Transition, EnterServing, LeaveServing, StartAt,
            ElectAt, StopAt, Uncut, Gone, process
<1>0. ProcessTypes
  BY DEF TypeOK
<1>1. ASSUME NEW p \in Procs, Boot(p)
      PROVE  ProcessTypes'
  BY <1>0, <1>1 DEF Modes, Boot
<1>2. ASSUME NEW p \in Procs, Stop(p)
      PROVE  ProcessTypes'
  BY <1>0, <1>2 DEF Modes, Stop
<1>3. ASSUME NEW p \in Procs, Crash(p)
      PROVE  ProcessTypes'
  BY <1>0, <1>3 DEF Modes, Crash
<1>4. ASSUME NEW p \in Procs, Restored(p)
      PROVE  ProcessTypes'
  BY <1>0, <1>4 DEF Modes, Restored
<1>5. ASSUME NEW p \in Procs, StartAcquired(p)
      PROVE  ProcessTypes'
  BY <1>0, <1>5 DEF Modes, StartAcquired
<1>6. ASSUME NEW p \in Procs, StartAcquireEnds(p)
      PROVE  ProcessTypes'
  BY <1>0, <1>6 DEF Modes, StartAcquireEnds
<1>7. ASSUME NEW p \in Procs, StartRecovers(p)
      PROVE  ProcessTypes'
  BY <1>0, <1>7 DEF Modes, StartRecovers
<1>8. ASSUME NEW p \in Procs, StartConnected(p)
      PROVE  ProcessTypes'
  BY <1>0, <1>8 DEF Modes, StartConnected
<1>9. ASSUME NEW p \in Procs, RestoreFails(p)
      PROVE  ProcessTypes'
  BY <1>0, <1>9 DEF Modes, RestoreFails
<1>10. ASSUME NEW p \in Procs, StartConnectRejects(p)
      PROVE  ProcessTypes'
  BY <1>0, <1>10 DEF Modes, StartConnectRejects
<1>11. ASSUME NEW p \in Procs, ElectTeardown(p)
      PROVE  ProcessTypes'
  BY <1>0, <1>11 DEF Modes, ElectTeardown, Connecting
<1>12. ASSUME NEW p \in Procs, ElectReleased(p)
      PROVE  ProcessTypes'
  BY <1>0, <1>12 DEF Modes, ElectReleased
<1>13. ASSUME NEW p \in Procs, ElectYielded(p)
      PROVE  ProcessTypes'
  BY <1>0, <1>13 DEF Modes, ElectYielded
<1>14. ASSUME NEW p \in Procs, ElectAcquired(p)
      PROVE  ProcessTypes'
  BY <1>0, <1>14 DEF Modes, ElectAcquired
<1>15. ASSUME NEW p \in Procs, ElectAcquireEnds(p)
      PROVE  ProcessTypes'
  BY <1>0, <1>15 DEF Modes, ElectAcquireEnds
<1>16. ASSUME NEW p \in Procs, ElectConnected(p)
      PROVE  ProcessTypes'
  BY <1>0, <1>16 DEF Modes, ElectConnected
<1>17. ASSUME NEW p \in Procs, ElectConnectRejects(p)
      PROVE  ProcessTypes'
  BY <1>0, <1>17 DEF Modes, ElectConnectRejects
<1>18. ASSUME NEW p \in Procs, CloseSockets(p)
      PROVE  ProcessTypes'
  BY <1>0, <1>18 DEF Modes, CloseSockets, Connecting
<1>19. ASSUME NEW p \in Procs, ReleaseLeases(p)
      PROVE  ProcessTypes'
  BY <1>0, <1>19 DEF Modes, ReleaseLeases
<1>20. ASSUME NEW p \in Procs, Stopped(p)
      PROVE  ProcessTypes'
  BY <1>0, <1>20 DEF Modes, Stopped
<1>21. ASSUME NEW p \in Procs, Exit(p)
      PROVE  ProcessTypes'
  BY <1>0, <1>21 DEF Modes, Exit
<1>22. ASSUME NEW p \in Procs, NEW m \in Markets, LoseLease(p, m)
       PROVE  ProcessTypes'
  BY <1>0, <1>22 DEF Modes, LoseLease
<1>23. CASE UNCHANGED process
  BY <1>0, <1>23
<1>24. ASSUME NEW p \in Procs, Registry(p) \/ AcquireQueryFails(p)
       PROVE  UNCHANGED process
  BY <1>24 DEF Registry, TryLock, LockReturned, CommitEpoch, PollAborted, Undo,
               ReleaseNext, RecordFailure, RetryAcquire, DroppedQueryFails,
               AcquireQueryFails
<1>25. ASSUME NEW m \in Markets,
              ServerReaps(m) \/ \E p \in Procs : ServerDrops(p, m)
       PROVE  UNCHANGED process
  BY <1>25 DEF ServerReaps, ServerDrops
<1> QED
  BY <1>1, <1>2, <1>3, <1>4, <1>5, <1>6, <1>7, <1>8, <1>9, <1>10, <1>11,
     <1>12, <1>13, <1>14, <1>15, <1>16, <1>17, <1>18, <1>19, <1>20, <1>21,
     <1>22, <1>23, <1>24, <1>25
     DEF Next, Starting, Electing, Halting, vars

\* The fixed acquisition order lists every market once.
LEMMA OrderFacts ==
    /\ Len(Order) \in Nat \ {0}
    /\ \A i \in 1 .. Len(Order) : Order[i] \in Markets
    /\ \A i, j \in 1 .. Len(Order) : Order[i] = Order[j] => i = j
BY LifecycleAssumption DEF Markets

\* A generation that begins or settles is a fresh record.
LEMMA FreshGeneration ==
    ASSUME NEW step \in Settled \cup {"poll"}
    PROVE  /\ [NoGeneration EXCEPT !.step = step] \in Generation
           /\ [NoGeneration EXCEPT !.step = step].step = step
           /\ [NoGeneration EXCEPT !.step = step].at = 1
<1>1. NoGeneration \in Generation /\ NoGeneration.at = 1
  BY OrderFacts DEF NoGeneration, Generation, Settled
<1> QED
  BY <1>1 DEF Generation

\* Changing one generation keeps the types if the new one has them.
LEMMA GenerationChange ==
    ASSUME GenerationTypes, NEW p \in Procs, NEW g \in Generation,
           g.step \in {"poll", "locked", "commit"} => g.at <= Len(Order),
           gen' = [gen EXCEPT ![p] = g]
    PROVE  GenerationTypes'
BY DEF GenerationTypes

\* A generation never goes on past the last market.
LEMMA GenerationTypesStep ==
    ASSUME TypeOK, [Next]_vars
    PROVE  GenerationTypes'
<1> USE DEF MarketAt
<1>a. GenerationTypes
  BY TypeGroups
<1>b. ASSUME NEW p \in Procs, NEW step \in Settled \cup {"poll"},
             gen' = [gen EXCEPT ![p] = [NoGeneration EXCEPT !.step = step]]
      PROVE  GenerationTypes'
  <2> DEFINE g == [NoGeneration EXCEPT !.step = step]
  <2>1. g \in Generation /\ g.at = 1
    BY FreshGeneration
  <2>2. gen' = [gen EXCEPT ![p] = g]
    BY <1>b
  <2> HIDE DEF g
  <2>3. g.at <= Len(Order)
    BY <2>1, OrderFacts
  <2> QED
    BY <1>a, <2>1, <2>2, <2>3, GenerationChange
<1>1. ASSUME NEW p \in Procs, TryLock(p)
      PROVE  GenerationTypes'
  BY <1>a, <1>1 DEF GenerationTypes, Generation, Settled, TryLock
<1>2. ASSUME NEW p \in Procs, LockReturned(p)
      PROVE  GenerationTypes'
  BY <1>a, <1>2 DEF GenerationTypes, Generation, Settled, LockReturned
<1>3. ASSUME NEW p \in Procs, CommitEpoch(p)
      PROVE  GenerationTypes'
  <2>1. CASE IsLast(p) /\ ~ gen[p].lost
    BY <1>3, <2>1, <1>b DEF CommitEpoch, Settle, Settled
  <2>2. CASE ~ (IsLast(p) /\ ~ gen[p].lost)
    <3>1. gen' = [gen EXCEPT ![p].at = @ + 1,
                             ![p].step = IF gen[p].lost THEN "undo" ELSE "poll"]
      BY <1>3, <2>2 DEF CommitEpoch
    <3>2. /\ gen[p] \in Generation /\ gen[p].at <= Len(Order)
          /\ ~ gen[p].lost => gen[p].at < Len(Order)
      BY <1>a, <1>3, <2>2, OrderFacts
         DEF CommitEpoch, GenerationTypes, Generation, IsLast
    <3> DEFINE next == IF gen[p].lost THEN "undo" ELSE "poll"
               g == [gen[p] EXCEPT !.at = @ + 1, !.step = next]
    <3>3. gen' = [gen EXCEPT ![p] = g]
      BY <1>a, <3>1 DEF GenerationTypes, Generation
    <3>4. /\ next \in {"undo", "poll"} /\ (gen[p].lost \/ gen[p].at + 1 <= Len(Order))
          /\ gen[p].at + 1 \in 1 .. Len(Order) + 1
      BY <3>2, OrderFacts DEF Generation
    <3>5. /\ g \in Generation
          /\ g.step = next /\ g.at = gen[p].at + 1
      <4> HIDE DEF next
      <4> QED
        BY <3>2, <3>4 DEF Generation
    <3> HIDE DEF g
    <3> QED
      BY <1>a, <3>3, <3>4, <3>5, GenerationChange DEF next
  <2> QED
    BY <2>1, <2>2
<1>4. ASSUME NEW p \in Procs, PollAborted(p)
      PROVE  GenerationTypes'
  BY <1>a, <1>4 DEF GenerationTypes, Generation, Settled, PollAborted
<1>5. ASSUME NEW p \in Procs, Undo(p)
      PROVE  GenerationTypes'
  <2>1. gen' = gen \/ gen' = Settle(p, Rejection(p))
    BY <1>5 DEF Undo
  <2>2. Rejection(p) \in Settled
    BY DEF Rejection, Settled
  <2> QED
    BY <1>a, <2>1, <2>2, <1>b DEF Settle, GenerationTypes
<1>6. ASSUME NEW p \in Procs, RecordFailure(p)
      PROVE  GenerationTypes'
  BY <1>a, <1>6 DEF GenerationTypes, Generation, Settled, RecordFailure
<1>7. ASSUME NEW p \in Procs, RetryAcquire(p)
      PROVE  GenerationTypes'
  <2>1. gen' = gen \/ Begin(p)
    BY <1>7 DEF RetryAcquire
  <2> QED
    BY <1>a, <2>1, <1>b DEF Begin, GenerationTypes
<1>8. ASSUME NEW p \in Procs, DroppedQueryFails(p)
      PROVE  GenerationTypes'
  BY <1>a, <1>8 DEF GenerationTypes, Generation, Settled, DroppedQueryFails, Dropped
<1>9. ASSUME NEW p \in Procs, AcquireQueryFails(p)
      PROVE  GenerationTypes'
  BY <1>a, <1>9 DEF GenerationTypes, Generation, Settled, AcquireQueryFails
<1>10. ASSUME NEW p \in Procs, Restored(p)
      PROVE  GenerationTypes'
  <2>1. gen' = gen \/ Begin(p)
    BY <1>10 DEF Restored
  <2> QED
    BY <1>a, <2>1, <1>b DEF Begin, GenerationTypes
<1>11. ASSUME NEW p \in Procs, ElectYielded(p)
      PROVE  GenerationTypes'
  <2>1. gen' = gen \/ Begin(p)
    BY <1>11 DEF ElectYielded
  <2> QED
    BY <1>a, <2>1, <1>b DEF Begin, GenerationTypes
<1>12. ASSUME NEW p \in Procs, CloseSockets(p)
      PROVE  GenerationTypes'
  BY <1>a, <1>12 DEF GenerationTypes, Generation, Settled, CloseSockets, IsSettled
<1>13. ASSUME NEW p \in Procs, Crash(p)
      PROVE  GenerationTypes'
  <2>1. gen' = [gen EXCEPT ![p] = NoGeneration]
    BY <1>13 DEF Crash, Gone
  <2>2. NoGeneration \in Generation /\ NoGeneration.step = "none"
    BY OrderFacts DEF NoGeneration, Generation, Settled
  <2> QED
    BY <1>a, <2>1, <2>2, GenerationChange
<1>14. ASSUME NEW p \in Procs, Exit(p)
      PROVE  GenerationTypes'
  <2>1. gen' = [gen EXCEPT ![p] = NoGeneration]
    BY <1>14 DEF Exit, Gone
  <2>2. NoGeneration \in Generation /\ NoGeneration.step = "none"
    BY OrderFacts DEF NoGeneration, Generation, Settled
  <2> QED
    BY <1>a, <2>1, <2>2, GenerationChange
<1>15. ASSUME NEW p \in Procs, NEW m \in Markets, LoseLease(p, m)
       PROVE  GenerationTypes'
  <2> DEFINE reported == IsSettled(p) /\ m \in bundle[p] /\ ~ gen[p].reelected
             g == IF ~ IsSettled(p)
                  THEN [gen[p] EXCEPT !.lost = TRUE, !.abort = TRUE]
                  ELSE [gen[p] EXCEPT !.reelected = gen[p].reelected \/ reported]
  <2>1. gen' = [gen EXCEPT ![p] = g]
    BY <1>a, <1>15 DEF LoseLease, GenerationTypes, Generation
  <2>2. (gen[p].reelected \/ reported) \in BOOLEAN
    OBVIOUS
  <2> HIDE DEF reported
  <2>3. g \in Generation /\ g.step = gen[p].step /\ g.at = gen[p].at
    BY <1>a, <2>2 DEF GenerationTypes, Generation
  <2> HIDE DEF g
  <2> QED
    BY <1>a, <2>1, <2>3, GenerationChange DEF GenerationTypes
<1>16. CASE UNCHANGED gen
  BY <1>a, <1>16 DEF GenerationTypes
<1>17. ASSUME NEW p \in Procs,
             \/ Boot(p) \/ Stop(p) \/ ReleaseNext(p) \/ StartAcquired(p)
              \/ StartAcquireEnds(p) \/ StartRecovers(p)
              \/ StartConnected(p) \/ RestoreFails(p)
              \/ StartConnectRejects(p) \/ ElectTeardown(p)
              \/ ElectReleased(p) \/ ElectAcquired(p)
              \/ ElectAcquireEnds(p) \/ ElectConnected(p)
              \/ ElectConnectRejects(p) \/ ReleaseLeases(p) \/ Stopped(p)
       PROVE  UNCHANGED gen
  BY <1>17 DEF Boot, Stop, ReleaseNext, StartAcquired, StartAcquireEnds,
              StartRecovers, StartConnected, RestoreFails,
              StartConnectRejects, ElectTeardown, ElectReleased,
              ElectAcquired, ElectAcquireEnds, ElectConnected,
              ElectConnectRejects, ReleaseLeases, Stopped, registry
<1>18. ASSUME NEW m \in Markets,
              ServerReaps(m) \/ \E p \in Procs : ServerDrops(p, m)
       PROVE  UNCHANGED gen
  BY <1>18 DEF ServerReaps, ServerDrops, registry
<1> QED
  BY <1>1, <1>2, <1>3, <1>4, <1>5, <1>6, <1>7, <1>8, <1>9, <1>10, <1>11,
     <1>12, <1>13, <1>14, <1>15, <1>16, <1>17, <1>18
     DEF Next, Registry, Starting, Electing, Halting, vars, registry

\* A release keeps the leases' and the locks' types.
LEMMA ReleaseTypes ==
    ASSUME LeaseTypes, NEW p \in Procs, NEW m, Release(p, m)
    PROVE  /\ lease' \in [Procs -> [Markets -> [state : {"NONE", "HELD", "LOST"},
                                                token : Nat]]]
           /\ lock' \in [Markets -> Procs \cup {None, Ghost}]
<1>1. NoLease \in [state : {"NONE", "HELD", "LOST"}, token : Nat]
  BY DEF NoLease
<1>2. lease' \in [Procs -> [Markets -> [state : {"NONE", "HELD", "LOST"},
                                       token : Nat]]]
  BY <1>1 DEF LeaseTypes, Release
<1>3. lock' \in [Markets -> Procs \cup {None, Ghost}]
  BY DEF LeaseTypes, Release
<1> QED
  BY <1>2, <1>3

\* Leases, bundles, locks and tokens keep their types.
LEMMA LeaseTypesStep ==
    ASSUME TypeOK, [Next]_vars
    PROVE  LeaseTypes'
<1> USE DEF LeaseTypes, registry, database
<1>0. LeaseTypes
  BY TypeGroups
<1>1. ASSUME NEW p \in Procs, TryLock(p)
      PROVE  LeaseTypes'
  BY <1>0, <1>1 DEF TryLock
<1>2. ASSUME NEW p \in Procs, LockReturned(p)
      PROVE  LeaseTypes'
  BY <1>0, <1>2 DEF LockReturned
<1>3. ASSUME NEW p \in Procs, CommitEpoch(p)
      PROVE  LeaseTypes'
  <2> DEFINE m == MarketAt(p, gen[p].at)
  <2>1. m \in Markets
    BY <1>3, TypeGroups, OrderFacts
       DEF CommitEpoch, GenerationTypes, Generation, MarketAt
  <2>2. token[m] + 1 \in Nat
    BY <1>0, <2>1
  <2>3. /\ lease' = [lease EXCEPT ![p][m] = [state |-> "HELD", token |-> token[m] + 1]]
        /\ token' = [token EXCEPT ![m] = token[m] + 1]
        /\ bundle' = bundle \/ bundle' = [bundle EXCEPT ![p] = Markets]
        /\ UNCHANGED <<releasing, lock>>
    BY <1>0, <1>3 DEF CommitEpoch, NextToken
  <2> HIDE DEF m
  <2> QED
    BY <1>0, <2>1, <2>2, <2>3
<1>4. ASSUME NEW p \in Procs, Undo(p)
      PROVE  LeaseTypes'
  <2>1. \/ UNCHANGED <<lease, lock>>
        \/ \E m : Release(p, m)
    BY <1>4 DEF Undo
  <2>2. /\ lease' \in [Procs -> [Markets -> [state : {"NONE", "HELD", "LOST"},
                                             token : Nat]]]
        /\ lock' \in [Markets -> Procs \cup {None, Ghost}]
    BY <1>0, <2>1, ReleaseTypes
  <2> QED
    BY <1>0, <1>4, <2>2 DEF Undo
<1>5. ASSUME NEW p \in Procs, ReleaseNext(p)
      PROVE  LeaseTypes'
  <2>1. /\ lease' \in [Procs -> [Markets -> [state : {"NONE", "HELD", "LOST"},
                                             token : Nat]]]
        /\ lock' \in [Markets -> Procs \cup {None, Ghost}]
    BY <1>0, <1>5, ReleaseTypes DEF ReleaseNext
  <2>2. releasing' \in [Procs -> [by : {"none", "elect", "stop"},
                                 markets : SUBSET Markets]]
    BY <1>0, <1>5 DEF ReleaseNext, NothingToRelease
  <2> QED
    BY <1>0, <1>5, <2>1, <2>2 DEF ReleaseNext
<1>6. ASSUME NEW p \in Procs, AcquireQueryFails(p)
      PROVE  LeaseTypes'
  BY <1>0, <1>6 DEF AcquireQueryFails
<1>7. ASSUME NEW p \in Procs, NEW m \in Markets, LoseLease(p, m)
      PROVE  LeaseTypes'
  <2>1. lease' = [lease EXCEPT ![p][m].state = "LOST"]
    BY <1>7 DEF LoseLease
  <2>2. lease' \in [Procs -> [Markets -> [state : {"NONE", "HELD", "LOST"},
                                         token : Nat]]]
    <3> DEFINE lost == [lease[p][m] EXCEPT !.state = "LOST"]
    <3>1. lost \in [state : {"NONE", "HELD", "LOST"}, token : Nat]
      <4>1. lease[p][m] \in [state : {"NONE", "HELD", "LOST"}, token : Nat]
        BY <1>0
      <4> QED
        BY <4>1
    <3>2. lease' = [lease EXCEPT ![p][m] = lost]
      BY <1>0, <2>1
    <3> HIDE DEF lost
    <3> QED
      BY <1>0, <3>1, <3>2
  <2>3. lock' \in [Markets -> Procs \cup {None, Ghost}]
    BY <1>0, <1>7 DEF LoseLease
  <2> QED
    BY <1>0, <1>7, <2>2, <2>3 DEF LoseLease
<1>8. ASSUME NEW p \in Procs, ElectTeardown(p) \/ ReleaseLeases(p)
      PROVE  LeaseTypes'
  <2>1. PICK by \in {"elect", "stop"} : TakeBundle(p, by)
    BY <1>8 DEF ElectTeardown, ReleaseLeases
  <2>2. bundle' \in [Procs -> SUBSET Markets]
    BY <1>0, <2>1 DEF TakeBundle
  <2>3. releasing' \in [Procs -> [by : {"none", "elect", "stop"},
                                 markets : SUBSET Markets]]
    BY <1>0, <2>1 DEF TakeBundle
  <2> QED
    BY <1>0, <1>8, <2>2, <2>3 DEF ElectTeardown, ReleaseLeases
<1>9. ASSUME NEW p \in Procs, Gone(p)
      PROVE  LeaseTypes'
  BY <1>0, <1>9 DEF Gone, NoLease, NothingToRelease
<1>10. ASSUME NEW m \in Markets,
              ServerReaps(m) \/ \E p \in Procs : ServerDrops(p, m)
       PROVE  LeaseTypes'
  BY <1>0, <1>10 DEF ServerReaps, ServerDrops
<1>11. CASE UNCHANGED <<lease, bundle, releasing, database>>
  BY <1>0, <1>11
<1>12. ASSUME NEW p \in Procs, Next,
              \/ Boot(p) \/ Stop(p) \/ PollAborted(p) \/ RecordFailure(p)
              \/ RetryAcquire(p) \/ DroppedQueryFails(p) \/ Starting(p)
              \/ RestoreFails(p) \/ StartConnectRejects(p) \/ ElectReleased(p)
              \/ ElectYielded(p) \/ ElectAcquired(p) \/ ElectAcquireEnds(p)
              \/ ElectConnected(p) \/ ElectConnectRejects(p) \/ CloseSockets(p)
              \/ Stopped(p)
       PROVE  UNCHANGED <<lease, bundle, releasing, database>>
  BY <1>12 DEF Boot, Stop, PollAborted, RecordFailure, RetryAcquire,
               DroppedQueryFails, Starting, Restored, StartAcquired,
               StartAcquireEnds, StartRecovers, StartConnected, RestoreFails,
               StartConnectRejects, ElectReleased, ElectYielded, ElectAcquired,
               ElectAcquireEnds, ElectConnected, ElectConnectRejects,
               CloseSockets, Stopped
<1> QED
  BY <1>1, <1>2, <1>3, <1>4, <1>5, <1>6, <1>7, <1>8, <1>9, <1>10, <1>11, <1>12
     DEF Next, Registry, Electing, Halting, Exit, Crash, vars

\* The failure window stays below its limit, and faults within their bound.
LEMMA CounterTypesStep ==
    ASSUME TypeOK, [Next]_vars
    PROVE  CounterTypes'
<1> USE DEF CounterTypes, registry, Fault
<1>0. CounterTypes /\ FailureLimit \in Nat \ {0} /\ MaxFaults \in Nat
  BY TypeGroups, LifecycleAssumption
<1>1. ASSUME NEW p \in Procs, Registry(p)
      PROVE  CounterTypes'
  <2>1. CASE RecordFailure(p)
    BY <1>0, <2>1 DEF RecordFailure, Exhausted
  <2>2. CASE RetryAcquire(p)
    BY <1>0, <2>2 DEF RetryAcquire
  <2> QED
    BY <1>0, <1>1, <2>1, <2>2
       DEF Registry, TryLock, LockReturned, CommitEpoch, PollAborted, Undo,
           ReleaseNext, DroppedQueryFails
<1>2. ASSUME NEW p \in Procs, Starting(p) \/ Electing(p)
      PROVE  CounterTypes'
  BY <1>0, <1>2
     DEF Starting, Restored, StartAcquired, StartAcquireEnds, StartRecovers,
         StartConnected, Electing, ElectTeardown, ElectReleased, ElectYielded,
         ElectAcquired, ElectAcquireEnds, ElectConnected
<1>3. ASSUME NEW p \in Procs, Halting(p) \/ Crash(p) \/ Boot(p) \/ Stop(p)
      PROVE  CounterTypes'
  BY <1>0, <1>3
     DEF Halting, CloseSockets, ReleaseLeases, Stopped, Exit, Crash, Gone, Boot,
         Stop
<1>4. ASSUME NEW p \in Procs,
             \/ AcquireQueryFails(p) \/ RestoreFails(p) \/ StartConnectRejects(p)
             \/ ElectConnectRejects(p)
      PROVE  CounterTypes'
  BY <1>0, <1>4
     DEF AcquireQueryFails, RestoreFails, StartConnectRejects, ElectConnectRejects
<1>5. ASSUME NEW p \in Procs, NEW m \in Markets, LoseLease(p, m)
      PROVE  CounterTypes'
  BY <1>0, <1>5 DEF LoseLease
<1>6. ASSUME NEW m \in Markets,
             ServerReaps(m) \/ \E p \in Procs : ServerDrops(p, m)
      PROVE  CounterTypes'
  BY <1>0, <1>6 DEF ServerReaps, ServerDrops
<1>7. CASE UNCHANGED vars
  BY <1>0, <1>7 DEF vars
<1> QED
  BY <1>1, <1>2, <1>3, <1>4, <1>5, <1>6, <1>7 DEF Next

\* The type invariant is inductive.
LEMMA TypesStep ==
    ASSUME TypeOK, [Next]_vars
    PROVE  TypeOK'
<1>1. /\ ProcessTypes' /\ GenerationTypes' /\ LeaseTypes' /\ CounterTypes'
  BY ProcessTypesStep, GenerationTypesStep, LeaseTypesStep, CounterTypesStep
<1> QED
  BY <1>1
     DEF TypeOK, ProcessTypes, GenerationTypes, Generation, LeaseTypes,
         CounterTypes

(***************************************************************************)
(* Phases and custodians.                                                  *)
(***************************************************************************)
Phases == \A q \in Procs : PhasesAgree(q) /\ OneCustodian(q)

\* A step that only moves one generation on, between two of its unfinished or
\* failed steps, disturbs neither.
LEMMA GenerationMoves ==
    ASSUME TypeOK, Phases, NEW p \in Procs, NEW g,
           gen' = [gen EXCEPT ![p] = g],
           UNCHANGED <<mode, start, elect, stop, bundle, releasing>>,
           gen[p].step \notin {"none", "ok"}, g.step # "ok",
           IsSettled(p) => g.step \in Settled
    PROVE  Phases'
<1>1. gen \in [Procs -> Generation]
  BY TypeGroups DEF GenerationTypes
<1>2. gen'[p] = g /\ \A q \in Procs \ {p} : gen'[q] = gen[q]
  BY <1>1
<1>3. PhasesAgree(p)' /\ OneCustodian(p)'
  BY <1>2 DEF Phases, PhasesAgree, OneCustodian, IsSettled
<1>4. ASSUME NEW q \in Procs \ {p}
      PROVE  PhasesAgree(q)' /\ OneCustodian(q)'
  BY <1>2 DEF Phases, PhasesAgree, OneCustodian, IsSettled
<1> QED
  BY <1>3, <1>4 DEF Phases

\* The registry moves generations on, fills the bundle and empties releases.
LEMMA PhasesRegistry ==
    ASSUME TypeOK, Phases, NEW p \in Procs, Registry(p) \/ AcquireQueryFails(p)
    PROVE  Phases'
<1> USE DEF process, database
<1>0. /\ gen \in [Procs -> Generation]
      /\ bundle \in [Procs -> SUBSET Markets]
      /\ releasing \in [Procs -> [by : {"none", "elect", "stop"},
                                   markets : SUBSET Markets]]
  BY DEF TypeOK, Generation
<1>a. ASSUME NEW s \in {"locked", "commit", "undo", "retry"},
             gen' = [gen EXCEPT ![p].step = s],
             UNCHANGED <<mode, start, elect, stop, bundle, releasing>>,
             gen[p].step \notin {"none", "ok"},
             IsSettled(p) => s = "retry"
      PROVE  Phases'
  <2>1. gen' = [gen EXCEPT ![p] = [gen[p] EXCEPT !.step = s]]
    BY <1>0, <1>a DEF Generation
  <2>2. [gen[p] EXCEPT !.step = s].step = s
    BY <1>0 DEF Generation
  <2> QED
    BY <1>a, <2>1, <2>2, GenerationMoves DEF Settled
<1>b. ASSUME NEW how \in Settled \ {"ok"}, gen' = Settle(p, how),
             UNCHANGED <<mode, start, elect, stop, bundle, releasing>>,
             gen[p].step = "undo"
      PROVE  Phases'
  <2>1. [NoGeneration EXCEPT !.step = how].step = how
    BY FreshGeneration
  <2> QED
    BY <1>b, <2>1, GenerationMoves DEF Settle
<1>c. ASSUME NEW s, gen' = [gen EXCEPT ![p].step = s, ![p].failed = TRUE],
             UNCHANGED <<mode, start, elect, stop, bundle, releasing>>,
             gen[p].step \in {"poll", "locked", "commit"}, s = "undo"
      PROVE  Phases'
  <2> DEFINE g == [gen[p] EXCEPT !.step = s, !.failed = TRUE]
  <2>1. gen' = [gen EXCEPT ![p] = g] /\ g.step = s
    BY <1>0, <1>c DEF Generation
  <2> HIDE DEF g
  <2> QED
    BY <1>c, <2>1, GenerationMoves DEF IsSettled, Settled
<1>1. CASE TryLock(p)
  BY <1>1, <1>a DEF TryLock, IsSettled, Settled
<1>2. CASE LockReturned(p)
  BY <1>2, <1>a DEF LockReturned, IsSettled, Settled
<1>3. CASE PollAborted(p)
  BY <1>3, <1>a DEF PollAborted, IsSettled, Settled
<1>4. CASE RecordFailure(p)
  BY <1>4, <1>a DEF RecordFailure
<1>5. CASE DroppedQueryFails(p)
  BY <1>5, <1>c DEF DroppedQueryFails, Dropped
<1>6. CASE AcquireQueryFails(p)
  BY <1>6, <1>c DEF AcquireQueryFails
<1>7. CASE Undo(p)
  <2>1. CASE UNCHANGED gen
    BY <1>7, <2>1 DEF Undo, Phases, PhasesAgree, OneCustodian, IsSettled
  <2>2. CASE gen' = Settle(p, Rejection(p))
    BY <1>7, <2>2, <1>b DEF Undo, Rejection, Settled
  <2> QED
    BY <1>7, <2>1, <2>2 DEF Undo
<1>8. CASE RetryAcquire(p)
  <2>1. [NoGeneration EXCEPT !.step = "poll"].step = "poll"
    BY FreshGeneration
  <2>2. gen'[p].step = "poll" /\ \A q \in Procs \ {p} : gen'[q] = gen[q]
    BY <1>0, <1>8, <2>1 DEF RetryAcquire, Begin
  <2> QED
    BY <1>8, <2>2
       DEF RetryAcquire, Stopping, Phases, PhasesAgree, OneCustodian, IsSettled
<1>9. CASE ReleaseNext(p)
  BY <1>0, <1>9
     DEF ReleaseNext, NothingToRelease, Phases, PhasesAgree, OneCustodian,
         IsSettled
<1>10. CASE CommitEpoch(p)
  <2>1. CASE IsLast(p) /\ ~ gen[p].lost
    <3>1. [NoGeneration EXCEPT !.step = "ok"].step = "ok"
      BY FreshGeneration DEF Settled
    <3>2. gen'[p].step = "ok" /\ \A q \in Procs \ {p} : gen'[q] = gen[q]
      BY <1>0, <1>10, <2>1, <3>1 DEF CommitEpoch, Settle
    <3>3. \A q \in Procs \ {p} : bundle'[q] = bundle[q]
      BY <1>0, <1>10, <2>1 DEF CommitEpoch
    <3>4. gen[p].step = "commit" /\ UNCHANGED <<mode, start, elect, stop, releasing>>
      BY <1>10 DEF CommitEpoch
    <3> QED
      BY <3>2, <3>3, <3>4
         DEF Phases, PhasesAgree, OneCustodian, IsSettled, Settled
  <2>2. CASE ~ (IsLast(p) /\ ~ gen[p].lost)
    <3> DEFINE next == IF gen[p].lost THEN "undo" ELSE "poll"
               g == [gen[p] EXCEPT !.at = @ + 1, !.step = next]
    <3>1. gen' = [gen EXCEPT ![p] = g]
      BY <1>0, <1>10, <2>2 DEF CommitEpoch, Generation
    <3>2. g.step = next
      BY <1>0 DEF Generation
    <3>3. UNCHANGED <<mode, start, elect, stop, bundle, releasing>>
      BY <1>10, <2>2 DEF CommitEpoch
    <3> HIDE DEF g
    <3> QED
      BY <1>10, <3>1, <3>2, <3>3, GenerationMoves
         DEF CommitEpoch, IsSettled, Settled
  <2> QED
    BY <2>1, <2>2
<1> QED
  BY <1>1, <1>2, <1>3, <1>4, <1>5, <1>6, <1>7, <1>8, <1>9, <1>10 DEF Registry

\* start() has its first bundle before it goes on.
LEMMA PhasesStarting ==
    ASSUME TypeOK, Phases, NEW p \in Procs,
           Boot(p) \/ Starting(p) \/ RestoreFails(p) \/ StartConnectRejects(p)
    PROVE  Phases'
<1> USE DEF Transition, StartAt, EnterServing, Uncut, registry, database, TypeOK,
            Phases, PhasesAgree, OneCustodian, IsSettled
<1>1. CASE Boot(p)
  BY <1>1 DEF Boot
<1>2. CASE Restored(p)
  BY <1>2 DEF Restored, Stopping, Begin, NoGeneration
<1>3. CASE StartAcquired(p)
  BY <1>3 DEF StartAcquired, Acquired
<1>4. CASE StartAcquireEnds(p)
  BY <1>4 DEF StartAcquireEnds
<1>5. CASE StartRecovers(p)
  <2>1. /\ start' \in [Procs -> {"none", "restore", "acquire", "names", "connect",
                                 "done"}]
        /\ start[p] = "names" /\ start'[p] \in {"connect", "done"}
        /\ mode' = mode \/ mode' = [mode EXCEPT ![p] = "RECOVERING"]
        /\ \A q \in Procs \ {p} : start'[q] = start[q]
        /\ UNCHANGED <<elect, stop, gen, bundle, releasing>>
    BY <1>5 DEF StartRecovers
  <2> QED
    BY <2>1
<1>6. CASE StartConnected(p)
  BY <1>6 DEF StartConnected
<1>7. CASE RestoreFails(p)
  BY <1>7 DEF RestoreFails
<1>8. CASE StartConnectRejects(p)
  BY <1>8 DEF StartConnectRejects
<1> QED
  BY <1>1, <1>2, <1>3, <1>4, <1>5, <1>6, <1>7, <1>8 DEF Starting

\* A re-election takes the bundle before it begins a generation.
LEMMA PhasesElecting ==
    ASSUME TypeOK, Phases, NEW p \in Procs, Electing(p) \/ ElectConnectRejects(p)
    PROVE  Phases'
<1> USE DEF Transition, ElectAt, EnterServing, Uncut, registry, database, TypeOK,
            Phases, PhasesAgree, OneCustodian, IsSettled
<1>1. CASE ElectTeardown(p)
  BY <1>1 DEF ElectTeardown, TakeBundle
<1>2. CASE ElectReleased(p)
  BY <1>2 DEF ElectReleased
<1>3. CASE ElectYielded(p)
  <2>1. CASE UNCHANGED gen
    BY <1>3, <2>1 DEF ElectYielded
  <2>2. CASE Begin(p) /\ ~ Stopping(p)
    <3>1. [NoGeneration EXCEPT !.step = "poll"].step = "poll"
      BY FreshGeneration
    <3>2. gen'[p].step = "poll" /\ \A q \in Procs \ {p} : gen'[q] = gen[q]
      BY <2>2, <3>1 DEF Begin
    <3> QED
      BY <1>3, <2>2, <3>2 DEF ElectYielded, Stopping
  <2> QED
    BY <1>3, <2>1, <2>2 DEF ElectYielded
<1>4. CASE ElectAcquired(p)
  BY <1>4 DEF ElectAcquired, Acquired
<1>5. CASE ElectAcquireEnds(p)
  BY <1>5 DEF ElectAcquireEnds
<1>6. CASE ElectConnected(p)
  BY <1>6 DEF ElectConnected
<1>7. CASE ElectConnectRejects(p)
  BY <1>7 DEF ElectConnectRejects
<1> QED
  BY <1>1, <1>2, <1>3, <1>4, <1>5, <1>6, <1>7 DEF Electing

\* A stop takes the bundle after the last generation has settled.
LEMMA PhasesHalting ==
    ASSUME TypeOK, Phases, NEW p \in Procs, Stop(p) \/ Halting(p) \/ Crash(p)
    PROVE  Phases'
<1> USE DEF Transition, LeaveServing, StopAt, registry, database, TypeOK,
            Phases, PhasesAgree, OneCustodian, IsSettled
<1>1. CASE Stop(p)
  BY <1>1 DEF Stop, Up
<1>2. CASE CloseSockets(p)
  BY <1>2 DEF CloseSockets
<1>3. CASE ReleaseLeases(p)
  BY <1>3 DEF ReleaseLeases, TakeBundle
<1>4. CASE Stopped(p)
  BY <1>4 DEF Stopped
<1>5. CASE Gone(p)
  BY <1>5 DEF Gone, StartAt, ElectAt, NoGeneration, NothingToRelease, Settled
<1> QED
  BY <1>1, <1>2, <1>3, <1>4, <1>5 DEF Halting, Exit, Crash

\* A lost lease may start a re-election, of a process that serves.
LEMMA PhasesLoseLease ==
    ASSUME TypeOK, Phases, NEW p \in Procs, NEW m \in Markets, LoseLease(p, m)
    PROVE  Phases'
<1>0. /\ gen \in [Procs -> Generation]
      /\ mode \in [Procs -> Modes] /\ elect \in [Procs -> {"idle", "teardown",
                                "release", "yield", "acquire", "connect"}]
      /\ bundle \in [Procs -> SUBSET Markets]
  BY DEF TypeOK, Generation
<1>1. UNCHANGED <<start, stop, bundle, releasing>>
  BY DEF LoseLease
<1>2. \A q \in Procs : gen'[q].step = gen[q].step
  BY <1>0 DEF LoseLease, Generation
<1>3. CASE UNCHANGED <<mode, elect>>
  BY <1>1, <1>2, <1>3 DEF Phases, PhasesAgree, OneCustodian, IsSettled
<1>4. CASE /\ m \in bundle[p] /\ elect[p] = "idle" /\ ~ Stopping(p)
           /\ LeaveServing(p, "RE_ELECTING") /\ ElectAt(p, "teardown")
  <2>1. gen[p].step = "ok" /\ start[p] \in {"names", "connect", "done"}
    <3>1. ~ Resuming(p)
      BY DEF LoseLease
    <3>2. gen[p].step = "ok"
      BY <1>4 DEF Phases, OneCustodian
    <3>3. start[p] \in {"none", "restore", "acquire", "names", "connect", "done"}
      BY DEF TypeOK
    <3>4. start[p] \notin {"none", "restore", "acquire"}
      BY <3>1, <3>2 DEF Phases, PhasesAgree, Resuming, Acquiring
    <3> QED
      BY <3>2, <3>3, <3>4
  <2>2. PhasesAgree(p)' /\ OneCustodian(p)'
    BY <1>0, <1>1, <1>2, <1>4, <2>1
       DEF LeaveServing, ElectAt, Stopping, Phases, PhasesAgree, OneCustodian,
           IsSettled
  <2>3. ASSUME NEW q \in Procs \ {p}
        PROVE  PhasesAgree(q)' /\ OneCustodian(q)'
    BY <1>0, <1>1, <1>2, <1>4
       DEF LeaveServing, ElectAt, Phases, PhasesAgree, OneCustodian, IsSettled
  <2> QED
    BY <2>2, <2>3 DEF Phases
<1> QED
  BY <1>3, <1>4 DEF LoseLease

\* Every step keeps the phases.
LEMMA PhasesStep ==
    ASSUME TypeOK, Phases, [Next]_vars
    PROVE  Phases'
<1>1. ASSUME NEW m \in Markets,
             ServerReaps(m) \/ \E p \in Procs : ServerDrops(p, m)
      PROVE  Phases'
  BY <1>1 DEF ServerReaps, ServerDrops, process, registry, Phases, PhasesAgree,
              OneCustodian, IsSettled
<1>2. CASE UNCHANGED vars
  BY <1>2 DEF vars, process, registry, Phases, PhasesAgree, OneCustodian, IsSettled
<1> QED
  BY <1>1, <1>2, PhasesRegistry, PhasesStarting, PhasesElecting, PhasesHalting,
     PhasesLoseLease DEF Next

(***************************************************************************)
(* The custody of locks and leases.                                        *)
(***************************************************************************)
Locks(p) == {m \in Markets : lock[m] = p}
Held(p) == {m \in Markets : lease[p][m].state = "HELD"}

\* The lock the generation has been granted and not yet made a lease of.
Claims(p) == {m \in Markets : /\ gen[p].step \in {"locked", "commit"}
                              /\ m = MarketAt(p, gen[p].at)}

\* The leases somebody is still going to release.
Kept(p) == {m \in Markets : \/ m \in bundle[p] \cup releasing[p].markets
                            \/ ~ IsSettled(p) /\ m \in Gathered(p)}

CustodyOf(p) == Locks(p) \subseteq Held(p) \cup Claims(p) /\ Held(p) \subseteq Kept(p)

\* Custody, process by process; after #runStop it follows from OneCustodian.
LEMMA CustodyParts ==
    ASSUME Phases
    PROVE  LocksInCustody <=> \A p \in Procs : CustodyOf(p)
<1>1. \A p \in Procs : stop[p] = "stopped" => bundle[p] = {} /\ IsSettled(p)
  BY DEF Phases, OneCustodian
<1> QED
  BY <1>1 DEF LocksInCustody, CustodyOf, Locks, Held, Claims, Kept

\* The same after a step.
LEMMA CustodyPartsNext ==
    ASSUME Phases'
    PROVE  LocksInCustody' <=> \A p \in Procs : CustodyOf(p)'
<1>1. \A p \in Procs : stop'[p] = "stopped" => bundle'[p] = {} /\ IsSettled(p)'
  BY DEF Phases, OneCustodian
<1> QED
  BY <1>1 DEF LocksInCustody, CustodyOf, Locks, Held, Claims, Kept

\* What process p does that reaches its registry or the locks.
LeaseSteps(p) ==
    \/ Registry(p) \/ AcquireQueryFails(p) \/ Restored(p)
    \/ ElectTeardown(p) \/ ElectYielded(p) \/ CloseSockets(p)
    \/ ReleaseLeases(p) \/ Exit(p) \/ Crash(p)
    \/ \E m \in Markets : LoseLease(p, m) \/ ServerDrops(p, m)

\* What leaves the registry and the locks alone.
OtherSteps ==
    \/ UNCHANGED vars
    \/ \E p \in Procs :
         \/ Boot(p) \/ Stop(p) \/ StartAcquired(p) \/ StartAcquireEnds(p)
         \/ StartRecovers(p) \/ StartConnected(p) \/ RestoreFails(p)
         \/ StartConnectRejects(p) \/ ElectReleased(p) \/ ElectAcquired(p)
         \/ ElectAcquireEnds(p) \/ ElectConnected(p) \/ ElectConnectRejects(p)
         \/ Stopped(p)

LEMMA KindsOfStep ==
    [Next]_vars => \/ \E p \in Procs : LeaseSteps(p)
                   \/ \E m \in Markets : ServerReaps(m)
                   \/ OtherSteps
BY DEF Next, LeaseSteps, OtherSteps, Starting, Electing, Halting

LEMMA OtherStepsFrame ==
    OtherSteps => UNCHANGED <<gen, lease, bundle, releasing, lock, token>>
<1>1. (UNCHANGED vars) => UNCHANGED <<gen, lease, bundle, releasing, lock, token>>
  BY DEF vars, registry, database
<1>2. ASSUME NEW p \in Procs,
             \/ Boot(p) \/ Stop(p) \/ StartAcquired(p) \/ StartAcquireEnds(p)
             \/ StartRecovers(p) \/ StartConnected(p) \/ RestoreFails(p)
             \/ StartConnectRejects(p) \/ ElectReleased(p) \/ ElectAcquired(p)
             \/ ElectAcquireEnds(p) \/ ElectConnected(p) \/ ElectConnectRejects(p)
             \/ Stopped(p)
      PROVE  UNCHANGED <<gen, lease, bundle, releasing, lock, token>>
  BY <1>2 DEF Boot, Stop, StartAcquired, StartAcquireEnds, StartRecovers,
              StartConnected, RestoreFails, StartConnectRejects, ElectReleased,
              ElectAcquired, ElectAcquireEnds, ElectConnected,
              ElectConnectRejects, Stopped, registry, database
<1> QED
  BY <1>1, <1>2 DEF OtherSteps

\* No process reaches into another's registry or takes a lock another holds.
LEMMA OwnLeasesOnly ==
    ASSUME TypeOK, NEW p \in Procs, LeaseSteps(p), NEW q \in Procs \ {p}
    PROVE  /\ gen'[q] = gen[q] /\ lease'[q] = lease[q]
           /\ bundle'[q] = bundle[q] /\ releasing'[q] = releasing[q]
           /\ Locks(q)' = Locks(q)
<1> USE DEF Locks, registry, database, Settle, Begin, Release, TakeBundle
<1>0. /\ gen \in [Procs -> Generation]
      /\ DOMAIN lease = Procs /\ DOMAIN bundle = Procs /\ DOMAIN releasing = Procs
      /\ DOMAIN lock = Markets
  BY DEF TypeOK, Generation
<1>1. CASE \E m \in Markets : LoseLease(p, m)
  <2>1. PICK m \in Markets : LoseLease(p, m)
    BY <1>1
  <2>2. gen'[q] = gen[q]
    BY <1>0, <2>1 DEF LoseLease
  <2>3. lease'[q] = lease[q] /\ UNCHANGED <<bundle, releasing>>
    BY <1>0, <2>1 DEF LoseLease
  <2>4. \/ lock' = lock
        \/ lock[m] = p /\ lock' = [lock EXCEPT ![m] = Ghost]
    <3>1. lock' = IF lock[m] = p THEN [lock EXCEPT ![m] = Ghost] ELSE lock
      BY <2>1 DEF LoseLease
    <3> QED
      BY <3>1
  <2>5. Locks(q)' = Locks(q)
    BY <1>0, <2>4, LifecycleAssumption
  <2> QED
    BY <2>2, <2>3, <2>5
<1>2. CASE \E m \in Markets : ServerDrops(p, m)
  BY <1>0, <1>2, LifecycleAssumption DEF ServerDrops
<1>3. CASE Gone(p)
  BY <1>0, <1>3, LifecycleAssumption DEF Gone
<1>4. CASE TryLock(p)
  BY <1>0, <1>4, LifecycleAssumption DEF TryLock
<1>5. CASE LockReturned(p)
  BY <1>0, <1>5, LifecycleAssumption DEF LockReturned
<1>6. CASE CommitEpoch(p)
  BY <1>0, <1>6 DEF CommitEpoch
<1>7. CASE Undo(p)
  <2>1. gen'[q] = gen[q] /\ lease'[q] = lease[q]
    BY <1>0, <1>7 DEF Undo
  <2>2. lock' = lock \/ \E m : lock[m] = p /\ lock' = [lock EXCEPT ![m] = None]
    BY <1>7 DEF Undo
  <2>3. Locks(q)' = Locks(q)
    BY <1>0, <2>2, LifecycleAssumption
  <2> QED
    BY <1>7, <2>1, <2>3 DEF Undo
<1>8. CASE ReleaseNext(p)
  <2>1. gen'[q] = gen[q] /\ lease'[q] = lease[q] /\ releasing'[q] = releasing[q]
    BY <1>0, <1>8 DEF ReleaseNext
  <2>2. lock' = lock \/ \E m : lock[m] = p /\ lock' = [lock EXCEPT ![m] = None]
    BY <1>8 DEF ReleaseNext
  <2>3. Locks(q)' = Locks(q)
    BY <1>0, <2>2, LifecycleAssumption
  <2> QED
    BY <1>8, <2>1, <2>3 DEF ReleaseNext
<1>9. CASE PollAborted(p) \/ RecordFailure(p) \/ RetryAcquire(p)
           \/ DroppedQueryFails(p) \/ Restored(p) \/ ElectYielded(p)
           \/ CloseSockets(p)
  BY <1>0, <1>9
     DEF PollAborted, RecordFailure, RetryAcquire, DroppedQueryFails, Restored,
         ElectYielded, CloseSockets
<1>10. CASE ElectTeardown(p) \/ ReleaseLeases(p)
  BY <1>0, <1>10 DEF ElectTeardown, ReleaseLeases
<1>11. CASE AcquireQueryFails(p)
  <2>1. lock' = lock \/ \E m : lock[m] = p /\ lock' = [lock EXCEPT ![m] = Ghost]
    BY <1>11 DEF AcquireQueryFails
  <2>2. Locks(q)' = Locks(q)
    BY <1>0, <2>1, LifecycleAssumption
  <2> QED
    BY <1>0, <1>11, <2>2 DEF AcquireQueryFails
<1> QED
  BY <1>1, <1>2, <1>3, <1>4, <1>5, <1>6, <1>7, <1>8, <1>9, <1>10, <1>11
     DEF LeaseSteps, Registry, Exit, Crash

\* So the others keep the custody of their leases.
LEMMA OthersKeepCustody ==
    ASSUME TypeOK, NEW p \in Procs, LeaseSteps(p), NEW q \in Procs \ {p},
           CustodyOf(q)
    PROVE  CustodyOf(q)'
<1>1. /\ gen'[q] = gen[q] /\ lease'[q] = lease[q]
      /\ bundle'[q] = bundle[q] /\ releasing'[q] = releasing[q]
      /\ Locks(q)' = Locks(q)
  BY OwnLeasesOnly
<1>2. Held(q)' = Held(q) /\ Claims(q)' = Claims(q) /\ Kept(q)' = Kept(q)
  BY <1>1 DEF Held, Claims, Kept, IsSettled, Gathered, MarketAt
<1> QED
  BY <1>1, <1>2 DEF CustodyOf

\* The process that moves keeps it too: the lock a generation is granted is its
\* claim until it is a lease, and no lease leaves the bundle, a releaseAll or
\* the unfinished generation before it is released.
LEMMA MoverKeepsCustody ==
    ASSUME TypeOK, Phases, NEW p \in Procs, LeaseSteps(p), CustodyOf(p)
    PROVE  CustodyOf(p)'
<1> USE DEF registry, database, MarketAt
<1>0. /\ gen \in [Procs -> Generation]
      /\ DOMAIN lease = Procs /\ DOMAIN lease[p] = Markets
      /\ DOMAIN bundle = Procs /\ DOMAIN releasing = Procs
      /\ DOMAIN lock = Markets /\ lock \in [Markets -> Procs \cup {None, Ghost}]
      /\ p # None /\ p # Ghost
  BY LifecycleAssumption DEF TypeOK, Generation
<1>a. ASSUME NEW step, gen' = [gen EXCEPT ![p].step = step]
      PROVE  gen'[p].step = step /\ gen'[p].at = gen[p].at
  BY <1>0, <1>a DEF Generation
<1>b. ASSUME Begin(p)
      PROVE  gen'[p].step = "poll"
  BY <1>0, <1>b, FreshGeneration DEF Begin
<1>c. ASSUME NEW how \in Settled, gen' = Settle(p, how)
      PROVE  gen'[p].step = how
  BY <1>0, <1>c, FreshGeneration DEF Settle
<1>d. /\ IsSettled(p) <=> gen[p].step \in Settled
      /\ IsSettled(p)' <=> gen'[p].step \in Settled
  BY DEF IsSettled
<1>e. ASSUME NEW m, Release(p, m)
      PROVE  /\ Held(p)' = Held(p) \ {m}
             /\ Locks(p)' = Locks(p) \ {m}
  <2>1. Held(p)' = Held(p) \ {m}
    <3>1. /\ m \in Markets => lease'[p][m] = NoLease
          /\ \A x \in Markets \ {m} : lease'[p][x] = lease[p][x]
      BY <1>0, <1>e DEF Release
    <3> QED
      BY <3>1 DEF Held, NoLease
  <2>2. Locks(p)' = Locks(p) \ {m}
    BY <1>0, <1>e DEF Release, Locks
  <2> QED
    BY <2>1, <2>2
<1>1. CASE TryLock(p)
  <2> DEFINE m == MarketAt(p, gen[p].at)
  <2>1. gen[p].step = "poll" /\ gen'[p].step = "locked" /\ gen'[p].at = gen[p].at
    BY <1>1, <1>a DEF TryLock
  <2>2. /\ lock' = [lock EXCEPT ![m] = p]
        /\ UNCHANGED <<lease, bundle, releasing>>
    BY <1>1 DEF TryLock
  <2>3. Locks(p)' \subseteq Locks(p) \cup {m} /\ Held(p)' = Held(p)
    BY <1>0, <2>2 DEF Locks, Held
  <2>4. Claims(p) = {} /\ Claims(p)' = {m} \cap Markets
    BY <2>1 DEF Claims
  <2>5. Kept(p)' = Kept(p)
    BY <1>d, <2>1, <2>2 DEF Kept, Gathered, Settled
  <2> QED
    BY <2>3, <2>4, <2>5 DEF CustodyOf, Locks
<1>2. CASE LockReturned(p)
  <2> DEFINE m == MarketAt(p, gen[p].at)
  <2>0. /\ gen[p].step = "locked" /\ UNCHANGED <<lease, bundle, releasing>>
        /\ \/ /\ lock' = [lock EXCEPT ![m] = None]
              /\ gen' = [gen EXCEPT ![p].step = "undo"]
           \/ /\ gen' = [gen EXCEPT ![p].step = "commit"]
              /\ UNCHANGED lock
    BY <1>2 DEF LockReturned
  <2>1. /\ gen'[p].at = gen[p].at /\ gen'[p].step \in {"undo", "commit"}
        /\ gen'[p].step = "undo" => lock' = [lock EXCEPT ![m] = None]
        /\ gen'[p].step = "commit" => lock' = lock
    BY <2>0, <1>a
  <2>2. Held(p)' = Held(p) /\ Claims(p) = {m} \cap Markets
    BY <2>0 DEF Held, Claims
  <2>3. Kept(p)' = Kept(p)
    BY <1>d, <2>0, <2>1 DEF Kept, Gathered, Settled
  <2>4. Locks(p)' \subseteq Held(p)' \cup Claims(p)'
    <3>1. CASE gen'[p].step = "undo"
      <4>1. Locks(p)' = Locks(p) \ {m}
        BY <1>0, <2>1, <3>1 DEF Locks
      <4> QED
        BY <4>1, <2>2 DEF CustodyOf
    <3>2. CASE gen'[p].step = "commit"
      <4>1. Locks(p)' = Locks(p) /\ Claims(p)' = Claims(p)
        BY <2>0, <2>1, <3>2 DEF Locks, Claims
      <4> QED
        BY <4>1, <2>2 DEF CustodyOf
    <3> QED
      BY <2>1, <3>1, <3>2
  <2> QED
    BY <2>2, <2>3, <2>4 DEF CustodyOf
<1>3. CASE CommitEpoch(p)
  <2> DEFINE m == MarketAt(p, gen[p].at)
  <2>1. /\ gen[p].step = "commit" /\ UNCHANGED <<lock, releasing>>
        /\ lease' = [lease EXCEPT ![p][m] = [state |-> "HELD",
                                             token |-> NextToken(m)]]
    BY <1>3 DEF CommitEpoch
  <2>2. Held(p)' \subseteq Held(p) \cup {m} /\ Held(p) \subseteq Held(p)'
    BY <1>0, <2>1 DEF Held
  <2>3. m \in Markets
    BY <2>1, TypeGroups, OrderFacts DEF GenerationTypes, Generation
  <2>4. m \in Held(p)'
    <3> DEFINE granted == [state |-> "HELD", token |-> NextToken(m)]
    <3>1. granted.state = "HELD"
      OBVIOUS
    <3>2. lease' = [lease EXCEPT ![p][m] = granted]
      BY <2>1
    <3> HIDE DEF granted, m
    <3> QED
      BY <1>0, <2>3, <3>1, <3>2 DEF Held
  <2>5. Locks(p)' \subseteq Held(p)'
    BY <2>1, <2>2, <2>4 DEF CustodyOf, Locks, Claims
  <2>6. Kept(p) \cup {m} \subseteq Kept(p)'
    <3>1. CASE IsLast(p) /\ ~ gen[p].lost
      <4>1. bundle' = [bundle EXCEPT ![p] = Markets]
        BY <1>3, <3>1 DEF CommitEpoch
      <4> QED
        BY <1>0, <4>1, <2>3 DEF Kept
    <3>2. CASE ~ (IsLast(p) /\ ~ gen[p].lost)
      <4> DEFINE next == IF gen[p].lost THEN "undo" ELSE "poll"
                 g == [gen[p] EXCEPT !.at = @ + 1, !.step = next]
      <4>1. gen' = [gen EXCEPT ![p] = g] /\ UNCHANGED bundle
        BY <1>0, <1>3, <3>2 DEF CommitEpoch, Generation
      <4>2. g.step = next /\ g.at = gen[p].at + 1
        BY <1>0 DEF Generation
      <4>3. gen[p].at \in Nat \ {0}
        BY <1>0 DEF Generation
      <4> HIDE DEF g
      <4>4. gen'[p].step \notin Settled /\ gen'[p].at = gen[p].at + 1
        BY <1>0, <4>1, <4>2 DEF Settled
      <4>5. Gathered(p) \cup {m} \subseteq Gathered(p)'
        BY <4>3, <4>4 DEF Gathered
      <4> QED
        BY <1>d, <2>1, <2>3, <4>1, <4>4, <4>5 DEF Kept
    <3> QED
      BY <3>1, <3>2
  <2> QED
    BY <2>2, <2>5, <2>6 DEF CustodyOf
<1>4. CASE PollAborted(p)
  <2>1. /\ gen[p].step = "poll" /\ gen'[p].step = "undo" /\ gen'[p].at = gen[p].at
        /\ UNCHANGED <<lease, bundle, releasing, lock>>
    BY <1>4, <1>a DEF PollAborted
  <2>2. /\ Locks(p)' = Locks(p) /\ Held(p)' = Held(p) /\ Claims(p) = {}
        /\ Kept(p)' = Kept(p)
    BY <1>d, <2>1 DEF Locks, Held, Claims, Kept, Gathered, Settled
  <2> QED
    BY <2>2 DEF CustodyOf
<1>5. CASE AcquireQueryFails(p) \/ DroppedQueryFails(p)
  <2> DEFINE m == MarketAt(p, gen[p].at)
  <2>1. /\ gen[p].step \in {"poll", "locked", "commit"}
        /\ gen' = [gen EXCEPT ![p].step = "undo", ![p].failed = TRUE]
        /\ \/ lock' = IF lock[m] = p THEN [lock EXCEPT ![m] = Ghost] ELSE lock
           \/ lock' = lock /\ lock[m] # p
        /\ UNCHANGED <<lease, bundle, releasing>>
    BY <1>5 DEF AcquireQueryFails, DroppedQueryFails, Dropped
  <2>2. gen'[p].step = "undo" /\ gen'[p].at = gen[p].at
    BY <1>0, <2>1 DEF Generation
  <2>3. Locks(p)' = Locks(p) \ {m}
    BY <1>0, <2>1 DEF Locks
  <2>4. Claims(p) \subseteq {m} /\ Held(p)' = Held(p)
    BY <2>1 DEF Claims, Held
  <2>5. Kept(p)' = Kept(p)
    BY <1>d, <2>1, <2>2 DEF Kept, Gathered, Settled
  <2> QED
    BY <2>3, <2>4, <2>5 DEF CustodyOf
<1>6. CASE Undo(p)
  <2> DEFINE left == {m \in Gathered(p) : lease[p][m] # NoLease}
  <2>1. gen[p].step = "undo" /\ UNCHANGED <<bundle, releasing>>
    BY <1>6 DEF Undo
  <2>2. CASE left # {}
    <3>1. PICK m : Release(p, m)
      BY <1>6, <2>2 DEF Undo
    <3>2. UNCHANGED gen
      BY <1>6, <2>2 DEF Undo
    <3>3. Held(p)' = Held(p) \ {m} /\ Locks(p)' = Locks(p) \ {m}
      BY <3>1, <1>e
    <3>4. Claims(p)' = Claims(p) /\ Kept(p)' = Kept(p) /\ Claims(p) = {}
      BY <2>1, <3>2 DEF Claims, Kept, IsSettled, Gathered
    <3> QED
      BY <3>3, <3>4 DEF CustodyOf
  <2>3. CASE left = {}
    <3>1. gen' = Settle(p, Rejection(p)) /\ UNCHANGED <<lease, lock>>
      BY <1>6, <2>3 DEF Undo
    <3>2. Held(p)' = Held(p) /\ Locks(p)' = Locks(p) /\ Claims(p) = {}
      BY <2>1, <3>1 DEF Held, Locks, Claims
    <3>3. Held(p) \cap Gathered(p) = {}
      BY <2>3 DEF Held, NoLease
    <3>4. Held(p) \subseteq Kept(p)'
      BY <2>1, <3>3 DEF CustodyOf, Kept
    <3> QED
      BY <3>2, <3>4 DEF CustodyOf
  <2> QED
    BY <2>2, <2>3
<1>7. CASE ReleaseNext(p)
  <2> DEFINE m == LastOf(p, releasing[p].markets)
  <2>1. Release(p, m) /\ UNCHANGED <<gen, bundle>>
    BY <1>7 DEF ReleaseNext
  <2>2. Held(p)' = Held(p) \ {m} /\ Locks(p)' = Locks(p) \ {m}
    BY <2>1, <1>e
  <2>3. releasing[p].markets \ {m} \subseteq releasing'[p].markets
    <3> HIDE DEF m
    <3>1. releasing' = [releasing EXCEPT ![p] =
                            IF @.markets = {m} THEN NothingToRelease
                            ELSE [by |-> @.by, markets |-> @.markets \ {m}]]
      BY <1>7 DEF ReleaseNext, m
    <3> QED
      BY <1>0, <3>1
  <2>4. Claims(p)' = Claims(p)
    BY <2>1 DEF Claims
  <2>5. Kept(p) \ {m} \subseteq Kept(p)'
    BY <2>1, <2>3 DEF Kept, IsSettled, Gathered
  <2>6. Claims(p) = {}
    BY <1>7 DEF ReleaseNext, Phases, OneCustodian, Claims
  <2> QED
    BY <2>2, <2>4, <2>5, <2>6 DEF CustodyOf
<1>8. CASE RecordFailure(p)
  <2>1. /\ gen[p].step = "failed" /\ gen'[p].step = "retry"
        /\ UNCHANGED <<lease, bundle, releasing, lock>>
    BY <1>8, <1>a DEF RecordFailure
  <2>2. /\ Locks(p)' = Locks(p) /\ Held(p)' = Held(p) /\ Claims(p) = {}
        /\ Kept(p) \subseteq Kept(p)'
    BY <1>d, <2>1 DEF Locks, Held, Claims, Kept, Settled
  <2> QED
    BY <2>2 DEF CustodyOf
<1>9. CASE RetryAcquire(p) \/ Restored(p) \/ ElectYielded(p)
  <2>1. /\ UNCHANGED <<lease, bundle, releasing, lock>>
        /\ gen[p].step \in Settled /\ (UNCHANGED gen \/ Begin(p))
    BY <1>9 DEF RetryAcquire, Restored, ElectYielded, Phases, PhasesAgree, Settled
  <2>2. /\ Locks(p)' = Locks(p) /\ Held(p)' = Held(p) /\ Claims(p) = {}
        /\ Kept(p) \subseteq Kept(p)'
    BY <1>d, <2>1 DEF Locks, Held, Claims, Kept, Settled
  <2> QED
    BY <2>2 DEF CustodyOf
<1>10. CASE CloseSockets(p)
  <2>1. /\ gen'[p].step = gen[p].step /\ gen'[p].at = gen[p].at
        /\ UNCHANGED <<lease, bundle, releasing, lock>>
    BY <1>0, <1>10 DEF CloseSockets, Generation
  <2>2. /\ Locks(p)' = Locks(p) /\ Held(p)' = Held(p) /\ Claims(p)' = Claims(p)
        /\ Kept(p)' = Kept(p)
    BY <1>d, <2>1 DEF Locks, Held, Claims, Kept, Gathered
  <2> QED
    BY <2>2 DEF CustodyOf
<1>11. CASE ElectTeardown(p) \/ ReleaseLeases(p)
  <2>1. UNCHANGED <<gen, lease, lock>> /\ \E by : TakeBundle(p, by)
    BY <1>11 DEF ElectTeardown, ReleaseLeases
  <2>2. bundle[p] = {} \/ releasing[p].markets = {}
    BY <1>11 DEF ElectTeardown, ReleaseLeases, Phases, OneCustodian, TypeOK
  <2>3. bundle[p] \cup releasing[p].markets \subseteq releasing'[p].markets
    BY <1>0, <2>1, <2>2 DEF TakeBundle
  <2>4. /\ Locks(p)' = Locks(p) /\ Held(p)' = Held(p) /\ Claims(p)' = Claims(p)
        /\ Kept(p) \subseteq Kept(p)'
    BY <2>1, <2>3 DEF Locks, Held, Claims, Kept, IsSettled, Gathered
  <2> QED
    BY <2>4 DEF CustodyOf
<1>12. CASE Gone(p)
  <2>1. Locks(p)' = {}
    BY <1>0, <1>12 DEF Gone, Locks
  <2>2. Held(p)' = {}
    BY <1>0, <1>12 DEF Gone, Held, NoLease
  <2> QED
    BY <2>1, <2>2 DEF CustodyOf
<1>13. ASSUME NEW m \in Markets, LoseLease(p, m)
       PROVE  CustodyOf(p)'
  <2>1. lease' = [lease EXCEPT ![p][m].state = "LOST"]
    BY <1>13 DEF LoseLease
  <2>2. lock' = IF lock[m] = p THEN [lock EXCEPT ![m] = Ghost] ELSE lock
    BY <1>13 DEF LoseLease
  <2>3. UNCHANGED <<bundle, releasing>>
    BY <1>13 DEF LoseLease
  <2>4. gen'[p].step = gen[p].step /\ gen'[p].at = gen[p].at
    BY <1>0, <1>13 DEF LoseLease, Generation
  <2>5. Locks(p)' = Locks(p) \ {m}
    BY <1>0, <2>2 DEF Locks
  <2>6. Held(p)' = Held(p) \ {m}
    <3> DEFINE lost == [lease[p][m] EXCEPT !.state = "LOST"]
    <3>1. lost.state # "HELD"
      <4>1. lease[p][m] \in [state : {"NONE", "HELD", "LOST"}, token : Nat]
        BY <1>13 DEF TypeOK
      <4> QED
        BY <4>1
    <3>2. lease' = [lease EXCEPT ![p][m] = lost]
      BY <1>0, <2>1
    <3> HIDE DEF lost
    <3> QED
      BY <1>0, <3>1, <3>2 DEF Held
  <2>7. Claims(p)' = Claims(p) /\ Kept(p)' = Kept(p)
    BY <1>d, <2>3, <2>4 DEF Claims, Kept, Gathered
  <2> QED
    BY <2>5, <2>6, <2>7 DEF CustodyOf
<1>14. ASSUME NEW m \in Markets, ServerDrops(p, m)
       PROVE  CustodyOf(p)'
  <2>1. Locks(p)' = Locks(p) \ {m}
    BY <1>0, <1>14 DEF ServerDrops, Locks
  <2>2. Held(p)' = Held(p) /\ Claims(p)' = Claims(p) /\ Kept(p)' = Kept(p)
    BY <1>14 DEF ServerDrops, Held, Claims, Kept, IsSettled, Gathered
  <2> QED
    BY <2>1, <2>2 DEF CustodyOf
<1> QED
  BY <1>1, <1>2, <1>3, <1>4, <1>5, <1>6, <1>7, <1>8, <1>9, <1>10, <1>11,
     <1>12, <1>13, <1>14 DEF LeaseSteps, Registry, Exit, Crash

\* No step leaks a lock or forgets a lease.
LEMMA CustodyStep ==
    ASSUME TypeOK, Phases, \A q \in Procs : CustodyOf(q), [Next]_vars
    PROVE  \A q \in Procs : CustodyOf(q)'
<1>1. ASSUME NEW p \in Procs, LeaseSteps(p)
      PROVE  \A q \in Procs : CustodyOf(q)'
  BY <1>1, OthersKeepCustody, MoverKeepsCustody
<1>2. ASSUME NEW m \in Markets, ServerReaps(m), NEW q \in Procs
      PROVE  CustodyOf(q)'
  <2>1. Locks(q)' = Locks(q)
    BY <1>2, LifecycleAssumption DEF ServerReaps, Locks, TypeOK
  <2>2. Held(q)' = Held(q) /\ Claims(q)' = Claims(q) /\ Kept(q)' = Kept(q)
    BY <1>2 DEF ServerReaps, registry, Held, Claims, Kept, IsSettled, Gathered,
                MarketAt
  <2> QED
    BY <2>1, <2>2 DEF CustodyOf
<1>3. ASSUME OtherSteps, NEW q \in Procs
      PROVE  CustodyOf(q)'
  <2>1. UNCHANGED <<gen, lease, bundle, releasing, lock>>
    BY <1>3, OtherStepsFrame
  <2> QED
    BY <2>1 DEF CustodyOf, Locks, Held, Claims, Kept, IsSettled, Gathered, MarketAt
<1> QED
  BY <1>1, <1>2, <1>3, KindsOfStep

(***************************************************************************)
(* Leaders and their tokens.                                               *)
(***************************************************************************)

\* A step that grants nothing: it hands out no token, makes no lease held that
\* was not, and takes no lock.
GrantsNothing ==
    /\ UNCHANGED token
    /\ \A p \in Procs, m \in Markets :
         \/ lease'[p][m] = lease[p][m]
         \/ lease'[p][m].state # "HELD" /\ lease'[p][m].token <= token[m]
    /\ \A p \in Procs : Locks(p)' \subseteq Locks(p)

\* Losing a lease, releasing it or letting go of a lock makes no second leader.
LEMMA LosingIsSafe ==
    ASSUME OneCurrentLeader, GrantsNothing
    PROVE  OneCurrentLeader'
BY DEF OneCurrentLeader, GrantsNothing, Locks

\* One lease of one process is lost or released.
LEMMA OneLeaseLost ==
    ASSUME TypeOK, OneCurrentLeader, NEW p \in Procs, NEW m,
           NEW less \in [state : {"NONE", "LOST"}, token : Nat],
           m \in Markets => less.token <= lease[p][m].token,
           lease' = [lease EXCEPT ![p][m] = less]
    PROVE  \A q \in Procs, x \in Markets :
              \/ lease'[q][x] = lease[q][x]
              \/ lease'[q][x].state # "HELD" /\ lease'[q][x].token <= token[x]
<1>1. /\ \A q \in Procs \ {p} : lease'[q] = lease[q]
      /\ \A x \in Markets \ {m} : lease'[p][x] = lease[p][x]
      /\ m \in Markets => lease'[p][m] = less
  BY DEF TypeOK
<1>2. m \in Markets => /\ lease[p][m].token \in Nat /\ token[m] \in Nat
                       /\ lease[p][m].token <= token[m] /\ less.token \in Nat
  BY DEF TypeOK, OneCurrentLeader
<1>3. m \in Markets => less.token <= token[m]
  BY <1>2
<1> QED
  BY <1>1, <1>3

\* Only the granting of a lock and the epoch transaction grant anything.
LEMMA GrantingSteps ==
    ASSUME TypeOK, OneCurrentLeader, NEW p \in Procs, LeaseSteps(p),
           ~ TryLock(p), ~ CommitEpoch(p)
    PROVE  GrantsNothing
<1> USE DEF registry, database
<1>0. /\ DOMAIN lease = Procs /\ DOMAIN lock = Markets
      /\ p # None /\ p # Ghost
      /\ NoLease \in [state : {"NONE", "LOST"}, token : Nat]
      /\ \A m \in Markets : /\ lease[p][m].token \in Nat
                            /\ NoLease.token <= lease[p][m].token
  BY LifecycleAssumption DEF TypeOK, NoLease
<1>a. ASSUME Locks(p)' \subseteq Locks(p)
      PROVE  \A q \in Procs : Locks(q)' \subseteq Locks(q)
  BY <1>a, OwnLeasesOnly
<1>b. ASSUME NEW m, Release(p, m), UNCHANGED token
      PROVE  GrantsNothing
  <2>1. Locks(p)' \subseteq Locks(p)
    BY <1>0, <1>b DEF Release, Locks
  <2>2. lease' = [lease EXCEPT ![p][m] = NoLease]
    BY <1>b DEF Release
  <2>3. \A q \in Procs, x \in Markets :
              \/ lease'[q][x] = lease[q][x]
              \/ lease'[q][x].state # "HELD" /\ lease'[q][x].token <= token[x]
    BY <1>0, <2>2, OneLeaseLost
  <2> QED
    BY <1>a, <1>b, <2>1, <2>3 DEF GrantsNothing
<1>1. CASE ReleaseNext(p)
  BY <1>1, <1>b DEF ReleaseNext
<1>2. CASE Undo(p)
  <2>1. UNCHANGED token /\ (UNCHANGED <<lease, lock>> \/ \E m : Release(p, m))
    BY <1>2 DEF Undo
  <2> QED
    BY <2>1, <1>b DEF GrantsNothing, Locks
<1>3. ASSUME NEW m \in Markets, LoseLease(p, m)
      PROVE  GrantsNothing
  <2> DEFINE lost == [lease[p][m] EXCEPT !.state = "LOST"]
  <2>1. /\ lost \in [state : {"NONE", "LOST"}, token : Nat]
        /\ lost.token = lease[p][m].token
    <3>1. lease[p][m] \in [state : {"NONE", "HELD", "LOST"}, token : Nat]
      BY <1>3 DEF TypeOK
    <3> QED
      BY <3>1
  <2>2. lease' = [lease EXCEPT ![p][m].state = "LOST"]
    BY <1>3 DEF LoseLease
  <2>3. lease' = [lease EXCEPT ![p][m] = lost]
    BY <1>0, <2>2
  <2> HIDE DEF lost
  <2>4. \A q \in Procs, x \in Markets :
              \/ lease'[q][x] = lease[q][x]
              \/ lease'[q][x].state # "HELD" /\ lease'[q][x].token <= token[x]
    <3>1. lost.token <= lease[p][m].token
      BY <1>0, <2>1
    <3> QED
      BY <2>1, <2>3, <3>1, OneLeaseLost
  <2>5. lock' = IF lock[m] = p THEN [lock EXCEPT ![m] = Ghost] ELSE lock
    BY <1>3 DEF LoseLease
  <2>6. Locks(p)' \subseteq Locks(p)
    BY <1>0, <2>5 DEF Locks
  <2>7. UNCHANGED token
    BY <1>3 DEF LoseLease
  <2> QED
    BY <1>a, <2>4, <2>6, <2>7 DEF GrantsNothing
<1>4. ASSUME NEW m \in Markets, ServerDrops(p, m)
      PROVE  GrantsNothing
  <2>1. Locks(p)' \subseteq Locks(p)
    BY <1>0, <1>4 DEF ServerDrops, Locks
  <2> QED
    BY <1>a, <1>4, <2>1 DEF ServerDrops, GrantsNothing
<1>5. CASE Gone(p)
  <2>1. lease' = [lease EXCEPT ![p] = [m \in Markets |-> NoLease]] /\ UNCHANGED token
    BY <1>5 DEF Gone
  <2>2. \A m \in Markets : lease'[p][m] = NoLease
    BY <1>0, <2>1
  <2>3. \A q \in Procs \ {p} : lease'[q] = lease[q]
    BY <1>0, <2>1
  <2>4. \A m \in Markets : NoLease.state # "HELD" /\ NoLease.token <= token[m]
    BY DEF NoLease, TypeOK
  <2>5. Locks(p)' \subseteq Locks(p)
    BY <1>0, <1>5 DEF Gone, Locks
  <2> QED
    BY <1>a, <2>1, <2>2, <2>3, <2>4, <2>5 DEF GrantsNothing
<1>6. CASE LockReturned(p) \/ AcquireQueryFails(p)
  <2>1. Locks(p)' \subseteq Locks(p)
    BY <1>0, <1>6 DEF LockReturned, AcquireQueryFails, Locks
  <2>2. UNCHANGED <<lease, token>>
    BY <1>6 DEF LockReturned, AcquireQueryFails
  <2> QED
    BY <1>a, <2>1, <2>2 DEF GrantsNothing
<1>7. CASE UNCHANGED <<lease, lock, token>>
  BY <1>7 DEF GrantsNothing, Locks
<1>8. ASSUME \/ PollAborted(p) \/ RecordFailure(p) \/ RetryAcquire(p)
             \/ DroppedQueryFails(p) \/ Restored(p) \/ ElectTeardown(p)
             \/ ElectYielded(p) \/ CloseSockets(p) \/ ReleaseLeases(p)
      PROVE  UNCHANGED <<lease, lock, token>>
  BY <1>8 DEF PollAborted, RecordFailure, RetryAcquire, DroppedQueryFails,
              Restored, ElectTeardown, ElectYielded, CloseSockets, ReleaseLeases
<1> QED
  BY <1>1, <1>2, <1>3, <1>4, <1>5, <1>6, <1>7, <1>8
     DEF LeaseSteps, Registry, Exit, Crash

\* Every step leaves one current leader.  A process that is granted a market's
\* lock holds no older lease of it, because custody says where its leases are;
\* and the epoch transaction's token is greater than every token handed out.
LEMMA LeaderStep ==
    ASSUME TypeOK, Phases, \A q \in Procs : CustodyOf(q), OneCurrentLeader,
           [Next]_vars
    PROVE  OneCurrentLeader'
<1>1. ASSUME NEW p \in Procs, TryLock(p)
      PROVE  OneCurrentLeader'
  <2> DEFINE m == MarketAt(p, gen[p].at)
  <2>1. gen[p].step = "poll" /\ gen[p].at \in 1 .. Len(Order)
    BY <1>1, TypeGroups, OrderFacts DEF TryLock, GenerationTypes, Generation
  <2>2. m \in Markets /\ m \notin Gathered(p)
    BY <2>1, OrderFacts DEF MarketAt, Gathered
  <2>3. bundle[p] \cup releasing[p].markets = {}
    BY <2>1 DEF Phases, OneCustodian
  <2>4. lease[p][m].state # "HELD"
    BY <2>2, <2>3 DEF CustodyOf, Held, Kept
  <2>5. lock' = [lock EXCEPT ![m] = p] /\ UNCHANGED <<lease, token>>
    BY <1>1 DEF TryLock
  <2> HIDE DEF m
  <2> QED
    BY <2>2, <2>4, <2>5 DEF OneCurrentLeader, TypeOK
<1>2. ASSUME NEW p \in Procs, CommitEpoch(p)
      PROVE  OneCurrentLeader'
  <2> DEFINE m == MarketAt(p, gen[p].at)
             granted == [state |-> "HELD", token |-> token[m] + 1]
  <2>1. m \in Markets
    BY <1>2, TypeGroups, OrderFacts
       DEF CommitEpoch, GenerationTypes, Generation, MarketAt
  <2>2. /\ lock[m] = p /\ lock' = lock
        /\ token' = [token EXCEPT ![m] = token[m] + 1]
        /\ lease' = [lease EXCEPT ![p][m] = granted]
    BY <1>2 DEF CommitEpoch, NextToken
  <2>3. granted.state = "HELD" /\ granted.token = token[m] + 1
    OBVIOUS
  <2> HIDE DEF m, granted
  <2>4. /\ token'[m] = token[m] + 1 /\ lease'[p][m] = granted
        /\ \A x \in Markets \ {m} : /\ token'[x] = token[x]
                                    /\ lease'[p][x] = lease[p][x]
        /\ \A q \in Procs \ {p} : lease'[q] = lease[q]
    BY <2>1, <2>2 DEF TypeOK
  <2>5. /\ \A x \in Markets : token[x] \in Nat
        /\ \A q \in Procs : lease[q][m].token \in Nat
    BY <2>1 DEF TypeOK
  <2>6. \A x \in Markets \ {m} : \A q \in Procs : lease'[q][x] = lease[q][x]
    BY <2>4
  <2>7. \A q \in Procs \ {p} : lease'[q][m] = lease[q][m]
    BY <2>4
  <2>8. \A q \in Procs : lease[q][m].token < token'[m]
    BY <2>1, <2>4, <2>5 DEF OneCurrentLeader
  <2>9. ASSUME NEW x \in Markets, NEW q \in Procs
        PROVE  /\ lease'[q][x].token <= token'[x]
               /\ lease'[q][x].state = "HELD" /\ lock'[x] = q =>
                      lease'[q][x].token = token'[x]
    <3>1. CASE x # m
      BY <2>2, <2>4, <2>6, <3>1 DEF OneCurrentLeader
    <3>2. CASE x = m /\ q = p
      BY <2>3, <2>4, <2>5, <3>2
    <3>3. CASE x = m /\ q # p
      BY <2>1, <2>2, <2>4, <2>5, <2>7, <2>8, <3>3 DEF OneCurrentLeader
    <3> QED
      BY <3>1, <3>2, <3>3
  <2>10. ASSUME NEW x \in Markets, NEW q \in Procs, NEW r \in Procs \ {q},
                lease'[q][x].state = "HELD", lease'[r][x].state = "HELD"
         PROVE  lease'[r][x].token # lease'[q][x].token
    <3>1. CASE x # m
      BY <2>6, <2>10, <3>1 DEF OneCurrentLeader
    <3>2. CASE x = m /\ q # p /\ r # p
      BY <2>1, <2>7, <2>10, <3>2 DEF OneCurrentLeader
    <3>3. CASE x = m /\ q = p
      BY <2>3, <2>4, <2>5, <2>7, <2>8, <3>3
    <3>4. CASE x = m /\ r = p
      BY <2>3, <2>4, <2>5, <2>7, <2>8, <3>4
    <3> QED
      BY <3>1, <3>2, <3>3, <3>4
  <2> QED
    BY <2>9, <2>10 DEF OneCurrentLeader
<1>3. ASSUME NEW p \in Procs, LeaseSteps(p), ~ TryLock(p), ~ CommitEpoch(p)
      PROVE  OneCurrentLeader'
  BY <1>3, GrantingSteps, LosingIsSafe
<1>4. ASSUME NEW m \in Markets, ServerReaps(m)
      PROVE  OneCurrentLeader'
  <2>1. \A q \in Procs : Locks(q)' \subseteq Locks(q)
    BY <1>4, LifecycleAssumption DEF ServerReaps, Locks, TypeOK
  <2>2. GrantsNothing
    BY <1>4, <2>1 DEF ServerReaps, registry, GrantsNothing
  <2> QED
    BY <2>2, LosingIsSafe
<1>5. CASE OtherSteps
  <2>1. UNCHANGED <<lease, lock, token>>
    BY <1>5, OtherStepsFrame
  <2> QED
    BY <2>1 DEF OneCurrentLeader
<1> QED
  BY <1>1, <1>2, <1>3, <1>4, <1>5, KindsOfStep

(***************************************************************************)
(* The theorems.                                                           *)
(***************************************************************************)
LEMMA LifecycleInit ==
    Init => LifecycleInv
<1> SUFFICES ASSUME Init PROVE LifecycleInv
  OBVIOUS
<1>1. GenerationTypes
  <2>1. NoGeneration \in Generation /\ NoGeneration.step = "none"
    BY OrderFacts DEF NoGeneration, Generation, Settled
  <2> QED
    BY <2>1 DEF Init, GenerationTypes
<1>2. ProcessTypes /\ LeaseTypes /\ CounterTypes
  BY LifecycleAssumption
     DEF Init, ProcessTypes, Modes, LeaseTypes, NoLease, NothingToRelease,
         CounterTypes
<1>3. TypeOK
  BY <1>1, <1>2, TypeGroups
<1>4. Phases
  BY DEF Init, Phases, PhasesAgree, OneCustodian, IsSettled, Settled,
         NoGeneration, NothingToRelease
<1>5. ASSUME NEW p \in Procs
      PROVE  CustodyOf(p)
  BY LifecycleAssumption DEF Init, CustodyOf, Locks, Held, NoLease
<1>6. OneCurrentLeader
  BY DEF Init, OneCurrentLeader, NoLease
<1> QED
  BY <1>3, <1>4, <1>5, <1>6, CustodyParts DEF LifecycleInv, Phases

LEMMA LifecycleNext ==
    LifecycleInv /\ [Next]_vars => LifecycleInv'
<1> SUFFICES ASSUME LifecycleInv, [Next]_vars PROVE LifecycleInv'
  OBVIOUS
<1>1. /\ TypeOK /\ Phases /\ OneCurrentLeader
      /\ \A p \in Procs : CustodyOf(p)
  BY CustodyParts DEF LifecycleInv, Phases
<1>2. /\ TypeOK' /\ Phases' /\ OneCurrentLeader'
      /\ \A p \in Procs : CustodyOf(p)'
  BY <1>1, TypesStep, PhasesStep, CustodyStep, LeaderStep
<1>3. LocksInCustody'
  BY <1>2, CustodyPartsNext
<1> QED
  BY <1>2, <1>3 DEF LifecycleInv, Phases

\* The inductive invariant holds in every reachable state of ProductionRuntime,
\* the lease registry and the database they share.
THEOREM LifecycleInvariant ==
    Spec => []LifecycleInv
<1>1. LifecycleInv /\ UNCHANGED vars => LifecycleInv'
  BY LifecycleNext
<1> QED
  BY <1>1, LifecycleInit, LifecycleNext, PTL DEF Spec

\* The runtime's, the registry's and the database's variables keep their types,
\* whatever the processes and the markets; in particular a generation never
\* polls past the last market of the acquisition order.
THEOREM LifecycleTypes ==
    Spec => []TypeOK
<1>1. LifecycleInv => TypeOK
  BY DEF LifecycleInv
<1> QED
  BY <1>1, LifecycleInvariant, PTL

\* Two processes that both believe they lead a market carry different fencing
\* tokens, and the one whose lock the database still honours carries the
\* current one: fencing tells them apart, for any number of processes, markets,
\* dropped connections, crashes and re-elections.
THEOREM LeadersAreToldApart ==
    Spec => []OneCurrentLeader
<1>1. LifecycleInv => OneCurrentLeader
  BY DEF LifecycleInv
<1> QED
  BY <1>1, LifecycleInvariant, PTL

\* No abort, failure, loss or stop leaks an advisory lock: who holds one has a
\* lease for it or is acquiring it, and somebody is still going to release
\* every lease.
THEOREM NoLockIsLeaked ==
    Spec => []LocksInCustody
<1>1. LifecycleInv => LocksInCustody
  BY DEF LifecycleInv
<1> QED
  BY <1>1, LifecycleInvariant, PTL
=============================================================================
