-------------------------- MODULE RuntimeLifecycle --------------------------
(***************************************************************************)
(* The paper-api processes that contend for the leadership of all markets: *)
(* ProductionRuntime's start(), #runReelection and #runStop, which run     *)
(* concurrently inside one process, the LeaseRegistry they share, and the  *)
(* advisory locks and fencing tokens of the database.                      *)
(*                                                                         *)
(* A process is single threaded: what it does between two awaits is one    *)
(* action here, and everything else may happen at an await.                *)
(***************************************************************************)
EXTENDS Integers, Sequences, FiniteSets

CONSTANTS
    Procs,          \* processes sharing the database
    Order,          \* LEASE_BUNDLE_ORDER, the markets in acquisition order
    None,           \* no holder
    Ghost,          \* a session the database has not yet noticed is dead
    FailureLimit,   \* failed acquisitions the process supervisor allows
    MaxFaults       \* bound on faults: lost connections, crashes, failures

Markets == {Order[i] : i \in 1 .. Len(Order)}

ASSUME LifecycleAssumption ==
    /\ Order \in Seq(Markets) /\ Len(Order) > 0
    /\ \A i, j \in 1 .. Len(Order) : Order[i] = Order[j] => i = j
    /\ None \notin Procs /\ Ghost \notin Procs /\ None # Ghost
    /\ FailureLimit \in Nat \ {0} /\ MaxFaults \in Nat

VARIABLES
    mode,       \* RuntimeStateMachine.current; NEW before, DOWN after a life
    live,       \* the latches are open and the outbox publisher runs
    start,      \* the await start() is at
    elect,      \* the await #runReelection is at
    stop,       \* the await #runStop is at
    aborted,    \* the process-wide abort signal
    cut,        \* connects under way whose market runtime was aborted
    gen,        \* the lease registry's current generation
    lease,      \* each market's LeaderLease and the token it was granted
    bundle,     \* markets in the registry's completed bundle
    releasing,  \* leases a releaseAll took from the bundle, and for whom
    failures,   \* the process supervisor's window
    lock,       \* holder of each market's advisory lock
    token,      \* leader_epochs.fencing_token
    faults      \* faults so far

process == <<mode, live, start, elect, stop, aborted, cut>>
registry == <<gen, lease, bundle, releasing, failures>>
database == <<lock, token>>
vars == <<process, registry, database, faults>>

Modes == {"NEW", "DOWN", "RESTORING", "ACQUIRING_LEASES", "RECOVERING",
          "SERVING", "RE_ELECTING", "DRAINING", "STOPPED", "FAILED_CLOSED"}
Settled == {"none", "ok", "failed", "retry", "aborted"}

NoLease == [state |-> "NONE", token |-> 0]
NoGeneration == [step |-> "none", at |-> 1, abort |-> FALSE, lost |-> FALSE,
                 failed |-> FALSE, reelected |-> FALSE]
NothingToRelease == [by |-> "none", markets |-> {}]

MarketPerProcess(p, i) ==
    IF p = (CHOOSE x \in Procs : TRUE) THEN Order[i]
                                       ELSE Order[Len(Order) + 1 - i]

\* The i-th market a generation of process p acquires.
MarketAt(p, i) == Order[i]

\* The markets a generation acquired before the one it is at.
Gathered(p) == {MarketAt(p, i) : i \in 1 .. gen[p].at - 1}

IsSettled(p) == gen[p].step \in Settled
Stopping(p) == stop[p] # "none"
Up(p) == mode[p] \notin {"NEW", "DOWN"}

\* releasePartial and releaseAll go through the markets backwards.
LastOf(p, S) ==
    MarketAt(p, CHOOSE i \in 1 .. Len(Order) :
        /\ MarketAt(p, i) \in S
        /\ \A j \in i + 1 .. Len(Order) : MarketAt(p, j) \notin S)

Fault == faults < MaxFaults /\ faults' = faults + 1

Init ==
    /\ mode = [p \in Procs |-> "NEW"]
    /\ live = [p \in Procs |-> FALSE]
    /\ start = [p \in Procs |-> "none"]
    /\ elect = [p \in Procs |-> "idle"]
    /\ stop = [p \in Procs |-> "none"]
    /\ aborted = [p \in Procs |-> FALSE]
    /\ cut = [p \in Procs |-> {}]
    /\ gen = [p \in Procs |-> NoGeneration]
    /\ lease = [p \in Procs |-> [m \in Markets |-> NoLease]]
    /\ bundle = [p \in Procs |-> {}]
    /\ releasing = [p \in Procs |-> NothingToRelease]
    /\ failures = [p \in Procs |-> 0]
    /\ lock = [m \in Markets |-> None]
    /\ token = [m \in Markets |-> 0]
    /\ faults = 0

(***************************************************************************)
(* RuntimeStateMachine.                                                    *)
(***************************************************************************)
Transition(p, to) == mode' = [mode EXCEPT ![p] = to] /\ UNCHANGED live

EnterServing(p) ==
    /\ mode' = [mode EXCEPT ![p] = "SERVING"]
    /\ live' = [live EXCEPT ![p] = TRUE]

LeaveServing(p, to) ==
    /\ mode' = [mode EXCEPT ![p] = to]
    /\ live' = [live EXCEPT ![p] = FALSE]

(***************************************************************************)
(* One generation of LeaseRegistry.acquireAll.                             *)
(***************************************************************************)
Begin(p) == gen' = [gen EXCEPT ![p] = [NoGeneration EXCEPT !.step = "poll"]]

Settle(p, how) == [gen EXCEPT ![p] = [NoGeneration EXCEPT !.step = how]]

Rejection(p) == IF gen[p].lost \/ gen[p].failed THEN "failed" ELSE "aborted"

\* The server grants the advisory lock to a poll.
TryLock(p) ==
    LET m == MarketAt(p, gen[p].at)
    IN  /\ gen[p].step = "poll" /\ ~ gen[p].abort
        /\ lock[m] = None
        /\ lock' = [lock EXCEPT ![m] = p]
        /\ gen' = [gen EXCEPT ![p].step = "locked"]
        /\ UNCHANGED <<process, lease, bundle, releasing, failures, token, faults>>

\* The poll returns: an abort meanwhile gives the lock straight back.
LockReturned(p) ==
    LET m == MarketAt(p, gen[p].at)
    IN  /\ gen[p].step = "locked" /\ lock[m] = p
        /\ IF gen[p].abort
           THEN /\ lock' = [lock EXCEPT ![m] = None]
                /\ gen' = [gen EXCEPT ![p].step = "undo"]
           ELSE /\ gen' = [gen EXCEPT ![p].step = "commit"]
                /\ UNCHANGED lock
        /\ UNCHANGED <<process, lease, bundle, releasing, failures, token, faults>>

NextTokenUnbumped(m) == token[m]
NextToken(m) == token[m] + 1

IsLast(p) == gen[p].at = Len(Order)

\* The epoch transaction commits and the lease is held; nobody looks at the
\* abort signal again before the next market.
CommitEpoch(p) ==
    LET m == MarketAt(p, gen[p].at)
        last == IsLast(p)
    IN  /\ gen[p].step = "commit" /\ lock[m] = p
        /\ token' = [token EXCEPT ![m] = NextToken(m)]
        /\ lease' = [lease EXCEPT ![p][m] = [state |-> "HELD",
                                             token |-> NextToken(m)]]
        /\ gen' = IF last /\ ~ gen[p].lost
                  THEN Settle(p, "ok")
                  ELSE [gen EXCEPT ![p].at = @ + 1,
                                   ![p].step = IF gen[p].lost THEN "undo"
                                                              ELSE "poll"]
        /\ bundle' = IF last /\ ~ gen[p].lost
                     THEN [bundle EXCEPT ![p] = Markets] ELSE bundle
        /\ UNCHANGED <<process, releasing, failures, lock, faults>>

PollAborted(p) ==
    /\ gen[p].step = "poll" /\ gen[p].abort
    /\ gen' = [gen EXCEPT ![p].step = "undo"]
    /\ UNCHANGED <<process, lease, bundle, releasing, failures, database, faults>>

\* The server has dropped the session that was granted the lock.
Dropped(p) == /\ gen[p].step \in {"locked", "commit"}
              /\ lock[MarketAt(p, gen[p].at)] # p

\* A query of the acquisition fails and the connection is closed; on a dropped
\* session it cannot but fail.
AcquireQueryFails(p) ==
    LET m == MarketAt(p, gen[p].at)
    IN  /\ gen[p].step \in {"poll", "locked", "commit"} /\ ~ Dropped(p)
        /\ Fault
        /\ lock' = IF lock[m] = p THEN [lock EXCEPT ![m] = Ghost] ELSE lock
        /\ gen' = [gen EXCEPT ![p].step = "undo", ![p].failed = TRUE]
        /\ UNCHANGED <<process, lease, bundle, releasing, failures, token>>

DroppedQueryFails(p) ==
    /\ Dropped(p)
    /\ gen' = [gen EXCEPT ![p].step = "undo", ![p].failed = TRUE]
    /\ UNCHANGED <<process, lease, bundle, releasing, failures, database, faults>>

\* LeaderLease.release: the lock goes with the connection.
Release(p, m) ==
    /\ lease' = [lease EXCEPT ![p][m] = NoLease]
    /\ lock' = IF lock[m] = p THEN [lock EXCEPT ![m] = None] ELSE lock

UndoForgetting(p) ==
    /\ gen[p].step = "undo"
    /\ gen' = Settle(p, Rejection(p))
    /\ UNCHANGED <<process, lease, lock, bundle, releasing, failures, token, faults>>

\* #releasePartial, last lease first; then the generation's promise rejects.
Undo(p) ==
    LET left == {m \in Gathered(p) : lease[p][m] # NoLease}
    IN  /\ gen[p].step = "undo"
        /\ IF left # {}
           THEN Release(p, LastOf(p, left)) /\ UNCHANGED gen
           ELSE gen' = Settle(p, Rejection(p)) /\ UNCHANGED <<lease, lock>>
        /\ UNCHANGED <<process, bundle, releasing, failures, token, faults>>

\* releaseAll, for the re-election or for the stop that emptied the bundle.
ReleaseNext(p) ==
    LET m == LastOf(p, releasing[p].markets)
    IN  /\ releasing[p].markets # {}
        /\ Release(p, m)
        /\ releasing' = [releasing EXCEPT ![p] =
                            IF @.markets = {m} THEN NothingToRelease
                            ELSE [by |-> @.by, markets |-> @.markets \ {m}]]
        /\ UNCHANGED <<process, gen, bundle, failures, token, faults>>

TakeBundle(p, by) ==
    /\ releasing' = IF bundle[p] = {} THEN releasing
                    ELSE [releasing EXCEPT ![p] = [by |-> by,
                                                   markets |-> bundle[p]]]
    /\ bundle' = [bundle EXCEPT ![p] = {}]

(***************************************************************************)
(* #acquireBundle: what start() and #runReelection both wait on.           *)
(***************************************************************************)
Acquiring(p) == start[p] = "acquire" \/ elect[p] = "acquire"
Exhausted(p) == failures[p] + 1 >= FailureLimit

\* A generation failed: the supervisor records it and arms its retry timer.
RecordFailure(p) ==
    /\ Acquiring(p) /\ gen[p].step = "failed"
    /\ ~ aborted[p] /\ ~ Exhausted(p)
    /\ failures' = [failures EXCEPT ![p] = @ + 1]
    /\ gen' = [gen EXCEPT ![p].step = "retry"]
    /\ UNCHANGED <<process, lease, bundle, releasing, database, faults>>

\* The timer fires.  Its callback reports success before the new generation has
\* done anything, and a success resets the supervisor.
RetryAcquire(p) ==
    /\ gen[p].step = "retry"
    /\ ~ aborted[p] /\ ~ Stopping(p)
    /\ failures' = [failures EXCEPT ![p] = 0]
    /\ Begin(p)
    /\ UNCHANGED <<process, lease, bundle, releasing, database, faults>>

\* How #acquireBundle ends: with the bundle, with an AbortError or with
\* another error.
Acquired(p) == gen[p].step = "ok"
AcquireAborts(p) ==
    \/ gen[p].step = "aborted"
    \/ gen[p].step = "retry" /\ Stopping(p)
AcquireThrows(p) ==
    gen[p].step = "failed" /\ (aborted[p] \/ Exhausted(p))

\* The generation has just settled: whoever awaits it goes on before the next
\* event of the process is looked at.
Resuming(p) == Acquiring(p) /\ gen[p].step \in {"ok", "failed", "aborted"}

(***************************************************************************)
(* start().                                                                *)
(***************************************************************************)
StartAt(p, pc) == start' = [start EXCEPT ![p] = pc]
Uncut(p, c) == cut' = [cut EXCEPT ![p] = @ \ {c}]

Boot(p) ==
    /\ mode[p] \in {"NEW", "DOWN"}
    /\ IF mode[p] = "DOWN" THEN Fault ELSE UNCHANGED faults
    /\ Transition(p, "RESTORING")
    /\ StartAt(p, "restore")
    /\ UNCHANGED <<elect, stop, aborted, cut, registry, database>>

\* Restore or the ledger's verification fails: nothing is served until an
\* operator acts.
RestoreFails(p) ==
    /\ start[p] = "restore" /\ Fault
    /\ Transition(p, "FAILED_CLOSED")
    /\ StartAt(p, "done")
    /\ UNCHANGED <<elect, stop, aborted, cut, registry, database>>

Restored(p) ==
    /\ start[p] = "restore"
    /\ Transition(p, "ACQUIRING_LEASES")
    /\ IF aborted[p] \/ Stopping(p)
       THEN StartAt(p, "done") /\ UNCHANGED gen
       ELSE StartAt(p, "acquire") /\ Begin(p)
    /\ UNCHANGED <<elect, stop, aborted, cut, lease, bundle, releasing,
                   failures, database, faults>>

\* The bundle is complete; the instrument names are read next.
StartAcquired(p) ==
    /\ start[p] = "acquire" /\ Acquired(p)
    /\ StartAt(p, "names")
    /\ failures' = [failures EXCEPT ![p] = 0]
    /\ UNCHANGED <<mode, live, elect, stop, aborted, cut, gen, lease, bundle,
                   releasing, database, faults>>

StartAcquireEnds(p) ==
    /\ start[p] = "acquire" /\ (AcquireAborts(p) \/ AcquireThrows(p))
    /\ IF AcquireThrows(p) THEN Transition(p, "FAILED_CLOSED")
                           ELSE UNCHANGED <<mode, live>>
    /\ StartAt(p, "done")
    /\ UNCHANGED <<elect, stop, aborted, cut, registry, database, faults>>

StartRecovers(p) ==
    /\ start[p] = "names"
    /\ \/ /\ Transition(p, "RECOVERING")
          /\ StartAt(p, "connect")
       \/ /\ aborted[p]
          /\ StartAt(p, "done")
          /\ UNCHANGED <<mode, live>>
    /\ UNCHANGED <<elect, stop, aborted, cut, registry, database, faults>>

\* Both connects resolved, which provider failures do too.
StartConnected(p) ==
    /\ start[p] = "connect"
    /\ IF aborted[p] THEN UNCHANGED <<mode, live>> ELSE EnterServing(p)
    /\ StartAt(p, "done") /\ Uncut(p, "start")
    /\ UNCHANGED <<elect, stop, aborted, registry, database, faults>>

\* A connect rejects: with AbortError if its market runtime was aborted, or
\* with a ledger invariant failure.
StartConnectRejects(p) ==
    /\ start[p] = "connect"
    /\ \/ /\ "start" \in cut[p]
          /\ UNCHANGED <<mode, live, faults>>
       \/ /\ Fault
          /\ Transition(p, "FAILED_CLOSED")
    /\ StartAt(p, "done") /\ Uncut(p, "start")
    /\ UNCHANGED <<elect, stop, aborted, registry, database>>

(***************************************************************************)
(* reelect() and #runReelection.                                           *)
(***************************************************************************)
ElectAt(p, pc) == elect' = [elect EXCEPT ![p] = pc]

\* The connects under way that aborting the market runtimes reaches.
Connecting(p) == {c \in {"start", "elect"} :
                    \/ c = "start" /\ start[p] = "connect"
                    \/ c = "elect" /\ elect[p] = "connect"}

\* The process notices that a lease's connection died.  Within an unfinished
\* generation that aborts the generation; a lease of the bundle starts a
\* re-election, once per generation, unless one is under way or the process
\* is stopping.
LoseLease(p, m) ==
    LET reported == IsSettled(p) /\ m \in bundle[p] /\ ~ gen[p].reelected
    IN  /\ lease[p][m].state = "HELD" /\ ~ Resuming(p)
        /\ IF lock[m] = p THEN Fault ELSE UNCHANGED faults
        /\ lease' = [lease EXCEPT ![p][m].state = "LOST"]
        /\ lock' = IF lock[m] = p THEN [lock EXCEPT ![m] = Ghost] ELSE lock
        /\ gen' = IF ~ IsSettled(p)
                  THEN [gen EXCEPT ![p].lost = TRUE, ![p].abort = TRUE]
                  ELSE [gen EXCEPT ![p].reelected = @ \/ reported]
        /\ IF reported /\ elect[p] = "idle" /\ ~ Stopping(p)
           THEN LeaveServing(p, "RE_ELECTING") /\ ElectAt(p, "teardown")
           ELSE UNCHANGED <<mode, live, elect>>
        /\ UNCHANGED <<start, stop, aborted, cut, bundle, releasing, failures, token>>

\* Market runtimes and streams close, then releaseAll takes the bundle.
ElectTeardown(p) ==
    /\ elect[p] = "teardown" /\ IsSettled(p)
    /\ cut' = [cut EXCEPT ![p] = @ \cup Connecting(p)]
    /\ TakeBundle(p, "elect")
    /\ ElectAt(p, "release")
    /\ UNCHANGED <<mode, live, start, stop, aborted, gen, lease, failures,
                   database, faults>>

ElectReleased(p) ==
    /\ elect[p] = "release"
    /\ releasing[p].by # "elect"
    /\ IF Stopping(p)
       THEN ElectAt(p, "idle") /\ UNCHANGED <<mode, live>>
       ELSE ElectAt(p, "yield") /\ Transition(p, "ACQUIRING_LEASES")
    /\ UNCHANGED <<start, stop, aborted, cut, registry, database, faults>>

ElectYielded(p) ==
    /\ elect[p] = "yield"
    /\ IF aborted[p] \/ Stopping(p)
       THEN ElectAt(p, "idle") /\ UNCHANGED gen
       ELSE ElectAt(p, "acquire") /\ Begin(p)
    /\ UNCHANGED <<mode, live, start, stop, aborted, cut, lease, bundle,
                   releasing, failures, database, faults>>

ElectAcquired(p) ==
    /\ elect[p] = "acquire" /\ Acquired(p)
    /\ IF aborted[p]
       THEN ElectAt(p, "idle") /\ UNCHANGED <<mode, live>>
       ELSE ElectAt(p, "connect") /\ Transition(p, "RECOVERING")
    /\ failures' = [failures EXCEPT ![p] = 0]
    /\ UNCHANGED <<start, stop, aborted, cut, gen, lease, bundle, releasing,
                   database, faults>>

\* An aborted or exhausted acquisition leaves the process in its mode.
ElectAcquireEnds(p) ==
    /\ elect[p] = "acquire" /\ (AcquireAborts(p) \/ AcquireThrows(p))
    /\ ElectAt(p, "idle")
    /\ UNCHANGED <<mode, live, start, stop, aborted, cut, registry, database, faults>>

ElectConnected(p) ==
    /\ elect[p] = "connect"
    /\ IF aborted[p] THEN UNCHANGED <<mode, live>> ELSE EnterServing(p)
    /\ ElectAt(p, "idle") /\ Uncut(p, "elect")
    /\ UNCHANGED <<start, stop, aborted, registry, database, faults>>

ElectConnectRejects(p) ==
    /\ elect[p] = "connect"
    /\ \/ "elect" \in cut[p] /\ UNCHANGED faults
       \/ Fault
    /\ ElectAt(p, "idle") /\ Uncut(p, "elect")
    /\ UNCHANGED <<mode, live, start, stop, aborted, registry, database>>

(***************************************************************************)
(* stop() and #runStop.                                                    *)
(***************************************************************************)
StopAt(p, pc) == stop' = [stop EXCEPT ![p] = pc]

Stop(p) ==
    /\ Up(p) /\ stop[p] = "none" /\ ~ Resuming(p)
    /\ LeaveServing(p, "DRAINING")
    /\ StopAt(p, "drain")
    /\ UNCHANGED <<start, elect, aborted, cut, registry, database, faults>>

CloseWithoutAbort(p) ==
    /\ stop[p] = "drain" /\ ~ Resuming(p)
    /\ cut' = [cut EXCEPT ![p] = @ \cup Connecting(p)]
    /\ StopAt(p, "close")
    /\ UNCHANGED <<mode, live, start, elect, aborted, gen, lease, bundle,
                   releasing, failures, database, faults>>

\* Requests and outbox are drained, by a deadline; the sockets close and the
\* process-wide signal is aborted, which also reaches a pending generation.
CloseSockets(p) ==
    /\ stop[p] = "drain" /\ ~ Resuming(p)
    /\ aborted' = [aborted EXCEPT ![p] = TRUE]
    /\ gen' = IF IsSettled(p) THEN gen ELSE [gen EXCEPT ![p].abort = TRUE]
    /\ cut' = [cut EXCEPT ![p] = @ \cup Connecting(p)]
    /\ StopAt(p, "close")
    /\ UNCHANGED <<mode, live, start, elect, lease, bundle, releasing,
                   failures, database, faults>>

\* abortPending waits for the generation, then releaseAll takes the bundle.
ReleaseLeases(p) ==
    /\ stop[p] = "close" /\ IsSettled(p)
    /\ TakeBundle(p, "stop")
    /\ StopAt(p, "release")
    /\ UNCHANGED <<mode, live, start, elect, aborted, cut, gen, lease,
                   failures, database, faults>>

Stopped(p) ==
    /\ stop[p] = "release"
    /\ releasing[p].by # "stop"
    /\ Transition(p, "STOPPED")
    /\ StopAt(p, "stopped")
    /\ UNCHANGED <<start, elect, aborted, cut, registry, database, faults>>

\* The process is gone; the database still has to notice its sessions are.
Gone(p) ==
    /\ mode' = [mode EXCEPT ![p] = "DOWN"]
    /\ live' = [live EXCEPT ![p] = FALSE]
    /\ StartAt(p, "none") /\ ElectAt(p, "idle") /\ StopAt(p, "none")
    /\ aborted' = [aborted EXCEPT ![p] = FALSE]
    /\ cut' = [cut EXCEPT ![p] = {}]
    /\ gen' = [gen EXCEPT ![p] = NoGeneration]
    /\ lease' = [lease EXCEPT ![p] = [m \in Markets |-> NoLease]]
    /\ bundle' = [bundle EXCEPT ![p] = {}]
    /\ releasing' = [releasing EXCEPT ![p] = NothingToRelease]
    /\ failures' = [failures EXCEPT ![p] = 0]
    /\ lock' = [m \in Markets |-> IF lock[m] = p THEN Ghost ELSE lock[m]]
    /\ UNCHANGED token

Exit(p) == stop[p] = "stopped" /\ Gone(p) /\ UNCHANGED faults
Crash(p) == Up(p) /\ Fault /\ Gone(p)

(***************************************************************************)
(* The database.                                                           *)
(***************************************************************************)
ServerDrops(p, m) ==
    /\ lock[m] = p /\ Fault
    /\ lock' = [lock EXCEPT ![m] = None]
    /\ UNCHANGED <<process, registry, token>>

ServerReaps(m) ==
    /\ lock[m] = Ghost
    /\ lock' = [lock EXCEPT ![m] = None]
    /\ UNCHANGED <<process, registry, token, faults>>

Registry(p) ==
    \/ TryLock(p) \/ LockReturned(p) \/ CommitEpoch(p) \/ PollAborted(p)
    \/ Undo(p) \/ ReleaseNext(p) \/ RecordFailure(p) \/ RetryAcquire(p)
    \/ DroppedQueryFails(p)

Starting(p) ==
    \/ Restored(p) \/ StartAcquired(p) \/ StartAcquireEnds(p)
    \/ StartRecovers(p) \/ StartConnected(p)

Electing(p) ==
    \/ ElectTeardown(p) \/ ElectReleased(p) \/ ElectYielded(p)
    \/ ElectAcquired(p) \/ ElectAcquireEnds(p) \/ ElectConnected(p)

Halting(p) == CloseSockets(p) \/ ReleaseLeases(p) \/ Stopped(p) \/ Exit(p)

Next ==
    \/ \E p \in Procs :
         \/ Boot(p) \/ Stop(p) \/ Crash(p)
         \/ Registry(p) \/ AcquireQueryFails(p)
         \/ Starting(p) \/ RestoreFails(p) \/ StartConnectRejects(p)
         \/ Electing(p) \/ ElectConnectRejects(p)
         \/ Halting(p)
         \/ \E m \in Markets : LoseLease(p, m) \/ ServerDrops(p, m)
    \/ \E m \in Markets : ServerReaps(m)

\* Promises settle and timers fire, drains end at their deadline, a dropped
\* connection is noticed in the end, and the database reaps dead sessions.
\* Nothing makes a fault happen or a process boot or stop.
Fairness ==
    /\ \A p \in Procs :
         WF_vars(\/ Registry(p) \/ Starting(p) \/ Electing(p) \/ Halting(p)
                 \/ \E m \in Markets : lock[m] # p /\ LoseLease(p, m))
    /\ WF_vars(\E m \in Markets : ServerReaps(m))

Spec == Init /\ [][Next]_vars
FairSpec == Spec /\ Fairness

(***************************************************************************)
(* Properties.                                                             *)
(***************************************************************************)

\* Every variable of the processes, the registry and the database has its type,
\* and a generation never goes on past the last market.
TypeOK ==
    /\ mode \in [Procs -> Modes]
    /\ live \in [Procs -> BOOLEAN]
    /\ start \in [Procs -> {"none", "restore", "acquire", "names", "connect",
                             "done"}]
    /\ elect \in [Procs -> {"idle", "teardown", "release", "yield", "acquire",
                             "connect"}]
    /\ stop \in [Procs -> {"none", "drain", "close", "release", "stopped"}]
    /\ aborted \in [Procs -> BOOLEAN]
    /\ cut \in [Procs -> SUBSET {"start", "elect"}]
    /\ gen \in [Procs -> [step : Settled \cup {"poll", "locked", "commit", "undo"},
                           at : 1 .. Len(Order) + 1, abort : BOOLEAN,
                           lost : BOOLEAN, failed : BOOLEAN,
                           reelected : BOOLEAN]]
    /\ \A p \in Procs : gen[p].step \in {"poll", "locked", "commit"}
                           => gen[p].at <= Len(Order)
    /\ lease \in [Procs -> [Markets -> [state : {"NONE", "HELD", "LOST"},
                                         token : Nat]]]
    /\ bundle \in [Procs -> SUBSET Markets]
    /\ releasing \in [Procs -> [by : {"none", "elect", "stop"},
                                 markets : SUBSET Markets]]
    /\ failures \in [Procs -> 0 .. FailureLimit]
    /\ lock \in [Markets -> Procs \cup {None, Ghost}]
    /\ token \in [Markets -> Nat]
    /\ faults \in 0 .. MaxFaults

\* What the fill and trigger transactions rely on when they compare fencing
\* tokens: two processes that both believe they hold a market carry different
\* tokens, and the one the database agrees with carries the current one.
OneCurrentLeader ==
    \A m \in Markets : \A p \in Procs :
        /\ lease[p][m].token <= token[m]
        /\ lease[p][m].state = "HELD" =>
              \A q \in Procs \ {p} : lease[q][m].state = "HELD" =>
                                     lease[q][m].token # lease[p][m].token
        /\ lease[p][m].state = "HELD" /\ lock[m] = p =>
              lease[p][m].token = token[m]

\* No lock is leaked by an abort, a failure or a loss at any await: a process
\* that holds a market's lock has a lease for it or is acquiring it, and each
\* lease it holds is still going to be released by somebody: it is in the
\* bundle, in a releaseAll, or in a generation that is not settled.  Once
\* #runStop has gone through, whatever start() or a re-election was doing
\* meanwhile, the process has no bundle and is not acquiring one.
LocksInCustody ==
    \A p \in Procs :
        /\ \A m \in Markets :
              /\ lock[m] = p =>
                    \/ lease[p][m].state = "HELD"
                    \/ /\ gen[p].step \in {"locked", "commit"}
                       /\ m = MarketAt(p, gen[p].at)
              /\ lease[p][m].state = "HELD" =>
                    \/ m \in bundle[p] \cup releasing[p].markets
                    \/ ~ IsSettled(p) /\ m \in Gathered(p)
        /\ stop[p] = "stopped" => bundle[p] = {} /\ IsSettled(p)

Contending == {p \in Procs : ~ IsSettled(p)}

\* The fixed acquisition order keeps contenders from holding one market each
\* and waiting for the other: while any process is acquiring, some process
\* comes to hold the whole bundle or all of them give up.
SomeoneLeads ==
    Contending # {} ~> \/ \E p \in Procs : bundle[p] = Markets
                       \/ Contending = {}

\* stop() goes through, also when it finds the process polling for leases,
\* recovering or in the middle of a re-election.
StopGoesThrough ==
    \A p \in Procs : stop[p] = "drain" ~> stop[p] \in {"stopped", "none"}
=============================================================================
