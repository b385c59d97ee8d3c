--------------------------- MODULE MarketRuntime ---------------------------
(***************************************************************************)
(* One market of the paper API at run time: the provider socket, the event *)
(* loops that drain it, the keepalive ping, the health machine with its    *)
(* incident rows, the supervised recovery, the reconnect supervisor and    *)
(* the re-election that tears all of it down and calls connect() again.    *)
(*                                                                         *)
(* The process is single threaded: a step runs from one resumption to the  *)
(* next await on the database, the provider or a timer, so a chain of      *)
(* synchronous calls is one step, written as operators on the record m.    *)
(* Everyone who degrades the market while its incident is being written    *)
(* awaits the same promise and is resumed by the same step.                *)
(***************************************************************************)
EXTENDS Naturals, FiniteSets, FiniteSetsExt

CONSTANTS
  Loops,        \* slots for the event loops alive at once, 1..n
  Rows,         \* incident row ids, reused once a row is resolved
  MissedPongs,  \* missed pongs that degrade the market
  BurstLimit,   \* rejected events in a row that close the transport
  MaxFailures,  \* failures that exhaust the supervisor's window
  MaxFaults     \* bound: provider, database and operator faults of a run

None == 0

ASSUME Bounds == /\ MissedPongs \in Nat \ {0} /\ BurstLimit \in Nat \ {0}
                 /\ MaxFailures \in Nat \ {0} /\ MaxFaults \in Nat
                 /\ Loops \subseteq Nat \ {None} /\ Rows \subseteq Nat \ {None}
                 /\ IsFiniteSet(Loops) /\ IsFiniteSet(Rows) /\ Rows # {}

VARIABLES
  m,        \* the process: everything that dies with it
  rows,     \* ACTIVE incident rows scoped to this market
  leftover, \* history: rows a resolution left ACTIVE, because it failed or
            \* because their write overlapped it
  unheld,   \* history: the operator resolved the row of the current outage,
            \* or the database refused to write it
  astray,   \* history of the last recovery: it began beside a live loop, a
            \* connect() found it running, or an invariant failure, a failed
            \* incident write or the dead loop that had degraded the market
            \* ended it
  faults    \* faults so far

vars == <<m, rows, leftover, unheld, astray, faults>>

NoLoop == [at |-> "none", aborted |-> FALSE]
NoRecovery == [at |-> "idle", via |-> "boot", aborted |-> FALSE, held |-> FALSE, seen |-> {}]
NoFailures == [timer |-> FALSE, failures |-> 0, exhausted |-> FALSE]

\* What the constructors leave: HEALTHY until something degrades it.
Fresh == [health |-> [state |-> "HEALTHY", misses |-> 0, known |-> None,
                      activating |-> FALSE],
          rec |-> NoRecovery,
          sock |-> [up |-> FALSE, closed |-> FALSE, marker |-> FALSE],
          loops |-> [l \in Loops |-> NoLoop], rejections |-> 0,
          keepalive |-> FALSE, ping |-> "none",
          sup |-> NoFailures, aborted |-> FALSE, owner |-> "booting"]

Init == /\ m = Fresh /\ rows \in {{}, {Min(Rows)}}
        /\ leftover = {} /\ unheld = FALSE /\ astray = FALSE /\ faults = 0

Fault == faults < MaxFaults /\ faults' = faults + 1

-----------------------------------------------------------------------------
(* Synchronous calls *)

\* A hold that waits for the operator.
ScheduleUnlessExhausted(p) == [p EXCEPT !.sup.timer = @ \/ ~p.sup.exhausted]

\* schedule: one pending attempt at a time, exhausted or not.
Schedule(p) == [p EXCEPT !.sup.timer = TRUE]

ResetFailures(p) == [p EXCEPT !.sup.failures = 0, !.sup.exhausted = FALSE]

ResumeSupervisor(p) == [ResetFailures(p) EXCEPT !.sup.timer = FALSE]

\* recordFailure with n failures left in the sliding window, this one included.
Exhausts(p, n) == n >= MaxFailures /\ ~p.sup.exhausted

RecordFailure(p, n) ==
  [p EXCEPT !.sup.failures = n,
            !.sup.exhausted = @ \/ n >= MaxFailures,
            !.sup.timer = @ /\ ~Exhausts(p, n)]

\* degrade: DEGRADED at once; the incident is written unless one is known.
\* The caller awaits the write that is in flight, or starts one.
Degrade(p) ==
  [p EXCEPT !.health.state = "DEGRADED",
            !.health.activating = @ \/ p.health.known = None]

Waits(p) == p.health.activating

StartKeepalive(p) == [p EXCEPT !.keepalive = TRUE]
StopKeepalive(p) == [p EXCEPT !.keepalive = FALSE]

\* These loops are over.
Leave(p, ls) == [p EXCEPT !.loops = [l \in Loops |-> IF l \in ls THEN NoLoop ELSE @[l]]]

\* #onTransportClosed for the loops that took a transportClosed event, or failed.
OnTransportClosed(p, ls) ==
  LET q == Leave(StopKeepalive(p), ls)
      d == Degrade(q) IN
  CASE p.aborted -> q
    [] ~p.aborted /\ Waits(d) ->
         [d EXCEPT !.loops = [l \in Loops |-> IF l \in ls THEN [p.loops[l] EXCEPT !.at = "closing"]
                                              ELSE @[l]]]
    [] OTHER -> Schedule(d)

\* The loop l asks for its next event: what events() and the for-await do.
NextEvent(p, l) ==
  CASE p.loops[l].aborted -> Leave(p, {l})
    [] ~p.loops[l].aborted /\ p.sock.marker ->
         OnTransportClosed([p EXCEPT !.sock.marker = FALSE], {l})
    [] ~p.loops[l].aborted /\ ~p.sock.marker /\ p.sock.closed -> Leave(p, {l})
    [] OTHER -> [p EXCEPT !.loops[l].at = "waiting"]

Waiting(p) == {l \in Loops : p.loops[l].at = "waiting"}

\* finish: the first waiter takes transportClosed, the others are told the
\* stream is done; with nobody waiting the event is queued.
Finish(p) ==
  LET q == [p EXCEPT !.sock.closed = TRUE]
      w == Waiting(q)
      l == Min(w) IN
  CASE p.sock.closed -> p
    [] ~p.sock.closed /\ w = {} -> [q EXCEPT !.sock.marker = TRUE]
    [] OTHER -> OnTransportClosed(Leave(q, w \ {l}), {l})

\* A pong that does not come back, and #closeTransport once the market is down.
PongMissed(p) ==
  LET q == [p EXCEPT !.ping = "none", !.health.misses = Min({MissedPongs, @ + 1})] IN
  IF q.health.misses >= MissedPongs THEN Degrade(q) ELSE q

AfterMissStaysOpen(p) == p

AfterMiss(p) == IF p.health.state = "HEALTHY" THEN p
                ELSE Finish([StopKeepalive(p) EXCEPT !.sock.up = FALSE])

PingFails(p) == LET q == PongMissed(p) IN
                IF q.health.misses >= MissedPongs /\ Waits(q)
                THEN [q EXCEPT !.ping = "failing"] ELSE AfterMiss(q)

\* finish also answers the control waiters: a ping in flight fails with it.
Ended(p) == LET q == Finish(p) IN
            IF p.ping = "flying" /\ ~p.sock.closed THEN PingFails(q) ELSE q

\* stream.close(): detach the socket, then finish.
Detach(p) == [p EXCEPT !.sock.up = FALSE]

CloseStream(p) == Ended(Detach(p))

\* #closeTransport
CloseTransport(p) == CloseStream(StopKeepalive(p))

\* The failure is recorded and a retry scheduled; recovery over.
Retry(p, n) == [Schedule(RecordFailure(p, n)) EXCEPT !.rec = NoRecovery]

-----------------------------------------------------------------------------
(* Connecting and recovering *)

\* #recoverOnce up to its first await. Without a live controller there is no
\* lease either: held() throws and the attempt ends.
RecoverOnce(p, via) ==
  LET q == IF p.health.state = "HEALTHY" THEN p ELSE [p EXCEPT !.health.state = "RECOVERING"] IN
  IF p.aborted THEN q
  ELSE [q EXCEPT !.rec = [at |-> "connecting", via |-> via, aborted |-> FALSE,
                          held |-> p.sup.exhausted, seen |-> {}]]

Recovering == m.rec.at # "idle"

Beside == \E l \in Loops : m.loops[l].at # "none" /\ ~m.loops[l].aborted

\* connect() from start() or from a re-election that holds the leases again.
Connect ==
  /\ m.owner \in {"booting", "reported"}
  /\ LET p == [m EXCEPT !.owner = "serving", !.aborted = FALSE]
         via == IF m.owner = "booting" THEN "boot" ELSE "reelection" IN
     m' = IF Recovering THEN p ELSE RecoverOnce(p, via)
  /\ astray' = (Recovering \/ Beside)
  /\ UNCHANGED <<rows, leftover, unheld, faults>>

\* The reconnect timer fires.
TimerFires ==
  /\ m.sup.timer
  /\ LET p == [m EXCEPT !.sup.timer = FALSE] IN
     m' = IF Recovering THEN p ELSE RecoverOnce(p, "timer")
  /\ astray' = IF Recovering THEN astray ELSE Beside
  /\ UNCHANGED <<rows, leftover, unheld, faults>>

At(phase) == m.rec.at = phase

\* The token is there; the old socket is detached, its unread events astray.
Handshake ==
  /\ At("connecting") /\ ~m.rec.aborted
  /\ m' = [m EXCEPT !.rec.at = "shaking",
                    !.sock = [up |-> FALSE, closed |-> FALSE, marker |-> FALSE],
                    !.ping = IF @ = "flying" THEN "stale" ELSE @]
  /\ UNCHANGED <<rows, leftover, unheld, astray, faults>>

Opened ==
  /\ At("shaking") /\ ~m.sock.closed /\ ~m.rec.aborted
  /\ m' = [m EXCEPT !.rec.at = "declaring", !.sock.up = TRUE]
  /\ UNCHANGED <<rows, leftover, unheld, astray, faults>>

Declared ==
  /\ At("declaring") /\ m.sock.up
  /\ m' = [m EXCEPT !.rec.at = "snapshots"]
  /\ UNCHANGED <<rows, leftover, unheld, astray, faults>>

\* Every symbol was read, or blocked with an incident of its own; an aborted
\* recovery blocks all the symbols it has not read yet.
Snapshots ==
  /\ At("snapshots")
  /\ m' = [m EXCEPT !.rec.at = "settling"]
  /\ UNCHANGED <<rows, leftover, unheld, astray, faults>>

\* The stability period is over: the last look at the abort signal.
Settled ==
  /\ At("settling") /\ ~m.rec.aborted
  /\ m' = [m EXCEPT !.rec.at = "applying"]
  /\ UNCHANGED <<rows, leftover, unheld, astray, faults>>

\* The recovered books went to the engine; markHealthy reads the ACTIVE rows.
Applied ==
  /\ At("applying")
  /\ m' = [m EXCEPT !.rec.at = "resolving", !.rec.seen = rows]
  /\ UNCHANGED <<rows, leftover, unheld, astray, faults>>

\* An aborted recovery throws: the timer swallows it, connect() passes it on.
Aborted ==
  /\ m.rec.at \in {"connecting", "shaking", "declaring", "settling"} /\ m.rec.aborted
  /\ m' = [m EXCEPT !.rec = NoRecovery]
  /\ UNCHANGED <<rows, leftover, unheld, astray, faults>>

\* The failures the sliding window may still hold: all of them, or only this.
Window == {1, Min({MaxFailures, m.sup.failures + 1})}

\* The exhausted hold announces itself with a row of its own, or fails to. The
\* code does not await that write; here it lands with the failure.
Announce(p, n, base) ==
  IF Exhausts(p, n) /\ Rows \ base # {} THEN {base, base \cup {Min(Rows \ base)}} ELSE {base}

\* The attempt fails with the process in p: an aborted one throws, any other
\* degrades the market, records the failure and retries.
Failed(p) ==
  /\ \E n \in Window :
       LET d == Degrade(p) IN
       CASE p.rec.aborted -> m' = [p EXCEPT !.rec = NoRecovery] /\ UNCHANGED rows
         [] ~p.rec.aborted /\ Waits(d) -> m' = [d EXCEPT !.rec.at = "degrading"] /\ UNCHANGED rows
         [] OTHER -> m' = Retry(d, n) /\ rows' \in Announce(d, n, rows)
  /\ UNCHANGED <<leftover, unheld, astray>>

TokenRefused == At("connecting") /\ ~m.rec.aborted /\ Fault /\ Failed(m)

HandshakeFails == At("shaking") /\ ~m.rec.aborted /\ Fault /\ Failed(CloseStream(m))

DeclarationFails == At("declaring") /\ ~m.rec.aborted /\ Fault /\ Failed(m)

\* The incident of a blocked symbol could not be written.
BlockFails == At("snapshots") /\ Fault /\ Failed(m)

EngineFails == At("applying") /\ Fault /\ Failed(m)

\* An invariant or audit failure in the engine is thrown on before anything is
\* degraded, recorded or scheduled: at boot start() fails with it and the
\* process exits; the timer and a re-election swallow it, over an open socket
\* nobody reads.
InvariantFails ==
  /\ At("applying") /\ ~m.rec.aborted /\ Fault
  /\ LET fatal == m.rec.via = "boot" IN
     /\ m' = IF fatal THEN Fresh ELSE [m EXCEPT !.rec = NoRecovery]
     /\ astray' = ~fatal
     /\ unheld' = (unheld /\ ~fatal)
     /\ leftover' = IF fatal THEN rows ELSE leftover
  /\ UNCHANGED rows

\* Somebody closed the stream under the handshake or the declaration.
SocketLost ==
  /\ (At("shaking") /\ m.sock.closed) \/ (At("declaring") /\ ~m.sock.up)
  /\ ~m.rec.aborted
  /\ Failed(m) /\ UNCHANGED faults

\* markHealthy: the rows it read are resolved one by one and the market is
\* HEALTHY whatever happened meanwhile.
MarkHealthyRemembers(p) ==
  [p EXCEPT !.health.state = "HEALTHY", !.health.misses = 0]

MarkHealthy(p) ==
  [p EXCEPT !.health.state = "HEALTHY", !.health.known = None, !.health.misses = 0]

ResolvesKnown == rows \ {m.health.known}

Resolves == rows \ m.rec.seen

\* The feed is back on its own and takes the hold of an exhausted window along.
ClearRetryHold(p) == ResumeSupervisor(p)

\* The rest of the recovery: the keepalive, the lifted hold, and a new event
\* loop whose first event comes after both; a dead controller ends it.
Recovered(p) ==
  LET l == Min({k \in Loops : p.loops[k] = NoLoop})
      q == [StartKeepalive(MarkHealthy(p)) EXCEPT
              !.rec = NoRecovery, !.rejections = 0,
              !.loops[l] = [at |-> "waiting", aborted |-> p.aborted]]
      h == IF p.rec.held THEN ClearRetryHold(q) ELSE q IN
  NextEvent(IF p.rec.via = "timer" THEN ResetFailures(h) ELSE h, l)

\* Bound: a slot of Loops is free, the loops of aborted connections included.
Slot == NoLoop \in {m.loops[l] : l \in Loops}

Resolve ==
  /\ At("resolving") /\ Slot
  /\ m' = Recovered(m)
  /\ rows' = Resolves
  /\ leftover' = leftover \cap rows' /\ unheld' = FALSE
  /\ UNCHANGED <<astray, faults>>

\* The database refuses: rows stay ACTIVE and the feed is HEALTHY all the same.
ResolveFails ==
  /\ At("resolving") /\ Slot /\ Fault
  /\ m' = Recovered(m)
  /\ leftover' = (leftover \cup m.rec.seen) \cap rows /\ unheld' = FALSE
  /\ UNCHANGED <<rows, astray>>

-----------------------------------------------------------------------------
(* The incident write and everyone who awaits it *)

Busy(p, at) == {l \in Loops : p.loops[l].at = at}

\* Each waiter goes on: the loops in onTransportClosed schedule, the burst and
\* the ping close the transport, the recovery records its failure and retries.
ResumeClosing(p) ==
  LET c == Busy(p, "closing") IN IF c = {} THEN p ELSE Schedule(Leave(p, c))

\* Of the loops p has in ls, those whose connection is still the current one.
Wanted(p, ls) == {l \in ls : ~p.loops[l].aborted}

\* The first of them closes the transport, which leaves nothing to close to
\* the others, and the first still wanted takes the transportClosed event.
ResumeBursting(p) ==
  LET b == Busy(p, "bursting")
      u == Wanted(p, b)
      l == Min(IF u = {} THEN b ELSE u) IN
  IF b = {} THEN p ELSE NextEvent(Leave(CloseTransport(p), b \ {l}), l)

ResumePing(p) == IF p.ping = "failing" THEN AfterMiss([p EXCEPT !.ping = "none"]) ELSE p

ResumeOwner(p) == IF p.owner = "reporting" THEN [p EXCEPT !.owner = "reported"] ELSE p

Resumed(p) == ResumeOwner(ResumePing(ResumeBursting(ResumeClosing(p))))

\* Bound: a row id is free.
Free == Rows \ (rows \cup m.rec.seen) # {}

Activated ==
  /\ m.health.activating /\ Free
  /\ \E n \in Window :
       LET id == Min(Rows \ (rows \cup m.rec.seen))
           p == [m EXCEPT !.health.known = id, !.health.activating = FALSE]
           q == Resumed(p) IN
       IF At("degrading")
       THEN m' = Retry(q, n) /\ rows' \in Announce(q, n, rows \cup {id})
       ELSE m' = q /\ rows' = rows \cup {id}
  /\ unheld' = FALSE
  /\ leftover' = IF m.health.state = "HEALTHY" \/ At("resolving") THEN leftover \cup (rows' \ rows)
                 ELSE leftover
  /\ UNCHANGED <<astray, faults>>

LoopsFailed(p, ls) ==
  LET u == Wanted(p, ls)
      q == Leave(p, ls \ u) IN
  IF u = {} THEN q ELSE OnTransportClosed(q, u)

\* The write fails. Nothing catches it in the event loop or in the ping, so
\* the process exits; so does a start() whose connect() throws. A burst falls
\* back on EVENT_LOOP_FAILED; a retry or a re-election just ends.
ActivationFails ==
  /\ m.health.activating /\ Fault
  /\ LET fatal == \/ Busy(m, "closing") # {} \/ m.ping = "failing"
                  \/ At("degrading") /\ m.rec.via = "boot"
         p == [m EXCEPT !.health.activating = FALSE]
         q == ResumeOwner(IF At("degrading") THEN [p EXCEPT !.rec = NoRecovery] ELSE p)
         b == Busy(q, "bursting") IN
     /\ m' = IF fatal THEN Fresh ELSE LoopsFailed(q, b)
     /\ astray' = IF fatal THEN FALSE
                   ELSE astray \/ At("degrading") \/ \E l \in b : q.loops[l].aborted
     /\ unheld' = ~fatal
     /\ leftover' = IF fatal THEN rows ELSE leftover
  /\ UNCHANGED rows

-----------------------------------------------------------------------------
(* The event loop, the socket and the ping *)

Dispatch(l) ==
  /\ m.loops[l].at = "waiting" /\ m.sock.up
  /\ m' = [m EXCEPT !.loops[l].at = "dispatching"]
  /\ UNCHANGED <<rows, leftover, unheld, astray, faults>>

Dispatched(l) ==
  /\ m.loops[l].at = "dispatching"
  /\ m' = NextEvent([m EXCEPT !.rejections = 0], l)
  /\ UNCHANGED <<rows, leftover, unheld, astray, faults>>

\* The store or the engine rejects the event; a burst of them closes the feed.
Rejected(l) ==
  /\ m.loops[l].at = "dispatching" /\ Fault
  /\ LET r == m.rejections + 1
         d == Degrade([m EXCEPT !.rejections = 0]) IN
     m' = CASE r < BurstLimit -> NextEvent([m EXCEPT !.rejections = r], l)
            [] r >= BurstLimit /\ Waits(d) -> [d EXCEPT !.loops[l].at = "bursting"]
            [] OTHER -> NextEvent(CloseTransport(d), l)
  /\ UNCHANGED <<rows, leftover, unheld, astray>>

ProviderCloses ==
  /\ m.sock.up /\ Fault
  /\ m' = CloseStream(m)
  /\ UNCHANGED <<rows, leftover, unheld, astray>>

\* The keepalive interval: on a socket that is not connected ping() throws.
Ping ==
  /\ m.keepalive /\ m.ping = "none"
  /\ m' = IF m.sock.up THEN [m EXCEPT !.ping = "flying"] ELSE PingFails(m)
  /\ UNCHANGED <<rows, leftover, unheld, astray, faults>>

Pong ==
  /\ m.ping = "flying"
  /\ m' = [m EXCEPT !.ping = "none", !.health.misses = 0]
  /\ UNCHANGED <<rows, leftover, unheld, astray, faults>>

\* No answer in time; the ping of a replaced socket never gets one.
PongTimeout ==
  /\ \/ m.ping = "flying" /\ Fault
     \/ m.ping = "stale" /\ UNCHANGED faults
  /\ m' = PingFails(m)
  /\ UNCHANGED <<rows, leftover, unheld, astray>>

-----------------------------------------------------------------------------
(* The owner: re-election and the operator *)

\* A lease is lost: abort() and stream.close(). A re-election that is still
\* waiting for connect() is joined instead.
LoseLease ==
  /\ m.owner = "serving" /\ ~(Recovering /\ m.rec.via = "reelection") /\ Fault
  /\ LET a == [StopKeepalive(m) EXCEPT
                 !.aborted = TRUE, !.owner = "left", !.sup.timer = FALSE,
                 !.rec.aborted = Recovering,
                 !.loops = [l \in Loops |->
                              IF @[l].at \in {"none", "waiting"} THEN NoLoop
                              ELSE [@[l] EXCEPT !.aborted = TRUE]]] IN
     m' = CloseStream(a)
  /\ UNCHANGED <<rows, leftover, unheld, astray>>

\* The lost market's incident: LEADER_LEASE_LOST or LEADER_BUNDLE_BROKEN.
Report ==
  /\ m.owner = "left"
  /\ LET d == Degrade(m) IN
     m' = [d EXCEPT !.owner = IF Waits(d) THEN "reporting" ELSE "reported"]
  /\ UNCHANGED <<rows, leftover, unheld, astray, faults>>

ResumeRetries(p) == Schedule(ResumeSupervisor(p))

\* The operator resolves a row; an exhausted market retries at once.
AdminResolve ==
  \E r \in rows :
    /\ Fault
    /\ rows' = rows \ {r} /\ leftover' = leftover \ {r}
    /\ unheld' = (unheld \/ r = m.health.known)
    /\ m' = IF m.sup.exhausted THEN ResumeRetries(m) ELSE m
    /\ UNCHANGED astray

-----------------------------------------------------------------------------
(* What the rows allow and what the health page shows *)

AllCapabilities == {"PLACE", "AMEND", "CANCEL", "MATCH", "TRIGGER", "RECOVER"}
MarketDenied == {"PLACE", "AMEND", "MATCH", "TRIGGER"}

\* TradingCapabilities.for, while the process admits mutations.
Capabilities == IF rows = {} THEN AllCapabilities ELSE AllCapabilities \ MarketDenied

\* Placement follows the rows and the feed lives in memory: the state answers
\* to both.
MarketHealthView ==
  CASE m.health.state # "HEALTHY" -> m.health.state
    [] m.health.state = "HEALTHY" /\ "PLACE" \notin Capabilities -> "DEGRADED"
    [] OTHER -> "NORMAL"

\* A market whose lease is gone is RECOVERING whatever its feed says.
MarketDataHealth ==
  IF m.owner \in {"booting", "serving"} THEN MarketHealthView ELSE "RECOVERING"

-----------------------------------------------------------------------------
Next ==
  \/ Connect \/ TimerFires \/ Handshake \/ Opened \/ Declared \/ Snapshots
  \/ Settled \/ Applied \/ Resolve \/ Aborted
  \/ TokenRefused \/ HandshakeFails \/ DeclarationFails \/ BlockFails
  \/ EngineFails \/ InvariantFails \/ SocketLost \/ ResolveFails
  \/ Activated \/ ActivationFails
  \/ \E l \in Loops : Dispatch(l) \/ Dispatched(l) \/ Rejected(l)
  \/ ProviderCloses \/ Ping \/ Pong \/ PongTimeout
  \/ LoseLease \/ Report \/ AdminResolve

\* The runtime's own steps are taken: timers fire, awaited work is answered,
\* the keepalive interval ticks. Faults are under no obligation.
Fairness ==
  /\ WF_vars(Connect) /\ WF_vars(TimerFires) /\ WF_vars(Handshake) /\ WF_vars(Opened)
  /\ WF_vars(Declared) /\ WF_vars(Snapshots) /\ WF_vars(Settled) /\ WF_vars(Applied)
  /\ WF_vars(Aborted) /\ WF_vars(SocketLost)
  /\ WF_vars(Resolve) /\ WF_vars(Activated) /\ WF_vars(Report)
  /\ \A l \in Loops : WF_vars(Dispatched(l))
  /\ WF_vars(Ping) /\ WF_vars(Pong) /\ WF_vars(m.ping = "stale" /\ PongTimeout)

Spec == Init /\ [][Next]_vars /\ Fairness

-----------------------------------------------------------------------------
(* Properties *)

Phases == {"idle", "connecting", "shaking", "declaring", "snapshots", "settling",
           "applying", "resolving", "degrading"}

\* Types of the process record and of the rows.
TypeOK ==
  /\ m.health \in [state : {"HEALTHY", "DEGRADED", "RECOVERING"}, misses : 0..MissedPongs,
                   known : Rows \cup {None}, activating : BOOLEAN]
  /\ m.rec \in [at : Phases, via : {"boot", "reelection", "timer"}, aborted : BOOLEAN,
                held : BOOLEAN, seen : SUBSET Rows]
  /\ m.sup \in [timer : BOOLEAN, failures : 0..MaxFailures, exhausted : BOOLEAN]
  /\ rows \subseteq Rows /\ leftover \subseteq rows

Alive(l) == \/ m.loops[l].at \in {"dispatching", "closing", "bursting"}
            \/ m.loops[l].at = "waiting" /\ ~m.sock.closed

\* A market its process serves always has somebody on it: a recovery, a
\* pending retry or a loop on an open stream, whatever failed, however often,
\* and exhausted or not. The ways to lose it are those of astray, an invariant
\* failure of the engine among them.
NeverAbandoned ==
  m.owner = "serving" /\ ~astray =>
    Recovering \/ m.sup.timer \/ \E l \in Loops : Alive(l)

\* While the feed is down and its incident is written, the ACTIVE row of the
\* outage refuses placement, unless the operator resolved it by hand or the
\* database refused it; only the recovery that ends the outage lifts it.
HeldWhileDown ==
  m.health.state # "HEALTHY" /\ ~m.health.activating =>
    \/ m.health.known \in rows /\ "PLACE" \notin Capabilities
    \/ unheld

\* Once the feed is back, no row of an outage that is over keeps the market
\* closed, except the rows a failing database kept or whose write the
\* resolution overlapped.
NoOrphanIncident ==
  m.owner = "serving" /\ m.health.state = "HEALTHY" /\ ~Recovering => rows \subseteq leftover

\* Faults end and the feed comes back: the market is served HEALTHY over an
\* open stream for good, and shown NORMAL with placement open unless rows were
\* left over, or nobody was left to retry.
Recovers ==
  <>[](astray \/ /\ m.owner = "serving" /\ m.health.state = "HEALTHY" /\ m.sock.up
                  /\ \E l \in Loops : Alive(l)
                  /\ leftover = {} => MarketDataHealth = "NORMAL")
=============================================================================
