------------------------- MODULE MarketRuntimeProofs -------------------------
(***************************************************************************)
(* A market its process serves is never abandoned, the row of its outage   *)
(* stands until a recovery lifts it, and none is left behind: for any      *)
(* number of event loops, incident rows and faults.                        *)
(***************************************************************************)
EXTENDS MarketRuntime, WellFoundedInduction, TLAPS

-----------------------------------------------------------------------------
(* The inductive invariant.                                                *)

Stages == {"none", "waiting", "dispatching", "closing", "bursting"}
Owners == {"booting", "serving", "left", "reporting", "reported"}

Process ==
  [health : [state : {"HEALTHY", "DEGRADED", "RECOVERING"}, misses : 0..MissedPongs,
             known : Rows \cup {None}, activating : BOOLEAN],
   rec : [at : Phases, via : {"boot", "reelection", "timer"}, aborted : BOOLEAN,
          held : BOOLEAN, seen : SUBSET Rows],
   sock : [up : BOOLEAN, closed : BOOLEAN, marker : BOOLEAN],
   loops : [Loops -> [at : Stages, aborted : BOOLEAN]],
   rejections : Nat, keepalive : BOOLEAN, ping : {"none", "flying", "stale", "failing"},
   sup : [timer : BOOLEAN, failures : 0..MaxFailures, exhausted : BOOLEAN],
   aborted : BOOLEAN, owner : Owners]

\* The loops of the current connection.
Live(p) == {l \in Loops : p.loops[l].at # "none" /\ ~p.loops[l].aborted}

\* Whoever waits for an event has an open stream and is of the current connection;
\* the controller is dead between the loss of a lease and the next connect().
Sound(p) ==
  /\ p \in Process
  /\ \A l \in Loops : p.loops[l].at = "waiting" => ~p.loops[l].aborted /\ ~p.sock.closed
  /\ p.aborted <=> p.owner \in {"left", "reporting", "reported"}
  /\ p.owner = "booting" => p = Fresh

OnSocket == {"shaking", "declaring", "snapshots", "settling", "applying", "resolving"}

\* A market that is served and not astray: a recovery has it for itself, or one
\* loop at most does; the end of a stream is not lost on whoever reads it next.
Manned(p) ==
  /\ p.rec.at # "idle" => ~p.rec.aborted /\ Live(p) = {}
  /\ p.rec.at \in OnSocket /\ p.sock.closed => p.sock.marker
  /\ \A k, l \in Live(p) : k = l
  /\ \A l \in Live(p) : p.loops[l].at \in {"dispatching", "bursting"} /\ p.sock.closed => p.sock.marker
  /\ p.rec.at # "idle" \/ p.sup.timer \/ Live(p) # {}

MannedSound == m.owner = "serving" /\ ~astray => Manned(m)

\* The row of an outage.
RowSound ==
  /\ m.health.activating => m.health.known = None
  /\ m.health.known # None => m.health.known \in rows \/ unheld
  /\ m.health.state # "HEALTHY" /\ ~m.health.activating => m.health.known # None \/ unheld

LeftoverSound ==
  /\ leftover \subseteq rows /\ rows \subseteq Rows
  /\ m.rec.at = "degrading" => m.health.state # "HEALTHY"
  /\ m.rec.at = "resolving" => rows \ m.rec.seen \subseteq leftover
  /\ m.rec.at # "idle" /\ m.rec.aborted /\ m.health.state = "HEALTHY" => m.owner = "left"
  /\ /\ m.health.state = "HEALTHY" /\ m.owner \notin {"booting", "left"}
     /\ m.rec.at # "idle" => m.rec.via # "boot"
     => rows \subseteq leftover

MarketInv == Sound(m) /\ MannedSound /\ RowSound /\ LeftoverSound

-----------------------------------------------------------------------------
(* Smallest members.                                                       *)

LEMMA MinIs ==
  ASSUME NEW S \in SUBSET Nat, S # {}
  PROVE  Min(S) \in S
<1>1. PICK x \in S : \A y \in S : ~ (<<y, x>> \in OpToRel(<, Nat))
  BY NatLessThanWellFounded, WFMin
<1>2. ASSUME NEW y \in S PROVE x <= y
  <2>1. ~ (y < x)
    BY <1>1 DEF OpToRel
  <2> QED
    BY <2>1
<1> QED
  BY <1>2 DEF Min

LEMMA MinOfTwo ==
  ASSUME NEW a \in Nat, NEW b \in Nat
  PROVE  Min({a, b}) \in 0..a
<1>1. \E x \in {a, b} : \A y \in {a, b} : x <= y
  OBVIOUS
<1> QED
  BY <1>1 DEF Min

-----------------------------------------------------------------------------
(* The synchronous calls, one by one.                                      *)

\* The incident state moves from p to q by what a degrade does, or not at all.
Down(p, q) ==
  /\ q.health.known = p.health.known
  /\ \/ q.health.state = p.health.state /\ q.health.activating = p.health.activating
     \/ /\ q.health.state = "DEGRADED"
        /\ q.health.activating = (p.health.activating \/ p.health.known = None)

\* What every call on the transport, the loops and the ping leaves alone.
Calm(p, q) ==
  /\ q.rec = p.rec /\ q.owner = p.owner /\ q.aborted = p.aborted
  /\ Down(p, q)

\* Waiting loops have an open stream and are of the current connection.
Fit(p) ==
  /\ p \in Process
  /\ \A l \in Loops : p.loops[l].at = "waiting" => ~p.loops[l].aborted /\ ~p.sock.closed

\* What a change of the loops, the incident or the supervisor leaves alone.
Aside(p, q) ==
  /\ q.rec = p.rec /\ q.sock = p.sock /\ q.rejections = p.rejections /\ q.ping = p.ping
  /\ q.aborted = p.aborted /\ q.owner = p.owner
  /\ q.sup.failures = p.sup.failures /\ q.sup.exhausted = p.sup.exhausted

LEMMA LoopIs ==
  ASSUME NEW p \in Process, NEW l \in Loops
  PROVE  /\ [p.loops[l] EXCEPT !.at = "closing"].at = "closing"
         /\ [p.loops[l] EXCEPT !.at = "closing"].aborted = p.loops[l].aborted
         /\ [p.loops[l] EXCEPT !.at = "closing"] \in [at : Stages, aborted : BOOLEAN]
<1>1. p.loops[l] \in [at : Stages, aborted : BOOLEAN]
  BY DEF Process
<1> QED
  BY <1>1 DEF Stages

LEMMA LeaveIs ==
  ASSUME NEW p \in Process, NEW ls \in SUBSET Loops
  PROVE  LET q == Leave(p, ls) IN
         /\ q \in Process /\ Aside(p, q)
         /\ q.health = p.health /\ q.sup = p.sup /\ q.keepalive = p.keepalive
         /\ q.loops = [l \in Loops |-> IF l \in ls THEN NoLoop ELSE p.loops[l]]
  BY DEF Leave, Process, NoLoop, Stages, Aside

LEMMA DegradeIs ==
  ASSUME NEW p \in Process
  PROVE  LET q == Degrade(p) IN
         /\ q \in Process /\ Aside(p, q)
         /\ q.loops = p.loops /\ q.sup = p.sup /\ q.keepalive = p.keepalive
         /\ q.health.state = "DEGRADED" /\ q.health.known = p.health.known
         /\ q.health.misses = p.health.misses
         /\ q.health.activating = (p.health.activating \/ p.health.known = None)
  BY DEF Degrade, Process, Aside

LEMMA ScheduleIs ==
  ASSUME NEW p \in Process
  PROVE  LET q == Schedule(p) IN
         /\ q \in Process /\ Aside(p, q)
         /\ q.health = p.health /\ q.loops = p.loops /\ q.keepalive = p.keepalive
         /\ q.sup.timer
  BY DEF Schedule, Process, Aside

LEMMA StopKeepaliveIs ==
  ASSUME NEW p \in Process
  PROVE  LET q == StopKeepalive(p) IN
         /\ q \in Process /\ Aside(p, q)
         /\ q.health = p.health /\ q.loops = p.loops /\ q.sup = p.sup
  BY DEF StopKeepalive, Process, Aside

LEMMA OnTransportClosedIs ==
  ASSUME NEW p \in Process, NEW ls \in SUBSET Loops
  PROVE  LET q == OnTransportClosed(p, ls) IN
         /\ q \in Process /\ Aside(p, q) /\ Down(p, q)
         /\ \A l \in Loops \ ls : q.loops[l] = p.loops[l]
         /\ \A l \in ls : \/ q.loops[l] = NoLoop
                          \/ /\ q.loops[l].at = "closing"
                             /\ q.loops[l].aborted = p.loops[l].aborted
         /\ p.sup.timer => q.sup.timer
         /\ p.aborted \/ q.sup.timer \/ \A l \in ls : q.loops[l].at = "closing"
<1> DEFINE x == StopKeepalive(p)
<1>1. x \in Process /\ Aside(p, x) /\ x.health = p.health /\ x.loops = p.loops /\ x.sup = p.sup
  BY StopKeepaliveIs
<1> DEFINE y == Leave(x, ls)
<1> HIDE DEF x
<1>2. /\ y \in Process /\ Aside(x, y) /\ y.health = x.health /\ y.sup = x.sup
      /\ y.loops = [l \in Loops |-> IF l \in ls THEN NoLoop ELSE x.loops[l]]
  BY <1>1, LeaveIs
<1> DEFINE d == Degrade(y)
<1> HIDE DEF y
<1>3. /\ d \in Process /\ Aside(y, d) /\ d.loops = y.loops /\ d.sup = y.sup
      /\ d.health.state = "DEGRADED" /\ d.health.known = y.health.known
      /\ d.health.activating = (y.health.activating \/ y.health.known = None)
  BY <1>2, DegradeIs
<1> DEFINE closing == [l \in Loops |-> IF l \in ls THEN [p.loops[l] EXCEPT !.at = "closing"]
                                       ELSE d.loops[l]]
           c == [d EXCEPT !.loops = closing]
<1>6. OnTransportClosed(p, ls) = CASE p.aborted -> y
                                   [] ~p.aborted /\ Waits(d) -> c
                                   [] OTHER -> Schedule(d)
  BY DEF OnTransportClosed, x, y, d
<1> HIDE DEF d
<1>4. /\ c \in Process /\ Aside(d, c) /\ c.sup = d.sup /\ c.health = d.health
      /\ c.loops = closing
  <2>1. closing \in [Loops -> [at : Stages, aborted : BOOLEAN]]
    <3>1. \A l \in ls : [p.loops[l] EXCEPT !.at = "closing"] \in [at : Stages, aborted : BOOLEAN]
      BY LoopIs
    <3> QED
      BY <1>3, <3>1 DEF Process
  <2> HIDE DEF closing
  <2> QED
    BY <1>3, <2>1 DEF Process, Aside
<1>5. \A l \in ls : closing[l].at = "closing" /\ closing[l].aborted = p.loops[l].aborted
  BY LoopIs
<1>7. \A l \in Loops \ ls : closing[l] = p.loops[l]
  BY <1>1, <1>2, <1>3
<1> HIDE DEF c, closing
<1> DEFINE s == Schedule(d)
<1>8. /\ s \in Process /\ Aside(d, s) /\ s.health = d.health /\ s.loops = d.loops
      /\ s.sup.timer
  BY <1>3, ScheduleIs
<1> HIDE DEF s
<1>9. CASE p.aborted
  <2>1. OnTransportClosed(p, ls) = y
    BY <1>6, <1>9
  <2>2. Aside(p, y) /\ Down(p, y) /\ y.sup = p.sup
    BY <1>1, <1>2 DEF Aside, Down
  <2>3. \A l \in Loops : y.loops[l] = IF l \in ls THEN NoLoop ELSE p.loops[l]
    BY <1>1, <1>2
  <2> QED
    BY <1>2, <1>9, <2>1, <2>2, <2>3
<1>10. CASE ~p.aborted /\ Waits(d)
  <2>1. OnTransportClosed(p, ls) = c
    BY <1>6, <1>10
  <2>2. Aside(p, c) /\ Down(p, c) /\ c.sup = p.sup
    BY <1>1, <1>2, <1>3, <1>4 DEF Aside, Down
  <2>3. \A l \in ls : c.loops[l].at = "closing" /\ c.loops[l].aborted = p.loops[l].aborted
    BY <1>4, <1>5
  <2>5. \A l \in Loops \ ls : c.loops[l] = p.loops[l]
    BY <1>4, <1>7
  <2> QED
    BY <1>4, <2>1, <2>2, <2>3, <2>5
<1>11. CASE ~p.aborted /\ ~Waits(d)
  <2>1. OnTransportClosed(p, ls) = s
    BY <1>6, <1>11 DEF s
  <2> QED
    BY <1>1, <1>2, <1>3, <1>8, <1>11, <2>1 DEF Aside, Down
<1> QED
  BY <1>9, <1>10, <1>11

-----------------------------------------------------------------------------
(* A call keeps the market manned.                                         *)

\* What a call leaves fit, with the incident degraded at most, and manned if it
\* was, while the controller lives.
Keeps(p, q) ==
  /\ Fit(q) /\ Calm(p, q)
  /\ ~p.aborted /\ Manned(p) => Manned(q)

LEMMA KeepsTrans ==
  ASSUME NEW p, NEW q, NEW r, Keeps(p, q), Keeps(q, r)
  PROVE  Keeps(p, r)
  BY DEF Keeps, Calm, Down

LEMMA KeepsSelf ==
  ASSUME NEW p, Fit(p)
  PROVE  Keeps(p, p)
  BY DEF Keeps, Calm, Down

\* Nothing but who is to be told and who pings has changed.
LEMMA SameLoopsKeep ==
  ASSUME NEW p, Fit(p), NEW q \in Process, Calm(p, q),
         q.loops = p.loops, q.sock.closed = p.sock.closed, q.sock.marker = p.sock.marker,
         p.sup.timer => q.sup.timer
  PROVE  Keeps(p, q)
  BY DEF Keeps, Fit, Calm, Manned, Live

\* A loop that is over leaves the market manned unless it was the current one.
LEMMA LeaveKeeps ==
  ASSUME NEW p, Fit(p), NEW ls \in SUBSET Loops, \A l \in ls : p.loops[l].aborted
  PROVE  Keeps(p, Leave(p, ls))
<1> DEFINE q == Leave(p, ls)
<1>1. /\ q \in Process /\ Aside(p, q)
      /\ q.health = p.health /\ q.sup = p.sup
      /\ q.loops = [l \in Loops |-> IF l \in ls THEN NoLoop ELSE p.loops[l]]
  BY LeaveIs DEF Fit
<1> HIDE DEF q
<1>2. \A l \in Loops : q.loops[l] = IF l \in ls THEN NoLoop ELSE p.loops[l]
  BY <1>1
<1>3. Live(q) = Live(p)
  BY <1>2 DEF Live, NoLoop
<1>4. \A l \in Live(p) : q.loops[l] = p.loops[l]
  BY <1>2 DEF Live
<1>5. Fit(q) /\ Calm(p, q)
  BY <1>1, <1>2 DEF Fit, Calm, Down, Aside, NoLoop
<1>6. Manned(p) => Manned(q)
  BY <1>1, <1>3, <1>4 DEF Manned, Aside
<1> QED
  BY <1>5, <1>6 DEF Keeps, q

\* The end of the stream, when nobody but ls was waiting or all of ls was
\* handling something.
LEMMA TransportClosedKeeps ==
  ASSUME NEW p \in Process, NEW q \in Process, NEW l \in Loops,
         Aside(p, q), Down(p, q),
         \A k \in Loops \ {l} : q.loops[k] = p.loops[k],
         \/ q.loops[l] = NoLoop
         \/ q.loops[l].at = "closing" /\ q.loops[l].aborted = p.loops[l].aborted,
         p.sup.timer => q.sup.timer,
         p.aborted \/ q.sup.timer \/ q.loops[l].at = "closing",
         ~p.loops[l].aborted, p.loops[l].at # "none",
         \A k \in Loops \ {l} : p.loops[k].at = "waiting" => ~p.loops[k].aborted /\ ~p.sock.closed
  PROVE  /\ Fit(q) /\ Calm(p, q)
         /\ ~p.aborted /\ p.rec.at = "idle" /\ Live(p) \subseteq {l} => Manned(q)
<1>1. Fit(q)
  BY DEF Fit, Aside, NoLoop
<1>2. Calm(p, q)
  BY DEF Calm, Aside
<1>3. ASSUME ~p.aborted, p.rec.at = "idle", Live(p) \subseteq {l}
      PROVE  Manned(q)
  <2>1. Live(q) \subseteq {l}
    BY <1>3 DEF Live, NoLoop
  <2>2. q.loops[l].at \notin {"dispatching", "bursting"}
    BY DEF NoLoop
  <2>3. q.loops[l].at = "closing" => l \in Live(q)
    BY DEF Live, NoLoop
  <2>4. q.sup.timer \/ Live(q) # {}
    BY <1>3, <2>3
  <2>5. q.rec.at = "idle"
    BY <1>3 DEF Aside
  <2> QED
    BY <2>1, <2>2, <2>4, <2>5 DEF Manned, OnSocket
<1> QED
  BY <1>1, <1>2, <1>3

LEMMA NextEventKeeps ==
  ASSUME NEW p \in Process, NEW l \in Loops, p.loops[l].at # "none",
         \A k \in Loops \ {l} : p.loops[k].at = "waiting" => ~p.loops[k].aborted /\ ~p.sock.closed
  PROVE  LET q == NextEvent(p, l) IN
         /\ Fit(q) /\ Calm(p, q)
         /\ ~p.aborted /\ Manned(p) /\ (~p.loops[l].aborted /\ p.sock.closed => p.sock.marker) => Manned(q)
<1> DEFINE q == NextEvent(p, l)
           n == Leave(p, {l})
           x == [p EXCEPT !.sock.marker = FALSE]
           c == OnTransportClosed(x, {l})
           w == [p EXCEPT !.loops[l].at = "waiting"]
<1>1. q = CASE p.loops[l].aborted -> n
            [] ~p.loops[l].aborted /\ p.sock.marker -> c
            [] ~p.loops[l].aborted /\ ~p.sock.marker /\ p.sock.closed -> n
            [] OTHER -> w
  BY DEF NextEvent
<1>2. /\ n \in Process /\ Aside(p, n) /\ n.health = p.health /\ n.sup = p.sup
      /\ n.loops = [k \in Loops |-> IF k \in {l} THEN NoLoop ELSE p.loops[k]]
  BY LeaveIs
<1> HIDE DEF n, q
<1>3. Fit(n) /\ Calm(p, n)
  BY <1>2 DEF Fit, Calm, Down, Aside, NoLoop
<1>4. CASE p.loops[l].aborted
  <2>1. q = n
    BY <1>1, <1>4
  <2>2. Live(n) = Live(p) /\ \A k \in Live(p) : n.loops[k] = p.loops[k]
    BY <1>2, <1>4 DEF Live, NoLoop
  <2>3. Manned(p) => Manned(n)
    BY <1>2, <2>2 DEF Manned, Aside
  <2> QED
    BY <1>3, <2>1, <2>3 DEF q
<1>5. CASE ~p.loops[l].aborted /\ p.sock.marker
  <2>1. q = c
    BY <1>1, <1>5
  <2>2. /\ x \in Process /\ x.health = p.health /\ x.loops = p.loops /\ x.sup = p.sup
        /\ x.rec = p.rec /\ x.aborted = p.aborted /\ x.owner = p.owner
        /\ x.sock.closed = p.sock.closed
    BY DEF Process
  <2> HIDE DEF x
  <2>3. /\ c \in Process /\ Aside(x, c) /\ Down(x, c)
        /\ \A k \in Loops \ {l} : c.loops[k] = x.loops[k]
        /\ \A k \in {l} : \/ c.loops[k] = NoLoop
                          \/ /\ c.loops[k].at = "closing"
                             /\ c.loops[k].aborted = x.loops[k].aborted
        /\ x.sup.timer => c.sup.timer
        /\ x.aborted \/ c.sup.timer \/ \A k \in {l} : c.loops[k].at = "closing"
    BY <2>2, OnTransportClosedIs
  <2> HIDE DEF c
  <2>4. /\ Fit(c) /\ Calm(x, c)
        /\ ~x.aborted /\ x.rec.at = "idle" /\ Live(x) \subseteq {l} => Manned(c)
    BY <1>5, <2>2, <2>3, TransportClosedKeeps
  <2>5. Live(x) = Live(p) /\ l \in Live(p)
    BY <1>5, <2>2 DEF Live
  <2>6. Manned(p) => p.rec.at = "idle" /\ Live(p) \subseteq {l}
    BY <2>5 DEF Manned
  <2>7. Calm(p, c)
    BY <2>2, <2>4 DEF Calm, Down
  <2> QED
    BY <2>1, <2>2, <2>4, <2>5, <2>6, <2>7 DEF q
<1>6. CASE ~p.loops[l].aborted /\ ~p.sock.marker /\ p.sock.closed
  <2>1. q = n
    BY <1>1, <1>6
  <2> QED
    BY <1>3, <1>6, <2>1 DEF q
<1>7. CASE ~p.loops[l].aborted /\ ~p.sock.marker /\ ~p.sock.closed
  <2>1. q = w
    BY <1>1, <1>7
  <2>2. /\ w \in Process /\ Aside(p, w) /\ w.health = p.health /\ w.sup = p.sup
        /\ w.loops[l].at = "waiting" /\ w.loops[l].aborted = p.loops[l].aborted
        /\ \A k \in Loops \ {l} : w.loops[k] = p.loops[k]
    BY DEF Process, Stages, Aside
  <2> HIDE DEF w
  <2>3. Fit(w) /\ Calm(p, w)
    BY <1>7, <2>2 DEF Fit, Calm, Down, Aside
  <2>4. Live(w) = Live(p)
    BY <2>2 DEF Live
  <2>5. Manned(p) => Manned(w)
    BY <1>7, <2>2, <2>4 DEF Manned, Aside
  <2> QED
    BY <2>1, <2>3, <2>5 DEF q
<1> QED
  BY <1>4, <1>5, <1>6, <1>7

-----------------------------------------------------------------------------
(* The transport and the ping.                                             *)

LEMMA FinishKeeps ==
  ASSUME NEW p, Fit(p)
  PROVE  LET q == Finish(p) IN
         /\ Keeps(p, q)
         /\ \A l \in Loops : p.loops[l].at # "waiting" => q.loops[l] = p.loops[l]
<1>0. p \in Process
  BY DEF Fit
<1> DEFINE q == [p EXCEPT !.sock.closed = TRUE]
           w == Waiting(q)
           l == Min(w)
           e == [q EXCEPT !.sock.marker = TRUE]
           y == Leave(q, w \ {l})
           c == OnTransportClosed(y, {l})
<1>1. Finish(p) = CASE p.sock.closed -> p
                    [] ~p.sock.closed /\ w = {} -> e
                    [] OTHER -> c
  BY DEF Finish
<1>2. /\ q \in Process /\ q.health = p.health /\ q.loops = p.loops /\ q.sup = p.sup
      /\ q.rec = p.rec /\ q.aborted = p.aborted /\ q.owner = p.owner
      /\ q.sock.closed /\ q.sock.marker = p.sock.marker
  BY <1>0 DEF Process
<1>3. w = {k \in Loops : p.loops[k].at = "waiting"}
  BY <1>2 DEF Waiting
<1>4. CASE p.sock.closed
  BY <1>1, <1>4, KeepsSelf
<1>5. CASE ~p.sock.closed /\ w = {}
  <2>1. Finish(p) = e
    BY <1>1, <1>5
  <2>2. /\ e \in Process /\ e.health = p.health /\ e.loops = p.loops /\ e.sup = p.sup
        /\ e.rec = p.rec /\ e.aborted = p.aborted /\ e.owner = p.owner
        /\ e.sock.closed /\ e.sock.marker
    BY <1>0 DEF Process
  <2> HIDE DEF e
  <2>3. Fit(e)
    BY <1>3, <1>5, <2>2 DEF Fit
  <2>4. Calm(p, e)
    BY <2>2 DEF Calm, Down
  <2>5. Manned(p) => Manned(e)
    BY <2>2 DEF Manned, Live
  <2> QED
    BY <2>1, <2>2, <2>3, <2>4, <2>5 DEF Keeps
<1>6. CASE ~p.sock.closed /\ w # {}
  <2>1. Finish(p) = c
    BY <1>1, <1>6
  <2>2. l \in w /\ w \subseteq Loops
    BY <1>3, <1>6, MinIs, Bounds
  <2> HIDE DEF q, l, w
  <2>3. /\ y \in Process /\ Aside(q, y) /\ y.health = q.health /\ y.sup = q.sup
        /\ y.loops = [k \in Loops |-> IF k \in w \ {l} THEN NoLoop ELSE q.loops[k]]
    BY <1>2, <2>2, LeaveIs
  <2> HIDE DEF y
  <2>4. /\ c \in Process /\ Aside(y, c) /\ Down(y, c)
        /\ \A k \in Loops \ {l} : c.loops[k] = y.loops[k]
        /\ \A k \in {l} : \/ c.loops[k] = NoLoop
                          \/ /\ c.loops[k].at = "closing"
                             /\ c.loops[k].aborted = y.loops[k].aborted
        /\ y.sup.timer => c.sup.timer
        /\ y.aborted \/ c.sup.timer \/ \A k \in {l} : c.loops[k].at = "closing"
    BY <2>2, <2>3, OnTransportClosedIs
  <2> HIDE DEF c
  <2>5. /\ y.loops[l] = p.loops[l] /\ ~p.loops[l].aborted /\ p.loops[l].at = "waiting"
        /\ \A k \in Loops \ {l} : y.loops[k].at # "waiting"
    BY <1>2, <1>3, <2>2, <2>3 DEF Fit, NoLoop
  <2>6. /\ Fit(c) /\ Calm(y, c)
        /\ ~y.aborted /\ y.rec.at = "idle" /\ Live(y) \subseteq {l} => Manned(c)
    BY <2>2, <2>3, <2>4, <2>5, TransportClosedKeeps
  <2>7. Calm(p, c)
    BY <1>2, <2>3, <2>6 DEF Calm, Down, Aside
  <2>8. Live(y) \subseteq Live(p) /\ l \in Live(p)
    BY <1>2, <2>2, <2>3, <2>5 DEF Live, NoLoop
  <2>9. Manned(p) => y.rec.at = "idle" /\ Live(y) \subseteq {l}
    BY <1>2, <2>3, <2>8 DEF Manned, Aside
  <2>10. ASSUME NEW k \in Loops, p.loops[k].at # "waiting"
         PROVE  c.loops[k] = p.loops[k]
    <3>1. k # l /\ k \notin w
      BY <1>3, <2>2, <2>10
    <3> QED
      BY <1>2, <2>3, <2>4, <3>1
  <2> QED
    BY <1>2, <2>1, <2>3, <2>6, <2>7, <2>9, <2>10 DEF Keeps, Aside
<1> QED
  BY <1>4, <1>5, <1>6

\* The transport and the ping leave loops that are not waiting alone.
Undisturbed(p, q) == \A l \in Loops : p.loops[l].at # "waiting" => q.loops[l] = p.loops[l]

LEMMA PongMissedIs ==
  ASSUME NEW p, Fit(p)
  PROVE  LET q == PongMissed(p) IN
         /\ Keeps(p, q) /\ q.loops = p.loops
<1>0. p \in Process
  BY DEF Fit
<1> DEFINE n == Min({MissedPongs, p.health.misses + 1})
           q == [p EXCEPT !.ping = "none", !.health.misses = n]
<1>1. n \in 0..MissedPongs
  BY <1>0, MinOfTwo, Bounds DEF Process
<1>2. PongMissed(p) = IF q.health.misses >= MissedPongs THEN Degrade(q) ELSE q
  BY <1>0 DEF PongMissed, Process
<1> HIDE DEF n
<1>3. /\ q \in Process /\ q.loops = p.loops /\ q.sock = p.sock /\ q.sup = p.sup
      /\ q.rec = p.rec /\ q.aborted = p.aborted /\ q.owner = p.owner
      /\ q.health.state = p.health.state /\ q.health.known = p.health.known
      /\ q.health.activating = p.health.activating
  BY <1>0, <1>1 DEF Process
<1> HIDE DEF q
<1>4. Keeps(p, q)
  <2>1. Calm(p, q)
    BY <1>3 DEF Calm, Down
  <2> QED
    BY <1>3, <2>1, SameLoopsKeep
<1>5. Keeps(p, Degrade(q)) /\ Degrade(q).loops = p.loops
  <2> DEFINE d == Degrade(q)
  <2>1. /\ d \in Process /\ Aside(q, d)
        /\ d.loops = q.loops /\ d.sup = q.sup
        /\ d.health.state = "DEGRADED" /\ d.health.known = q.health.known
        /\ d.health.activating = (q.health.activating \/ q.health.known = None)
    BY <1>3, DegradeIs
  <2> HIDE DEF d
  <2>2. Calm(p, d)
    BY <1>3, <2>1 DEF Calm, Down, Aside
  <2>3. Keeps(p, d)
    BY <1>3, <2>1, <2>2, SameLoopsKeep DEF Aside
  <2> QED
    BY <1>3, <2>1, <2>3 DEF d
<1> QED
  BY <1>2, <1>3, <1>4, <1>5

LEMMA DetachedKeeps ==
  ASSUME NEW p, Fit(p)
  PROVE  /\ Keeps(p, Detach(p)) /\ Detach(p).loops = p.loops
         /\ Detach(p).ping = p.ping /\ Detach(p).sock.closed = p.sock.closed
         /\ Keeps(p, StopKeepalive(p)) /\ StopKeepalive(p).loops = p.loops
<1>0. p \in Process
  BY DEF Fit
<1> DEFINE q == Detach(p)
           s == StopKeepalive(p)
<1>1. /\ q \in Process /\ q.health = p.health /\ q.loops = p.loops /\ q.sup = p.sup
      /\ q.rec = p.rec /\ q.aborted = p.aborted /\ q.owner = p.owner /\ q.ping = p.ping
      /\ q.sock.closed = p.sock.closed /\ q.sock.marker = p.sock.marker
  BY <1>0 DEF Detach, Process
<1>2. s \in Process /\ Aside(p, s) /\ s.health = p.health /\ s.loops = p.loops /\ s.sup = p.sup
  BY <1>0, StopKeepaliveIs
<1> HIDE DEF q, s
<1>3. Calm(p, q) /\ Calm(p, s)
  BY <1>1, <1>2 DEF Calm, Down, Aside
<1>4. Keeps(p, q)
  BY <1>1, <1>3, SameLoopsKeep
<1>5. Keeps(p, s)
  BY <1>2, <1>3, SameLoopsKeep DEF Aside
<1> QED
  BY <1>1, <1>2, <1>4, <1>5 DEF q, s

LEMMA AfterMissKeeps ==
  ASSUME NEW p, Fit(p)
  PROVE  Keeps(p, AfterMiss(p)) /\ Undisturbed(p, AfterMiss(p))
<1> DEFINE s == StopKeepalive(p)
           d == Detach(s)
<1>1. AfterMiss(p) = IF p.health.state = "HEALTHY" THEN p ELSE Finish(d)
  BY DEF AfterMiss, Detach
<1>2. Keeps(p, s) /\ s.loops = p.loops
  BY DetachedKeeps
<1> HIDE DEF s
<1>3. Fit(s)
  BY <1>2 DEF Keeps
<1>4. Keeps(s, d) /\ d.loops = s.loops
  BY <1>3, DetachedKeeps
<1> HIDE DEF d
<1>5. Keeps(d, Finish(d)) /\ Undisturbed(d, Finish(d))
  BY <1>4, FinishKeeps DEF Keeps, Undisturbed
<1>6. Keeps(p, d)
  BY <1>2, <1>4, KeepsTrans
<1>7. Keeps(p, Finish(d))
  BY <1>5, <1>6, KeepsTrans
<1>8. Undisturbed(p, Finish(d))
  BY <1>2, <1>4, <1>5 DEF Undisturbed
<1> QED
  BY <1>1, <1>7, <1>8, KeepsSelf DEF Undisturbed

LEMMA PingFailsKeeps ==
  ASSUME NEW p, Fit(p)
  PROVE  Keeps(p, PingFails(p)) /\ Undisturbed(p, PingFails(p))
<1> DEFINE q == PongMissed(p)
           f == [q EXCEPT !.ping = "failing"]
<1>1. PingFails(p) = f \/ PingFails(p) = AfterMiss(q)
  BY DEF PingFails
<1>2. Keeps(p, q) /\ q.loops = p.loops
  BY PongMissedIs
<1> HIDE DEF q
<1>3. Fit(q) /\ q \in Process
  BY <1>2 DEF Keeps, Fit
<1>4. /\ f \in Process /\ f.health = q.health /\ f.loops = q.loops /\ f.sup = q.sup
      /\ f.rec = q.rec /\ f.aborted = q.aborted /\ f.owner = q.owner /\ f.sock = q.sock
  BY <1>3 DEF Process
<1> HIDE DEF f
<1>5. Keeps(q, f)
  <2>1. Calm(q, f)
    BY <1>4 DEF Calm, Down
  <2> QED
    BY <1>3, <1>4, <2>1, SameLoopsKeep
<1>6. Keeps(q, AfterMiss(q)) /\ Undisturbed(q, AfterMiss(q))
  BY <1>3, AfterMissKeeps
<1>7. Keeps(p, f) /\ Keeps(p, AfterMiss(q))
  BY <1>2, <1>5, <1>6, KeepsTrans
<1>8. Undisturbed(p, f) /\ Undisturbed(p, AfterMiss(q))
  BY <1>2, <1>4, <1>6 DEF Undisturbed
<1> QED
  BY <1>1, <1>7, <1>8

LEMMA CloseStreamKeeps ==
  ASSUME NEW p, Fit(p)
  PROVE  Keeps(p, CloseStream(p)) /\ Undisturbed(p, CloseStream(p))
<1> DEFINE d == Detach(p)
           q == Finish(d)
<1>1. CloseStream(p) = q \/ CloseStream(p) = PingFails(q)
  BY DEF CloseStream, Ended
<1>2. Keeps(p, d) /\ d.loops = p.loops
  BY DetachedKeeps
<1> HIDE DEF d
<1>3. Keeps(d, q) /\ Undisturbed(d, q)
  BY <1>2, FinishKeeps DEF Keeps, Undisturbed
<1> HIDE DEF q
<1>4. Keeps(q, PingFails(q)) /\ Undisturbed(q, PingFails(q))
  BY <1>3, PingFailsKeeps DEF Keeps
<1>5. Keeps(p, q)
  BY <1>2, <1>3, KeepsTrans
<1>6. Keeps(p, PingFails(q))
  BY <1>4, <1>5, KeepsTrans
<1>7. Undisturbed(p, q)
  BY <1>2, <1>3 DEF Undisturbed
<1>8. Undisturbed(p, PingFails(q))
  BY <1>4, <1>7 DEF Undisturbed
<1> QED
  BY <1>1, <1>5, <1>6, <1>7, <1>8

LEMMA CloseTransportKeeps ==
  ASSUME NEW p, Fit(p)
  PROVE  Keeps(p, CloseTransport(p)) /\ Undisturbed(p, CloseTransport(p))
<1> DEFINE s == StopKeepalive(p)
<1>1. Keeps(p, s) /\ s.loops = p.loops
  BY DetachedKeeps
<1> HIDE DEF s
<1>2. Keeps(s, CloseStream(s)) /\ Undisturbed(s, CloseStream(s))
  BY <1>1, CloseStreamKeeps DEF Keeps
<1>3. Keeps(p, CloseStream(s))
  BY <1>1, <1>2, KeepsTrans
<1>4. Undisturbed(p, CloseStream(s))
  BY <1>1, <1>2 DEF Undisturbed
<1> QED
  BY <1>3, <1>4 DEF CloseTransport, s

-----------------------------------------------------------------------------
(* The steps that leave the recovery and the rows alone.                   *)

\* A process that is not serving yet has nothing under way.
LEMMA BootIsFresh ==
  ASSUME MarketInv, m.owner = "booting"
  PROVE  /\ m = Fresh /\ m.rec.at = "idle" /\ ~m.sup.timer /\ ~m.sup.exhausted
         /\ ~m.health.activating /\ m.health.state = "HEALTHY" /\ m.health.known = None
         /\ ~m.sock.up /\ ~m.sock.closed /\ m.ping = "none" /\ ~m.keepalive /\ ~m.aborted
         /\ \A l \in Loops : m.loops[l] = NoLoop
<1>1. m = Fresh
  BY DEF MarketInv, Sound
<1> QED
  BY <1>1 DEF Fresh, NoRecovery, NoFailures

LEMMA InvFit ==
  ASSUME MarketInv
  PROVE  m \in Process /\ Fit(m)
  BY DEF MarketInv, Sound, Fit

LEMMA CalmStep ==
  ASSUME MarketInv, m.owner # "booting", Keeps(m, m'),
         UNCHANGED <<rows, leftover, unheld, astray>>
  PROVE  MarketInv'
<1>1. Calm(m, m') /\ Down(m, m')
  BY DEF Keeps, Calm
<1>2. Sound(m)'
  BY <1>1 DEF MarketInv, Sound, Keeps, Fit, Calm
<1>3. MannedSound'
  <2> SUFFICES ASSUME m'.owner = "serving", ~astray'
               PROVE  Manned(m')
    BY DEF MannedSound
  <2>1. m.owner = "serving" /\ ~astray
    BY <1>1 DEF Calm
  <2>2. ~m.aborted
    BY <2>1 DEF MarketInv, Sound
  <2> QED
    BY <2>1, <2>2 DEF MarketInv, MannedSound, Keeps
<1>4. RowSound'
  BY <1>1 DEF MarketInv, RowSound, Down
<1>5. LeftoverSound'
  BY <1>1 DEF MarketInv, LeftoverSound, Down, Calm
<1> QED
  BY <1>2, <1>3, <1>4, <1>5 DEF MarketInv

LEMMA RejectionsKeep ==
  ASSUME NEW p, Fit(p), NEW r \in Nat
  PROVE  LET q == [p EXCEPT !.rejections = r] IN
         Keeps(p, q) /\ q.loops = p.loops
<1>0. p \in Process
  BY DEF Fit
<1> DEFINE q == [p EXCEPT !.rejections = r]
<1>1. /\ q \in Process /\ q.health = p.health /\ q.loops = p.loops /\ q.sup = p.sup
      /\ q.rec = p.rec /\ q.aborted = p.aborted /\ q.owner = p.owner /\ q.sock = p.sock
  BY <1>0 DEF Process
<1> HIDE DEF q
<1>2. Calm(p, q)
  BY <1>1 DEF Calm, Down
<1> QED
  BY <1>1, <1>2, SameLoopsKeep DEF q

LEMMA DegradeKeeps ==
  ASSUME NEW p, Fit(p)
  PROVE  Keeps(p, Degrade(p)) /\ Degrade(p).loops = p.loops
<1> DEFINE d == Degrade(p)
<1>1. /\ d \in Process /\ Aside(p, d) /\ d.loops = p.loops /\ d.sup = p.sup
      /\ d.health.state = "DEGRADED" /\ d.health.known = p.health.known
      /\ d.health.activating = (p.health.activating \/ p.health.known = None)
  BY DegradeIs DEF Fit
<1> HIDE DEF d
<1>2. Calm(p, d)
  BY <1>1 DEF Calm, Down, Aside
<1>3. Keeps(p, d)
  BY <1>1, <1>2, SameLoopsKeep DEF Aside
<1> QED
  BY <1>1, <1>3 DEF d

\* A loop that was handling something asks for its next event.
LEMMA NextEventAfter ==
  ASSUME NEW p, Fit(p), NEW l \in Loops, p.loops[l].at \in {"dispatching", "bursting"}
  PROVE  Keeps(p, NextEvent(p, l))
<1> DEFINE q == NextEvent(p, l)
<1>1. /\ p \in Process /\ p.loops[l].at # "none"
      /\ \A k \in Loops \ {l} : p.loops[k].at = "waiting" => ~p.loops[k].aborted /\ ~p.sock.closed
  BY DEF Fit
<1>2. /\ Fit(q) /\ Calm(p, q)
      /\ ~p.aborted /\ Manned(p) /\ (~p.loops[l].aborted /\ p.sock.closed => p.sock.marker) => Manned(q)
  BY <1>1, NextEventKeeps
<1> HIDE DEF q
<1>3. Manned(p) /\ ~p.loops[l].aborted /\ p.sock.closed => p.sock.marker
  BY <1>1 DEF Manned, Live
<1> QED
  BY <1>2, <1>3 DEF Keeps, q

LEMMA DispatchKeeps ==
  ASSUME MarketInv, NEW l \in Loops, Dispatch(l)
  PROVE  MarketInv'
<1> DEFINE q == [m EXCEPT !.loops[l].at = "dispatching"]
<1>0. m \in Process /\ Fit(m) /\ m' = q /\ m.loops[l].at = "waiting"
  BY InvFit DEF Dispatch
<1>1. /\ q \in Process /\ q.health = m.health /\ q.sup = m.sup
      /\ q.rec = m.rec /\ q.aborted = m.aborted /\ q.owner = m.owner /\ q.sock = m.sock
      /\ q.loops[l].at = "dispatching" /\ q.loops[l].aborted = m.loops[l].aborted
      /\ \A k \in Loops \ {l} : q.loops[k] = m.loops[k]
  BY <1>0 DEF Process, Stages
<1> HIDE DEF q
<1>2. Fit(q) /\ Calm(m, q)
  BY <1>0, <1>1 DEF Fit, Calm, Down
<1>3. Live(q) = Live(m)
  BY <1>0, <1>1 DEF Live
<1>4. ~m.sock.closed
  BY <1>0 DEF Fit
<1>5. Manned(m) => Manned(q)
  BY <1>1, <1>3, <1>4 DEF Manned
<1>6. Keeps(m, m')
  BY <1>0, <1>2, <1>5 DEF Keeps
<1>7. m.owner # "booting"
  BY <1>0, BootIsFresh DEF NoLoop
<1> QED
  BY <1>6, <1>7, CalmStep DEF Dispatch

LEMMA DispatchedKeeps ==
  ASSUME MarketInv, NEW l \in Loops, Dispatched(l)
  PROVE  MarketInv'
<1> DEFINE q == [m EXCEPT !.rejections = 0]
<1>0. Fit(m) /\ m' = NextEvent(q, l) /\ m.loops[l].at = "dispatching"
  BY InvFit DEF Dispatched
<1>1. Keeps(m, q) /\ q.loops = m.loops
  BY <1>0, RejectionsKeep
<1> HIDE DEF q
<1>2. Keeps(q, NextEvent(q, l))
  BY <1>0, <1>1, NextEventAfter DEF Keeps
<1>3. Keeps(m, m')
  BY <1>0, <1>1, <1>2, KeepsTrans
<1>4. m.owner # "booting"
  BY <1>0, BootIsFresh DEF NoLoop
<1> QED
  BY <1>3, <1>4, CalmStep DEF Dispatched

LEMMA RejectedKeeps ==
  ASSUME MarketInv, NEW l \in Loops, Rejected(l)
  PROVE  MarketInv'
<1> DEFINE r == m.rejections + 1
           x == [m EXCEPT !.rejections = r]
           z == [m EXCEPT !.rejections = 0]
           d == Degrade(z)
           b == [d EXCEPT !.loops[l].at = "bursting"]
           y == CloseTransport(d)
<1>0. m \in Process /\ Fit(m) /\ m.loops[l].at = "dispatching"
  BY InvFit DEF Rejected
<1>1. m' = NextEvent(x, l) \/ m' = b \/ m' = NextEvent(y, l)
  BY DEF Rejected
<1>2. r \in Nat
  BY <1>0 DEF Process
<1>3. Keeps(m, x) /\ x.loops = m.loops /\ Keeps(m, z) /\ z.loops = m.loops
  BY <1>0, <1>2, RejectionsKeep
<1> HIDE DEF x, z
<1>4. Keeps(z, d) /\ d.loops = z.loops
  BY <1>3, DegradeKeeps DEF Keeps
<1> HIDE DEF d
<1>5. Keeps(d, y) /\ y.loops[l] = d.loops[l]
  BY <1>0, <1>3, <1>4, CloseTransportKeeps DEF Keeps, Undisturbed
<1> HIDE DEF y
<1>6. Keeps(m, d) /\ Keeps(m, y)
  BY <1>3, <1>4, <1>5, KeepsTrans
<1>7. Keeps(x, NextEvent(x, l)) /\ Keeps(y, NextEvent(y, l))
  BY <1>0, <1>3, <1>4, <1>5, NextEventAfter DEF Keeps
<1>8. Keeps(d, b)
  <2>1. d \in Process /\ Fit(d) /\ d.loops[l].at = "dispatching"
    BY <1>0, <1>3, <1>4 DEF Keeps, Fit
  <2>2. /\ b \in Process /\ b.health = d.health /\ b.sup = d.sup
        /\ b.rec = d.rec /\ b.aborted = d.aborted /\ b.owner = d.owner /\ b.sock = d.sock
        /\ b.loops[l].at = "bursting" /\ b.loops[l].aborted = d.loops[l].aborted
        /\ \A k \in Loops \ {l} : b.loops[k] = d.loops[k]
    BY <2>1 DEF Process, Stages
  <2> HIDE DEF b
  <2>3. Fit(b) /\ Calm(d, b)
    BY <2>1, <2>2 DEF Fit, Calm, Down
  <2>4. Live(b) = Live(d)
    BY <2>1, <2>2 DEF Live
  <2>5. Manned(d) => Manned(b)
    BY <2>1, <2>2, <2>4 DEF Manned, Live
  <2> QED
    BY <2>3, <2>5 DEF Keeps
<1>9. Keeps(m, NextEvent(x, l)) /\ Keeps(m, b) /\ Keeps(m, NextEvent(y, l))
  BY <1>3, <1>6, <1>7, <1>8, KeepsTrans
<1> HIDE DEF b
<1>10. Keeps(m, m')
  BY <1>1, <1>9
<1>11. m.owner # "booting"
  BY <1>0, BootIsFresh DEF NoLoop
<1> QED
  BY <1>10, <1>11, CalmStep DEF Rejected

LEMMA ProviderClosesKeeps ==
  ASSUME MarketInv, ProviderCloses
  PROVE  MarketInv'
<1>1. Keeps(m, m')
  BY InvFit, CloseStreamKeeps DEF ProviderCloses
<1>2. m.owner # "booting"
  BY BootIsFresh DEF ProviderCloses
<1> QED
  BY <1>1, <1>2, CalmStep DEF ProviderCloses

\* Only the ping, and the pongs missed.
LEMMA PingingKeeps ==
  ASSUME NEW p, Fit(p), NEW q \in Process,
         q.loops = p.loops, q.sock = p.sock, q.sup = p.sup, q.rec = p.rec,
         q.owner = p.owner, q.aborted = p.aborted,
         q.health.state = p.health.state, q.health.known = p.health.known,
         q.health.activating = p.health.activating
  PROVE  Keeps(p, q)
<1>1. Calm(p, q)
  BY DEF Calm, Down
<1> QED
  BY <1>1, SameLoopsKeep

LEMMA PingKeeps ==
  ASSUME MarketInv, Ping
  PROVE  MarketInv'
<1> DEFINE q == [m EXCEPT !.ping = "flying"]
<1>0. m \in Process /\ Fit(m) /\ (m' = q \/ m' = PingFails(m))
  BY InvFit DEF Ping
<1>1. /\ q \in Process /\ q.health = m.health /\ q.sup = m.sup /\ q.loops = m.loops
      /\ q.rec = m.rec /\ q.aborted = m.aborted /\ q.owner = m.owner /\ q.sock = m.sock
  BY <1>0 DEF Process
<1> HIDE DEF q
<1>2. Keeps(m, q)
  BY <1>0, <1>1, PingingKeeps
<1>3. Keeps(m, m')
  BY <1>0, <1>2, PingFailsKeeps
<1>4. m.owner # "booting"
  BY BootIsFresh DEF Ping
<1> QED
  BY <1>3, <1>4, CalmStep DEF Ping

LEMMA PongKeeps ==
  ASSUME MarketInv, Pong
  PROVE  MarketInv'
<1> DEFINE q == [m EXCEPT !.ping = "none", !.health.misses = 0]
<1>0. m \in Process /\ Fit(m) /\ m' = q
  BY InvFit DEF Pong
<1>1. /\ q \in Process /\ q.sup = m.sup /\ q.loops = m.loops
      /\ q.rec = m.rec /\ q.aborted = m.aborted /\ q.owner = m.owner /\ q.sock = m.sock
      /\ q.health.state = m.health.state /\ q.health.known = m.health.known
      /\ q.health.activating = m.health.activating
  <2>1. 0 \in 0..MissedPongs
    BY Bounds
  <2> QED
    BY <1>0, <2>1 DEF Process
<1> HIDE DEF q
<1>2. Keeps(m, m')
  BY <1>0, <1>1, PingingKeeps
<1>3. m.owner # "booting"
  BY BootIsFresh DEF Pong
<1> QED
  BY <1>2, <1>3, CalmStep DEF Pong

LEMMA PongTimeoutKeeps ==
  ASSUME MarketInv, PongTimeout
  PROVE  MarketInv'
<1>1. Keeps(m, m')
  BY InvFit, PingFailsKeeps DEF PongTimeout
<1>2. m.owner # "booting"
  BY BootIsFresh DEF PongTimeout
<1> QED
  BY <1>1, <1>2, CalmStep DEF PongTimeout

-----------------------------------------------------------------------------
(* The recovery.                                                           *)

\* From one await of a recovery to the next.
LEMMA PhaseStep ==
  ASSUME MarketInv, m.rec.at # "idle", m' \in Process,
         m'.health = m.health, m'.sup = m.sup, m'.loops = m.loops,
         m'.aborted = m.aborted, m'.owner = m.owner,
         m'.rec.at \notin {"idle", "degrading"}, m'.rec.aborted = m.rec.aborted,
         m'.rec.via = m.rec.via,
         m'.rec.at = "resolving" => m'.rec.seen = rows,
         \/ ~m'.sock.closed
         \/ m.rec.at \in OnSocket /\ m'.sock.closed = m.sock.closed /\ m'.sock.marker = m.sock.marker,
         UNCHANGED <<rows, leftover, unheld, astray>>
  PROVE  MarketInv'
<1>1. m.owner # "booting"
  BY BootIsFresh
<1>2. Sound(m)'
  BY <1>1 DEF MarketInv, Sound
<1>3. MannedSound'
  BY DEF MarketInv, MannedSound, Manned, Live
<1>4. RowSound' /\ LeftoverSound'
  BY DEF MarketInv, RowSound, LeftoverSound
<1> QED
  BY <1>2, <1>3, <1>4 DEF MarketInv

LEMMA HandshakeKeeps ==
  ASSUME MarketInv, Handshake
  PROVE  MarketInv'
<1> DEFINE q == [m EXCEPT !.rec.at = "shaking",
                    !.sock = [up |-> FALSE, closed |-> FALSE, marker |-> FALSE],
                    !.ping = IF @ = "flying" THEN "stale" ELSE @]
<1>0. m \in Process /\ m' = q /\ m.rec.at = "connecting"
  BY InvFit DEF Handshake, At
<1>1. /\ q \in Process /\ q.health = m.health /\ q.sup = m.sup /\ q.loops = m.loops
      /\ q.aborted = m.aborted /\ q.owner = m.owner
      /\ q.rec.at = "shaking" /\ q.rec.aborted = m.rec.aborted /\ q.rec.via = m.rec.via
      /\ ~q.sock.closed
  BY <1>0 DEF Process, Phases
<1> HIDE DEF q
<1> QED
  BY <1>0, <1>1, PhaseStep DEF Handshake

LEMMA OpenedKeeps ==
  ASSUME MarketInv, Opened
  PROVE  MarketInv'
<1> DEFINE q == [m EXCEPT !.rec.at = "declaring", !.sock.up = TRUE]
<1>0. m \in Process /\ m' = q /\ m.rec.at = "shaking"
  BY InvFit DEF Opened, At
<1>1. /\ q \in Process /\ q.health = m.health /\ q.sup = m.sup /\ q.loops = m.loops
      /\ q.aborted = m.aborted /\ q.owner = m.owner
      /\ q.rec.at = "declaring" /\ q.rec.aborted = m.rec.aborted /\ q.rec.via = m.rec.via
      /\ q.sock.closed = m.sock.closed /\ q.sock.marker = m.sock.marker
  BY <1>0 DEF Process, Phases
<1> HIDE DEF q
<1> QED
  BY <1>0, <1>1, PhaseStep DEF Opened, OnSocket

LEMMA WaitingKeeps ==
  ASSUME MarketInv, Declared \/ Snapshots \/ Settled
  PROVE  MarketInv'
<1>1. PICK at \in {"snapshots", "settling", "applying"} :
          m' = [m EXCEPT !.rec.at = at]
  BY DEF Declared, Snapshots, Settled
<1> DEFINE q == [m EXCEPT !.rec.at = at]
<1>0. m \in Process /\ m.rec.at \in {"declaring", "snapshots", "settling"}
  BY InvFit DEF Declared, Snapshots, Settled, At
<1>2. /\ q \in Process /\ q.health = m.health /\ q.sup = m.sup /\ q.loops = m.loops
      /\ q.aborted = m.aborted /\ q.owner = m.owner /\ q.sock = m.sock
      /\ q.rec.at = at /\ q.rec.aborted = m.rec.aborted /\ q.rec.via = m.rec.via
  BY <1>0 DEF Process, Phases
<1>3. m' = q /\ UNCHANGED <<rows, leftover, unheld, astray>>
  BY <1>1 DEF Declared, Snapshots, Settled
<1> HIDE DEF q
<1> QED
  BY <1>0, <1>2, <1>3, PhaseStep DEF OnSocket

LEMMA AppliedKeeps ==
  ASSUME MarketInv, Applied
  PROVE  MarketInv'
<1> DEFINE q == [m EXCEPT !.rec.at = "resolving", !.rec.seen = rows]
<1>0. m \in Process /\ m' = q /\ m.rec.at = "applying" /\ rows \in SUBSET Rows
  BY InvFit DEF Applied, At, MarketInv, LeftoverSound
<1>1. /\ q \in Process /\ q.health = m.health /\ q.sup = m.sup /\ q.loops = m.loops
      /\ q.aborted = m.aborted /\ q.owner = m.owner /\ q.sock = m.sock
      /\ q.rec.at = "resolving" /\ q.rec.aborted = m.rec.aborted /\ q.rec.via = m.rec.via
      /\ q.rec.seen = rows
  BY <1>0 DEF Process, Phases
<1> HIDE DEF q
<1> QED
  BY <1>0, <1>1, PhaseStep DEF Applied, OnSocket

\* A recovery that is over, without anything it was there for.
LEMMA NoRecoveryIs ==
  ASSUME NEW p \in Process
  PROVE  LET q == [p EXCEPT !.rec = NoRecovery] IN
         /\ q \in Process /\ q.health = p.health /\ q.sup = p.sup /\ q.loops = p.loops
         /\ q.aborted = p.aborted /\ q.owner = p.owner /\ q.sock = p.sock
         /\ q.rec.at = "idle" /\ ~q.rec.aborted
  BY DEF Process, Phases, NoRecovery

LEMMA DownRow ==
  ASSUME RowSound, Down(m, m'), unheld' = unheld, rows' = rows
  PROVE  RowSound'
  BY DEF RowSound, Down

\* Only a market that lost its lease has a recovery aborted.
LEMMA AbortedEnds ==
  ASSUME MarketInv, m.rec.at # "idle", m.rec.aborted, NEW p, Fit(p), Calm(m, p),
         m' = [p EXCEPT !.rec = NoRecovery], UNCHANGED <<rows, leftover, unheld, astray>>
  PROVE  MarketInv'
<1>0. p \in Process
  BY DEF Fit
<1>1. /\ m' \in Process /\ m'.health = p.health /\ m'.sup = p.sup /\ m'.loops = p.loops
      /\ m'.aborted = p.aborted /\ m'.owner = p.owner /\ m'.sock = p.sock
      /\ m'.rec.at = "idle" /\ ~m'.rec.aborted
  BY <1>0, NoRecoveryIs
<1>2. m'.owner = m.owner /\ m'.aborted = m.aborted /\ Down(m, p)
  BY <1>1 DEF Calm
<1>3. m.owner # "booting"
  BY BootIsFresh
<1>4. Sound(m)'
  BY <1>1, <1>2, <1>3 DEF MarketInv, Sound, Fit
<1>5. MannedSound'
  <2> SUFFICES ASSUME m'.owner = "serving", ~astray'
               PROVE  Manned(m')
    BY DEF MannedSound
  <2>1. m.owner = "serving" /\ ~astray
    BY <1>2
  <2>2. FALSE
    BY <2>1 DEF MarketInv, MannedSound, Manned
  <2> QED
    BY <2>2
<1>6. RowSound'
  <2>1. Down(m, m') /\ unheld' = unheld /\ rows' = rows
    BY <1>1, <1>2 DEF Down
  <2> QED
    BY <2>1, DownRow DEF MarketInv
<1>7. LeftoverSound'
  BY <1>1, <1>2 DEF MarketInv, LeftoverSound, Down
<1> QED
  BY <1>4, <1>5, <1>6, <1>7 DEF MarketInv

LEMMA AbortedKeeps ==
  ASSUME MarketInv, Aborted
  PROVE  MarketInv'
<1>1. m.rec.at # "idle" /\ m.rec.aborted
  BY DEF Aborted
<1>2. Calm(m, m) /\ Fit(m)
  BY InvFit DEF Calm, Down
<1> QED
  BY <1>1, <1>2, AbortedEnds DEF Aborted

LEMMA WindowIs ==
  ASSUME MarketInv, NEW n \in Window
  PROVE  n \in 0..MaxFailures
<1>1. m.sup.failures + 1 \in Nat
  BY InvFit DEF Process
<1>2. Min({MaxFailures, m.sup.failures + 1}) \in 0..MaxFailures
  BY <1>1, MinOfTwo, Bounds
<1> QED
  BY <1>2, Bounds DEF Window

LEMMA RetryIs ==
  ASSUME NEW p \in Process, NEW n \in 0..MaxFailures
  PROVE  LET q == Retry(p, n) IN
         /\ q \in Process /\ q.health = p.health /\ q.loops = p.loops
         /\ q.aborted = p.aborted /\ q.owner = p.owner /\ q.sock = p.sock
         /\ q.rec.at = "idle" /\ ~q.rec.aborted /\ q.sup.timer
<1> DEFINE f == RecordFailure(p, n)
           s == Schedule(f)
<1>1. /\ f \in Process /\ f.health = p.health /\ f.loops = p.loops
      /\ f.aborted = p.aborted /\ f.owner = p.owner /\ f.sock = p.sock
  BY DEF RecordFailure, Exhausts, Process
<1> HIDE DEF f
<1>2. s \in Process /\ Aside(f, s) /\ s.health = f.health /\ s.loops = f.loops /\ s.sup.timer
  BY <1>1, ScheduleIs
<1> HIDE DEF s
<1>3. Retry(p, n) = [s EXCEPT !.rec = NoRecovery]
  BY DEF Retry, f, s
<1> QED
  BY <1>1, <1>2, <1>3, NoRecoveryIs DEF Aside

LEMMA AnnounceIs ==
  ASSUME NEW p, NEW n, NEW base \in SUBSET Rows, NEW r \in Announce(p, n, base)
  PROVE  base \subseteq r /\ r \subseteq Rows
<1>1. Rows \ base # {} => Min(Rows \ base) \in Rows
  BY MinIs, Bounds
<1> QED
  BY <1>1 DEF Announce

LEMMA FailedKeeps ==
  ASSUME MarketInv, m.rec.at \notin {"idle", "resolving"}, NEW p, Keeps(m, p), Failed(p)
  PROVE  MarketInv'
<1> DEFINE d == Degrade(p)
           g == [d EXCEPT !.rec.at = "degrading"]
<1>0. p \in Process /\ Fit(p) /\ Calm(m, p) /\ Down(m, p)
  BY DEF Keeps, Fit, Calm
<1>1. UNCHANGED <<leftover, unheld, astray>> /\ m.owner # "booting"
  BY BootIsFresh DEF Failed
<1>2. PICK n \in Window :
         \/ p.rec.aborted /\ m' = [p EXCEPT !.rec = NoRecovery] /\ UNCHANGED rows
         \/ ~p.rec.aborted /\ Waits(d) /\ m' = g /\ UNCHANGED rows
         \/ ~p.rec.aborted /\ ~Waits(d) /\ m' = Retry(d, n) /\ rows' \in Announce(d, n, rows)
  BY DEF Failed
<1>3. /\ d \in Process /\ Aside(p, d) /\ d.loops = p.loops /\ d.sup = p.sup
      /\ d.health.state = "DEGRADED" /\ d.health.known = p.health.known
      /\ d.health.activating = (p.health.activating \/ p.health.known = None)
      /\ (Waits(d) <=> d.health.activating)
  BY <1>0, DegradeIs DEF Waits
<1> HIDE DEF d
<1>4. CASE p.rec.aborted
  BY <1>0, <1>1, <1>2, <1>4, AbortedEnds DEF Calm
<1>5. CASE ~p.rec.aborted /\ Waits(d)
  <2>1. m' = g /\ UNCHANGED rows
    BY <1>2, <1>5
  <2>2. /\ g \in Process /\ g.health = d.health /\ g.sup = d.sup /\ g.loops = d.loops
        /\ g.aborted = d.aborted /\ g.owner = d.owner /\ g.sock = d.sock
        /\ g.rec.at = "degrading" /\ g.rec.aborted = d.rec.aborted
    BY <1>3 DEF Process, Phases
  <2> HIDE DEF g
  <2>3. Sound(m)'
    BY <1>0, <1>1, <1>3, <2>1, <2>2 DEF MarketInv, Sound, Fit, Calm, Aside
  <2>4. MannedSound'
    <3> SUFFICES ASSUME m'.owner = "serving", ~astray'
                 PROVE  Manned(m')
      BY DEF MannedSound
    <3>1. m.owner = "serving" /\ ~astray
      BY <1>0, <1>1, <1>3, <2>1, <2>2 DEF Calm, Aside
    <3>2. Manned(p)
      BY <3>1 DEF MarketInv, MannedSound, Keeps, Sound
    <3>3. p.rec.at # "idle"
      BY <1>0 DEF Calm
    <3> QED
      BY <1>3, <1>5, <2>1, <2>2, <3>2, <3>3 DEF Manned, Live, Aside, OnSocket
  <2>5. RowSound'
    BY <1>0, <1>1, <1>3, <2>1, <2>2 DEF MarketInv, RowSound, Down
  <2>6. LeftoverSound'
    BY <1>0, <1>1, <1>3, <2>1, <2>2 DEF MarketInv, LeftoverSound
  <2> QED
    BY <2>3, <2>4, <2>5, <2>6 DEF MarketInv
<1>6. CASE ~p.rec.aborted /\ ~Waits(d)
  <2>1. m' = Retry(d, n) /\ rows' \in Announce(d, n, rows)
    BY <1>2, <1>6
  <2>2. /\ m' \in Process /\ m'.health = d.health /\ m'.loops = d.loops
        /\ m'.aborted = d.aborted /\ m'.owner = d.owner /\ m'.sock = d.sock
        /\ m'.rec.at = "idle" /\ ~m'.rec.aborted /\ m'.sup.timer
    BY <1>3, <2>1, WindowIs, RetryIs
  <2>3. rows \subseteq rows' /\ rows' \subseteq Rows
    BY <2>1, AnnounceIs DEF MarketInv, LeftoverSound
  <2>4. Sound(m)'
    BY <1>0, <1>1, <1>3, <2>2 DEF MarketInv, Sound, Fit, Calm, Aside
  <2>5. MannedSound'
    <3> SUFFICES ASSUME m'.owner = "serving", ~astray'
                 PROVE  Manned(m')
      BY DEF MannedSound
    <3>1. m.owner = "serving" /\ ~astray
      BY <1>0, <1>1, <1>3, <2>2 DEF Calm, Aside
    <3>2. Manned(p)
      BY <3>1 DEF MarketInv, MannedSound, Keeps, Sound
    <3>3. Live(m') = {}
      BY <1>0, <1>3, <2>2, <3>2 DEF Manned, Live, Calm
    <3> QED
      BY <2>2, <3>3 DEF Manned, OnSocket
  <2>6. RowSound'
    BY <1>0, <1>1, <1>3, <2>2, <2>3 DEF MarketInv, RowSound, Down
  <2>7. LeftoverSound'
    BY <1>0, <1>1, <1>3, <2>2, <2>3 DEF MarketInv, LeftoverSound
  <2> QED
    BY <2>4, <2>5, <2>6, <2>7 DEF MarketInv
<1> QED
  BY <1>4, <1>5, <1>6

LEMMA FailureKeeps ==
  ASSUME MarketInv,
         \/ TokenRefused \/ HandshakeFails \/ DeclarationFails \/ BlockFails
         \/ EngineFails \/ SocketLost
  PROVE  MarketInv'
<1>1. m.rec.at \notin {"idle", "resolving"}
  BY DEF TokenRefused, HandshakeFails, DeclarationFails, BlockFails, EngineFails, SocketLost, At
<1>2. Keeps(m, m) /\ Keeps(m, CloseStream(m))
  BY InvFit, KeepsSelf, CloseStreamKeeps
<1>3. Failed(m) \/ Failed(CloseStream(m))
  BY DEF TokenRefused, HandshakeFails, DeclarationFails, BlockFails, EngineFails, SocketLost
<1> QED
  BY <1>1, <1>2, <1>3, FailedKeeps

-----------------------------------------------------------------------------
(* The end of a recovery.                                                  *)

\* Nothing but the supervisor has changed.
LiftedIs(p, q) ==
  /\ q \in Process /\ q.health = p.health /\ q.loops = p.loops
  /\ q.rec = p.rec /\ q.sock = p.sock /\ q.owner = p.owner /\ q.aborted = p.aborted

LEMMA ResetIs ==
  ASSUME NEW p \in Process
  PROVE  LiftedIs(p, ResetFailures(p)) /\ LiftedIs(p, ClearRetryHold(p))
<1>1. 0 \in 0..MaxFailures
  BY Bounds
<1> DEFINE f == ResetFailures(p)
<1>2. LiftedIs(p, f)
  BY <1>1 DEF ResetFailures, Process, LiftedIs
<1> HIDE DEF f
<1>3. ASSUME NEW q \in Process
      PROVE  LiftedIs(q, [q EXCEPT !.sup.timer = FALSE])
  BY <1>3 DEF Process, LiftedIs
<1>4. ClearRetryHold(p) = [f EXCEPT !.sup.timer = FALSE]
  BY DEF ClearRetryHold, ResumeSupervisor, f
<1>5. LiftedIs(f, ClearRetryHold(p))
  BY <1>2, <1>3, <1>4 DEF LiftedIs
<1> QED
  BY <1>2, <1>5 DEF LiftedIs, f

\* The market is HEALTHY, or degraded anew by what the stream had already
\* told; the rows are the business of the caller.
LEMMA RecoveredIs ==
  ASSUME MarketInv, m.rec.at = "resolving", Slot
  PROVE  LET q == Recovered(m) IN
         /\ Fit(q) /\ q.owner = m.owner /\ q.aborted = m.aborted
         /\ q.rec.at = "idle" /\ ~q.rec.aborted
         /\ q.health.known = None
         /\ q.health.state = "HEALTHY" \/ q.health.activating
         /\ ~m.aborted /\ Manned(m) => Manned(q)
<1> DEFINE l == Min({k \in Loops : m.loops[k] = NoLoop})
           loop == [at |-> "waiting", aborted |-> m.aborted]
           q == [StartKeepalive(MarkHealthy(m)) EXCEPT
                   !.rec = NoRecovery, !.rejections = 0,
                   !.loops[l] = [at |-> "waiting", aborted |-> m.aborted]]
           h == IF m.rec.held THEN ClearRetryHold(q) ELSE q
           x == IF m.rec.via = "timer" THEN ResetFailures(h) ELSE h
           y == NextEvent(x, l)
<1>0. m \in Process /\ Fit(m)
  BY InvFit
<1>1. Recovered(m) = y
  BY DEF Recovered
<1>2. l \in Loops /\ m.loops[l] = NoLoop
  <2>1. {k \in Loops : m.loops[k] = NoLoop} # {}
    BY DEF Slot
  <2>2. {k \in Loops : m.loops[k] = NoLoop} \in SUBSET Nat
    BY Bounds
  <2> QED
    BY <2>1, <2>2, MinIs
<1> HIDE DEF l
<1>3. /\ q \in Process /\ q.owner = m.owner /\ q.aborted = m.aborted /\ q.sock = m.sock
      /\ q.rec.at = "idle" /\ ~q.rec.aborted
      /\ q.health.known = None /\ q.health.state = "HEALTHY"
      /\ q.loops = [m.loops EXCEPT ![l] = loop]
  <2>1. 0 \in 0..MissedPongs
    BY Bounds
  <2>2. loop \in [at : Stages, aborted : BOOLEAN]
    BY <1>0 DEF Process, Stages
  <2>3. NoRecovery \in [at : Phases, via : {"boot", "reelection", "timer"}, aborted : BOOLEAN,
                        held : BOOLEAN, seen : SUBSET Rows]
    BY DEF NoRecovery, Phases
  <2>4. NoRecovery.at = "idle" /\ ~NoRecovery.aborted
    BY DEF NoRecovery
  <2>5. q = [m EXCEPT !.health.state = "HEALTHY", !.health.known = None, !.health.misses = 0,
                      !.keepalive = TRUE, !.rec = NoRecovery, !.rejections = 0,
                      !.loops[l] = loop]
    BY <1>0 DEF StartKeepalive, MarkHealthy, Process
  <2> HIDE DEF q, loop
  <2> QED
    BY <1>0, <1>2, <2>1, <2>2, <2>3, <2>4, <2>5 DEF Process
<1> HIDE DEF q
<1>4. \A p \in Process : LiftedIs(p, ResetFailures(p)) /\ LiftedIs(p, ClearRetryHold(p))
  BY ResetIs
<1>5. /\ x \in Process /\ x.owner = q.owner /\ x.aborted = q.aborted /\ x.sock = q.sock
      /\ x.rec = q.rec /\ x.health = q.health /\ x.loops = q.loops
  BY <1>3, <1>4 DEF LiftedIs
<1> HIDE DEF x
<1>6. /\ x.loops[l].at = "waiting" /\ x.loops[l].aborted = m.aborted
      /\ \A k \in Loops \ {l} : x.loops[k] = m.loops[k]
  BY <1>0, <1>2, <1>3, <1>5 DEF Process
<1>7. \A k \in Loops \ {l} : x.loops[k].at = "waiting" => ~x.loops[k].aborted /\ ~x.sock.closed
  BY <1>0, <1>3, <1>5, <1>6 DEF Fit
<1>8. /\ Fit(y) /\ Calm(x, y)
      /\ ~x.aborted /\ Manned(x) /\ (~x.loops[l].aborted /\ x.sock.closed => x.sock.marker) => Manned(y)
  BY <1>2, <1>5, <1>6, <1>7, NextEventKeeps
<1> HIDE DEF y
<1>9. ~m.aborted /\ Manned(m) => Manned(x) /\ (x.sock.closed => x.sock.marker)
  <2> SUFFICES ASSUME ~m.aborted, Manned(m)
               PROVE  Manned(x) /\ (x.sock.closed => x.sock.marker)
    OBVIOUS
  <2>1. Live(m) = {} /\ (m.sock.closed => m.sock.marker)
    BY DEF Manned, OnSocket
  <2>2. Live(x) = {l}
    BY <1>2, <1>6, <2>1 DEF Live
  <2>3. x.rec.at = "idle"
    BY <1>3, <1>5
  <2> QED
    BY <1>3, <1>5, <1>6, <2>1, <2>2, <2>3 DEF Manned, OnSocket
<1> QED
  BY <1>1, <1>3, <1>5, <1>8, <1>9 DEF Calm, Down

LEMMA ResolveKeeps ==
  ASSUME MarketInv, Resolve \/ ResolveFails
  PROVE  MarketInv'
<1>1. /\ m.rec.at = "resolving" /\ Slot /\ m' = Recovered(m)
      /\ unheld' = FALSE /\ UNCHANGED astray
      /\ leftover' \subseteq rows' /\ rows' \subseteq rows /\ rows' \subseteq leftover'
  BY DEF Resolve, ResolveFails, At, Resolves, MarketInv, LeftoverSound
<1>2. /\ Fit(m') /\ m'.owner = m.owner /\ m'.aborted = m.aborted
      /\ m'.rec.at = "idle" /\ ~m'.rec.aborted
      /\ m'.health.known = None
      /\ m'.health.state = "HEALTHY" \/ m'.health.activating
      /\ ~m.aborted /\ Manned(m) => Manned(m')
  BY <1>1, RecoveredIs
<1>3. m.owner # "booting"
  BY <1>1, BootIsFresh
<1>4. Sound(m)'
  BY <1>2, <1>3 DEF MarketInv, Sound, Fit
<1>5. MannedSound'
  BY <1>1, <1>2 DEF MarketInv, Sound, MannedSound
<1>6. RowSound'
  BY <1>1, <1>2 DEF RowSound
<1>7. LeftoverSound'
  BY <1>1, <1>2 DEF MarketInv, LeftoverSound
<1> QED
  BY <1>4, <1>5, <1>6, <1>7 DEF MarketInv

-----------------------------------------------------------------------------
(* The owner: a lost lease, its report, the operator, the next connect().  *)

LEMMA LoseLeaseKeeps ==
  ASSUME MarketInv, LoseLease
  PROVE  MarketInv'
<1> DEFINE s == StopKeepalive(m)
           loops == [l \in Loops |-> IF s.loops[l].at \in {"none", "waiting"} THEN NoLoop
                                     ELSE [s.loops[l] EXCEPT !.aborted = TRUE]]
           a == [s EXCEPT !.aborted = TRUE, !.owner = "left", !.sup.timer = FALSE,
                          !.rec.aborted = Recovering, !.loops = loops]
<1>0. m \in Process /\ m.owner = "serving" /\ UNCHANGED <<rows, leftover, unheld, astray>>
  BY InvFit DEF LoseLease
<1>1. /\ s \in Process /\ s.health = m.health /\ s.loops = m.loops /\ s.rec = m.rec
  BY <1>0, StopKeepaliveIs DEF Aside
<1>2. m' = CloseStream(a)
  BY DEF LoseLease
<1> HIDE DEF s
<1>3. /\ loops \in [Loops -> [at : Stages, aborted : BOOLEAN]]
      /\ \A l \in Loops : loops[l].at # "waiting"
  <2> SUFFICES ASSUME NEW l \in Loops
               PROVE  loops[l] \in [at : Stages, aborted : BOOLEAN] /\ loops[l].at # "waiting"
    OBVIOUS
  <2>1. s.loops[l] \in [at : Stages, aborted : BOOLEAN]
    BY <1>1 DEF Process
  <2> QED
    BY <2>1 DEF NoLoop, Stages
<1> HIDE DEF loops
<1>4. /\ a \in Process /\ a.health = s.health /\ a.aborted /\ a.owner = "left"
      /\ a.loops = loops /\ a.rec.at = s.rec.at /\ a.rec.seen = s.rec.seen
  BY <1>1, <1>3 DEF Process, Owners, Recovering
<1> HIDE DEF a
<1>5. Fit(a)
  BY <1>3, <1>4 DEF Fit
<1>6. Fit(m') /\ Calm(a, m')
  BY <1>2, <1>5, CloseStreamKeeps DEF Keeps
<1>7. Down(m, m')
  BY <1>1, <1>4, <1>6 DEF Calm, Down
<1>8. m'.owner = "left" /\ m'.aborted /\ m'.rec.at = m.rec.at /\ m'.rec.seen = m.rec.seen
  BY <1>1, <1>4, <1>6 DEF Calm
<1>9. Sound(m)'
  BY <1>6, <1>8 DEF Sound, Fit
<1>10. MannedSound'
  BY <1>8 DEF MannedSound
<1>11. RowSound'
  BY <1>0, <1>7, DownRow DEF MarketInv
<1>12. LeftoverSound'
  BY <1>0, <1>7, <1>8 DEF MarketInv, LeftoverSound, Down
<1> QED
  BY <1>9, <1>10, <1>11, <1>12 DEF MarketInv

LEMMA ReportKeeps ==
  ASSUME MarketInv, Report
  PROVE  MarketInv'
<1> DEFINE d == Degrade(m)
<1>0. Fit(m) /\ m.owner = "left" /\ UNCHANGED <<rows, leftover, unheld, astray>>
  BY InvFit DEF Report
<1>1. PICK o \in {"reporting", "reported"} : m' = [d EXCEPT !.owner = o]
  BY DEF Report
<1>2. d \in Process /\ Aside(m, d) /\ d.loops = m.loops /\ d.health.state = "DEGRADED" /\ Down(m, d)
  BY <1>0, DegradeIs DEF Fit, Down
<1> HIDE DEF d
<1>3. /\ m' \in Process /\ m'.health = d.health /\ m'.loops = d.loops /\ m'.sock = d.sock
      /\ m'.rec = d.rec /\ m'.aborted = d.aborted /\ m'.owner \in {"reporting", "reported"}
  BY <1>1, <1>2 DEF Process, Owners
<1>4. Sound(m)'
  BY <1>0, <1>2, <1>3 DEF MarketInv, Sound, Fit, Aside
<1>5. MannedSound'
  BY <1>3 DEF MannedSound
<1>6. RowSound'
  BY <1>0, <1>2, <1>3, DownRow DEF MarketInv, Down
<1>7. LeftoverSound'
  BY <1>0, <1>2, <1>3 DEF MarketInv, LeftoverSound, Aside
<1> QED
  BY <1>4, <1>5, <1>6, <1>7 DEF MarketInv

LEMMA AdminResolveKeeps ==
  ASSUME MarketInv, AdminResolve
  PROVE  MarketInv'
<1> DEFINE f == ResumeSupervisor(m)
<1>0. m \in Process /\ Fit(m)
  BY InvFit
<1>1. PICK r \in rows :
        /\ rows' = rows \ {r} /\ leftover' = leftover \ {r}
        /\ unheld' = (unheld \/ r = m.health.known)
        /\ m' = IF m.sup.exhausted THEN Schedule(f) ELSE m
        /\ UNCHANGED astray
  BY DEF AdminResolve, ResumeRetries
<1>2. LiftedIs(m, f)
  BY <1>0, ResetIs DEF ClearRetryHold
<1> HIDE DEF f
<1>3. f \in Process
  BY <1>2 DEF LiftedIs
<1>4. /\ Schedule(f) \in Process /\ Aside(f, Schedule(f)) /\ Schedule(f).health = f.health
      /\ Schedule(f).loops = f.loops /\ Schedule(f).sup.timer
  BY <1>3, ScheduleIs
<1>5. LiftedIs(m, Schedule(f))
  BY <1>2, <1>4 DEF LiftedIs, Aside
<1>6. LiftedIs(m, m') /\ (m.sup.timer => m'.sup.timer)
  BY <1>0, <1>1, <1>4, <1>5 DEF LiftedIs
<1>7. m.owner = "booting" => m' = m
  BY <1>1, BootIsFresh
<1>8. Sound(m)'
  BY <1>6, <1>7 DEF MarketInv, Sound, LiftedIs
<1>9. MannedSound'
  <2> SUFFICES ASSUME m'.owner = "serving", ~astray'
               PROVE  Manned(m')
    BY DEF MannedSound
  <2>1. Manned(m)
    BY <1>1, <1>6 DEF MarketInv, MannedSound, LiftedIs
  <2> QED
    BY <1>6, <2>1 DEF Manned, Live, LiftedIs
<1>10. RowSound'
  BY <1>1, <1>6 DEF MarketInv, RowSound, LiftedIs
<1>11. LeftoverSound'
  BY <1>1, <1>6 DEF MarketInv, LeftoverSound, LiftedIs
<1> QED
  BY <1>8, <1>9, <1>10, <1>11 DEF MarketInv

\* The state moves to RECOVERING at most.
RecoveringIs(p, q) ==
  /\ q \in Process /\ q.loops = p.loops /\ q.sock = p.sock
  /\ q.aborted = p.aborted /\ q.owner = p.owner
  /\ q.health.known = p.health.known /\ q.health.activating = p.health.activating
  /\ (q.health.state = "HEALTHY") = (p.health.state = "HEALTHY")

LEMMA RecoverOnceIs ==
  ASSUME NEW p \in Process, NEW via \in {"boot", "reelection", "timer"}
  PROVE  LET q == RecoverOnce(p, via) IN
         /\ RecoveringIs(p, q)
         /\ p.aborted => q.rec = p.rec
         /\ ~p.aborted => q.rec.at = "connecting" /\ ~q.rec.aborted /\ q.rec.via = via
<1> DEFINE r == [p EXCEPT !.health.state = "RECOVERING"]
           q == IF p.health.state = "HEALTHY" THEN p ELSE r
           rec == [at |-> "connecting", via |-> via, aborted |-> FALSE,
                   held |-> p.sup.exhausted, seen |-> {}]
           x == [q EXCEPT !.rec = rec]
<1>1. RecoverOnce(p, via) = IF p.aborted THEN q ELSE x
  BY DEF RecoverOnce
<1>2. p.health.state # "HEALTHY" => RecoveringIs(p, r) /\ r.rec = p.rec
  BY DEF Process, RecoveringIs
<1>3. RecoveringIs(p, q) /\ q.rec = p.rec
  BY <1>2 DEF RecoveringIs
<1> HIDE DEF q, r
<1>4. rec \in [at : Phases, via : {"boot", "reelection", "timer"}, aborted : BOOLEAN,
               held : BOOLEAN, seen : SUBSET Rows]
  BY DEF Process, Phases
<1>5. rec.at = "connecting" /\ ~rec.aborted /\ rec.via = via
  OBVIOUS
<1> HIDE DEF rec
<1>6. RecoveringIs(p, x) /\ x.rec = rec
  BY <1>3, <1>4 DEF Process, RecoveringIs
<1> HIDE DEF x
<1> QED
  BY <1>1, <1>3, <1>5, <1>6

LEMMA ConnectKeeps ==
  ASSUME MarketInv, Connect
  PROVE  MarketInv'
<1> DEFINE p == [m EXCEPT !.owner = "serving", !.aborted = FALSE]
           via == IF m.owner = "booting" THEN "boot" ELSE "reelection"
<1>0. m \in Process /\ Fit(m) /\ m.owner \in {"booting", "reported"}
  BY InvFit DEF Connect
<1>1. /\ m' = IF Recovering THEN p ELSE RecoverOnce(p, via)
      /\ astray' = (Recovering \/ Beside) /\ UNCHANGED <<rows, leftover, unheld>>
  BY DEF Connect
<1>2. /\ p \in Process /\ p.loops = m.loops /\ p.sock = m.sock /\ p.health = m.health
      /\ p.rec = m.rec /\ p.owner = "serving" /\ ~p.aborted
  BY <1>0 DEF Process, Owners
<1> HIDE DEF p
<1>3. /\ RecoverOnce(p, via).rec.at = "connecting" /\ ~RecoverOnce(p, via).rec.aborted
      /\ RecoverOnce(p, via).rec.via = via
      /\ RecoveringIs(p, RecoverOnce(p, via))
  BY <1>2, RecoverOnceIs
<1>4. /\ RecoveringIs(p, m')
      /\ IF Recovering THEN m'.rec = m.rec
         ELSE m'.rec.at = "connecting" /\ ~m'.rec.aborted /\ m'.rec.via = via
  BY <1>1, <1>2, <1>3 DEF RecoveringIs
<1>5. Sound(m)'
  BY <1>0, <1>2, <1>4 DEF Sound, Fit, RecoveringIs
<1>6. MannedSound'
  <2> SUFFICES ASSUME ~astray'
               PROVE  Manned(m')
    BY DEF MannedSound
  <2>1. ~Recovering /\ Live(m) = {}
    BY <1>1 DEF Beside, Live
  <2>2. Live(m') = {}
    BY <1>2, <1>4, <2>1 DEF Live, RecoveringIs
  <2> QED
    BY <1>4, <2>1, <2>2 DEF Manned, OnSocket
<1>7. RowSound'
  BY <1>1, <1>2, <1>4 DEF MarketInv, RowSound, RecoveringIs
<1>8. LeftoverSound'
  <2>1. m.owner = "booting" => ~Recovering
    BY BootIsFresh DEF Recovering
  <2> QED
    BY <1>0, <1>1, <1>2, <1>4, <2>1 DEF MarketInv, LeftoverSound, RecoveringIs, Recovering
<1> QED
  BY <1>5, <1>6, <1>7, <1>8 DEF MarketInv

LEMMA TimerFiresKeeps ==
  ASSUME MarketInv, TimerFires
  PROVE  MarketInv'
<1> DEFINE p == [m EXCEPT !.sup.timer = FALSE]
<1>0. m \in Process /\ Fit(m) /\ m.owner # "booting"
  BY InvFit, BootIsFresh DEF TimerFires
<1>1. /\ m' = IF Recovering THEN p ELSE RecoverOnce(p, "timer")
      /\ astray' = (IF Recovering THEN astray ELSE Beside) /\ UNCHANGED <<rows, leftover, unheld>>
  BY DEF TimerFires
<1>2. LiftedIs(m, p)
  BY <1>0 DEF Process, LiftedIs
<1> HIDE DEF p
<1>3. /\ RecoveringIs(p, RecoverOnce(p, "timer"))
      /\ p.aborted => RecoverOnce(p, "timer").rec = p.rec
      /\ ~p.aborted => RecoverOnce(p, "timer").rec.at = "connecting" /\ ~RecoverOnce(p, "timer").rec.aborted
  BY <1>2, RecoverOnceIs DEF LiftedIs
<1>4. /\ RecoveringIs(m, m')
      /\ IF Recovering \/ m.aborted THEN m'.rec = m.rec
         ELSE m'.rec.at = "connecting" /\ ~m'.rec.aborted
  BY <1>1, <1>2, <1>3 DEF RecoveringIs, LiftedIs
<1>5. Sound(m)'
  BY <1>0, <1>4 DEF MarketInv, Sound, RecoveringIs
<1>6. MannedSound'
  <2> SUFFICES ASSUME m'.owner = "serving", ~astray'
               PROVE  Manned(m')
    BY DEF MannedSound
  <2>0. ~m.aborted /\ m.owner = "serving" /\ Live(m') = Live(m)
    BY <1>4 DEF MarketInv, Sound, RecoveringIs, Live
  <2>1. CASE Recovering
    BY <1>1, <1>4, <2>0, <2>1 DEF MarketInv, MannedSound, Manned, Recovering, RecoveringIs
  <2>2. CASE ~Recovering
    <3>1. Live(m) = {}
      BY <1>1, <2>2 DEF Beside, Live
    <3> QED
      BY <1>4, <2>0, <2>2, <3>1 DEF Manned, OnSocket
  <2> QED
    BY <2>1, <2>2
<1>7. RowSound'
  BY <1>1, <1>4 DEF MarketInv, RowSound, RecoveringIs
<1>8. LeftoverSound'
  BY <1>1, <1>4 DEF MarketInv, LeftoverSound, RecoveringIs, Recovering
<1> QED
  BY <1>5, <1>6, <1>7, <1>8 DEF MarketInv

-----------------------------------------------------------------------------
(* The incident write and everyone who awaits it.                          *)

LEMMA LeaveFits ==
  ASSUME NEW p, Fit(p), NEW ls \in SUBSET Loops
  PROVE  /\ Fit(Leave(p, ls)) /\ Calm(p, Leave(p, ls)) /\ Aside(p, Leave(p, ls))
         /\ Leave(p, ls).sup = p.sup
         /\ \A l \in ls : Leave(p, ls).loops[l] = NoLoop
         /\ \A l \in Loops \ ls : Leave(p, ls).loops[l] = p.loops[l]
<1> DEFINE q == Leave(p, ls)
<1>1. /\ q \in Process /\ Aside(p, q)
      /\ q.health = p.health /\ q.sup = p.sup
      /\ q.loops = [l \in Loops |-> IF l \in ls THEN NoLoop ELSE p.loops[l]]
  BY LeaveIs DEF Fit
<1> HIDE DEF q
<1>2. \A l \in Loops : q.loops[l] = IF l \in ls THEN NoLoop ELSE p.loops[l]
  BY <1>1
<1>3. Fit(q) /\ Calm(p, q)
  BY <1>1, <1>2 DEF Fit, Calm, Down, Aside, NoLoop
<1> QED
  BY <1>1, <1>2, <1>3 DEF q

LEMMA ResumeClosingKeeps ==
  ASSUME NEW p, Fit(p)
  PROVE  Keeps(p, ResumeClosing(p))
<1> DEFINE c == Busy(p, "closing")
           y == Leave(p, c)
           s == Schedule(y)
<1>1. ResumeClosing(p) = IF c = {} THEN p ELSE s
  BY DEF ResumeClosing
<1>2. c \in SUBSET Loops
  BY DEF Busy
<1> HIDE DEF c
<1>3. /\ Fit(y) /\ Calm(p, y) /\ Aside(p, y) /\ \A l \in c : y.loops[l] = NoLoop
      /\ \A l \in Loops \ c : y.loops[l] = p.loops[l]
  BY <1>2, LeaveFits
<1> HIDE DEF y
<1>4. s \in Process /\ Aside(y, s) /\ s.health = y.health /\ s.loops = y.loops /\ s.sup.timer
  BY <1>3, ScheduleIs DEF Fit
<1> HIDE DEF s
<1>5. Fit(s)
  BY <1>3, <1>4 DEF Fit, Aside
<1>6. Calm(p, s)
  BY <1>3, <1>4 DEF Calm, Down, Aside
<1>7. Live(s) \subseteq Live(p) /\ \A l \in Live(s) : s.loops[l] = p.loops[l]
  BY <1>2, <1>3, <1>4 DEF Live, NoLoop
<1>8. Manned(p) => Manned(s)
  BY <1>3, <1>4, <1>7 DEF Manned, Aside
<1>9. Keeps(p, s)
  BY <1>5, <1>6, <1>8 DEF Keeps
<1> QED
  BY <1>1, <1>9, KeepsSelf

LEMMA ResumeBurstingKeeps ==
  ASSUME NEW p, Fit(p)
  PROVE  Keeps(p, ResumeBursting(p))
<1> DEFINE b == Busy(p, "bursting")
           u == Wanted(p, b)
           v == IF u = {} THEN b ELSE u
           l == Min(v)
           y == CloseTransport(p)
           z == Leave(y, b \ {l})
<1>1. ResumeBursting(p) = IF b = {} THEN p ELSE NextEvent(z, l)
  BY DEF ResumeBursting
<1>2. b = {} => Keeps(p, ResumeBursting(p))
  BY <1>1, KeepsSelf
<1>3. ASSUME b # {}
      PROVE  Keeps(p, ResumeBursting(p))
  <2>1. b \subseteq Loops /\ u \subseteq b /\ v \subseteq b /\ v # {} /\ v \in SUBSET Nat
    BY <1>3, Bounds DEF Busy, Wanted
  <2>2. l \in v
    BY <2>1, MinIs
  <2> HIDE DEF l
  <2>3. Keeps(p, y) /\ \A k \in b : y.loops[k] = p.loops[k]
    BY <2>1, CloseTransportKeeps DEF Undisturbed, Busy
  <2> HIDE DEF y
  <2>4. Fit(y) /\ b \ {l} \in SUBSET Loops /\ l \in Loops \ (b \ {l})
    BY <2>1, <2>2, <2>3 DEF Keeps
  <2>5. Fit(z) /\ Calm(y, z) /\ z.loops[l] = y.loops[l]
    BY <2>4, LeaveFits
  <2>6. Manned(y) => Manned(z) \/ y.aborted
    <3> SUFFICES ASSUME Manned(y), ~y.aborted
                 PROVE  Manned(z)
      OBVIOUS
    <3>1. ASSUME NEW k \in b \ {l}, ~y.loops[k].aborted
          PROVE  FALSE
      <4>1. k \in u
        BY <2>3, <3>1 DEF Wanted
      <4>2. l \in u
        BY <2>2, <4>1
      <4>3. k \in Live(y) /\ l \in Live(y)
        BY <2>1, <2>3, <4>1, <4>2 DEF Live, Wanted, Busy
      <4> QED
        BY <3>1, <4>3 DEF Manned
    <3>2. Keeps(y, z)
      BY <2>4, <3>1, LeaveKeeps
    <3> QED
      BY <3>2 DEF Keeps
  <2>7. Keeps(y, z)
    BY <2>5, <2>6 DEF Keeps
  <2>8. z.loops[l].at = "bursting"
    BY <2>1, <2>2, <2>3, <2>5 DEF Busy
  <2> HIDE DEF z
  <2>9. Keeps(z, NextEvent(z, l))
    BY <2>1, <2>2, <2>5, <2>8, NextEventAfter
  <2> QED
    BY <1>1, <1>3, <2>3, <2>7, <2>9, KeepsTrans
<1> QED
  BY <1>2, <1>3

LEMMA ResumePingKeeps ==
  ASSUME NEW p, Fit(p)
  PROVE  Keeps(p, ResumePing(p))
<1> DEFINE q == [p EXCEPT !.ping = "none"]
<1>0. p \in Process
  BY DEF Fit
<1>1. ResumePing(p) = IF p.ping = "failing" THEN AfterMiss(q) ELSE p
  BY DEF ResumePing
<1>2. /\ q \in Process /\ q.loops = p.loops /\ q.sock = p.sock /\ q.sup = p.sup
      /\ q.rec = p.rec /\ q.owner = p.owner /\ q.aborted = p.aborted /\ q.health = p.health
  BY <1>0 DEF Process
<1> HIDE DEF q
<1>3. Keeps(p, q)
  BY <1>2, PingingKeeps
<1>4. Keeps(q, AfterMiss(q))
  BY <1>3, AfterMissKeeps DEF Keeps
<1> QED
  BY <1>1, <1>3, <1>4, KeepsTrans, KeepsSelf

\* A re-election that was waiting to report goes on.
OwnerGoesOn(p, q) ==
  /\ q \in Process /\ q.loops = p.loops /\ q.sock = p.sock /\ q.sup = p.sup
  /\ q.rec = p.rec /\ q.aborted = p.aborted /\ q.health = p.health
  /\ q.owner = IF p.owner = "reporting" THEN "reported" ELSE p.owner

LEMMA ResumeOwnerIs ==
  ASSUME NEW p \in Process
  PROVE  OwnerGoesOn(p, ResumeOwner(p))
  BY DEF ResumeOwner, OwnerGoesOn, Process, Owners

LEMMA OwnerKeeps ==
  ASSUME NEW p, Fit(p), NEW q, OwnerGoesOn(p, q)
  PROVE  Fit(q) /\ (Manned(p) => Manned(q))
  BY DEF Fit, OwnerGoesOn, Manned, Live

LEMMA ActivatedKeeps ==
  ASSUME MarketInv, Activated
  PROVE  MarketInv'
<1> DEFINE id == Min(Rows \ (rows \cup m.rec.seen))
           p == [m EXCEPT !.health.known = id, !.health.activating = FALSE]
           c == ResumeClosing(p)
           b == ResumeBursting(c)
           g == ResumePing(b)
           q == Resumed(p)
<1>0. m \in Process /\ Fit(m) /\ m.health.activating /\ m.owner # "booting"
  BY InvFit, BootIsFresh DEF Activated
<1>1. PICK n \in Window :
        IF m.rec.at = "degrading"
        THEN m' = Retry(q, n) /\ rows' \in Announce(q, n, rows \cup {id})
        ELSE m' = q /\ rows' = rows \cup {id}
  BY DEF Activated, At
<1>2. id \in Rows /\ id # None
  <2>1. Rows \ (rows \cup m.rec.seen) # {}
    BY DEF Activated, Free
  <2>2. Rows \ (rows \cup m.rec.seen) \in SUBSET Nat
    BY Bounds
  <2>3. id \in Rows
    BY <2>1, <2>2, MinIs
  <2> QED
    BY <2>3, Bounds
<1> HIDE DEF id
<1>3. /\ p \in Process /\ p.loops = m.loops /\ p.sock = m.sock /\ p.sup = m.sup
      /\ p.rec = m.rec /\ p.owner = m.owner /\ p.aborted = m.aborted
      /\ p.health.state = m.health.state /\ p.health.known = id /\ ~p.health.activating
  BY <1>0, <1>2 DEF Process
<1>4. q = ResumeOwner(g)
  BY DEF Resumed
<1> HIDE DEF p, q
<1>5. Fit(p) /\ (Manned(m) => Manned(p))
  BY <1>0, <1>3 DEF Fit, Manned, Live
<1>6. Keeps(p, g)
  <2>1. Keeps(p, c)
    BY <1>5, ResumeClosingKeeps
  <2> HIDE DEF c
  <2>2. Keeps(c, b)
    BY <2>1, ResumeBurstingKeeps DEF Keeps
  <2> HIDE DEF b
  <2>3. Keeps(b, g)
    BY <2>2, ResumePingKeeps DEF Keeps
  <2> HIDE DEF g
  <2> QED
    BY <2>1, <2>2, <2>3, KeepsTrans
<1> HIDE DEF g
<1>7. Fit(g) /\ Calm(p, g) /\ g \in Process
  BY <1>6 DEF Keeps, Fit
<1>8. OwnerGoesOn(g, q)
  BY <1>4, <1>7, ResumeOwnerIs
<1>9. Fit(q) /\ (Manned(g) => Manned(q))
  BY <1>7, <1>8, OwnerKeeps
<1>10. /\ q.health.known = id /\ ~q.health.activating
       /\ q.health.state = "HEALTHY" => m.health.state = "HEALTHY"
       /\ q.rec = m.rec /\ q.aborted = m.aborted
       /\ q.owner = IF m.owner = "reporting" THEN "reported" ELSE m.owner
  BY <1>2, <1>3, <1>7, <1>8 DEF Calm, Down, OwnerGoesOn
<1>11. m.owner = "serving" /\ ~astray => Manned(q)
  BY <1>3, <1>5, <1>6, <1>9 DEF MarketInv, MannedSound, Sound, Keeps
<1>12. /\ m' \in Process /\ m'.health = q.health /\ m'.loops = q.loops
       /\ m'.aborted = q.aborted /\ m'.owner = q.owner /\ m'.sock = q.sock
       /\ IF m.rec.at = "degrading" THEN m'.rec.at = "idle" /\ ~m'.rec.aborted /\ m'.sup.timer
          ELSE m' = q
  BY <1>1, <1>9, WindowIs, RetryIs DEF Fit
<1>13. rows \cup {id} \subseteq rows' /\ rows' \subseteq Rows
  <2>1. rows \cup {id} \in SUBSET Rows
    BY <1>2 DEF MarketInv, LeftoverSound
  <2> QED
    BY <1>1, <2>1, AnnounceIs
<1>14. /\ UNCHANGED astray
       /\ leftover' = IF m.health.state = "HEALTHY" \/ m.rec.at = "resolving"
                      THEN leftover \cup (rows' \ rows) ELSE leftover
  BY DEF Activated, At
<1>15. Sound(m)'
  BY <1>0, <1>9, <1>10, <1>12 DEF MarketInv, Sound, Fit
<1>16. MannedSound'
  <2> SUFFICES ASSUME m'.owner = "serving", ~astray'
               PROVE  Manned(m')
    BY DEF MannedSound
  <2>1. Manned(q)
    BY <1>10, <1>11, <1>12, <1>14
  <2>2. CASE m.rec.at = "degrading"
    <3>1. Live(m') = {}
      BY <1>10, <1>12, <2>1, <2>2 DEF Manned, Live
    <3> QED
      BY <1>12, <2>2, <3>1 DEF Manned, OnSocket
  <2> QED
    BY <1>12, <2>1, <2>2
<1>17. RowSound'
  BY <1>2, <1>10, <1>12, <1>13 DEF RowSound
<1>18. LeftoverSound'
  <2>1. leftover' \subseteq rows' /\ rows' \subseteq Rows
    BY <1>13, <1>14 DEF MarketInv, LeftoverSound
  <2>2. m'.rec.at # "degrading"
    BY <1>10, <1>12
  <2>3. m'.rec.at = "resolving" => rows' \ m'.rec.seen \subseteq leftover'
    BY <1>10, <1>12, <1>14 DEF MarketInv, LeftoverSound
  <2>4. m'.rec.at # "idle" /\ m'.rec.aborted /\ m'.health.state = "HEALTHY" => m'.owner = "left"
    BY <1>10, <1>12 DEF MarketInv, LeftoverSound
  <2>5. ASSUME m'.health.state = "HEALTHY", m'.owner \notin {"booting", "left"},
               m'.rec.at # "idle" => m'.rec.via # "boot"
        PROVE  rows' \subseteq leftover'
    <3>1. m.health.state = "HEALTHY" /\ m.rec.at # "degrading"
      BY <1>10, <1>12, <2>5 DEF MarketInv, LeftoverSound
    <3>2. m'.rec = m.rec /\ m.owner \notin {"booting", "left"}
      BY <1>0, <1>10, <1>12, <3>1, <2>5
    <3> QED
      BY <1>14, <2>5, <3>1, <3>2 DEF MarketInv, LeftoverSound
  <2> QED
    BY <2>1, <2>2, <2>3, <2>4, <2>5 DEF LeftoverSound
<1> QED
  BY <1>15, <1>16, <1>17, <1>18 DEF MarketInv

\* The burst of the current connection falls back on EVENT_LOOP_FAILED.
LEMMA LoopsFailedKeep ==
  ASSUME NEW p, Fit(p), NEW ls \in SUBSET Loops, \A l \in ls : p.loops[l].at = "bursting"
  PROVE  LET q == LoopsFailed(p, ls) IN
         /\ Fit(q) /\ Calm(p, q)
         /\ ~p.aborted /\ Manned(p) => Manned(q)
<1> DEFINE u == Wanted(p, ls)
           x == Leave(p, ls \ u)
           q == OnTransportClosed(x, u)
<1>1. LoopsFailed(p, ls) = IF u = {} THEN x ELSE q
  BY DEF LoopsFailed
<1>2. u \in SUBSET Loops /\ u \subseteq ls /\ ls \ u \in SUBSET Loops
      /\ \A l \in ls \ u : p.loops[l].aborted
  BY DEF Wanted
<1>3. /\ Fit(x) /\ Calm(p, x) /\ Aside(p, x) /\ x.sup = p.sup
      /\ \A l \in Loops \ (ls \ u) : x.loops[l] = p.loops[l]
  BY <1>2, LeaveFits
<1>4. Keeps(p, x)
  BY <1>2, LeaveKeeps
<1> HIDE DEF x
<1>5. /\ q \in Process /\ Aside(x, q) /\ Down(x, q)
      /\ \A l \in Loops \ u : q.loops[l] = x.loops[l]
      /\ \A l \in u : \/ q.loops[l] = NoLoop
                      \/ /\ q.loops[l].at = "closing"
                         /\ q.loops[l].aborted = x.loops[l].aborted
      /\ x.sup.timer => q.sup.timer
      /\ x.aborted \/ q.sup.timer \/ \A l \in u : q.loops[l].at = "closing"
  BY <1>2, <1>3, OnTransportClosedIs DEF Fit
<1> HIDE DEF q
<1>6. Fit(q)
  BY <1>2, <1>3, <1>5 DEF Fit, Aside, NoLoop
<1>7. Calm(p, q)
  BY <1>3, <1>5 DEF Calm, Down, Aside
<1>8. ASSUME u # {}, ~p.aborted, Manned(p)
      PROVE  Manned(q)
  <2>1. PICK l \in u : TRUE
    BY <1>8
  <2>2. ~p.loops[l].aborted /\ p.loops[l].at = "bursting" /\ l \in Live(p)
    BY <1>2, <2>1 DEF Wanted, Live
  <2>3. u = {l} /\ Live(p) = {l}
    <3>1. u \subseteq Live(p)
      BY <1>2 DEF Wanted, Live
    <3> QED
      BY <1>8, <2>1, <2>2, <3>1 DEF Manned
  <2>4. x.loops[l] = p.loops[l] /\ Manned(x) /\ ~x.aborted
    BY <1>2, <1>3, <1>4, <1>8, <2>1 DEF Keeps, Aside
  <2>5. l \in Live(x)
    BY <1>2, <2>1, <2>2, <2>4 DEF Live
  <2>6. x.rec.at = "idle" /\ Live(x) \subseteq {l}
    BY <2>4, <2>5 DEF Manned
  <2>7. \A k \in Loops \ {l} : q.loops[k] = x.loops[k]
    BY <1>5, <2>3
  <2>8. x \in Process /\ q \in Process /\ l \in Loops
    BY <1>2, <1>3, <1>5, <2>1 DEF Fit
  <2>9. \A k \in Loops \ {l} : x.loops[k].at = "waiting" => ~x.loops[k].aborted /\ ~x.sock.closed
    BY <1>3 DEF Fit
  <2>10. \/ q.loops[l] = NoLoop
         \/ q.loops[l].at = "closing" /\ q.loops[l].aborted = x.loops[l].aborted
    BY <1>5, <2>1
  <2>11. x.aborted \/ q.sup.timer \/ q.loops[l].at = "closing"
    BY <1>5, <2>1
  <2>12. ~x.loops[l].aborted /\ x.loops[l].at # "none"
    BY <2>2, <2>4
  <2> QED
    BY <1>5, <2>4, <2>6, <2>7, <2>8, <2>9, <2>10, <2>11, <2>12, TransportClosedKeeps
<1> QED
  BY <1>1, <1>3, <1>4, <1>6, <1>7, <1>8 DEF Keeps

LEMMA FreshIs ==
  /\ Fresh \in Process /\ Fresh.owner = "booting" /\ ~Fresh.aborted
  /\ Fresh.health.state = "HEALTHY" /\ ~Fresh.health.activating /\ Fresh.health.known = None
  /\ Fresh.rec.at = "idle"
  /\ \A l \in Loops : Fresh.loops[l].at = "none"
<1>1. 0 \in 0..MissedPongs /\ 0 \in 0..MaxFailures
  BY Bounds
<1>2. \A l \in Loops : Fresh.loops[l].at = "none"
  BY DEF Fresh, NoLoop
<1>3. Fresh \in Process
  BY <1>1 DEF Fresh, Process, NoRecovery, NoFailures, NoLoop, Stages, Owners, Phases
<1> QED
  BY <1>2, <1>3 DEF Fresh, NoRecovery

\* A process that starts, whatever rows it finds.
LEMMA FreshSound ==
  ASSUME m = Fresh, leftover \subseteq rows, rows \subseteq Rows
  PROVE  MarketInv
<1>1. Sound(m)
  BY FreshIs DEF Sound
<1>2. MannedSound
  BY FreshIs DEF MannedSound
<1>3. RowSound
  BY FreshIs DEF RowSound
<1>4. LeftoverSound
  BY FreshIs DEF LeftoverSound
<1> QED
  BY <1>1, <1>2, <1>3, <1>4 DEF MarketInv

LEMMA ActivationFailsKeeps ==
  ASSUME MarketInv, ActivationFails
  PROVE  MarketInv'
<1> DEFINE fatal == \/ Busy(m, "closing") # {} \/ m.ping = "failing"
                    \/ At("degrading") /\ m.rec.via = "boot"
           p == [m EXCEPT !.health.activating = FALSE]
           o == IF m.rec.at = "degrading" THEN [p EXCEPT !.rec = NoRecovery] ELSE p
           q == ResumeOwner(o)
           b == Busy(q, "bursting")
<1>0. m \in Process /\ Fit(m) /\ m.health.activating /\ m.owner # "booting" /\ UNCHANGED rows
  BY InvFit, BootIsFresh DEF ActivationFails
<1>1. /\ m' = (IF fatal THEN Fresh ELSE LoopsFailed(q, b))
      /\ astray' = (IF fatal THEN FALSE
                    ELSE astray \/ At("degrading") \/ \E l \in b : q.loops[l].aborted)
      /\ unheld' = ~fatal
      /\ leftover' = (IF fatal THEN rows ELSE leftover)
  BY DEF ActivationFails, At
<1> HIDE DEF fatal
<1>2. CASE fatal
  <2>1. Sound(m)'
    BY <1>1, <1>2, FreshIs DEF Sound
  <2>2. MannedSound'
    BY <1>1, <1>2, FreshIs DEF MannedSound
  <2>3. RowSound'
    BY <1>1, <1>2, FreshIs DEF RowSound
  <2>4. LeftoverSound'
    BY <1>0, <1>1, <1>2, FreshIs DEF MarketInv, LeftoverSound
  <2> QED
    BY <2>1, <2>2, <2>3, <2>4 DEF MarketInv
<1>3. CASE ~fatal
  <2>1. /\ p \in Process /\ p.loops = m.loops /\ p.sock = m.sock /\ p.sup = m.sup
        /\ p.rec = m.rec /\ p.owner = m.owner /\ p.aborted = m.aborted
        /\ p.health.state = m.health.state /\ p.health.known = m.health.known
    BY <1>0 DEF Process
  <2> HIDE DEF p
  <2>2. /\ o \in Process /\ o.loops = m.loops /\ o.sock = m.sock /\ o.sup = m.sup
        /\ o.owner = m.owner /\ o.aborted = m.aborted
        /\ o.health.state = m.health.state /\ o.health.known = m.health.known
        /\ IF m.rec.at = "degrading" THEN o.rec.at = "idle" /\ ~o.rec.aborted ELSE o.rec = m.rec
    BY <2>1, NoRecoveryIs
  <2> HIDE DEF o
  <2>3. OwnerGoesOn(o, q)
    BY <2>2, ResumeOwnerIs
  <2> HIDE DEF q
  <2>4. Fit(q)
    BY <1>0, <2>2, <2>3 DEF Fit, OwnerGoesOn
  <2>5. b \in SUBSET Loops /\ \A l \in b : q.loops[l].at = "bursting"
    BY DEF Busy
  <2> HIDE DEF b
  <2>6. ~q.aborted /\ Manned(q) => Manned(m')
    BY <1>1, <1>3, <2>4, <2>5, LoopsFailedKeep
  <2>7. Fit(m') /\ Calm(q, m') /\ Down(q, m')
    BY <1>1, <1>3, <2>4, <2>5, LoopsFailedKeep DEF Calm
  <2>8. /\ m'.owner = (IF m.owner = "reporting" THEN "reported" ELSE m.owner)
        /\ m'.aborted = m.aborted /\ m'.rec = o.rec
        /\ m'.health.state = "HEALTHY" => m.health.state = "HEALTHY"
        /\ m'.health.known = None
    BY <1>0, <2>2, <2>3, <2>7 DEF Calm, Down, OwnerGoesOn, MarketInv, RowSound
  <2>9. unheld' /\ leftover' = leftover
    BY <1>1, <1>3
  <2>10. Sound(m)'
    BY <1>0, <2>7, <2>8 DEF MarketInv, Sound, Fit
  <2>11. MannedSound'
    <3> SUFFICES ASSUME m'.owner = "serving", ~astray'
                 PROVE  Manned(m')
      BY DEF MannedSound
    <3>1. ~astray /\ m.rec.at # "degrading" /\ m.owner = "serving"
      BY <1>1, <1>3, <2>8 DEF At
    <3>2. Manned(m) /\ ~m.aborted
      BY <3>1 DEF MarketInv, MannedSound, Sound
    <3>3. Manned(q) /\ ~q.aborted
      <4>1. /\ q.loops = m.loops /\ q.rec = m.rec /\ q.sock = m.sock /\ q.sup = m.sup
            /\ q.aborted = m.aborted
        BY <2>2, <2>3, <3>1 DEF OwnerGoesOn
      <4>2. Live(q) = Live(m)
        BY <4>1 DEF Live
      <4>3. Manned(q)
        BY <3>2, <4>1, <4>2 DEF Manned
      <4> QED
        BY <3>2, <4>1, <4>3
    <3> QED
      BY <2>6, <3>3
  <2>12. RowSound'
    BY <2>8, <2>9 DEF RowSound
  <2>13. LeftoverSound'
    BY <1>0, <2>2, <2>8, <2>9 DEF MarketInv, LeftoverSound
  <2> QED
    BY <2>10, <2>11, <2>12, <2>13 DEF MarketInv
<1> QED
  BY <1>2, <1>3

\* An invariant failure of the engine takes a booting process down and leaves
\* any other with nobody on the market: it is astray.
LEMMA InvariantFailsKeeps ==
  ASSUME MarketInv, InvariantFails
  PROVE  MarketInv'
<1> DEFINE fatal == m.rec.via = "boot"
<1>0. m \in Process /\ Fit(m) /\ m.owner # "booting" /\ UNCHANGED rows
      /\ m.rec.at = "applying"
  BY InvFit, BootIsFresh DEF InvariantFails, At
<1>1. /\ m' = (IF fatal THEN Fresh ELSE [m EXCEPT !.rec = NoRecovery])
      /\ astray' = ~fatal /\ unheld' = (unheld /\ ~fatal)
      /\ leftover' = (IF fatal THEN rows ELSE leftover)
  BY DEF InvariantFails
<1> HIDE DEF fatal
<1>2. CASE fatal
  <2>1. Sound(m)'
    BY <1>1, <1>2, FreshIs DEF Sound
  <2>2. MannedSound'
    BY <1>1, <1>2, FreshIs DEF MannedSound
  <2>3. RowSound'
    BY <1>1, <1>2, FreshIs DEF RowSound
  <2>4. LeftoverSound'
    BY <1>0, <1>1, <1>2, FreshIs DEF MarketInv, LeftoverSound
  <2> QED
    BY <2>1, <2>2, <2>3, <2>4 DEF MarketInv
<1>3. CASE ~fatal
  <2>1. /\ m' \in Process /\ m'.loops = m.loops /\ m'.sock = m.sock
        /\ m'.owner = m.owner /\ m'.aborted = m.aborted /\ m'.health = m.health
        /\ m'.rec.at = "idle" /\ ~m'.rec.aborted
    <3>1. m' = [m EXCEPT !.rec = NoRecovery]
      BY <1>1, <1>3
    <3> QED
      BY <1>0, <3>1, NoRecoveryIs
  <2>2. /\ astray' /\ (unheld => unheld') /\ leftover' = leftover /\ m.rec.via # "boot"
    BY <1>1, <1>3, <1>0 DEF fatal
  <2>3. Sound(m)'
    BY <1>0, <2>1 DEF MarketInv, Sound
  <2>4. MannedSound'
    BY <2>2 DEF MannedSound
  <2>5. RowSound'
    BY <1>0, <2>1, <2>2 DEF MarketInv, RowSound
  <2>6. LeftoverSound'
    BY <1>0, <2>1, <2>2 DEF MarketInv, LeftoverSound
  <2> QED
    BY <2>3, <2>4, <2>5, <2>6 DEF MarketInv
<1> QED
  BY <1>2, <1>3

-----------------------------------------------------------------------------
(* Every step, and what follows from the invariant.                        *)

LEMMA InitSound == Init => MarketInv
<1> SUFFICES ASSUME Init
             PROVE  MarketInv
  OBVIOUS
<1>1. Rows \in SUBSET Nat /\ Rows # {}
  BY Bounds
<1>2. Min(Rows) \in Rows
  BY <1>1, MinIs
<1>3. m = Fresh /\ leftover \subseteq rows /\ rows \subseteq Rows
  BY <1>2 DEF Init
<1> QED
  BY <1>3, FreshSound

LEMMA StepKeeps == MarketInv /\ [Next]_vars => MarketInv'
<1> SUFFICES ASSUME MarketInv, [Next]_vars
             PROVE  MarketInv'
  OBVIOUS
<1>1. CASE Connect
  BY <1>1, ConnectKeeps
<1>2. CASE TimerFires
  BY <1>2, TimerFiresKeeps
<1>3. CASE Handshake \/ Opened \/ Declared \/ Snapshots \/ Settled \/ Applied
  BY <1>3, HandshakeKeeps, OpenedKeeps, WaitingKeeps, AppliedKeeps
<1>4. CASE Resolve \/ ResolveFails \/ Aborted
  BY <1>4, ResolveKeeps, AbortedKeeps
<1>5. CASE \/ TokenRefused \/ HandshakeFails \/ DeclarationFails \/ BlockFails
           \/ EngineFails \/ SocketLost
  BY <1>5, FailureKeeps
<1>6. CASE Activated \/ ActivationFails \/ InvariantFails
  BY <1>6, ActivatedKeeps, ActivationFailsKeeps, InvariantFailsKeeps
<1>7. CASE \E l \in Loops : Dispatch(l) \/ Dispatched(l) \/ Rejected(l)
  BY <1>7, DispatchKeeps, DispatchedKeeps, RejectedKeeps
<1>8. CASE ProviderCloses \/ Ping \/ Pong \/ PongTimeout
  BY <1>8, ProviderClosesKeeps, PingKeeps, PongKeeps, PongTimeoutKeeps
<1>9. CASE LoseLease \/ Report \/ AdminResolve
  BY <1>9, LoseLeaseKeeps, ReportKeeps, AdminResolveKeeps
<1>10. CASE UNCHANGED vars
  BY <1>10 DEF vars, MarketInv, Sound, MannedSound, Manned, Live, RowSound, LeftoverSound
<1> QED
  BY <1>1, <1>2, <1>3, <1>4, <1>5, <1>6, <1>7, <1>8, <1>9, <1>10 DEF Next

\* In every reachable state the process is of its types, a served market that is
\* not astray has a recovery, a retry or one live loop to go on with,
\* the row of its outage is there, and no other row outlives the recovery: what
\* connect(), the reconnect timer, the event loops, the keepalive, the incident
\* writes and the re-election of one market keep between them, in any order.
THEOREM MarketInvariant == Spec => []MarketInv
<1>1. Init => MarketInv
  BY InitSound
<1>2. MarketInv /\ [Next]_vars => MarketInv'
  BY StepKeeps
<1> QED
  BY <1>1, <1>2, PTL DEF Spec

\* The types of the process record and of the rows.
THEOREM TypesHold == Spec => []TypeOK
<1>1. MarketInv => TypeOK
  BY DEF MarketInv, Sound, Process, LeftoverSound, TypeOK
<1> QED
  BY <1>1, MarketInvariant, PTL

\* A market its process serves always has somebody on it: a recovery under way, a
\* retry pending or a loop on an open stream, whatever failed and however often,
\* since every path out of one of them (onTransportClosed, closeTransport, the
\* retry of a failed recovery, the exhausted hold) enters another. A market that
\* is astray is excepted: above all one whose recovery an invariant failure of
\* the engine ended, which #recoverOnce throws on and the supervisor swallows.
THEOREM MarketIsNeverAbandoned == Spec => []NeverAbandoned
<1>1. MarketInv => NeverAbandoned
  <2> SUFFICES ASSUME MarketInv, m.owner = "serving", ~astray
               PROVE  Recovering \/ m.sup.timer \/ \E l \in Loops : Alive(l)
    BY DEF NeverAbandoned
  <2>1. Manned(m) /\ Sound(m)
    BY DEF MarketInv, MannedSound
  <2>2. ASSUME NEW l \in Live(m)
        PROVE  l \in Loops /\ Alive(l)
    <3>1. l \in Loops /\ m.loops[l].at \in Stages \ {"none"}
      BY <2>1, <2>2 DEF Sound, Process, Live
    <3> QED
      BY <2>1, <3>1 DEF Alive, Stages, Sound
  <2> QED
    BY <2>1, <2>2 DEF Manned, Recovering
<1> QED
  BY <1>1, MarketInvariant, PTL

\* While the feed is down and its incident is written, the ACTIVE row of the
\* outage keeps placement closed: no failed retry, lost lease, second outage or
\* overlapping recovery lifts it, only the operator or a refusing database can.
THEOREM OutageIsHeld == Spec => []HeldWhileDown
<1>1. MarketInv => HeldWhileDown
  BY DEF MarketInv, RowSound, HeldWhileDown, Capabilities, MarketDenied
<1> QED
  BY <1>1, MarketInvariant, PTL

\* Once the feed is back and nobody recovers it, every ACTIVE row of the market
\* is one a failing database kept or whose write overlapped the resolution:
\* markHealthy forgets none of the rows the outages opened.
THEOREM NoIncidentIsOrphaned == Spec => []NoOrphanIncident
<1>1. MarketInv => NoOrphanIncident
  BY DEF MarketInv, LeftoverSound, NoOrphanIncident, Recovering
<1> QED
  BY <1>1, MarketInvariant, PTL
=============================================================================
