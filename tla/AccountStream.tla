--------------------------- MODULE AccountStream ---------------------------
(***************************************************************************)
(* How one session's account events travel: from the outbox table through  *)
(* the publisher of the serving process and its StreamHub to a socket, and *)
(* from there into the fill journal of the strategy runner, which resumes  *)
(* every connection from its committed cursor.                             *)
(*                                                                         *)
(* An event is its account sequence.  Sequences are taken under the        *)
(* session's row lock and the row is written in the same transaction, so   *)
(* events become visible in sequence order.  The steps are the awaits of   *)
(* the code: each database read or write, each frame the hub flushes and   *)
(* each event the runner takes up is an action of its own.                 *)
(***************************************************************************)
EXTENDS Naturals, SequencesExt

CONSTANTS
    Processes,          \* paper-api processes
    None,               \* no process
    MaxEvents,          \* bound on the account sequence
    BatchSize,          \* rows a poll claims
    OpeningQueueMax,    \* STREAM_OPENING_QUEUE_MAX
    PromoteMaxRounds,   \* STREAM_PROMOTE_MAX_ROUNDS
    BacklogMax,         \* StreamSession's maxQueue
    MaxResyncs,         \* bound on the runner's resyncs in flight
    MaxSkew,            \* places by which a row may overtake in created_at, id order
    FaultKinds,         \* what may go wrong in a run
    MaxFaults           \* how often, all kinds together

ASSUME BoundsAssumption ==
    /\ Processes # {} /\ None \notin Processes
    /\ MaxEvents \in Nat /\ BatchSize \in Nat \ {0}
    /\ OpeningQueueMax \in Nat /\ PromoteMaxRounds \in Nat
    /\ BacklogMax \in Nat /\ MaxResyncs \in Nat /\ MaxSkew \in Nat
    /\ FaultKinds \subseteq
          {"skew",      \* a row sorts before one committed earlier
           "publish",   \* a claim, a delivery or a mark throws
           "busy",      \* a delivery finds the socket's buffer not empty
           "process",   \* the processing of an event or a resync throws
           "day",       \* the retention period goes by
           "drop",      \* a connection is lost, the runner restarts
           "handover"}  \* the leader stops publishing
    /\ MaxFaults \in Nat

Events == 1 .. MaxEvents

VARIABLES
    latest,     \* account_sequences.account_sequence
    pending,    \* unpublished rows, in created_at, id order
    shelf,      \* published rows not pruned yet, in published_at order
    aged,       \* how many of them were published over 24 hours ago
    publisher,  \* OutboxPublisherLoop and the poll it has in flight
    conn,       \* the runner's connection: its hub entry and StreamSession
    cursor,     \* the journal's committed cursor, 0 when it has none
    applied,    \* events the journal has committed
    skipped,    \* events a RESYNC record jumped over
    handling,   \* the event #drain is processing, 0 for none
    failed,     \* events whose processing threw and which were not applied since
    demands,    \* resyncs waiting for the portfolio
    snapshots,  \* account sequences of portfolios read for a resync
    faults      \* the faults so far

outbox == <<latest, pending, shelf, aged>>
journal == <<cursor, applied, skipped>>
runner == <<journal, handling, failed, demands, snapshots>>
vars == <<outbox, publisher, conn, runner, faults>>

Retained == ToSet(pending) \cup ToSet(shelf)
Pruned == (1 .. latest) \ Retained

\* What q has at the places S, in ascending order: a place is the k-th if k of
\* them are not behind it.
InOrder(q, S) ==
    LET upTo(i) == {j \in S : q[j] < q[i] \/ (q[j] = q[i] /\ j <= i)} IN
    [k \in 1 .. Cardinality(S) |-> q[CHOOSE i \in S : Cardinality(upTo(i)) = k]]

Ascending(S) == InOrder([n \in S |-> n], S)

Fault(kind) ==
    /\ kind \in FaultKinds /\ BagCardinality(faults) < MaxFaults
    /\ faults' = faults (+) SetToBag({kind})

Idle == [phase |-> "IDLE", batch |-> <<>>]
NotConnected ==
    [stage |-> "NONE", process |-> None, after |-> 0,
     queue |-> <<>>, upTo |-> 0, told |-> {}, batch |-> <<>>, rounds |-> 0,
     backlog |-> <<>>, sent |-> <<>>, heard |-> 0]

\* A hub entry is OPENING from its registration until the promotion is over.
Opening == {"OLDEST", "LATEST", "REPLAY", "FLUSH"}

Init ==
    /\ latest = 0 /\ pending = <<>> /\ shelf = <<>> /\ aged = 0
    /\ \E p \in Processes :
          publisher = [q \in Processes |-> [running |-> q = p, poll |-> Idle]]
    /\ conn = NotConnected
    /\ cursor = 0 /\ applied = {} /\ skipped = {}
    /\ handling = 0 /\ failed = {} /\ demands = 0 /\ snapshots = {}
    /\ faults = EmptyBag

(***************************************************************************)
(* The outbox table.                                                       *)
(***************************************************************************)

\* A ledger transaction appends an event.  created_at is the transaction's
\* start and id is random, so the row may sort before rows committed earlier.
AppendOutboxEvent ==
    /\ latest < MaxEvents
    /\ latest' = latest + 1
    /\ \/ /\ pending' = Append(pending, latest + 1)
          /\ UNCHANGED faults
       \/ \E i \in 1 .. Len(pending) :
             /\ i + MaxSkew > Len(pending)
             /\ pending' = InsertAt(pending, i, latest + 1)
             /\ Fault("skew")
    /\ UNCHANGED <<shelf, aged, publisher, conn, runner>>

\* A day goes by.  It does not fit into a poll, the opening of a connection or
\* the processing of an event: time-outs end each of those within a minute.
DayPasses ==
    /\ \A p \in Processes : publisher[p].poll.phase = "IDLE"
    /\ conn.stage \notin Opening \cup {"UPGRADING"} /\ handling = 0
    /\ Fault("day")
    /\ aged' = Len(shelf)
    /\ UNCHANGED <<latest, pending, shelf, publisher, conn, runner>>

\* #maybePrune at the end of a poll deletes the rows published longest ago.
PrunePublishedOutbox ==
    \E n \in 1 .. aged :
        /\ shelf' = SubSeq(shelf, n + 1, Len(shelf))
        /\ aged' = aged - n

(***************************************************************************)
(* StreamSession and StreamHub: what delivering an event does to an entry. *)
(***************************************************************************)

\* A socket with bytes in its buffer has the event queued, and nothing takes
\* it from that queue.
SessionDeliver(c, n, busy) ==
    IF ~ busy THEN [c EXCEPT !.sent = Append(@, n)]
    ELSE IF Len(c.backlog) < BacklogMax
         THEN [c EXCEPT !.backlog = Append(@, n)]
         ELSE [c EXCEPT !.stage = "REFUSED"]

HubDeliverToLiveOnly(c, p, n, busy) ==
    IF c.process = p /\ c.stage = "LIVE" THEN SessionDeliver(c, n, busy) ELSE c

HubDeliver(c, p, n, busy) ==
    CASE c.process = p /\ c.stage = "LIVE" -> SessionDeliver(c, n, busy)
      [] c.process = p /\ c.stage \in Opening ->
            IF Len(c.queue) < OpeningQueueMax
            THEN [c EXCEPT !.queue = Append(@, n)]
            ELSE [c EXCEPT !.stage = "REFUSED"]
      [] OTHER -> c

\* The socket's buffer is only looked at by a session's deliver.
BufferState(busy) ==
    IF busy THEN Fault("busy") ELSE UNCHANGED faults

(***************************************************************************)
(* OutboxPublisherLoop and OutboxPublisher.pollOnce.                       *)
(***************************************************************************)
Poll(p) == publisher[p].poll
SetPoll(p, phase, batch) ==
    publisher' = [publisher EXCEPT ![p].poll = [phase |-> phase, batch |-> batch]]

\* #tick issues the claim while the loop is running.
Tick(p) ==
    /\ publisher[p].running /\ Poll(p).phase = "IDLE"
    /\ SetPoll(p, "CLAIMING", <<>>)
    /\ UNCHANGED <<outbox, conn, runner, faults>>

ClaimPendingOutbox(p) ==
    /\ Poll(p).phase = "CLAIMING"
    /\ SetPoll(p, "PUBLISHING",
               SubSeq(pending, 1, IF BatchSize < Len(pending)
                                  THEN BatchSize ELSE Len(pending)))
    /\ UNCHANGED <<outbox, conn, runner, faults>>

ClaimFails(p) ==
    /\ Poll(p).phase = "CLAIMING"
    /\ Fault("publish")
    /\ SetPoll(p, "IDLE", <<>>)
    /\ UNCHANGED <<outbox, conn, runner>>

\* publish: the payload is enriched and the hub delivers the event.
Publish(p) ==
    /\ Poll(p).phase = "PUBLISHING" /\ Poll(p).batch # <<>>
    /\ \E busy \in BOOLEAN :
          /\ busy => conn.process = p /\ conn.stage = "LIVE"
          /\ BufferState(busy)
          /\ conn' = HubDeliver(conn, p, Head(Poll(p).batch), busy)
    /\ SetPoll(p, "MARKING", Poll(p).batch)
    /\ UNCHANGED <<outbox, runner>>

\* A row that is still unpublished moves to the shelf.
MarkOutboxPublished(p) ==
    /\ Poll(p).phase = "MARKING"
    /\ LET n == Head(Poll(p).batch) IN
          IF n \in ToSet(pending)
          THEN \E i \in 1 .. Len(pending) :
                  /\ pending[i] = n
                  /\ pending' = RemoveAt(pending, i)
                  /\ shelf' = Append(shelf, n)
          ELSE UNCHANGED <<pending, shelf>>
    /\ SetPoll(p, "PUBLISHING", Tail(Poll(p).batch))
    /\ UNCHANGED <<latest, aged, conn, runner, faults>>

\* Whichever of the two throws, the row is counted as failed and the poll goes
\* on with the next one.
RowFails(p) ==
    /\ \/ Poll(p).phase = "PUBLISHING" /\ Poll(p).batch # <<>>
       \/ Poll(p).phase = "MARKING"
    /\ Fault("publish")
    /\ SetPoll(p, "PUBLISHING", Tail(Poll(p).batch))
    /\ UNCHANGED <<outbox, conn, runner>>

PollSettles(p) ==
    /\ Poll(p).phase = "PUBLISHING" /\ Poll(p).batch = <<>>
    /\ SetPoll(p, "IDLE", <<>>)
    /\ \/ PrunePublishedOutbox
       \/ UNCHANGED <<shelf, aged>>
    /\ UNCHANGED <<latest, pending, conn, runner, faults>>

\* leaveServing pauses the loop; the poll in flight runs to its end, and the
\* sockets stay as they are.
PauseScheduling(p) ==
    /\ publisher[p].running
    /\ Fault("handover")
    /\ publisher' = [publisher EXCEPT ![p].running = FALSE]
    /\ UNCHANGED <<outbox, conn, runner>>

\* enterServing starts the loop of the process that now leads.  The process
\* that led before has waited for its poll before it gave up its leases.
Start(p) ==
    /\ \A q \in Processes : ~ publisher[q].running /\ Poll(q).phase = "IDLE"
    /\ publisher' = [publisher EXCEPT ![p].running = TRUE]
    /\ UNCHANGED <<outbox, conn, runner, faults>>

(***************************************************************************)
(* Opening a connection: onUpgrade, onOpen, StreamSession.open and         *)
(* promoteToLive.                                                          *)
(***************************************************************************)

\* The stream gate is open while the process serves.
GateOpen(p) == publisher[p].running

\* The checks of onUpgrade before its first await; the runner's own request, a
\* well-formed one, only meets the gate.
AdmitsUpgrade(p) == GateOpen(p)

\* The runner connects from the cursor it has now; onUpgrade then waits for the
\* session to be authenticated.
Connect(p) ==
    /\ conn.stage = "NONE" /\ AdmitsUpgrade(p)
    /\ demands + Cardinality(snapshots) < MaxResyncs
    /\ conn' = [NotConnected EXCEPT !.stage = "UPGRADING", !.process = p,
                                    !.after = cursor]
    /\ UNCHANGED <<outbox, publisher, runner, faults>>

\* onOpen registers the entry before it reads anything.
Registered(c) == [c EXCEPT !.stage = "OLDEST"]

\* Once the session is known the gate is asked again: the process may have lost
\* its leases meanwhile, and then answers 503.
CompleteUpgrade ==
    /\ conn.stage = "UPGRADING"
    /\ conn' = IF GateOpen(conn.process) THEN Registered(conn) ELSE NotConnected
    /\ UNCHANGED <<outbox, publisher, runner, faults>>

\* A process that stops for good, which follows leaveServing, detaches the
\* upgrade handler and closes every socket.
CloseAll(p) ==
    /\ conn.process = p /\ ~ publisher[p].running
    /\ conn' = NotConnected
    /\ UNCHANGED <<outbox, publisher, runner, faults>>

\* A connection without a cursor is never refused, nor one to an empty outbox.
OutboxGap(after) ==
    /\ after # 0 /\ Retained # {}
    /\ \A n \in Retained : after + 1 < n

ReadOldest ==
    /\ conn.stage = "OLDEST"
    /\ conn' = [conn EXCEPT !.stage = IF OutboxGap(conn.after)
                                      THEN "REFUSED" ELSE "LATEST"]
    /\ UNCHANGED <<outbox, publisher, runner, faults>>

ReadLatest ==
    /\ conn.stage = "LATEST"
    /\ conn' = [conn EXCEPT !.stage = "REPLAY", !.upTo = latest]
    /\ UNCHANGED <<outbox, publisher, runner, faults>>

RowsAfterNext(after) == {n \in Retained : n > after + 1}

RowsAfter(after) == {n \in Retained : n > after}

Replay ==
    /\ conn.stage = "REPLAY"
    /\ LET rows == RowsAfter(conn.after) IN
          conn' = [conn EXCEPT
                     !.stage = "FLUSH", !.told = rows, !.sent = Ascending(rows),
                     !.upTo = IF rows = {} THEN @ ELSE Last(Ascending(rows))]
    /\ UNCHANGED <<outbox, publisher, runner, faults>>

\* What a round keeps of the queued events, in order: those not replayed and
\* not flushed by an earlier round.  An event queued twice is kept twice.
Flushable(c) ==
    InOrder(c.queue, {i \in DOMAIN c.queue : c.queue[i] > c.upTo /\ c.queue[i] \notin c.told})

FlushRound ==
    /\ conn.stage = "FLUSH" /\ conn.batch = <<>>
    /\ conn.rounds <= PromoteMaxRounds /\ conn.queue # <<>>
    /\ conn' = [conn EXCEPT !.batch = Flushable(conn),
                            !.queue = <<>>, !.rounds = @ + 1]
    /\ UNCHANGED <<outbox, publisher, runner, faults>>

FlushOne ==
    /\ conn.stage = "FLUSH" /\ conn.batch # <<>>
    /\ \E busy \in BOOLEAN :
          /\ BufferState(busy)
          /\ conn' = SessionDeliver([conn EXCEPT !.batch = Tail(@),
                                         !.told = @ \cup {Head(conn.batch)}],
                                    Head(conn.batch), busy)
    /\ UNCHANGED <<outbox, publisher, runner>>

TooManyRounds ==
    /\ conn.stage = "FLUSH" /\ conn.batch = <<>>
    /\ conn.rounds > PromoteMaxRounds
    /\ conn' = [conn EXCEPT !.stage = "REFUSED"]
    /\ UNCHANGED <<outbox, publisher, runner, faults>>

\* The queue is seen empty and the state changed in one synchronous section.
GoLive ==
    /\ conn.stage = "FLUSH" /\ conn.batch = <<>>
    /\ conn.rounds <= PromoteMaxRounds /\ conn.queue = <<>>
    /\ conn' = [conn EXCEPT !.stage = "LIVE"]
    /\ UNCHANGED <<outbox, publisher, runner, faults>>

(***************************************************************************)
(* The runner: StreamClient, FillProcessor and FillJournal.                *)
(***************************************************************************)

\* The event frames of this connection that #drain has not come to yet.
Received == SubSeq(conn.sent, conn.heard + 1, Len(conn.sent))

\* #drain takes up the next event; one at or below the cursor is a replay.
TakeEvent ==
    /\ handling = 0 /\ Received # <<>>
    /\ conn' = [conn EXCEPT !.heard = @ + 1]
    /\ LET n == Head(Received) IN
          handling' = IF n > cursor THEN n ELSE 0
    /\ UNCHANGED <<outbox, publisher, journal, failed, demands, snapshots, faults>>

CommitRegardless ==
    /\ handling # 0
    /\ cursor' = handling
    /\ applied' = applied \cup {handling}
    /\ failed' = failed \ {handling}
    /\ handling' = 0
    /\ UNCHANGED <<outbox, publisher, conn, skipped, demands, snapshots, faults>>

\* The journal refuses a commit that does not advance the cursor, which a
\* resync may have moved since the event was taken up.
Commit ==
    /\ handling # 0
    /\ IF handling > cursor
       THEN /\ cursor' = handling
            /\ applied' = applied \cup {handling}
            /\ failed' = failed \ {handling}
       ELSE UNCHANGED <<cursor, applied, failed>>
    /\ handling' = 0
    /\ UNCHANGED <<outbox, publisher, conn, skipped, demands, snapshots, faults>>

\* Resolving the fills throws; #drain reports it and takes up the next event.
ProcessFails ==
    /\ handling # 0
    /\ Fault("process")
    /\ failed' = failed \cup {handling}
    /\ handling' = 0
    /\ UNCHANGED <<outbox, publisher, conn, journal, demands, snapshots>>

HearNothing ==
    /\ conn.stage = "REFUSED"
    /\ conn' = NotConnected
    /\ UNCHANGED <<outbox, publisher, runner, faults>>

\* resync-required and the close behind it: the resync starts, the queue of the
\* dead connection is dropped and a reconnect is scheduled.
HearRefusal ==
    /\ conn.stage = "REFUSED"
    /\ demands' = demands + 1
    /\ conn' = NotConnected
    /\ UNCHANGED <<outbox, publisher, journal, handling, failed, snapshots, faults>>

ReadPortfolio ==
    /\ demands > 0
    /\ demands' = demands - 1
    /\ snapshots' = snapshots \cup {latest}
    /\ UNCHANGED <<outbox, publisher, conn, journal, handling, failed, faults>>

ResyncFails ==
    /\ demands > 0
    /\ Fault("process")
    /\ demands' = demands - 1
    /\ UNCHANGED <<outbox, publisher, conn, journal, handling, failed, snapshots>>

\* The cursor jumps to the ledger's sequence unless it is there already.
Resync(s) ==
    /\ s \in snapshots
    /\ snapshots' = snapshots \ {s}
    /\ IF s > cursor
       THEN /\ cursor' = s
            /\ skipped' = skipped \cup (cursor + 1 .. s)
       ELSE UNCHANGED <<cursor, skipped>>
    /\ UNCHANGED <<outbox, publisher, conn, applied, handling, failed, demands, faults>>

\* A connection ends before its time: the network, an upgrade refused, a failed
\* read while it was opening, the runner's silence timer or a crash of the process.
ConnectionLost ==
    /\ conn.stage # "NONE"
    /\ Fault("drop")
    /\ conn' = NotConnected
    /\ UNCHANGED <<outbox, publisher, runner>>

\* The runner crashes and starts again from its journal.
RunnerRestarts ==
    /\ Fault("drop")
    /\ conn' = NotConnected
    /\ handling' = 0 /\ demands' = 0 /\ snapshots' = {}
    /\ UNCHANGED <<outbox, publisher, journal, failed>>

PublisherStep(p) ==
    \/ Tick(p) \/ ClaimPendingOutbox(p) \/ Publish(p)
    \/ MarkOutboxPublished(p) \/ PollSettles(p)

OpeningStep ==
    \/ CompleteUpgrade \/ ReadOldest \/ ReadLatest \/ Replay \/ FlushRound \/ FlushOne
    \/ TooManyRounds \/ GoLive

Next ==
    \/ AppendOutboxEvent \/ DayPasses
    \/ \E p \in Processes :
          \/ PublisherStep(p) \/ ClaimFails(p) \/ RowFails(p)
          \/ PauseScheduling(p) \/ Start(p) \/ Connect(p) \/ CloseAll(p)
    \/ OpeningStep
    \/ TakeEvent \/ Commit \/ ProcessFails
    \/ HearRefusal \/ ReadPortfolio \/ ResyncFails
    \/ \E s \in 0 .. MaxEvents : Resync(s)
    \/ ConnectionLost \/ RunnerRestarts

Spec == Init /\ [][Next]_vars

\* Timers fire and promises settle: the serving process keeps polling, an
\* opening goes on to its end, and the runner works through what it received,
\* resyncs and reconnects.
Fairness ==
    /\ \A p \in Processes :
          WF_vars(PublisherStep(p)) /\ WF_vars(Start(p)) /\ WF_vars(Connect(p))
    /\ WF_vars(OpeningStep)
    /\ WF_vars(TakeEvent) /\ WF_vars(Commit)
    /\ WF_vars(HearRefusal) /\ WF_vars(ReadPortfolio)
    /\ \A s \in 0 .. MaxEvents : WF_vars(Resync(s))

FairSpec == Spec /\ Fairness

-----------------------------------------------------------------------------

\* The type invariant, with the limits the code enforces on its queues and what
\* a cursor is: the last event applied or jumped over.
TypeOK ==
    /\ latest \in 0 .. MaxEvents
    /\ pending \in Seq(1 .. latest) /\ shelf \in Seq(1 .. latest)
    /\ aged \in 0 .. Len(shelf)
    /\ \A p \in Processes :
          /\ publisher[p].running \in BOOLEAN
          /\ Poll(p).phase \in {"IDLE", "CLAIMING", "PUBLISHING", "MARKING"}
          /\ Poll(p).batch \in Seq(1 .. latest)
          /\ Len(Poll(p).batch) <= BatchSize
    /\ conn.stage \in Opening \cup {"NONE", "UPGRADING", "LIVE", "REFUSED"}
    /\ conn.process \in Processes \cup {None}
    /\ Len(conn.queue) <= OpeningQueueMax
    /\ conn.rounds <= PromoteMaxRounds + 1
    /\ Len(conn.backlog) <= BacklogMax
    /\ conn.heard <= Len(conn.sent)
    /\ applied \cup skipped \subseteq 1 .. latest
    /\ cursor = 0 \/ cursor \in applied \cup skipped
    /\ handling \in 0 .. latest
    /\ demands + Cardinality(snapshots) <= MaxResyncs
    /\ BagToSet(faults) \subseteq FaultKinds

Reached(c) == ToSet(c.sent) \cup ToSet(c.queue) \cup ToSet(c.batch)
                            \cup ToSet(c.backlog)

\* The replay barrier loses nothing and repeats nothing.  What is marked
\* published, an open connection will replay or has been handed, whatever poll,
\* failed mark, prune or overflow comes between its registration and LIVE
\* (sockets do not move when the leadership does).  And until it is LIVE it is not
\* sent an event again once something else followed it, though a row whose
\* mark failed is delivered again and may be queued while it is replayed.
BarrierHolds ==
    /\ conn.stage \in {"FLUSH", "LIVE"} /\ ~ BagIn("handover", faults) =>
          \A n \in ToSet(shelf) : n > conn.after => n \in Reached(conn)
    /\ conn.stage = "FLUSH" =>
          \A i, j \in 1 .. Len(conn.sent) :
              i < j /\ conn.sent[i] = conn.sent[j] =>
                  \A k \in i .. j : conn.sent[k] = conn.sent[i]

\* The runner passes an event only after it committed it, wrote a RESYNC record
\* over it or reported that its processing failed, so its profit figures are
\* never silently wrong: whatever connections, restarts, failures, overflows
\* and resyncs overlap, as long as the publisher delivers in order.
NoSilentLoss ==
    BagToSet(faults) \subseteq {"drop", "process"} =>
        \A n \in 1 .. cursor : n \in applied \cup skipped \cup failed

\* No event is both written off by a resync and applied, though an event may
\* be in the middle of its processing while a resync commits.
AccountedOnce == applied \cap skipped = {}

\* At-least-once delivery: every committed event is eventually behind the
\* runner's cursor, unless it grew too old for the outbox first.
CatchesUp ==
    \A n \in Events : n \in Retained ~> cursor >= n \/ n \in Pruned
=============================================================================
