----------------------------- MODULE MarketFeed -----------------------------
(***************************************************************************)
(* The strategy runner's market feed: the quote stream, the REST reads     *)
(* that re-baseline a connection and refresh a quiet instrument, the one   *)
(* QuoteTicker both paths share, and the queue a cycle drains into the     *)
(* strategies (feed/market-feed.ts, feed/quote-ticker.ts,                  *)
(* feed/rest-quote-feed.ts, feed/stream-client.ts, the drain and the       *)
(* persistence of runner/supervisor.ts).                                   *)
(*                                                                         *)
(* A REST read visits the instruments one after another and hands its      *)
(* ticks to the queue only when the whole pass is over; stream frames are  *)
(* queued as they arrive.  Two passes may be under way at once: the drain  *)
(* of a cycle and the re-baseline of a new connection.                     *)
(*                                                                         *)
(* A projection is abstracted to its recovery epoch, its version, the      *)
(* event (move) that last changed the instrument, and whether it has a     *)
(* price and states a book.  The version is the market's, not the          *)
(* instrument's: a frame carries that of its own event, a REST answer the  *)
(* market's current one.  Clock readings are abstracted to an age: 0       *)
(* recent, 1 older than half maxQuoteAgeMs, 2 older than gapAfterMs.       *)
(***************************************************************************)
EXTENDS Integers, Sequences, FiniteSets, FiniteSetsExt, Functions

CONSTANTS
    Instruments,    \* the subscribed instruments, numbered in configuration order
    None,           \* no cursor, no book, no answer
    MaxVersion,     \* bound: versions of the first epoch, one fewer in each later one
    BookMoves,      \* bound: the versions whose event may be a book; any may be a trade
    MaxEpoch,       \* bound: recovery epochs
    MaxLosses       \* bound: failed reads, lost sockets, restarts

\* What the ticker keeps of an instrument it has observed.
Cursors == [epoch : Nat, version : Nat]

ASSUME FeedAssumption ==
    /\ Instruments \subseteq Nat
    /\ None \notin Cursors
    /\ {MaxVersion, MaxEpoch, MaxLosses} \subseteq Nat

Passes == {"drain", "rebaseline"}

VARIABLES
    epoch,      \* the market's recovery epoch
    version,    \* the market's current version: every event of any instrument counts
    slot,       \* the API's slot of each instrument: the move it shows (0: empty) and its book
    wire,       \* quote frames in flight on the current socket
    connected,  \* a ready socket
    passes,     \* the REST passes under way
    cursor,     \* the ticker's cursor of each instrument
    age,        \* how long ago the instrument was observed
    book,       \* the epoch of the book the ticker holds, or None
    queue,      \* ticks waiting for a drain
    handed,     \* the ticks the strategies were handed in this life
    saved,      \* the runtime cell: the cursors a restart reads
    applying,   \* a cycle is handing its ticks to the strategies
    session,    \* SessionClient.#current is not null
    losses

feedVars == <<epoch, version, slot, wire, connected, passes, cursor, age, book, queue, handed,
          saved, applying, session, losses>>

Idle == [todo |-> {}, answer |-> None, ticks |-> <<>>]

FeedInit ==
    /\ epoch = 0
    /\ version = 0
    /\ slot = [i \in Instruments |-> [move |-> 0, booked |-> FALSE]]
    /\ wire = <<>>
    /\ connected = FALSE
    /\ passes = [p \in Passes |-> Idle]
    /\ cursor = [i \in Instruments |-> None]
    /\ age = [i \in Instruments |-> 0]
    /\ book = [i \in Instruments |-> None]
    /\ queue = <<>>
    /\ handed = <<>>
    /\ saved = [i \in Instruments |-> None]
    /\ applying = FALSE
    /\ session = TRUE
    /\ losses = 0

Fail == losses < MaxLosses /\ losses' = losses + 1

-----------------------------------------------------------------------------
(* QuoteTicker *)

\* Mutant: the version already seen counts as an advance.
AdvancesOrEquals(next, previous) ==
    \/ next.epoch > previous.epoch
    \/ next.epoch = previous.epoch /\ next.version >= previous.version

Advances(next, previous) ==
    \/ next.epoch > previous.epoch
    \/ next.epoch = previous.epoch /\ next.version > previous.version

Seen(i, payload) == cursor[i] # None /\ ~Advances(payload, cursor[i])

GapBefore(i, payload) ==
    cursor[i] = None \/ cursor[i].epoch # payload.epoch \/ age[i] = 2

\* A payload that states a book replaces the held one; a gap wipes it first.
Merge(i, payload, gap) ==
    IF payload.booked THEN payload.epoch ELSE IF gap THEN None ELSE book[i]

\* The tick an observation makes: one in a sequence, or none when the slot is
\* empty or the observation is not new.
TickOf(i, payload) ==
    IF payload.move = 0 \/ Seen(i, payload) THEN <<>>
    ELSE LET gap == GapBefore(i, payload) IN
         <<[of |-> i, epoch |-> payload.epoch, version |-> payload.version,
            gap |-> gap, book |-> Merge(i, payload, gap)]>>

\* A payload without a price touches nothing; one already seen only says the
\* instrument was observed.
Observe(i, payload) ==
    IF payload.move = 0 THEN UNCHANGED <<cursor, age, book>>
    ELSE /\ age' = [age EXCEPT ![i] = 0]
         /\ IF Seen(i, payload) THEN UNCHANGED <<cursor, book>>
            ELSE /\ cursor' = [cursor EXCEPT ![i] =
                                  [epoch |-> payload.epoch, version |-> payload.version]]
                 /\ book' = [book EXCEPT ![i] = Merge(i, payload, GapBefore(i, payload))]

-----------------------------------------------------------------------------
(* The paper API, as the feed sees it *)

\* What the API says of a slot at a market version.
ProjectQuote(state, v) ==
    [epoch |-> epoch, version |-> v, move |-> state.move, booked |-> state.booked]

\* #publishQuote: the frame is the projection a REST answer is.
PublishQuote(i, state, v) == [of |-> i, payload |-> ProjectQuote(state, v)]

\* A trade or a book of one instrument: the market's next version, sent to the
\* socket as a frame.
Publish(i, booked) ==
    /\ version + epoch < MaxVersion
    /\ booked => version + 1 \in BookMoves
    /\ version' = version + 1
    /\ slot' = [slot EXCEPT ![i] = [move |-> version', booked |-> @.booked \/ booked]]
    /\ wire' = IF connected
               THEN Append(wire, PublishQuote(i, slot'[i], version'))
               ELSE wire
    /\ UNCHANGED <<epoch, connected, passes, cursor, age, book, queue,
                   handed, saved, applying, session, losses>>

\* A recovery empties every slot and begins the versions anew.
BeginEpoch(e) ==
    /\ epoch' = e
    /\ version' = 0
    /\ slot' = [i \in Instruments |-> [move |-> 0, booked |-> FALSE]]
    /\ UNCHANGED <<wire, connected, passes, cursor, age, book, queue, handed, saved,
                   applying, session>>

\* The epoch is the lease's: a new leader starts the next one, a leader that
\* lost its provider recovers within its own, where the feed's cursors pass
\* over everything until the versions have caught up.
Recover ==
    \/ epoch < MaxEpoch /\ BeginEpoch(epoch + 1) /\ UNCHANGED losses
    \/ Fail /\ BeginEpoch(epoch)

\* Time passes without an observation.
Elapse ==
    /\ \E i \in Instruments : cursor[i] # None /\ age[i] < 2
    /\ age' = [i \in Instruments |-> IF cursor[i] = None THEN 0
                                       ELSE IF age[i] = 2 THEN 2 ELSE age[i] + 1]
    /\ UNCHANGED <<epoch, version, slot, wire, connected, passes,
                   cursor, book, queue, handed, saved, applying, session, losses>>

-----------------------------------------------------------------------------
(* The stream *)

\* `ready` on a new socket, for which there must be a session: every subscribed
\* instrument is read once.  A re-baseline still under way from an earlier socket
\* is not stopped; a second concurrent one is left out.
Connect ==
    /\ session /\ ~connected /\ passes["rebaseline"] = Idle
    /\ connected' = TRUE
    /\ passes' = [passes EXCEPT !["rebaseline"] = [Idle EXCEPT !.todo = Instruments]]
    /\ UNCHANGED <<epoch, version, slot, wire, cursor, age, book,
                   queue, handed, saved, applying, session, losses>>

\* The socket closes or stops answering: its handlers are unwired.
Detach ==
    /\ connected /\ Fail
    /\ connected' = FALSE
    /\ wire' = <<>>
    /\ UNCHANGED <<epoch, version, slot, passes, cursor, age, book, queue, handed, saved,
                   applying, session>>

ObserveFrame ==
    /\ wire # <<>>
    /\ LET frame == Head(wire) IN
       /\ queue' = queue \o TickOf(frame.of, frame.payload)
       /\ Observe(frame.of, frame.payload)
    /\ wire' = Tail(wire)
    /\ UNCHANGED <<epoch, version, slot, connected, passes, handed, saved, applying,
                   session, losses>>

-----------------------------------------------------------------------------
(* REST reads *)

ReadAnswered(p) ==
    /\ passes[p].todo # {} /\ passes[p].answer = None
    /\ passes' = [passes EXCEPT ![p].answer = ProjectQuote(slot[Min(passes[p].todo)], version)]
    /\ UNCHANGED <<epoch, version, slot, wire, connected, cursor,
                   age, book, queue, handed, saved, applying, session, losses>>

\* A pass goes on with its other instruments.  With none left, the same step
\* hands its ticks over: a re-baseline's to the queue, a drain's behind the
\* queue and all of it to the strategies, one tick after another.
Continue(p, todo, made) ==
    IF todo # {}
    THEN /\ passes' = [passes EXCEPT ![p] = [todo |-> todo, answer |-> None, ticks |-> made]]
         /\ UNCHANGED <<queue, handed, applying>>
    ELSE /\ passes' = [passes EXCEPT ![p] = Idle]
         /\ IF p = "rebaseline"
            THEN queue' = queue \o made /\ UNCHANGED <<handed, applying>>
            ELSE /\ handed' = handed \o queue \o made
                 /\ queue' = <<>>
                 /\ applying' = TRUE

\* The answer reaches the ticker; the tick stays with the pass.
ReadObserved(p) ==
    /\ passes[p].answer # None
    /\ LET i == Min(passes[p].todo) IN
       /\ Continue(p, passes[p].todo \ {i}, passes[p].ticks \o TickOf(i, passes[p].answer))
       /\ Observe(i, passes[p].answer)
    /\ UNCHANGED <<epoch, version, slot, wire, connected, saved, session, losses>>

\* A read that fails is reported, observes nothing and does not end the pass.
ReadFailed(p) ==
    /\ passes[p].todo # {} /\ passes[p].answer = None /\ Fail
    /\ Continue(p, passes[p].todo \ {Min(passes[p].todo)}, passes[p].ticks)
    /\ UNCHANGED <<epoch, version, slot, wire, connected, cursor, age, book, saved, session>>

-----------------------------------------------------------------------------
(* The cycle *)

\* Mutant: only an instrument never observed is read.
StaleIfUnseen(i) == cursor[i] = None

\* Never observed, or observed too long ago for the risk gate's freshness rule.
Stale(i) == cursor[i] = None \/ age[i] >= 1

\* A cycle that got the portfolio reads what is stale before it drains; with
\* nothing stale it drains at once.  Without a session every cycle throws.
BeginDrain ==
    /\ session /\ passes["drain"] = Idle /\ ~applying
    /\ Continue("drain", {i \in Instruments : Stale(i)}, <<>>)
    /\ UNCHANGED <<epoch, version, slot, wire, connected, cursor, age, book, saved,
                   session, losses>>

\* The end of the cycle saves the ticker's cursors: those of the ticks handed
\* over, and of any frame observed while they were being acted on.
Persist ==
    /\ applying
    /\ applying' = FALSE
    /\ saved' = cursor
    /\ UNCHANGED <<epoch, version, slot, wire, connected, passes,
                   cursor, age, book, queue, handed, session, losses>>

\* A re-establishment that the API refused or that was not answered: the session
\* was cleared first, and nothing but a start creates one without one.
LoseSession ==
    /\ session /\ Fail
    /\ session' = FALSE
    /\ UNCHANGED <<epoch, version, slot, wire, connected, passes, cursor, age, book,
                   queue, handed, saved, applying>>

\* A new process: a session, the saved cursors, no book, an empty queue, no socket.
Restart ==
    /\ Fail
    /\ cursor' = saved
    /\ book' = [i \in Instruments |-> None]
    /\ connected' = FALSE
    /\ wire' = <<>>
    /\ passes' = [p \in Passes |-> Idle]
    /\ queue' = <<>>
    /\ handed' = <<>>
    /\ applying' = FALSE
    /\ session' = TRUE
    /\ UNCHANGED <<epoch, version, slot, age, saved>>

FeedNext ==
    \/ \E i \in Instruments, booked \in BOOLEAN : Publish(i, booked)
    \/ \E p \in Passes : ReadAnswered(p) \/ ReadObserved(p) \/ ReadFailed(p)
    \/ Elapse \/ Recover \/ Connect \/ Detach \/ ObserveFrame
    \/ BeginDrain \/ Persist \/ LoseSession \/ Restart

\* A pass and a frame make progress.  A socket is retried for ever, and the loop
\* begins the next cycle whatever the last one did: both go on while there is a
\* session, the portfolio being answered in the end like any read.
Fairness ==
    /\ \A p \in Passes : WF_feedVars(ReadAnswered(p)) /\ WF_feedVars(ReadObserved(p))
    /\ WF_feedVars(ObserveFrame) /\ WF_feedVars(Connect)
    /\ WF_feedVars(BeginDrain) /\ WF_feedVars(Persist)

FeedSpec == FeedInit /\ [][FeedNext]_feedVars
FairSpec == FeedSpec /\ Fairness

-----------------------------------------------------------------------------
(* Properties *)

\* Every tick made in this life, wherever it is now.
Made == handed \o queue \o passes["drain"].ticks \o passes["rebaseline"].ticks

\* A version of the market becomes at most one tick of an instrument, whichever
\* of the stream, the re-baseline and the refresh brings it first and whatever
\* is still in flight: the two paths share one cursor.  And a tick never
\* carries the touch of an earlier recovery epoch: the book held from before a
\* recovery, or by an earlier process, is wiped before the first tick of the
\* new epoch is merged into it.
TicksAreNew ==
    /\ \A m, n \in DOMAIN Made :
          /\ Made[m].of = Made[n].of
          /\ Made[m].epoch = Made[n].epoch
          /\ Made[m].version = Made[n].version
          => m = n
    /\ \A n \in DOMAIN Made : Made[n].book \in {None, Made[n].epoch}

\* An instrument the API can quote and that has gone unobserved is observed
\* again, although passes begun earlier do not read it, reads fail and the
\* socket is lost (drain reads what #stale names before it hands over ticks),
\* unless the runner has lost its session: then no cycle gets as far as a drain
\* and no socket is opened until a restart.
KeepsFresh ==
    \A i \in Instruments :
        slot[i].move # 0 ~>
            \/ slot[i].move = 0
            \/ ~session
            \/ cursor[i] # None /\ age[i] = 0
=============================================================================
