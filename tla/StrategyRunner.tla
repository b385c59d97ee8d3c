--------------------------- MODULE StrategyRunner ---------------------------
(***************************************************************************)
(* The orders of one strategy runner: decisions written ahead of the       *)
(* requests that carry them out, the gateway's attempts, retries and       *)
(* session renewals, the kill switch with its latch file and its cancel    *)
(* sweeps, and what a restart makes of the files of an earlier life.       *)
(*                                                                         *)
(* The runner is one event loop.  A thread below is a chain of awaits: the *)
(* supervisor's cycle ("main"), the stream client's event queue ("drain")  *)
(* and the sweeps.  Code between two awaits is one action.  The ledger on  *)
(* the other side is external: orders by session, replayed by key.         *)
(***************************************************************************)
EXTENDS Naturals, SequencesExt

CONSTANTS
    Resweeps,       \* sweeps that may run beside the first one
    MaxAttempts,    \* MAX_SUBMIT_ATTEMPTS
    TripAfter,      \* KILL_SWITCH_AFTER_FAILED_ATTEMPTS
    MaxPasses,      \* MAX_SWEEP_PASSES
    MaxTicks,       \* bound on the decisions taken on ticks
    MaxEvents,      \* bound on the fill events of the account
    MaxDaily,       \* entries the risk gate allows in a day
    FaultKinds,     \* what may go wrong in a run
    MaxFaults       \* how often, all kinds together

ASSUME RunnerAssumption ==
    /\ Resweeps # {} /\ Resweeps \cap {"main", "drain", "sweep"} = {}
    /\ MaxAttempts \in Nat \ {0} /\ TripAfter \in Nat \ {0}
    /\ MaxPasses \in Nat \ {0} /\ MaxTicks \in Nat /\ MaxEvents \in Nat
    /\ MaxDaily \in Nat
    /\ FaultKinds \subseteq
          {"request",   \* a request is lost, refused for now or answered 5xx
           "answer",    \* the ledger did it and the answer is lost
           "late",      \* the client gives up on a request that is still under way
           "verdict",   \* the ledger rejects the order
           "expiry",    \* the session expires
           "create",    \* no session can be created
           "portfolio", \* the portfolio cannot be read
           "slow",      \* a sweep waits 5 seconds for the gateway in vain
           "write",     \* the latch file cannot be written
           "wedge",     \* an event cannot be resolved, or replays differently
           "loss",      \* the realised loss reaches its limit
           "operator",  \* an operator writes the kill-switch file
           "clear",     \* an operator deletes it
           "crash"}     \* the process dies
    /\ MaxFaults \in Nat

VARIABLES
    \* files
    decided,    \* decisions.ndjson: decision ids in order
    settled,    \* submissions.ndjson: decisions with an outcome
    unsent,     \* those halted with attempts = 0
    cursor,     \* fills.ndjson: the last committed event
    cell,       \* session.json: the sessions replaced, then the current one
    file,       \* kill-switch.json: who wrote it, and which engagement
    \* memory
    phase,      \* DOWN, WAITING, STARTING, RECOVERING, RESUMING, RUNNING
    current,    \* SessionClient.#current, <<>> for null
    engagement, \* KillSwitch.#engagement, 0 for null
    persisted,  \* KillSwitch.#persisted
    resuming,   \* KillSwitch.#pendingResume
    failures,   \* OrderGateway.#consecutiveFailures
    thread,     \* the chains of awaits
    armed,      \* a sweep whose wait ran out left another one behind
    swept,      \* the last sweep to end found no resting order
    \* the ledger and the world
    sessions,   \* sessions created
    expired,    \* those no longer valid
    orders,     \* orders placed: session, decision, idempotency key
    open,       \* those still resting
    late,       \* place requests that may still arrive
    stray,      \* orders of requests that arrived so
    events,     \* fill events of the account
    ticks,      \* decisions taken on ticks
    engagements,\* engagements so far
    faults      \* the faults so far

files == <<decided, settled, unsent, cursor, cell, file>>
memory == <<phase, current, engagement, persisted, resuming,
            failures, thread, armed, swept>>
ledger == <<sessions, expired, orders, open, late, stray, events>>
world == <<ledger, ticks, engagements, faults>>
vars == <<files, memory, world>>

Sweepers == {"sweep"} \cup Resweeps
Threads == {"main", "drain"} \cup Sweepers

Fault(kind) ==
    /\ kind \in FaultKinds /\ BagCardinality(faults) < MaxFaults
    /\ faults' = faults (+) SetToBag({kind})

(***************************************************************************)
(* Decisions.                                                              *)
(***************************************************************************)

\* A tick's decision has an id of its own, a fill's one derived from the
\* account sequence, a sweep's one from the engagement and the order.
TickDecision(n) == <<"tick", n>>
FillDecisionId(e) == <<"fill", e>>
KillDecision(g, o) == <<"kill", g, o>>

IsPlace(d) == d[1] # "kill"

\* A key per attempt would not be replayed by the ledger.
DeriveKeyPerAttempt(d, tries) == <<d, tries>>

DeriveIdempotencyKey(d, tries) == <<d>>

Known == ToSet(decided)

\* The decisions without an outcome, in their order.
PendingDecisions ==
    LET pending[i \in 0 .. Len(decided)] ==
          IF i = 0 THEN <<>>
          ELSE IF decided[i] \in settled THEN pending[i - 1]
               ELSE Append(pending[i - 1], decided[i])
    IN  pending[Len(decided)]

\* What dailyEntryNotional counts against the day's limit.
DailyEntries == {d \in Known : IsPlace(d) /\ d \notin unsent}

\* OrderGateway.record: a decision already in the log is not written again.
Recorded(d) == IF d \in Known THEN decided ELSE Append(decided, d)

(***************************************************************************)
(* Threads.                                                                *)
(***************************************************************************)

Rest == [pc |-> "rest", job |-> <<>>, todo |-> <<>>, tries |-> 0,
         renewed |-> FALSE, via |-> <<>>, passes |-> 0]

\* A persisted session, its predecessors before it, that still authenticates.
Valid(chain) == chain # <<>> /\ Last(chain) \notin expired

Submitting == {"attempt", "sent", "renew"}

InFlight == {t \in Threads : thread[t].pc \in Submitting}

\* OrderGateway.submit of d by a thread in state th.
Submit(th, d) == [th EXCEPT !.pc = "attempt", !.job = d, !.tries = 0,
                            !.renewed = FALSE, !.via = <<>>]

Done(th) == [th EXCEPT !.pc = "next", !.job = <<>>, !.tries = 0,
                       !.renewed = FALSE, !.via = <<>>]

\* The gateway's #sessionId, and #portfolio's credentials.
HasSession == current # <<>>

Permits(d) == ~ IsPlace(d) \/ engagement = 0

\* KillSwitch.engage: memory, then the file, then the sweep; threads is what
\* the step itself makes of the threads.
Engage(threads) ==
    /\ engagement = 0
    /\ engagements' = engagements + 1
    /\ engagement' = engagements + 1
    /\ \/ file' = [by |-> "runner", at |-> engagements + 1] /\ persisted' = TRUE
       \/ "write" \in FaultKinds /\ file' = file /\ persisted' = FALSE
    /\ thread' = [threads EXCEPT !["sweep"] = [Rest EXCEPT !.pc = "idle"]]
    /\ swept' = FALSE

Untouched == UNCHANGED <<engagement, engagements, file, persisted, swept>>

Init ==
    /\ decided = <<>> /\ settled = {} /\ unsent = {} /\ cursor = 0
    /\ cell = <<>> /\ file = [by |-> "nobody", at |-> 0]
    /\ phase = "DOWN" /\ current = <<>> /\ engagement = 0 /\ persisted = FALSE
    /\ resuming = FALSE
    /\ failures = 0 /\ thread = [t \in Threads |-> Rest]
    /\ armed = FALSE /\ swept = FALSE
    /\ sessions = 0 /\ expired = {} /\ orders = {} /\ open = {}
    /\ late = {} /\ stray = {} /\ events = 0
    /\ ticks = 0 /\ engagements = 0 /\ faults = EmptyBag

(***************************************************************************)
(* The ledger: a placement is replayed by its key within the session, a    *)
(* cancel reaches only the session's own orders.                           *)
(***************************************************************************)

\* What PaperBroker puts on the wire: a placement or a cancel under its session.
Request(th) == <<Last(th.via), th.job, th.tries>>

\* PaperApiClient.send stops waiting; the request stays under way.
TimesOut(th) == late' = late \cup {Request(th)}

LedgerPlaces(session, d, tries) ==
    LET order == <<session, d, DeriveIdempotencyKey(d, tries)>>
    IN  IF order \in orders
        THEN UNCHANGED <<orders, open>>
        ELSE orders' = orders \cup {order} /\ open' = open \cup {order}

LedgerCancels(session, d) ==
    /\ open' = IF d[3][1] = session THEN open \ {d[3]} ELSE open
    /\ UNCHANGED orders

LedgerDoes(request) ==
    IF IsPlace(request[2])
    THEN LedgerPlaces(request[1], request[2], request[3])
    ELSE LedgerCancels(request[1], request[2])

\* A request nobody waits for any more arrives after all, or never does.
LateArrival ==
    \E request \in late :
        /\ late' = late \ {request}
        /\ \/ /\ request[1] \notin expired
              /\ LedgerDoes(request)
              /\ stray' = stray \cup (orders' \ orders)
           \/ UNCHANGED <<orders, open, stray>>
        /\ UNCHANGED <<files, memory, sessions, expired, events, ticks,
                       engagements, faults>>

\* A resting order fills, which is an account event, whole or in part.
OrderFills ==
    /\ events < MaxEvents
    /\ \E o \in open, whole \in BOOLEAN :
          open' = IF whole THEN open \ {o} ELSE open
    /\ events' = events + 1
    /\ UNCHANGED <<files, memory, sessions, expired, orders, late, stray, ticks,
                   engagements, faults>>

SessionExpires ==
    /\ sessions \notin expired /\ sessions > 0
    /\ Fault("expiry")
    /\ expired' = expired \cup {sessions}
    /\ UNCHANGED <<files, memory, sessions, orders, open, late, stray, events,
                   ticks, engagements>>

(***************************************************************************)
(* What the paper API answers, and what PaperBroker makes of it.           *)
(***************************************************************************)

\* retryabilityByCode.
RetryableCodes ==
    {"MARKET_DATA_DEGRADED", "RECOVERY_IN_PROGRESS", "SERVICE_UNAVAILABLE", "RATE_LIMITED"}

DomainErrorCodes == RetryableCodes \cup
    {"ACCOUNT_READ_ONLY", "CANCEL_ONLY", "CAPACITY_REACHED", "FORBIDDEN",
     "IDEMPOTENCY_CONFLICT", "INSUFFICIENT_AVAILABLE_CASH",
     "INSUFFICIENT_AVAILABLE_POSITION", "INVALID_ORDER", "INVALID_PRICE",
     "INVALID_QUANTITY", "INVARIANT_VIOLATION", "MARKET_CLOSED", "ORDER_STATE_CONFLICT",
     "PRICE_PROTECTION", "SESSION_EXPIRED", "SYMBOL_NOT_TRADABLE"}

\* A status without a code of trading-core's.
FallbackCode(status) ==
    CASE status < 400                        -> "INVARIANT_VIOLATION"
      [] status = 401                        -> "SESSION_EXPIRED"
      [] status = 403                        -> "FORBIDDEN"
      [] status \in {408, 425}               -> "SERVICE_UNAVAILABLE"
      [] status = 409                        -> "ORDER_STATE_CONFLICT"
      [] status = 429                        -> "RATE_LIMITED"
      [] status >= 500                       -> "SERVICE_UNAVAILABLE"
      [] OTHER                               -> "INVALID_ORDER"

\* A code trading-core knows is believed over the status.
DecodeError(answer) ==
    IF answer.code \in DomainErrorCodes THEN answer.code ELSE FallbackCode(answer.status)

OrderStatuses == {"CANCELLED", "EXPIRED", "FILLED", "OPEN", "PARTIALLY_FILLED",
                  "PENDING_TRIGGER", "RECEIVED", "REJECTED", "TRIGGERED"}

\* A status or a terminal reason the decoder does not know is a broken contract.
DecodeOrder(body) ==
    IF body.status \in OrderStatuses /\ body.reason \in {"", "IOC_REMAINDER"}
    THEN "OK" ELSE "INVARIANT_VIOLATION"

\* So are another session's portfolio, and a currency or an instrument listed twice.
DecodePortfolio(body, session) ==
    IF /\ body.session = session
       /\ IsInjective(body.wallets) /\ IsInjective(body.positions)
       /\ \A order \in body.orders : DecodeOrder(order) = "OK"
    THEN "OK" ELSE "INVARIANT_VIOLATION"

\* PaperBroker.#send and the decoder of its caller; no answer at all is a
\* network failure, which asDomainError takes for a fault of the service.
Decoded(answer) ==
    CASE answer.status = 0               -> "SERVICE_UNAVAILABLE"
      [] answer.status \in 200 .. 299    -> DecodeOrder(answer.body)
      [] OTHER                           -> DecodeError(answer)

NoAnswer == [status |-> 0, code |-> "", body |-> ""]
Malformed == [status |-> 200, code |-> "",
              body |-> [status |-> "CANCELLED", reason |-> "PRICE_PROTECTION"]]

\* The error envelopes of the API and of what stands in front of it, code "" for
\* a body that is not one.
Envelopes ==
    {[status |-> e[1], code |-> e[2], body |-> ""] : e \in
        {<<401, "SESSION_EXPIRED">>, <<401, "">>, <<403, "FORBIDDEN">>,
         <<404, "NOT_FOUND">>, <<409, "ORDER_STATE_CONFLICT">>,
         <<422, "INSUFFICIENT_AVAILABLE_CASH">>, <<429, "RATE_LIMITED">>,
         <<500, "INTERNAL_ERROR">>, <<502, "">>, <<503, "NOT_READY">>,
         <<503, "MARKET_DATA_DEGRADED">>}}

Refusals == {a \in Envelopes : Decoded(a) \notin {"SESSION_EXPIRED"}}

\* A read of the portfolio of a session that fails, other than by a 401.
Unreadable(session) ==
    \E body \in [session : {session, session - 1}, wallets : {<<"KRW", "USD">>},
                 positions : {<<>>, <<"KR:1", "KR:1">>}, orders : SUBSET {Malformed.body}] :
        DecodePortfolio(body, session) # "OK"

Retried == {a \in Refusals \cup {NoAnswer, Malformed} : Decoded(a) \in RetryableCodes}

Verdicts == {a \in Refusals \cup {NoAnswer, Malformed} : Decoded(a) \notin RetryableCodes}

(***************************************************************************)
(* The process dies, or start() throws and it exits; requests under way    *)
(* stay so.                                                                *)
(***************************************************************************)

Dies ==
    /\ phase' = "DOWN" /\ current' = <<>> /\ engagement' = 0
    /\ persisted' = FALSE /\ resuming' = FALSE /\ failures' = 0 /\ armed' = FALSE /\ swept' = FALSE
    /\ thread' = [t \in Threads |-> Rest]
    /\ late' = late \cup
          {Request(thread[t]) : t \in {u \in Threads : thread[u].pc = "sent"}}
    /\ UNCHANGED <<sessions, expired, orders, open, stray, events, ticks, engagements>>

Crash ==
    /\ phase # "DOWN"
    /\ Fault("crash")
    /\ Dies
    /\ UNCHANGED files

(***************************************************************************)
(* RunnerSupervisor.start.                                                 *)
(***************************************************************************)

\* The constructors read the files.  A file without an engagement in it is an
\* operator's, and engages anew.
BootUnlatched ==
    /\ phase = "DOWN"
    /\ phase' = "WAITING"
    /\ UNCHANGED <<files, current, engagement, persisted, resuming, failures,
                   thread, armed, swept, world>>

Boot ==
    /\ phase = "DOWN"
    /\ phase' = "WAITING"
    /\ engagements' = IF file.by = "operator" THEN engagements + 1 ELSE engagements
    /\ engagement' = CASE file.by = "nobody"   -> 0
                       [] file.by = "runner"   -> file.at
                       [] file.by = "operator" -> engagements'
    /\ persisted' = (file.by = "runner")
    /\ resuming' = (file.by # "nobody")
    /\ UNCHANGED <<files, current, failures, thread, armed, swept, ledger, ticks, faults>>

\* #awaitServing: the API is serving, or two minutes have gone by without it.
AwaitServing ==
    /\ phase = "WAITING"
    /\ phase' = "STARTING"
    /\ UNCHANGED <<files, current, engagement, persisted, resuming, failures, thread,
                   armed, swept, world>>

\* SessionClient.establish: the stored session if it is still valid, or a new
\* one that lists the stored one among its predecessors.
Establish ==
    /\ phase = "STARTING"
    /\ \/ /\ Valid(cell)
          /\ current' = cell
          /\ UNCHANGED <<cell, sessions>>
       \/ /\ ~ Valid(cell)
          /\ sessions' = sessions + 1
          /\ cell' = Append(cell, sessions')
          /\ current' = cell'
    /\ phase' = "RECOVERING"
    /\ thread' = [thread EXCEPT !["main"].pc = "next", !["main"].todo = PendingDecisions]
    /\ UNCHANGED <<decided, settled, unsent, cursor, file, engagement, persisted,
                   resuming, failures, armed, swept, expired, orders, open, late, stray,
                   events, ticks, engagements, faults>>

EstablishFails ==
    /\ phase = "STARTING"
    /\ Fault("create")
    /\ Dies
    /\ UNCHANGED files

\* KillSwitch.#persist, when the engagement in memory is not in the file yet.
Persist ==
    IF persisted THEN UNCHANGED <<persisted, file>>
    ELSE \/ persisted' = TRUE /\ file' = [by |-> "runner", at |-> engagement]
         \/ "write" \in FaultKinds /\ UNCHANGED <<persisted, file>>

\* KillSwitch.resume, once every pending decision has had its turn: a latch of an
\* earlier life has its sweep run and awaited.
Resume ==
    /\ phase = "RECOVERING"
    /\ thread["main"].pc = "next" /\ thread["main"].todo = <<>>
    /\ resuming' = FALSE
    /\ \/ /\ ~ resuming
          /\ phase' = "RUNNING"
          /\ thread' = [thread EXCEPT !["main"] = Rest]
          /\ UNCHANGED <<file, persisted, swept>>
       \/ /\ resuming
          /\ phase' = "RESUMING"
          /\ thread' = [thread EXCEPT !["main"] = [Rest EXCEPT !.pc = "await"],
                                      !["sweep"] = [Rest EXCEPT !.pc = "idle"]]
          /\ Persist
          /\ swept' = FALSE
    /\ UNCHANGED <<decided, settled, unsent, cursor, cell, current, engagement,
                   failures, armed, world>>

\* The promise of the first sweep settles, failed or not.
SweepAwaited ==
    /\ thread["main"].pc = "await" /\ thread["sweep"].pc = "rest"
    /\ phase' = "RUNNING"
    /\ thread' = [thread EXCEPT !["main"] = Rest]
    /\ UNCHANGED <<files, current, engagement, persisted, resuming, failures, armed,
                   swept, world>>

(***************************************************************************)
(* OrderGateway.submit.                                                    *)
(***************************************************************************)

\* submit throws.  start() passes it on and the process exits; the supervisor's
\* cycle, the event queue and a sweep report it and go on.
Throw(t) ==
    IF t = "main" /\ phase = "RECOVERING"
    THEN Dies /\ UNCHANGED <<file, settled, unsent>>
    ELSE /\ thread' = [thread EXCEPT ![t] = Rest]
         /\ swept' = (swept /\ t \notin Sweepers)
         /\ UNCHANGED <<phase, current, engagement, persisted, resuming, armed,
                        failures, file, settled, unsent, ledger, ticks, engagements>>

\* #halt: a place the latch caught is settled for good, with the number of
\* requests that went out for it in this call.
HaltUncounted(t, attempts) ==
    /\ settled' = settled \cup {thread[t].job}
    /\ unsent' = unsent \cup {thread[t].job}
    /\ thread' = [thread EXCEPT ![t] = Done(@)]

Halt(t, attempts) ==
    /\ settled' = settled \cup {thread[t].job}
    /\ unsent' = IF attempts = 0 THEN unsent \cup {thread[t].job} ELSE unsent
    /\ thread' = [thread EXCEPT ![t] = Done(@)]

\* The next decision of the thread's list, recorded if it is not yet.
NextJob(t) ==
    LET th == thread[t] IN
    /\ th.pc = "next" /\ th.todo # <<>>
    /\ decided' = Recorded(Head(th.todo))
    /\ thread' = [thread EXCEPT ![t] = Submit([th EXCEPT !.todo = Tail(th.todo)], Head(th.todo))]
    /\ UNCHANGED <<settled, unsent, cursor, cell, file, phase, current, engagement,
                   persisted, resuming, failures, armed, swept, world>>

\* A 401: one renewal of the session per submission, then it is a verdict.
SessionExpired(t, attempts) ==
    \/ /\ ~ Permits(thread[t].job)
       /\ Halt(t, attempts)
       /\ UNCHANGED current
    \/ /\ Permits(thread[t].job) /\ ~ thread[t].renewed
       /\ thread' = [thread EXCEPT ![t].pc = "renew", ![t].renewed = TRUE,
                                   ![t].tries = attempts, ![t].via = current]
       /\ current' = <<>>
       /\ UNCHANGED <<settled, unsent>>
    \/ /\ Permits(thread[t].job) /\ thread[t].renewed
       /\ settled' = settled \cup {thread[t].job}
       /\ thread' = [thread EXCEPT ![t] = Done(@)]
       /\ UNCHANGED <<unsent, current>>

\* Before every attempt the barrier is asked; without a session the attempt
\* fails as a 401 would, and past the last attempt the loop ends in a throw.
Attempt(t) ==
    LET th == thread[t] IN
    /\ th.pc = "attempt"
    /\ IF th.tries = MaxAttempts
       THEN Throw(t) /\ UNCHANGED <<decided, cursor, cell, faults>>
       ELSE /\ \/ /\ ~ Permits(th.job)
                  /\ Halt(t, th.tries)
                  /\ UNCHANGED current
               \/ /\ Permits(th.job) /\ ~ HasSession
                  /\ SessionExpired(t, th.tries + 1)
               \/ /\ Permits(th.job) /\ HasSession
                  /\ thread' = [thread EXCEPT ![t].pc = "sent", ![t].tries = @ + 1,
                                              ![t].via = current]
                  /\ UNCHANGED <<settled, unsent, current>>
            /\ UNCHANGED <<decided, cursor, cell, file, phase, engagement, persisted,
                           resuming, failures, armed, swept, world>>

\* The ledger's answer: the order stands, or is gone, or has been refused, and
\* the outcome is on disk; an answer that makes no sense is recorded as a
\* rejection whatever the ledger did.
Answered(t) ==
    /\ thread[t].pc = "sent" /\ Last(thread[t].via) \notin expired
    /\ \/ LedgerDoes(Request(thread[t])) /\ UNCHANGED faults
       \/ /\ Fault("verdict")
          /\ \E answer \in Verdicts :
                IF answer = Malformed THEN LedgerDoes(Request(thread[t]))
                ELSE UNCHANGED <<orders, open>>
    /\ failures' = IF faults' = faults THEN 0 ELSE failures
    /\ settled' = settled \cup {thread[t].job}
    /\ thread' = [thread EXCEPT ![t] = Done(@)]
    /\ UNCHANGED <<decided, unsent, cursor, cell, file, phase, current, engagement,
                   persisted, resuming, armed, swept, sessions, expired, late,
                   stray, events, ticks, engagements>>

AnsweredExpired(t) ==
    /\ thread[t].pc = "sent" /\ Last(thread[t].via) \in expired
    /\ SessionExpired(t, thread[t].tries)
    /\ UNCHANGED <<decided, cursor, cell, file, phase, engagement, persisted,
                   resuming, failures, armed, swept, world>>

\* A retryable failure.  The one that reaches the limit engages the latch; a
\* place the latch now holds is halted, a last attempt leaves the decision
\* pending for the next start.
AttemptFails(t) ==
    /\ thread[t].pc = "sent"
    /\ \E answer \in Retried :
          \/ Fault("request") /\ UNCHANGED <<orders, open, late>>
          \/ /\ Fault("answer") /\ answer.status \notin 400 .. 499
             /\ Last(thread[t].via) \notin expired
             /\ LedgerDoes(Request(thread[t])) /\ UNCHANGED late
          \/ /\ Fault("late") /\ answer = NoAnswer
             /\ TimesOut(thread[t])
             /\ UNCHANGED <<orders, open>>
    /\ failures' = failures + 1
    /\ LET th      == thread[t]
           trips   == failures' = TripAfter /\ engagement = 0
           halted  == IsPlace(th.job) /\ (trips \/ engagement # 0)
           threads == [thread EXCEPT ![t] = IF halted \/ th.tries = MaxAttempts
                                            THEN Done(th) ELSE [th EXCEPT !.pc = "attempt"]]
       IN  /\ settled' = IF halted THEN settled \cup {th.job} ELSE settled
           /\ IF trips THEN Engage(threads) ELSE thread' = threads /\ Untouched
    /\ UNCHANGED <<decided, unsent, cursor, cell, phase, current, resuming, armed,
                   sessions, expired, stray, events, ticks>>

\* SessionClient.create answers.  The new session lists what #current was when
\* this renewal began, which another renewal may have emptied.
Renew(t) ==
    /\ thread[t].pc \in {"renew", "relogin"}
    /\ \/ /\ sessions' = sessions + 1
          /\ cell' = Append(thread[t].via, sessions')
          /\ current' = cell'
          /\ thread' = [thread EXCEPT ![t].pc = CASE @ = "renew"                 -> "attempt"
                                                   [] @ = "relogin" /\ t = "main" -> "cycle"
                                                   [] OTHER                       -> "read",
                                      ![t].via = <<>>]
          /\ UNCHANGED <<settled, unsent, file, phase, engagement, persisted,
                         resuming, failures, armed, swept, expired, orders, open,
                         late, stray, events, ticks, engagements, faults>>
       \/ /\ Fault("create")
          /\ IF thread[t].pc = "renew" /\ ~ Permits(thread[t].job)
             THEN /\ Halt(t, thread[t].tries)
                  /\ UNCHANGED <<file, phase, current, engagement, persisted, resuming,
                                 failures, armed, swept, ledger, ticks, engagements>>
             ELSE Throw(t)
          /\ UNCHANGED cell
    /\ UNCHANGED <<decided, cursor>>

(***************************************************************************)
(* RunnerSupervisor.cycle.                                                 *)
(***************************************************************************)

Idle == phase = "RUNNING" /\ thread["main"].pc = "rest"

\* The cycle's first step finds an operator's file or a loss at its limit and
\* waits for the sweep; with the latch down it only retries a failed write.
CycleEngages ==
    /\ Idle /\ engagement = 0
    /\ \/ file.by = "operator" /\ UNCHANGED faults
       \/ file.by = "nobody" /\ Fault("loss")
    /\ Engage([thread EXCEPT !["main"] = [Rest EXCEPT !.pc = "await"]])
    /\ UNCHANGED <<decided, settled, unsent, cursor, cell, phase, current, resuming,
                   failures, armed, ledger, ticks>>

CyclePersists ==
    /\ Idle /\ engagement # 0 /\ ~ persisted
    /\ Persist
    /\ UNCHANGED <<decided, settled, unsent, cursor, cell, phase, current, engagement,
                   resuming, failures, thread, armed, swept, world>>

CycleStarts ==
    /\ Idle
    /\ engagement # 0 \/ file.by # "operator"
    /\ thread' = [thread EXCEPT !["main"].pc = "cycle"]
    /\ UNCHANGED <<files, phase, current, engagement, persisted, resuming, failures,
                   armed, swept, world>>

\* A 401 on the portfolio: one renewal and one more read, whose own 401 is thrown.
PortfolioExpired(t) ==
    \/ /\ ~ thread[t].renewed
       /\ thread' = [thread EXCEPT ![t].pc = "relogin", ![t].via = current,
                                   ![t].renewed = TRUE]
       /\ current' = <<>>
    \/ /\ thread[t].renewed
       /\ thread' = [thread EXCEPT ![t] = Rest]
       /\ UNCHANGED current

\* #portfolio: without a session or an answer the cycle fails, on a 401 the
\* session is renewed.
\* The engaged check of #applyTick comes before the gate's own awaits.
CyclePortfolio ==
    /\ thread["main"].pc = "cycle"
    /\ \/ /\ ~ HasSession
          /\ thread' = [thread EXCEPT !["main"] = Rest]
          /\ UNCHANGED <<current, faults>>
       \/ /\ HasSession /\ Last(current) \in expired /\ UNCHANGED faults
          /\ PortfolioExpired("main")
       \/ /\ HasSession /\ Fault("portfolio") /\ Unreadable(Last(current)) /\ UNCHANGED current
          /\ thread' = [thread EXCEPT !["main"] = Rest]
       \/ /\ Valid(current) /\ UNCHANGED faults
          /\ thread' = [thread EXCEPT !["main"] =
                           IF engagement = 0 /\ ticks < MaxTicks
                           THEN [Rest EXCEPT !.pc = "tick"] ELSE Rest]
          /\ UNCHANGED current
    /\ UNCHANGED <<files, phase, engagement, persisted, resuming, failures, armed,
                   swept, ledger, ticks, engagements>>

\* #applyDecision: the strategy has nothing to do or the gate refuses, or the
\* decision goes to the log and to its first attempt.
ApplyDecision ==
    /\ thread["main"].pc = "tick"
    /\ \/ /\ thread' = [thread EXCEPT !["main"] = Rest]
          /\ UNCHANGED <<decided, ticks>>
       \/ /\ Cardinality(DailyEntries) < MaxDaily
          /\ ticks' = ticks + 1
          /\ decided' = Append(decided, TickDecision(ticks'))
          /\ thread' = [thread EXCEPT !["main"] = Submit(@, TickDecision(ticks'))]
    /\ UNCHANGED <<settled, unsent, cursor, cell, file, phase, current, engagement,
                   persisted, resuming, failures, armed, swept, ledger, engagements,
                   faults>>

(***************************************************************************)
(* FillProcessor.process: the decision is recorded, the event committed,   *)
(* then the decision submitted.  A replayed event submits what the log     *)
(* holds, and a strategy that now answers differently is a wedge.          *)
(***************************************************************************)

\* A replayed event must bring the decision the log already holds.
Replayed(e) == FillDecisionId(e) \in Known

ProcessFill ==
    LET e == cursor + 1
        d == FillDecisionId(e)
    IN  /\ phase = "RUNNING" /\ thread["drain"].pc \in {"rest", "next"} /\ cursor < events
        /\ cursor' = e
        /\ \/ /\ decided' = Recorded(d)
              /\ thread' = [thread EXCEPT !["drain"] = Submit(Rest, d)]
           \/ /\ ~ Replayed(e)
              /\ thread' = [thread EXCEPT !["drain"] = Rest]
              /\ UNCHANGED decided
        /\ UNCHANGED <<settled, unsent, cell, file, phase, current, engagement,
                       persisted, resuming, failures, armed, swept, world>>

\* The process dies after the decision's line and before the event's.
DieInFill ==
    /\ phase = "RUNNING" /\ thread["drain"].pc \in {"rest", "next"} /\ cursor < events
    /\ Fault("crash")
    /\ Dies
    /\ decided' = Recorded(FillDecisionId(cursor + 1))
    /\ UNCHANGED <<settled, unsent, cursor, cell, file>>

\* #tripOnWedge: the event stays uncommitted and the latch comes down.
Wedge ==
    /\ phase = "RUNNING" /\ thread["drain"].pc \in {"rest", "next"} /\ cursor < events
    /\ Fault("wedge")
    /\ IF engagement = 0 THEN Engage(thread) ELSE UNCHANGED thread /\ Untouched
    /\ UNCHANGED <<decided, settled, unsent, cursor, cell, phase, current, resuming,
                   failures, armed, ledger, ticks>>

(***************************************************************************)
(* KillSwitch.#runSweep.                                                   *)
(***************************************************************************)

\* The wait for the gateway, or 5 seconds of it; in that case another sweep
\* starts once the gateway is idle.
SweepAtOnce(i) ==
    /\ thread[i].pc = "idle"
    /\ thread' = [thread EXCEPT ![i].pc = "read"]
    /\ UNCHANGED <<files, phase, current, engagement, persisted, resuming, failures,
                   swept, ledger, ticks, engagements, armed, faults>>

SweepBegins(i) ==
    /\ thread[i].pc = "idle"
    /\ \/ InFlight = {} /\ UNCHANGED <<armed, faults>>
       \/ InFlight # {} /\ Fault("slow") /\ armed' = TRUE
    /\ thread' = [thread EXCEPT ![i].pc = "read"]
    /\ UNCHANGED <<files, phase, current, engagement, persisted, resuming, failures,
                   swept, ledger, ticks, engagements>>

SweepAgainAndAgain ==
    /\ armed /\ InFlight = {}
    /\ \E i \in Resweeps :
          /\ thread[i].pc = "rest"
          /\ thread' = [thread EXCEPT ![i] = [Rest EXCEPT !.pc = "idle"]]
    /\ swept' = FALSE
    /\ UNCHANGED <<files, phase, current, engagement, persisted, resuming, failures,
                   armed, world>>

SweepAgain ==
    /\ armed /\ InFlight = {}
    /\ \E i \in Resweeps :
          /\ thread[i].pc = "rest"
          /\ thread' = [thread EXCEPT ![i] = [Rest EXCEPT !.pc = "idle"]]
    /\ armed' = FALSE /\ swept' = FALSE
    /\ UNCHANGED <<files, phase, current, engagement, persisted, resuming, failures, world>>

\* A pass: the resting orders of the session, each cancelled in turn.
SweepReads(i) ==
    LET th      == thread[i]
        resting == {o \in open : o[1] = Last(current)} IN
    /\ th.pc = "read" /\ Valid(current)
    /\ thread' = [thread EXCEPT ![i] =
           IF resting = {} \/ th.passes = MaxPasses THEN Rest
           ELSE [th EXCEPT !.pc = "next", !.passes = @ + 1, !.renewed = FALSE,
                          !.todo = SetToSeq({KillDecision(engagement, o) : o \in resting})]]
    /\ swept' = (resting = {})
    /\ UNCHANGED <<files, phase, current, engagement, persisted, resuming, failures,
                   armed, world>>

\* Without a session, or with a portfolio that cannot be read, the sweep fails; on
\* a 401 it goes on in a new session.
SweepLoses(i) ==
    /\ thread[i].pc = "read"
    /\ \/ /\ ~ HasSession /\ UNCHANGED <<current, faults>>
          /\ thread' = [thread EXCEPT ![i] = Rest]
       \/ /\ HasSession /\ Fault("portfolio") /\ Unreadable(Last(current)) /\ UNCHANGED current
          /\ thread' = [thread EXCEPT ![i] = Rest]
       \/ /\ HasSession /\ Last(current) \in expired /\ UNCHANGED faults
          /\ PortfolioExpired(i)
    /\ swept' = FALSE
    /\ UNCHANGED <<files, phase, engagement, persisted, resuming, failures, armed,
                   ledger, ticks, engagements>>

\* The next pass, when the list of this one is through.
SweepPassEnds(i) ==
    /\ thread[i].pc = "next" /\ thread[i].todo = <<>>
    /\ thread' = [thread EXCEPT ![i].pc = "read"]
    /\ UNCHANGED <<files, phase, current, engagement, persisted, resuming, failures,
                   armed, swept, world>>

\* The submission of a decision on a tick or a fill is through.
SubmissionEnds(t) ==
    /\ thread[t].pc = "next" /\ thread[t].todo = <<>> /\ phase = "RUNNING"
    /\ thread' = [thread EXCEPT ![t] = Rest]
    /\ UNCHANGED <<files, phase, current, engagement, persisted, resuming, failures,
                   armed, swept, world>>

\* The operator's hand on kill-switch.json.
OperatorWrites ==
    /\ file.by = "nobody"
    /\ Fault("operator")
    /\ file' = [by |-> "operator", at |-> 0]
    /\ UNCHANGED <<decided, settled, unsent, cursor, cell, memory, ledger, ticks, engagements>>

OperatorClears ==
    /\ file.by # "nobody"
    /\ Fault("clear")
    /\ file' = [by |-> "nobody", at |-> 0]
    /\ UNCHANGED <<decided, settled, unsent, cursor, cell, memory, ledger, ticks, engagements>>

Sweep(i) ==
    SweepBegins(i) \/ SweepReads(i) \/ SweepLoses(i) \/ SweepPassEnds(i)

Send(t) ==
    NextJob(t) \/ Attempt(t) \/ Answered(t) \/ AnsweredExpired(t) \/ Renew(t)

Main ==
    \/ Boot \/ AwaitServing \/ Establish \/ Resume \/ SweepAwaited
    \/ CycleEngages \/ CyclePersists \/ CycleStarts \/ CyclePortfolio \/ ApplyDecision

Steps ==
    \/ Main \/ ProcessFill \/ SweepAgain
    \/ \E t \in Threads : Send(t)
    \/ \E t \in {"main", "drain"} : SubmissionEnds(t)
    \/ \E i \in Sweepers : Sweep(i)

Environment ==
    \/ LateArrival \/ OrderFills \/ SessionExpires \/ Crash \/ DieInFill \/ EstablishFails
    \/ Wedge \/ OperatorWrites \/ OperatorClears
    \/ \E t \in Threads : AttemptFails(t)

Next == Steps \/ Environment

\* The event loop runs every chain of awaits that can go on, and every request
\* ends by an answer or by its time-out.
Fairness ==
    /\ WF_vars(Main) /\ WF_vars(SweepAgain)
    /\ \A t \in Threads : WF_vars(Send(t))
    /\ \A t \in {"main", "drain"} : WF_vars(SubmissionEnds(t))
    /\ \A i \in Sweepers : WF_vars(Sweep(i))

Spec == Init /\ [][Next]_vars /\ Fairness

(***************************************************************************)
(* Properties.                                                             *)
(***************************************************************************)

\* The variables of the runner and the ledger have their types.
TypeOK ==
    /\ \A i, j \in 1 .. Len(decided) : decided[i] = decided[j] => i = j
    /\ settled \subseteq Known /\ unsent \subseteq settled
    /\ cursor \in 0 .. events /\ events \in 0 .. MaxEvents /\ ticks \in 0 .. MaxTicks
    /\ cell \in Seq(1 .. sessions) /\ current \in Seq(1 .. sessions)
    /\ file \in [by : {"nobody", "operator", "runner"}, at : 0 .. engagements]
    /\ phase \in {"DOWN", "WAITING", "STARTING", "RECOVERING", "RESUMING", "RUNNING"}
    /\ engagement \in 0 .. engagements /\ engagements \in Nat
    /\ {persisted, resuming, armed, swept} \subseteq BOOLEAN
    /\ \A t \in Threads :
          /\ thread[t].pc \in Submitting \cup {"rest", "next", "await", "idle", "read",
                                               "cycle", "relogin", "tick"}
          /\ thread[t].tries \in 0 .. MaxAttempts
          /\ thread[t].pc \in Submitting => thread[t].job \in Known
    /\ sessions \in Nat /\ expired \subseteq 1 .. sessions
    /\ open \subseteq orders /\ stray \subseteq orders

\* Whatever is lost, retried, replayed after a crash or delivered late, the
\* ledger holds at most one order of a session for a decision, and none whose
\* decision is not in the log (order-gateway.ts, "record first").
OneOrderPerDecision ==
    \A o \in orders :
        /\ o[2] \in Known
        /\ \A p \in orders : o[1] = p[1] /\ o[2] = p[2] => o = p

\* In a life without a restart every order the ledger holds counts against the
\* day's entry limit, those a halted or failed submission left behind too.
OrdersAreCharged ==
    {"crash", "create"} \cap BagToSet(faults) = {} =>
        \A o \in orders : o[2] \in DailyEntries

\* When the latch is down, its sweeps are over, the last of them found nothing
\* and nothing is in flight, no order rests in the runner's session but those
\* of requests that arrived after their sender had given them up.
SweptClean ==
    (/\ engagement # 0 /\ swept /\ ~ armed /\ InFlight = {}
     /\ phase = "RUNNING" /\ HasSession
     /\ \A i \in Sweepers : thread[i].pc = "rest") =>
        \A o \in open : o[1] = Last(current) => o \in stray

\* With the runner's own engagement in the latch file no placement is sent,
\* in this life or in any later one.
LatchHolds ==
    [][\A t \in Threads :
          (thread'[t].pc = "sent" /\ thread[t].pc # "sent" /\ IsPlace(thread'[t].job))
             => file.by # "runner"]_vars

\* Once the latch is down the runner comes to rest and stays there while it
\* lives: its sweeps end for good and no placement is under way, however they
\* wait for each other.
AtRest ==
    /\ \A i \in Sweepers : thread[i].pc = "rest"
    /\ \A t \in InFlight : ~ IsPlace(thread[t].job)

LatchSettles == engagement # 0 ~> (phase = "DOWN" \/ []AtRest)
=============================================================================
