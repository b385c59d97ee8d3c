------------------------------ MODULE HttpEdge ------------------------------
(***************************************************************************)
(* The HTTP edge above the ledger transactions: the admission gate, the    *)
(* session check, the capability check, the idempotency memory of the      *)
(* order routes and the quote memory of the FX routes, and the status each *)
(* outcome is reported under.                                              *)
(*                                                                         *)
(* Every paper-api process has a gate and memories of its own.  A request  *)
(* is a transaction of LedgerLocks that comes in through the edge; fills   *)
(* and triggers come from the engine.  Replying, the response hooks and    *)
(* the replies to the requests that share the promise are one step.        *)
(***************************************************************************)
EXTENDS LedgerLocks, Integers, FiniteSetsExt

CONSTANTS
    Processes,      \* paper-api processes
    Nobody,         \* no transaction
    Stopping,       \* the ones that shut down
    MaxAborts       \* bound on clients that hang up

ASSUME EdgeAssumption ==
    Nobody \notin Tx /\ Stopping \subseteq Processes /\ MaxAborts \in Nat

\* The key of an order is the header it came under, that of a conversion its
\* quote, which is its whole body.
ASSUME KeysAssumption ==
    \A r, s \in Requests :
        /\ {r.kind, s.kind} \subseteq {"place", "oco"} =>
               (r.header = s.header => r.key = s.key)
        /\ r.kind = "convert" /\ s.kind = "convert" =>
               (r.key = s.key => r.cash = s.cash)

VARIABLES
    gate,       \* RequestAdmissionGate of each process
    arrived,    \* requests that met a gate
    leader,     \* the request whose work answers this one, Nobody before that
    reply,      \* what the client was told, "none" while it waits
    aborted     \* requests whose client hung up
edge == <<gate, arrived, leader, reply, aborted>>
edgeVars == <<vars, edge>>

FromClient(r) == r.kind \in {"place", "oco", "cancel", "convert", "touch"}
Keyed(r) == r.kind \in {"place", "oco", "cancel"}
Running(t) == t \in arrived /\ reply[t] = "none"
Via(t) == request[t].via

EdgeInit ==
    /\ Init
    /\ gate = [p \in Processes |-> [closed |-> FALSE, inFlight |-> 0, admitted |-> {}]]
    /\ arrived = {} /\ aborted = {}
    /\ leader = [t \in Tx |-> Nobody]
    /\ reply = [t \in Tx |-> "none"]

----------------------------------------------------------------------------
(* The admission gate *)

\* Only an admitted request is counted off, and only once.
SettleUnmarked(g, t) == [g EXCEPT !.admitted = @ \ {t}, !.inFlight = @ - 1]
Settle(g, t) ==
    IF t \in g.admitted THEN [g EXCEPT !.admitted = @ \ {t}, !.inFlight = @ - 1] ELSE g

\* Errors that reach the framework's error handler: onError settles the
\* request before onResponse does.
Thrown(r, code) ==
    \/ code \in {"failed", "unknown", "violation", "SESSION_EXPIRED"}
    \/ r.kind = "convert" /\ code = "CANCEL_ONLY"
    \/ r.kind = "touch" /\ code = "SERVICE_UNAVAILABLE"

SettleReply(g, t, code) ==
    IF Thrown(request[t], code) THEN Settle(Settle(g, t), t) ELSE Settle(g, t)

\* t and the requests awaiting its promise are answered.
Send(t, code) ==
    LET G == {t} \cup {u \in Tx : leader[u] = t /\ reply[u] = "none"}
    IN /\ reply' = [u \in Tx |-> IF u \in G THEN code ELSE reply[u]]
       /\ gate' = [gate EXCEPT ![Via(t)] =
              FoldSet(LAMBDA u, g : SettleReply(g, u, code), @, G)]

\* The closed-check and the count are one synchronous hook.
Arrive(t) ==
    /\ FromClient(request[t]) /\ t \notin arrived
    /\ arrived' = arrived \cup {t}
    /\ IF gate[Via(t)].closed
       THEN Send(t, "NOT_READY")
       ELSE /\ gate' = [gate EXCEPT ![Via(t)].inFlight = @ + 1,
                                     ![Via(t)].admitted = @ \cup {t}]
            /\ UNCHANGED reply
    /\ UNCHANGED <<vars, leader, aborted>>

\* The client hangs up: onRequestAbort settles, the handler runs on.  It only
\* matters to a gate that drains.
Abort(t) ==
    /\ Running(t) /\ Via(t) \in Stopping
    /\ t \notin aborted /\ Cardinality(aborted) < MaxAborts
    /\ aborted' = aborted \cup {t}
    /\ gate' = [gate EXCEPT ![Via(t)] = Settle(@, t)]
    /\ UNCHANGED <<vars, arrived, leader, reply>>

\* Shutdown closes the gate for good.  Bound: while it counts a request, since
\* closing an idle gate only turns requests away.
CloseGate(p) ==
    /\ p \in Stopping /\ ~gate[p].closed /\ gate[p].inFlight > 0
    /\ gate' = [gate EXCEPT ![p].closed = TRUE]
    /\ UNCHANGED <<vars, arrived, leader, reply, aborted>>

----------------------------------------------------------------------------
(* From the session check to the transaction *)

Answer(t, code) == Send(t, code) /\ UNCHANGED <<vars, leader>>
Lead(t) == leader' = [leader EXCEPT ![t] = t]
StartWork(t) == Lead(t) /\ Begin(t) /\ UNCHANGED <<reply, gate>>

\* IdempotencyService keeps the first request under a key, its promise and
\* its response, whatever it is, for the life of the process.
Entry(t) ==
    {u \in Tx : /\ leader[u] = u /\ Keyed(request[u]) /\ Via(u) = Via(t)
                /\ request[u].header = request[t].header}

ShareOrConflict(t, u) ==
    IF CanonicalRequestHash(request[u]) /= CanonicalRequestHash(request[t])
    THEN Answer(t, "IDEMPOTENCY_CONFLICT")
    ELSE /\ leader' = [leader EXCEPT ![t] = u] /\ UNCHANGED vars
         /\ IF reply[u] = "none" THEN UNCHANGED <<reply, gate>> ELSE Send(t, reply[u])

\* OrderService under a key's first request: the capabilities are read here,
\* and their refusal is remembered under the key.
StartOrder(t) ==
    \/ StartWork(t)
    \/ /\ Lead(t) /\ UNCHANGED vars
       /\ Send(t, IF request[t].kind = "cancel" THEN "ACCOUNT_READ_ONLY" ELSE "CANCEL_ONLY")

\* FxService keeps its quotes in memory, those it used, and the receipts by the
\* header they were asked for under, whichever quote they are of.
KnowsQuote(t) == Via(t) = request[t].issuer
Converted(t) ==
    {u \in Tx : request[u].kind = "convert" /\ Via(u) = Via(t) /\ answer[u] = "done"}
HasReceipt(t) == \E u \in Converted(t) : request[u].header = request[t].header
QuoteUsed(t) == \E u \in Converted(t) : request[u].key = request[t].key

StartConversion(t) ==
    \/ Answer(t, "CANCEL_ONLY")
    \/ HasReceipt(t) /\ Answer(t, "replayed")
    \/ /\ ~HasReceipt(t)
       /\ CASE ~KnowsQuote(t) -> Answer(t, "NOT_FOUND")
            [] KnowsQuote(t) /\ QuoteUsed(t) -> Answer(t, "QUOTE_CONSUMED")
            [] OTHER ->
                 \/ Answer(t, "QUOTE_EXPIRED") \/ Answer(t, "INSUFFICIENT_AVAILABLE_CASH")
                 \/ StartWork(t)

\* The session's row is ACTIVE and has not expired.
Authenticated == ledger.active

\* bootstrap touches a live session and opens another for an expired one.
StartTouch(t) ==
    IF Authenticated THEN StartWork(t) ELSE Answer(t, "opened")

Dispatch(t) ==
    /\ Running(t) /\ leader[t] = Nobody
    /\ LET r == request[t] IN
       CASE r.kind = "touch" -> StartTouch(t)
         [] ~Authenticated /\ r.kind /= "touch" -> Answer(t, "SESSION_EXPIRED")
         [] Authenticated /\ r.kind = "convert" -> StartConversion(t)
         [] Authenticated /\ Keyed(r) ->
              IF Entry(t) = {} THEN StartOrder(t)
              ELSE \E u \in Entry(t) : ShareOrConflict(t, u)
    /\ UNCHANGED <<arrived, aborted>>

\* A fill, a trigger or the expiry of the session: nothing of the edge.
BeginCallback(t) == ~FromClient(request[t]) /\ Begin(t) /\ UNCHANGED edge

LedgerStepOrReply(t) ==
    /\ LedgerStep(t)
    /\ IF answer'[t] = "none" \/ ~FromClient(request[t])
       THEN UNCHANGED edge
       ELSE Send(t, answer'[t]) /\ UNCHANGED <<arrived, leader, aborted>>

EdgeNext ==
    \/ \E t \in Tx : \/ Arrive(t) \/ Abort(t) \/ Dispatch(t)
                     \/ BeginCallback(t) \/ LedgerStepOrReply(t)
    \/ \E p \in Processes : CloseGate(p)

EdgeSpec == EdgeInit /\ [][EdgeNext]_edgeVars

----------------------------------------------------------------------------
(* Statuses *)

ConflictCodes ==
    {"CANCEL_ONLY", "ACCOUNT_READ_ONLY", "INSUFFICIENT_AVAILABLE_CASH",
     "IDEMPOTENCY_CONFLICT", "QUOTE_EXPIRED", "QUOTE_CONSUMED"}

HttpStatusFor(code) ==
    CASE code \in ConflictCodes -> 409
      [] code \in {"SERVICE_UNAVAILABLE", "NOT_READY"} -> 503
      [] code = "SESSION_EXPIRED" -> 401
      [] code = "NOT_FOUND" -> 404
      [] OTHER -> 500

\* A terminal order is cancelled with its status; the rest of the successes
\* are commits, replays and new sessions.  A domain error thrown out of a touch
\* carries no status: the error handler answers 500.
Status(t) ==
    IF reply[t] \in {"done", "replayed", "terminal", "opened"}
    THEN IF request[t].kind \in {"place", "oco"} THEN 201 ELSE 200
    ELSE IF request[t].kind = "touch" /\ reply[t] = "SERVICE_UNAVAILABLE" THEN 500
    ELSE HttpStatusFor(reply[t])

----------------------------------------------------------------------------
(* Properties *)

\* The drain tells the truth: once a closed gate counts nothing in flight, the
\* only handlers still running are those whose client hung up, whichever of the
\* response, error and abort hooks settled what, and in whatever order.
DrainedMeansDone ==
    \A p \in Processes : gate[p].closed /\ gate[p].inFlight = 0 =>
        \A t \in Tx : Running(t) /\ Via(t) = p => t \in aborted

\* u is the command a replay to t tells of: an order's under the same key and of
\* the same content; of a conversion's, only the header is the same, so that its
\* receipt may be of another quote.
ReplayOf(t, u) ==
    IF request[t].kind = "convert"
    THEN request[u].kind = "convert" /\ request[u].header = request[t].header
    ELSE /\ request[u].key = request[t].key
         /\ CanonicalRequestHash(request[u]) = CanonicalRequestHash(request[t])

\* A status tells what happened to the ledger, whoever did the work and however
\* often it was retried: no command and no key takes effect twice; 2xx means
\* that the work behind the reply, or the one it replays, is committed, or that
\* the order was terminal; 4xx and 503 mean that neither this request nor the one
\* it shares committed anything.  Of a conversion a 200 says only that one under
\* that Idempotency-Key took effect: the quote asked for may never have been.
RepliesAreTrue ==
    \A t \in Tx :
        /\ effects[t] <= 1
        /\ \A u \in Tx \ {t} :
               request[t].key /= 0 /\ request[u].key = request[t].key
                   => effects[t] + effects[u] <= 1
        /\ reply[t] /= "none" =>
               LET w == IF leader[t] = Nobody THEN t ELSE leader[t]
                   status == Status(t)
               IN /\ status \in {200, 201} =>
                        \/ effects[w] = 1
                        \/ reply[t] = "opened"
                        \/ reply[t] = "terminal" /\ request[w].order \notin ledger.open
                        \/ /\ reply[t] = "replayed"
                           /\ \E u \in Tx : effects[u] = 1 /\ ReplayOf(t, u)
                  /\ status \in {401, 404, 409, 503} => effects[t] = 0 /\ effects[w] = 0
=============================================================================
