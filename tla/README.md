# A TLA+ model of MOI

MOI is a paper-trading system: `apps/paper-api` keeps simulated accounts in PostgreSQL and
fills orders against live market data, `apps/strategy-runner` trades on it with automatic
strategies, `apps/web` shows it, and the packages under `packages/` hold the domain
arithmetic, the provider adapters, the strategies and the reporter. This directory models
the parts of it in which an error would be an error of ordering, of concurrency or of
bookkeeping, checks them with TLC on small instances, and proves the most important
results with TLAPS for every instance.

Line numbers below and in `PROJECT.json` refer to the repository this directory stands beside.

## 1. Inventory

| part | state it keeps | operations | what is hard about it |
|---|---|---|---|
| order placement (`modules/orders`, `db/unit-of-work.ts`) | idempotency keys, orders, OCO groups, reservations | `place`, `placeOco`, replay of a key | repeated and concurrent requests, reservation arithmetic |
| fill settlement (`runtime/fill-settlement.ts`, `fill-persistence.ts`) | wallets, positions, fills, outbox, account sequence | `persistFill` | partial fills, rounding of fees, a stale engine, a fenced leader |
| triggers and OCO (`runtime/trigger-persistence.ts`) | the same rows | `persistTrigger` | two legs racing, cancellation racing a trigger |
| cancellation (`runtime/order-cancellation.ts`) | the same rows | `cancelOrder`, operator cancel-all | racing a fill that committed first |
| FX (`modules/fx`, `production-runtime.ts #fxService`) | quotes, wallets | quote, convert | a quote used twice |
| matching engine (`engine/`) | in-memory open orders and watchers of one leader, last envelope of each symbol | book and trade events, immediate placement, cancel, restore | an in-memory copy of the ledger that another leader may overtake |
| leader leases (`market-data/leader-lease.ts`, `runtime/lease-registry.ts`) | one advisory lock and one fencing token per market, the current generation | `acquireAll`, `abortPending`, `releaseAll`, loss of a lease | aborts at every await, dead connections, ordering of acquisition |
| process lifecycle (`runtime/production-runtime.ts`, `runtime-state.ts`, `lifecycle/`) | the runtime state, latches, publisher, abort signal | `start`, `reelect`, `stop` | three asynchronous procedures over the same state |
| retry supervisors (`runtime/reconnect-supervisor.ts`) | a window of failures, one timer | `schedule`, `recordFailure`, `reset`, `resume` | exhaustion against retries that succeed |
| market data (`market-data/`, `runtime/market-runtime.ts`) | recovery epoch, per-symbol baselines, health, incidents | connect, recover, events, pongs | snapshots overtaken by live events, an aborted recovery still writing |
| outbox and streams (`modules/stream/`) | published flags, per-socket queues, opening/live entries | poll, publish, open with replay, promote, close | order and completeness of what a client sees |
| incidents and gates (`safety/`, `request-admission-gate.ts`) | active incidents, admitted requests | activate, resolve, drain | counting, concurrent activation |
| lock order (`db/lock-order.ts`) | row locks of a transaction | assert, lock | deadlock between transactions |
| strategy runner: orders (`gateway/`, `fills/`, `state/`) | decision log, fill journal, state store on disk | record, submit, process, recover | a crash between any two writes, retries of unanswered calls |
| strategy runner: safety (`runner/kill-switch.ts`, `risk/`) | the latch and its file | engage, sweep, resume | submissions in flight while the switch engages |
| strategy runner: feeds (`feed/`, `session/`) | cursor, connection, session | connect, resume, gap, expiry | gaps and duplicates of the stream |
| provider adapters (`packages/market-data`) | token, socket, subscriptions | refresh, connect, declare | one refresh at a time, pending subscriptions on close |
| HTTP edge (`plugins/`, the routes, `idempotency-service.ts`, `fx-service.ts`) | admitted requests, remembered responses and quotes of one process | admit, answer, settle, drain | retries that share a promise, two processes with separate memories |
| strategies and backtest (`strategy-sdk/strategies`, `backtest/`, `risk/`) | lots, price windows, a simulated wallet, the day's limits | tick, decide, judge, match | gaps, refusals, rounding, restarts from an older cell |
| reporter, web, infrastructure | - | - | presentation, test drivers |

How they interact: an HTTP request takes the admission gate, then a transaction that locks
the session row; a placement also enters the leader's engine. Market data reaches the
engine, which calls `persistFill` and `persistTrigger`; these compare the event's fencing
token with `leader_epochs` inside their transaction. Every mutation appends outbox events
with an account sequence; the publisher loop, which runs only while the process is SERVING,
claims them and hands them to the stream hub, which forwards them to sockets. The strategy
runner is a client of the HTTP interface and of that stream. One process is SERVING at a
time because it holds the advisory locks of all markets.

What makes each part correct, in one line each: balances always reconcile with reservations
and reservations with orders; an order that ended stays as it ended; a pair of legs has one
winner; a key admits one placement; a client can rebuild orders from events; a market has
one current leader and a superseded one is fenced; locks do not leak and contenders do not
deadlock; a stop always ends; a client that passes an event has had it or knows that it has
not; the engine's copy of a live order is the row; a market that is down refuses placement and
comes back; transactions of one account are as good as serial and an answer tells what happened;
a decision of the runner becomes one order; what the runner was told is on disk stays there.

## 2. Modules

| module | models | notes |
|---|---|---|
| `Sums` | sums over functions with finite domain | counts units, so the provers can reason about it without recursion |
| `OrderLedger` | one session's rows and every transaction that writes them | one action per transaction |
| `OrderLedgerProofs` | theorems on `OrderLedger`: the books, and what becomes of an order | proofs |
| `LedgerLocks` | the same transactions statement by statement: row locks, key claims, the lock-order guard, retries, unknown commits | shows what lets `OrderLedger` take a transaction as one step |
| `HttpEdge` | extends `LedgerLocks` with the admission gate, the routes, the in-process idempotency and quote memories and the answers | composition |
| `PaperEngine` | the engines of two processes over one ledger, with leases and fencing | one action per await-free stretch and per transaction |
| `MarketRuntime` | one market at run time: socket, recovery, event loops, keepalive, health machine, incident rows, supervisor, re-election | one action per await-free stretch |
| `RuntimeLifecycle` | the processes that contend for leadership: lifecycle, lease registry, leases, locks, tokens | one action per await-free stretch |
| `AccountStream` | one session's account events from the outbox through publisher, hub and socket to the runner's journal | one action per database call, per frame flushed and per event taken up |
| `MarketFeed` | quotes from a market's slots over the stream and the REST reads to the strategies | one action per await-free stretch |
| `StrategyRunner` | the runner's decisions, submissions, sessions and kill switch, with its files and restarts | one action per await-free stretch |
| `StateFiles` | the runner's append log, fill journal and JSON cell on a disk whose writes tear | one action per system call that can fail |
| `DurableJournal` | what a journal promises | abstract specification, implemented by `StateFiles` |
| `Backtest` | strategies, strategy host, risk gate and simulated exchange | one action per tick and per decision |
| `HttpEdgeProofs` | theorems on `LedgerLocks` and on `HttpEdge`, which extends it | proofs |
| `RunnerPartsProofs` | theorems on `StateFiles`, `MarketFeed` and `Backtest`, which share no variable | proofs |
| `RuntimeLifecycleProofs`, `PaperEngineProofs`, `StrategyRunnerProofs`, `MarketRuntimeProofs`, `AccountStreamProofs` | theorems on the module each is named after | proofs |
| `MC...` | instances for TLC | |

### OrderLedger

Every writer of a session's rows first locks the session row, so the mutations of a session
are serial and each transaction is one action. A transaction that throws rolls back, so the
conditions under which it throws are the negated guards of the action and a refused request is no step.

`balance` joins `cash_wallets` and `positions` (total, available, reserved); `terms`, `status`,
`filled`, `winner` are columns of `orders`; `fills` is the sum of an order's rows in the table
of that name; `groups`, `reservations`, `claims`, `fence` are `oco_groups`, `reservations`,
`idempotency_requests` and `leader_epochs`; `event` is the last outbox event about an order and
`sequence` the account sequence.

| action | code |
|---|---|
| `PlaceSingle`, `PlaceOco` | `OrderPlacementService.place`, `commitTradingMutation`, `commitOcoPlacement` |
| `PersistFill` | `createFillPersistence`, `planSettlement`, `settleFill`; its inputs are what the engine computed |
| `PersistTrigger` | `createTriggerPersistence` |
| `Cancel` | `createOrderCancellation` |
| `FxConvert` | the conversion in `#fxService` |
| `BumpFence` | the epoch transaction of a new leader |

Abstractions. Amounts are integers; cash is counted in twentieths of a price unit so that the
protection multiplier 1.05 is exact. `Fee` is any function of side, price and quantity, so
no property depends on a fee being additive. A match has one price: a walk over several
levels is the same settlement with a sum in place of a product. A conditional order carries
one price. The engine's belief `e` of what is filled is any value below the quantity: the
engine is a separate in-memory copy that can be stale after a restore, and the row takes
the engine's figure. Average cost, the price protection band and the session's expiry are not
modelled.

### RuntimeLifecycle

A Node process is single threaded: what runs between two awaits is atomic, and everything
else may happen at an await. `start`, `elect` and `stop` record the await each of the three
procedures of `ProductionRuntime` is at; `mode` and `live` are `RuntimeStateMachine` with the
latches and the publisher its hooks switch; `gen`, `bundle`, `releasing` are the
`LeaseRegistry`; `lease` the `LeaderLease` objects; `failures` the window of the process
supervisor; `lock` and `token` the database.

A lease can be lost in two ways: the client notices first (`LoseLease`, after which the
server still has the session, `Ghost`, until `ServerReaps`), or the server drops the session
first (`ServerDrops`) and the process goes on believing it holds the lease. That second
window is what the fencing token is for.

Abstractions. The release of one lease is atomic. A generation that has settled is resumed
by whoever awaits it before another event of the same process (`Resuming`), as the
microtask queue does. Draining requests and the outbox is inside `CloseSockets`: it ends by its deadline. Whether a
connect resolves or rejects is nondeterministic; provider failures resolve. The coordinator's incident
record on failure, audit writes and metrics are left out, and the supervisor's five-minute
window is not timed (failures never leave it by age, which only helps them add up).

### AccountStream

An event is its account sequence: sequences are handed out under the session's row lock and
the outbox row is written by the same transaction, so the committed events are always 1 to
`latest`. `pending` and `shelf` are the unpublished and the published rows of `outbox_events`,
each in the order in which the code goes through them (`created_at, id` and `published_at`);
`publisher` is the `OutboxPublisherLoop` of every process with the poll in flight; `conn` is the
one connection of the runner: the hub's entry, the `StreamSession` and what was sent on it.
`cursor`, `applied` and `skipped` are the `FillJournal`, `handling` the event inside
`FillProcessor.process`, `demands` and `snapshots` the resyncs under way.

| actions | code |
|---|---|
| `AppendOutboxEvent` | `appendOutboxEvent` in a committing ledger transaction |
| `Tick`, `ClaimPendingOutbox`, `Publish`, `MarkOutboxPublished`, `PollSettles`, `ClaimFails`, `RowFails` | `#tick`, `pollOnce` and what it calls, `#maybePrune` |
| `PauseScheduling`, `Start` | the publisher's part of `leaveServing` and `enterServing` |
| `Connect`, `CompleteUpgrade` | `StreamClient.#connect`; `onUpgrade`, whose await lies between two looks at the gate, and the registration in `onOpen` |
| `ReadOldest`, `ReadLatest`, `Replay` | the three reads of `StreamSession.open` |
| `FlushRound`, `FlushOne`, `TooManyRounds`, `GoLive` | `promoteToLive` |
| `TakeEvent`, `Commit`, `ProcessFails` | `#drain`, `FillProcessor.process`, `FillJournal.commit` |
| `HearRefusal`, `ReadPortfolio`, `Resync`, `ResyncFails` | `#resync`, `FillProcessor.resync` |
| `ConnectionLost`, `CloseAll`, `RunnerRestarts`, `DayPasses` | network, a process that stops, crash and time |

Abstractions. A transaction that starts early and commits late, and the random ids of the rows
of one transaction, both appear as a row that sorts up to `MaxSkew` places before the end. Frames on
the wire and in the client's queue are one sequence (`sent` from `heard` on): both are dropped
with the connection. The frames of a replay are sent in one step because an opening
entry sends nothing else. The payload, the orders an event leads to, quotes and heartbeats are left out; of the checks of an upgrade the
gate is modelled, the others only refuse. `DayPasses` makes rows
old enough to prune; it does not happen inside a poll, an opening or the processing of an
event, all of which end within a minute. A new leader starts only after the old one's poll has
ended, as a re-election waits for it before it releases its leases.

### LedgerLocks and HttpEdge

A request or engine callback is a program: the sequence of row locks, unique-key claims, reads
and writes its code performs (`PlaceOpening`, `PlaceRest`, `FillRest`, `CancelLocks`, ...), run
statement by statement (`Acquire`, `Peek`, `LockCandidates`, `CheckActive`, `Decide`,
`Allocate`, `Commit`) against the locks of the others. A row is addressed by its place, its rank in
`LEDGER_LOCK_ORDER` and its key. Keys are strings in the code; here they are sequences of numbers that
compare as those strings do (an order id is a number, and the winner's slot of a pair sorts behind
every order row, `ocoWinnerClaimKey`). The guard of `lock-order.ts` refuses a place behind one already taken, for
the transactions that go through `UnitOfWork`. `StatementFails` is a serialization failure, a
deadlock report or any other driver error before the commit, `CommitLost` a connection that breaks with the
commit sent. `MayRetry` and `Fail` are the two runners' retry rules.

`HttpEdge` puts the request in front: each process has its gate, its responses by idempotency
key (requests that find a pending one share it) and its FX quotes; the engine's callbacks bypass
it. `Status` is the error handler. A conversion is answered with the receipt its process has for the
`Idempotency-Key`, whatever quote was sent; only then is the quote looked at. A client may hang up, a
process may close its gate and drain.

Abstractions. Rows of different sessions are disjoint, so there is one session. Amounts are
left to `OrderLedger`: a transaction decides on which orders are open and settled, on the key
and on the session being active. Schemas, headers and rate limits only refuse.

### PaperEngine

`row`, `sold` and `fence` are the ledger's columns, `holder` the advisory lock, `node` a process:
lease, gate, store version, the engine's `#orders` and `#conditional` and its work item. `#serialize` runs one
item at a time, so a node is idle or inside one match or one trade; the item's transaction
(`Transact`) and its continuation (`Resume`) are separate steps. Placement and
cancellation commit in the ledger and then tell the engine (`calls`). The walk over the book is
`Depth`, with the limit and the protection band.

`astray` is a history variable: the orders whose copy was not the row when a lease was taken
(restored too early, or not at all after a re-election, where a transaction of the old lease may
even be in flight), whose placement was committed by a process without the lock, or whose
acknowledgement was lost. The code lets these drift (section 5), and `FillsAddUp` and
`LiveOrdersMirrored` are about all others.

### MarketRuntime

The process is one record `m` (health machine, recovery, socket, loops, keepalive, supervisor,
who owns the market) and a step is an operator on it, from one resumption to the next await on
the database, the provider or a timer. `rows` are the ACTIVE incident rows of the market; `Capabilities`
and `MarketDataHealth` are what `TradingCapabilities` and `marketHealthView` derive from them.

| actions | code |
|---|---|
| `Connect`, `TimerFires`, `Handshake` to `Applied`, `Resolve`, `Aborted` | `connect`, `#recoverOnce`, `RecoveryCoordinator`, `markHealthy` |
| `TokenRefused`, `HandshakeFails`, `DeclarationFails`, `BlockFails`, `EngineFails`, `ResolveFails` | the same awaits rejecting |
| `InvariantFails` | an invariant failure in the recovery: rethrown before any of degrade, record and schedule, and swallowed by the supervisor |
| `Activated`, `ActivationFails` | the incident write of a degrade, shared by all who await it |
| `Dispatch`, `Dispatched`, `Rejected`, `SocketLost`, `ProviderCloses` | the event loop and its end |
| `Ping`, `Pong`, `PongTimeout` | the keepalive |
| `LoseLease`, `Report`, `AdminResolve` | re-election and the operator |

Three history variables name what the code lets slip: `astray` (a recovery that began beside a
live loop, was found running by `connect()`, or died with a failed incident write or an invariant
failure), `leftover` (rows a resolution left), `unheld` (the row of the current outage was resolved by
hand or could not be written). Section 5 says how each happens. The incident that announces an
exhausted window (`Announce`) is written in one step; the code does not wait for it.

### MarketFeed

An answer of the API is its epoch, its version, whether there is a price and whether a book comes with it. `passes`
are the two REST passes that may be under way, `wire` the frames, `cursor`, `age` and
`book` the `QuoteTicker`, `saved` the cursors in the runtime cell. Ages stand for clock
readings: recent, half of `maxQuoteAgeMs`, more than `gapAfterMs`. A cycle reads the portfolio before it
drains, and a connection needs credentials too, so both are guarded by `session`, which `LoseSession`, a
renewal that failed, takes away until a restart.

### StrategyRunner

A thread is a chain of awaits: the supervisor's cycle, the stream's event queue, the sweeps.
`decided`, `settled`, `cursor`, `cell` and `file` are files and survive `Crash`; `orders`, `open` and
`sessions` are the ledger, which is external here: it replays a key within a session. Faults
are of fourteen kinds, from a lost answer to an operator's hand on the kill-switch file.
A decision is its id; what it asks for is `Backtest`'s business.

### StateFiles and DurableJournal

A log is lines and a tail, each a sequence of pieces, whole records or fragments. An append that throws has
written nothing, a part or the record without its newline (`AppendCutShort`), or everything, and then
`fsync` threw (`AppendUnsynced`); at each point the process may die instead. In the last case a process that
lives on does not know of the record and may append again: the history variable `parted` says that it
happened. Any event past the cursor may be processed, since the queue goes on behind one that failed.
The refinement mapping of `ImplementsJournal` takes the terminated records, those
spliced behind a torn tail included, for the journal's entries, and a tail that parses for the one
entry in doubt.

### Backtest

A tick settles the resting orders, the strategy decides, the host contains throws and quarantines,
each decision passes the risk gate and reaches the exchange. The grid, the crossover and an
arbitrary strategy are three initial states. `PersistRuntime` and `RestartRunner` are the live supervisor's: the
cell is written after a cycle, so a restart may restore an older mind, and a host that has decided
nothing yet writes none. Money is integer; a fee is rounded in any of the four modes to a multiple of
`FeeUnit`, the cost removed by a sale half up to one of `CostUnit`. A settlement that throws
(`holdings.thrown`) has moved the position already and ends the replay.

## 3. Runs

Every run is expected to pass.

| run | properties | what it shows | distinct states |
|---|---|---|---|
| `ledger` | `TypeOK`, `LedgerReconciles`, `ReservationsFollowOrders`, `OcoResolution`, `EventsTellRows`, `SharesConserved`, `TerminalIsFinal` | over all interleavings of the transactions balances, reservations, orders, groups and events agree | 157 000 |
| `locks` | `NoWaitCycle`, `NeverRefused`, `DecisionsHold`, `RepliesAreTrue`, `DrainedMeansDone` | transactions of one account neither deadlock nor overtake each other's decisions, no command or key takes effect twice, a status tells what happened, a drain ends when the work has | 1.6 million |
| `engine` | `FillsAddUp`, `LiveOrdersMirrored`, `BestExecution`, `FillsFollowTheFence` | engine and rows agree through races, failures, lost leases and crashes; the walk is optimal; a deposed leader adds no fill | 2.5 million |
| `market` | `NeverAbandoned`, `HeldWhileDown`, `NoOrphanIncident`, `Recovers` | a market that is not astray always has somebody on it, refuses placement while down, is not held by the row of an outage that is over, and comes back | 99 500 |
| `lifecycle_safety` | `OneCurrentLeader`, `LocksInCustody` | tokens are unique, no lock leaks, nothing is held after a stop | 1.8 million |
| `lifecycle_liveness` | `SomeoneLeads`, `StopGoesThrough` | contenders do not deadlock; a stop goes through | 271 000 |
| `stream_safety` | `BarrierHolds`, `NoSilentLoss`, `AccountedOnce` | the replay barrier loses and repeats nothing; the runner passes no event silently; none is both written off and applied | 5.0 million |
| `stream_liveness` | `CatchesUp` | the cursor reaches every event the outbox keeps | 413 000 |
| `feed` | `TicksAreNew`, `KeepsFresh` | stream and REST reads share one cursor without repeating a version or keeping an old book; a quiet instrument is observed again while there is a session | 311 000 |
| `runner` | `OneOrderPerDecision`, `OrdersAreCharged`, `SweptClean`, `LatchHolds`, `LatchSettles` | through retries, renewals and crashes a decision is one order of a session and is charged; a kill switch that settles has left nothing resting | 388 000 |
| `files` | `FilesTellTheTruth`, `ImplementsJournal` | torn and failed writes never lose what was told, or are refused; a journal applies nothing twice and, without holes, has the ledger's position | 125 000 |
| `backtest` | `BooksBalance`, `NeverOverexposed`, `TradesOnSignal` | the simulated books add up under any mix of orders, cancels, throws and rounded fees; the bundled strategies hold what they remember and trade on their signal, over restarts | 612 000 |

Bounds. `ledger`: three orders, of which two may form the one group, two keys, two prices,
quantities up to two (so a partial fill exists), one symbol and two wallets, one conversion,
two fencing tokens and five account sequence numbers: enough for two placements each
followed by a fill and a cancel, or for an OCO, its resolution and a second order. Cash
suffices for one order of the higher price, so refusals, shortfalls and exact fits all occur. Fees
are constant for buys, so the parts of an order cost more fee than the whole.

`locks`: any three of ten commands (a cycle needs two, a reply shared by one request and
denied to another three), a single order and an OCO pair in different currencies, two quotes converted
under one header, two processes of which one stops, one retry, two driver errors, one hang-up. Account sequences start
at 8, so that one transaction crosses the width at which unpadded keys would sort wrongly.

`engine`: two processes, two leases, two market events, and three scenarios: a partial fill
beside a protected market order over two books, with one fault; a stop beside a limit order, and
an OCO pair between two trades with a one-sided book, with two. Two leases are the smallest number
with a deposed leader, two faults let a lost acknowledgement meet a lost lease.

`market`: four faults of any kind in any order, three loops alive at once, six rows, a window
of two failures, two missed pongs, bursts of two: each threshold is met and passed.

`lifecycle_safety`: two processes, two markets, two faults among lost connections,
dropped sessions, failed queries, failed restores, rejected connects, crashes and reboots;
`lifecycle_liveness`: the same with one fault. Two contenders and two markets are the smallest
instance that can deadlock, and every hazard of the list needs at most two faults.

`stream_safety`: two processes, three events, polls of two rows, an opening queue of two, one
flushing round and a socket queue of one, so that every limit is met by the events there are, and
any two faults of the seven kinds. `BarrierHolds` is claimed while no leader
changed, and `NoSilentLoss` while connections, the runner and the processing of events are all
that fails: the other kinds do lose events, see section 5. A third event is what it takes to
have one applied, one pruned and one retained, which is an `OUTBOX_GAP`; `stream_liveness`
reaches it with one process, a day and a lost connection.

`feed`: one instrument, two epochs, two versions in the first, of which the second may be a book
and either a trade, one fault. `runner`: two ticks, one
fill event, two attempts, a trip after two failures, two passes of a sweep, any two faults. `files`: three
events, two values of the cell, two failures, so that an event can fail twice, or one can fail and a second
be passed by the third. `backtest`: four prices with
gaps and days, three slots of which the position limit allows two, a wallet of 11 and fees rounded up to 3, which
is more than the smallest notional and leaves sales the wallet cannot pay for. The crossover has five ticks and one
restart: an entry takes three, an exit four, and from the fourth on its ring drops prices. The grid has
four ticks and two restarts, so that what one restored is saved and restored again. The
arbitrary strategy has four ticks and no restart, for it keeps no state; its seven decision lists fill, rest,
reach, cancel and are refused for every reason the gate and the exchange have.

Deadlock is checked on the stream, runner and backtest runs, where somebody always has a
next step, and not on the others: a session may run out of keys and sequence numbers, processes that stopped or
failed closed stay down, a journal that was refused stays so, a runner without a session waits for an operator.

Fairness. Each process's own continuations are weakly fair: promises settle, timers fire, drains
end at their deadline, every request ends by an answer or a time-out. In `lifecycle_liveness`
a dropped connection is noticed in the end (TCP keep-alive) and PostgreSQL reaps dead sessions;
nothing is assumed about the order in which contenders get a lock. In `stream_liveness` the
loop's timer fires, an opening goes on, the runner reconnects, works through its queue and
finishes its resyncs. In `market` a provider that is asked answers once faults have run out, and the
keepalive ticks. In `feed` passes and frames make progress, and as long as there is a session a cycle drains
again and a socket is retried. In
`runner` every chain of awaits that can go on does. Boots, stops, new events, days,
operators and faults are never fair.

## 4. Proofs

A run shows a property for a small instance; the theorems below hold for every value of the
constants that satisfies the named assumptions, in particular for any number of orders, requests,
processes, markets and faults. Each follows from an inductive invariant, which TLC checked before
it was proved. The refinement is proved step by step on top of one.

| theorem | states | of |
|---|---|---|
| `LedgerTypes`, `LedgerAlwaysReconciles`, `ReservationsAlwaysFollow`, `TerminalOrdersAreFinal` | `TypeOK`, `LedgerReconciles`, `ReservationsFollowOrders`, `TerminalIsFinal` | `OrderLedger` |
| `EventsAlwaysTellRows`, `OcoAlwaysResolves`, `SharesAreConserved` | `EventsTellRows`, `OcoResolution`, `SharesConserved` | `OrderLedger` |
| `NoDeadlock`, `DecisionsAlwaysHold`, `NeverTurnedAway` | `NoWaitCycle`, `DecisionsHold`, `NeverRefused` | `LedgerLocks` |
| `EdgeImplementsLedger`, `RepliesTellTheTruth`, `DrainTellsTheTruth` | the edge implements `LedgerLocks`; `RepliesAreTrue`, `DrainedMeansDone` | `HttpEdge` |
| `FillsAlwaysAddUp`, `LiveOrdersAlwaysMirrored`, `FillsNeverGoBack` | `FillsAddUp`, `LiveOrdersMirrored`, `FillsFollowTheFence` | `PaperEngine` |
| `ExecutionIsBest` | `BestExecution` | `PaperEngine` |
| `LifecycleTypes`, `LeadersAreToldApart`, `NoLockIsLeaked` | `TypeOK`, `OneCurrentLeader`, `LocksInCustody` | `RuntimeLifecycle` |
| `FilesAlwaysTellTheTruth`, `LogImplementsJournal` | `FilesTellTheTruth`, `ImplementsJournal` | `StateFiles` |
| `TicksAreAlwaysNew` | `TicksAreNew` | `MarketFeed` |
| `BooksAlwaysBalance`, `NeverHoldsTooMuch`, `AlwaysTradesOnSignal` | `BooksBalance`, `NeverOverexposed`, `TradesOnSignal` | `Backtest` |
| `MarketIsNeverAbandoned`, `OutageIsHeld`, `NoIncidentIsOrphaned`, `TypesHold` | `NeverAbandoned`, `HeldWhileDown`, `NoOrphanIncident`, `TypeOK` | `MarketRuntime` |
| `NothingIsCountedTwice`, `NothingIsLostSilently`, `TheBarrierHolds`, `LimitsHold` | `AccountedOnce`, `NoSilentLoss`, `BarrierHolds`, `TypeOK` | `AccountStream` |
| `RunnerTypes`, `OneOrderForEachDecision`, `EveryOrderIsCharged`, `SweepsLeaveNothing`, `TheLatchHolds` | `TypeOK`, `OneOrderPerDecision`, `OrdersAreCharged`, `SweptClean`, `LatchHolds` | `StrategyRunner` |

**OrderLedger.** `LedgerInv`: the three state properties themselves, that an order
has terms exactly from its placement and a group exists before its legs
(`PlacedOrdersHaveTerms`), and that an order draws on a reservation of the asset it spends
(`ReservationAssets`). Without the last one a fill could take a reservation in the wrong
asset; without the one before, an order id could be reused. None of the three properties is
inductive alone: that `reserved` covers what a settlement takes needs the sum of the
reservations, and that a release takes exactly one entry from that sum needs
reservations to follow orders. The lemmas on `Sums` at the head of `OrderLedgerProofs` say that a change
of one entry changes the total by the same amount, and that an entry is at most the total. `OutcomeInv` stands next
to it: an order that was never placed has no fill and no event, only a fill makes a winner, and the
last event of each order tells its row. Shares are conserved because a settlement adds to `fills`
of one order what it moves into the position of its symbol.

**LedgerLocks.** The argument is that every transaction takes the session row, in a mode
that conflicts with itself, before anything it can wait for. `LocksInv` says of each open transaction that it
is still at the door (nothing locked, claimed, decided or allocated) or holds the session, that at
most one holds it, and that whoever has decided saw the rows as they are. Then only the holder ever has
something to wait for that is not the session, and it never waits, so there is no circle.

That the guard refuses nothing is a claim about every statement list the repositories compose, for
any pair of legs, any key and whatever the transaction read on the way. `PathInv` says that each guarded
transaction is on a path: some set `T` of statements is what it has executed (`Trail`: it holds exactly the rows,
and claims at least the entries, that `T` asked for, and the last place taken is one of them), and the statements
it has left each fit behind `T` and those before them (`Runs`). A statement `Fits` if it acquires
nothing new, or takes a place that is before none of `T`'s and a row that `T` does not hold in a weaker
mode. `Stage` says which program the rest is from, since `Decide`, `LockCandidates` and `Allocate` append to it:
the programs of each kind are shown to run behind every `T` their opening can have read, piece by piece, by
`Leads` (a piece runs, and leaves nothing held above a rank), which is closed under concatenation. Events are
the only place where keys grow while a program runs, so `Trail` bounds the last one by the last sequence
allocated.

The assumptions are that order ids are naturals and the two legs of a pair list each other in ascending order,
and that an order is settled in one of the two currencies (`LegsAssumption`; an id is a 128-bit number, and
a group's legs are read `order by legs.id`), and that a request has
one of the eight kinds, names an order where its kind needs one and carries a key, a natural that is not 0,
exactly if its outcome is stored (`RequestsAssumption`), which is how the routes and the engine build them.

**HttpEdge.** `EdgeInv` adds to `LocksInv` that the requests a gate counts are those admitted and
not yet settled, that a request which shares a promise or a remembered response has the same key
and the same body as the one it follows, and what an answer may be at each point; `WorkInv`, that an
effect is counted once per request and once per key. That an `EdgeSpec` behaviour is a `Spec`
behaviour of `LedgerLocks` carries the theorems on that module over (`NoDeadlockAtTheEdge`,
`DecisionsHoldAtTheEdge`, `NeverTurnedAwayAtTheEdge`). `KeysAssumption`: two placements under one `Idempotency-Key` are one key of the
ledger, and two conversions with the same quote have the same body, since the quote id is the body. A reply that replays
a receipt is justified by some conversion under its header, not by one of its quote: that is all
`FxService.exchange` looks at.

**PaperEngine.** `EngineInv` carries the proof through the two places where copy and row part on
purpose. Between a match and its continuation the engine holds an entry the ledger has not
accepted, so the invariant speaks of what the engine falls back to (`Resting`): the entry as it
was, if the transaction fails, and the row, if it commits. Between the commit of a placement or a
cancellation and the call that tells the engine, the call itself is the promise (`Awaits`, `CallsSound`). The
property of the copies is needed of every engine whose token is the newest, also while a work item
of that token is in flight after the lease is lost, which is why `Owns` is more than holding. The
lemmas about `Depth` and the walk show that a match takes no more than the order has left and no
more than the book has; they use the walk as a recursive function. Assumptions: quantities, prices
and volumes are naturals, as `assertOrder` and `assertBook` enforce (a price is counted in the
smallest step of its market), orders are numbered in the sequence of their placement, and no process is
called "none".

`ExecutionIsBest` adds `Decisions` to `EngineInv`: whatever match is in hand was decided by
`MatchOrder` on a book that passed `assertBook`. The rest is the exchange argument for a greedy walk.
Because the levels of such a book are in strict order and the best ask is at or below every other ask
and above every bid, a level out of bounds has only such levels behind it (`WorseBehind`), so no allowed
way leaves the levels the walk visits. At none of them is a way ahead of the walk (`WalkLeads`), so it
takes no more in all; and what it is behind by at a level it can only make up for at a worse one,
so if it takes as much it costs no less (`LevelCosts`, on the partial sums of both). All of
`assertBook`, and not only that the book is two-sided, is needed for it: that is why `Usable` states
all of it.

**RuntimeLifecycle.** `LifecycleInv` relates the awaits of `start`, `elect` and `stop` to the progress of the
lease generation (`PhasesAgree`) and says who has the leases that are to be released (`OneCustodian`).
`LocksInCustody` is not inductive without them: a re-election may take over a bundle only because the
generation it came from is complete, and a stop may give one away only because no re-election can still
do so. The names of processes differ from those of nobody and of a dead session, and no
market occurs twice in the order of acquisition (`LifecycleAssumption`).

**StateFiles.** `FilesInv`: a line, whatever was spliced into it, ends in the record it was written
for; a process that may write knows what the file tells, unless one has lived on after a record
that had landed; the sequences of the records grow, and as long as they count the account's fills from the
first the position of each is the ledger's. The refinement maps a splice, a repair, a failed, an unsynced and
a torn append each to a step of `DurableJournal`
or a stutter, for which the proof follows `FlattenSeq` over an unbounded log.

**MarketFeed.** A tick waits in one of four places: with the drain's pass, with the re-baseline's, in the
queue, or handed over. `FeedInv` says that the cursor of an instrument has seen every tick of it wherever it
waits (`AllSeen`), so that an observation that advances past the cursor is new to all four, and that the places
repeat nothing, in themselves or of each other (`NothingRepeats`), which is what lets one be emptied behind another; and
that a held book is of the epoch of its instrument's cursor or was wiped. `TicksAreNew` alone is
not inductive: it does not relate the ticks to the cursor. The run has one instrument, the
theorem any set of them. Assumptions (`FeedAssumption`): instruments are numbered in configuration order, and
None is no cursor.

**StrategyRunner.** `RunnerInv` says who carries out what: a tick is the cycle's, a fill the event
queue's, a cancel a sweep's, but for what a start replays from the log (`RolesSound`). An order at
the ledger, and a request that may still arrive there, is of a recorded decision, and its key is that
decision alone (`OrdersSound`), which is why a second request finds the first. `SweptClean` needs
that a placement under way when the latch comes down keeps a sweep waiting or has another one armed
(`LatchSound`), and `OrdersAreCharged` that in a life without a restart no decision has two
submissions, and that one halted before its first request was never sent (`ChargesSound`).
`LatchHolds` follows from each step on top of the invariant: the file of an engagement is believed
by every later life. Assumptions (`RunnerAssumption`): the bounds are naturals, a submission may try once
at least, there is a re-sweep, and no re-sweep has the name of another thread.

**MarketRuntime.** `MarketInv` says that a market which is served and not astray is `Manned`: a
recovery is under way alone, or a retry is pending, or a loop reads an open stream, and
the transportClosed event of a stream that closed is not lost on the loop that reads it next. The
property alone is not inductive: a closed stream is harmless only as long as somebody will hear of
it. Each synchronous piece of the code is shown to keep a market manned and to
leave it degraded at most (`Keeps`, `Calm`), and a step is a composition of such pieces, so that a
burst which closes the transport in the middle of a dispatch needs no case of its own. `RowSound` ties the
row of the outage to the machine's state, and `LeftoverSound` the rows that stand to those a resolution could not
see. While they were proved, `HeldWhileDown` and `NoOrphanIncident` turned out to need
fewer exceptions than they had been checked with, and are now stated and checked without them.
Assumptions: loops and row ids are finite sets of positive naturals, and there is a row id.

**AccountStream.** `StreamInv` rests on three facts. One process publishes, and has the connection
until a handover (`OneLeader`), so what was delivered is the shelf and the rows whose mark is
in flight, and the barrier, which looks at the shelf only, cannot lose the others (`BarrierSound`). A
retained event between the cursor of the connection and `upTo` was told, so that a flush may drop what is at
most `upTo`, and an event delivered again after a failed mark is, in a sorted batch, next to the
one already sent (`FlushSound`). And while the publisher delivers in order, no event is queued
or sent before its predecessor (`OrderSound`, `QueuesSound`), so what the runner took up lies behind its
cursor or failed (`HeardSound`); this last part holds only without skewed rows, failed polls, prunings,
overflows and handovers, which is the hypothesis of `NoSilentLoss`. The barrier's properties need no such
hypothesis but that of the handover. Assumptions (`BoundsAssumption`): the bounds are naturals and
a batch is not empty.

**Backtest.** `ReplayInv` has the two halves apart. The account (`Sound`, `Booked`): every amount is natural, cash,
reservations and cost add up, and the reserved parts are those of the resting orders; the cost removed
by a sale is at most the cost, because half a unit rounds no further than the next
whole one (`Rounds`), and a resting order settles at the limit its reservation was made for, so that a purchase is
always paid and only a sale whose fee is not covered throws (`Settlements`, `Sold`). A tick
settles several orders, so the lemma on `Match` follows its walk and keeps what the orders ahead reserve. The
strategy (`ReadDecisions`, `OneMarketOrder`, `LotsCover`): while a tick's decision is pending, what is held and
what is asked for together are what the lots stand for, and the portfolio the gate judges by is still the
account's. Neither property is inductive alone: the position limit holds only because a bundled strategy
asks for one market order on a tick. Assumption (`BacktestAssumption`): what the readers of the plan, the parameters,
the fees and the limits accept, with every rate, mode and number of decimals among it. On top of it `SignalInv` says what the
memories mean: the crossover's ring is the newest stretch of the whole series since the last gap, in the
cell too (`NewestOfNewest`, `NewestAppended`), so its comparison is that of the averages over the
series (`WindowShows`), and every lot was bought below its slot's level (`RungIs`), so it is given up more than
a step above its price. The crossover holds one entry or nothing because its one order is filled
whole or not at all (`EntryIsWhole`).

Data that is recursive (the walk through a book, the concatenation of a log, the sums over resting orders) is handled without an induction
rule: the set of indices at which a claim fails has a least member, and that member is shown not to exist.

Only model-checked: the liveness properties (`SomeoneLeads`, `StopGoesThrough`, `Recovers`, `CatchesUp`,
`KeepsFresh`, `LatchSettles`). Fairness and ENABLED are out of the prover's reach.

## 5. Findings

Where the code does not do what its comments, tests or design say, or where a property had to
be stated with an exception. Each was found as a counterexample to the unconditional property, or read while modelling.

Ledger and engine:

- `matchOrder` gives a partially filled LIMIT order the status OPEN when a book update crosses
  nothing (`match-orders.ts:49`); the engine persists it as a change, against
  `paper-engine.ts:375` and the transitions of `order.ts:52`.
- The open orders are restored before the leases are acquired (`production-runtime.ts:474`
  against `:484`): the old leader's last fills are filled again by the new one. A re-election
  restores nothing: a fill of the old lease that is still in flight when the same process leads again,
  and fails on its token, puts back a copy that the leader in between has overtaken.
- The LIMIT leg of an OCO is not restored (`production-runtime.ts:1508`), nor is a placement
  committed by a process whose lock was gone.
- A fill whose commit was not acknowledged is filled again; so is the same book's liquidity by each
  new placement. After a recovery under the same lease versions restart and the engine
  is deaf until they pass the old ones.
- A cancelled watcher stays PENDING_TRIGGER in `#conditional`; the ledger refuses its trigger. An
  order expired by PRICE_PROTECTION has a `terminal_reason` that `toTerminalReason` refuses to read.
- `ledger-transaction.ts:23` says `for key share` where the code takes `FOR UPDATE`, and
  `outbox-repository.ts` says rank 6 where the rank is 7.

HTTP edge:

- Without a store, as in production, `IdempotencyService` remembers every `DomainError`, 503 and
  429 included, and a rejected promise for ever, so that a retry under the same key repeats the
  failure; `unit-of-work.ts:119` tells clients to retry under the same key.
- `FxService.exchange` looks for a receipt of the session and the `Idempotency-Key` before it looks at
  the quote (`fx-service.ts:101`): another quote sent under a used key is answered with the old receipt
  and never converted.
- Its hash covers the body only: a DELETE of another order under the same key gets the first one's
  response. An FX retry after an unknown commit gets QUOTE_CONSUMED, and through another
  process NOT_FOUND. The FX routes report SERVICE_UNAVAILABLE as not retryable.
- A client that hangs up is settled while its handler runs, so a drain may report zero early;
  `DrainedMeansDone` excepts these.

Market:

- `connect()` returns silently when a recovery runs, which may leave the market to nobody; a failed
  incident write ends the retries of a timer's recovery, against `market-runtime.ts:263`, or
  is an unhandled rejection when a loop or a ping degraded the market.
- An invariant failure in a recovery is rethrown before the market is degraded, the failure recorded or a retry
  scheduled (`market-runtime.ts:254`), and the retry's caller swallows it (`reconnect-supervisor.ts:95`): a
  served market stays with nobody to recover it until a lost lease, a restart or, if its window was
  exhausted, an operator.
- `onTransportClosed` schedules a recovery after its await even when the runtime was aborted:
  two loops on one stream. An aborted loop's late burst degrades the new connection.
- A degrade that overlaps `markHealthy` leaves an ACTIVE row on a healthy market
  (`health-machine.ts:99`); an abort in the middle of a recovery leaves SYMBOL rows that nothing resolves and
  that capabilities ignore. An operator who resolves the row of a running outage opens placement.
- `#refreshIncidents` (`production-runtime.ts:1523`) assigns after its await: an older read may
  overwrite a newer one. The model reads the rows, not that cache.

Lifecycle:

- A lease lost while `start()` awaits the instrument names starts a re-election, and `start()`
  serves regardless, against the design's "lease lost in RECOVERING leads to RE_ELECTING". In the
  same race the publisher stays on (`production-runtime.ts:637`, against `runtime-state.ts:38`).
- A stop during RECOVERING raises the abort signal only after draining, and `start()` may
  enter SERVING before. The process supervisor's retry callback returns true at once
  (`production-runtime.ts:580`), which resets the window its failures are counted in.

Stream:

- The publisher claims rows by `created_at, id`, not by sequence, which the replay barrier and the
  runner's cursor rely on: a live socket sees the sequence go backwards and the runner skips the
  lower event.
- An event the runner could not process, or whose append failed, is passed by the commit of the next one in
  the queue, after which no replay brings it, against `stream-client.ts:613` ("The cursor did not advance, so
  the next connect replays this event"); a session's queue for a busy socket is never drained (`stream-session.ts:136`).
- A cursor below a fully pruned outbox is accepted, because `StreamSession.open` (line 99) refuses
  only when a row is left, and so is one whose rows are pruned between the reads of `oldest` and
  `replay`; the comment at `stream-client.ts:369` says that it is refused.
- A re-election leaves sockets on a process that no longer publishes
  (`production-runtime.ts:597`); they miss what the next leader marks as published.
- The runner writes events off on every refusal (`fill-processor.ts:445`), also on an overflow, after which
  the next connect would have replayed them.
- `promoteToLive` drops duplicates between rounds, not within one, so an event queued twice for
  one round is sent twice in a row; clients deduplicate.

Runner, feed and strategies:

- A decision halted with no attempt on record may have been sent, in an earlier life
  (`state-store.ts:117`); a halted fill decision is taken up again after a clear and a restart.
- A retry after SESSION_EXPIRED is a new key to the new session: the order may exist in both.
  Concurrent 401s create two sessions; after a failed re-establishment no session is tried
  again (`supervisor.ts:494`), so that every cycle fails before its drain and no socket is opened until a restart;
  the old session's cursor is applied to the new one's sequence.
- A record written without its newline is told as failed and read back as written; a torn tail is
  spliced with the next record and the log refused. A record that landed whole before `fsync` threw
  (`append-log.ts:120`) leaves `#incomplete` false: file and memory part, and a retry writes the event a second
  time or the next one is computed from a position without it.
- A sale whose fee is more than it brings and the wallet holds throws in the simulated exchange after the
  position was changed, and ends the backtest; nothing bounds the rates (`fee-model.ts:102`).
- A refresh of an unmoved instrument carries the market's current version
  (`production-runtime.ts:1281`), so one price is handed over twice, which `quote-ticker.ts:18` calls
  impossible; a pass that waits for its second instrument is overtaken by a frame of
  the first, against `market-feed.ts:19`. Cursors are saved ahead of the ticks handed over.
- A quarantined strategy's state is saved, as old as the quarantine, beside cursors that go on
  (`supervisor.ts:601`), and the next life resumes it with no gap; the comment at `supervisor.ts:587` gives the one cell as
  what prevents a window resumed against a cursor that does not match it.
- A restart from a cell older than a purchase makes the grid forget lots it holds; the crossover
  reads holdings from the ledger and is not affected. The gate judges all orders of a tick against one portfolio.

## 6. What is left

Not modelled: the web client, end-to-end tests, deployment scripts and the reporter (presentation, test
drivers, a best-effort queue); reads, schemas, rate limits and cookies of the HTTP
interface (they refuse or show, and change no state the properties speak of); decimal
parsing, provider frame decoding and the second provider (input handling); the operator's
cancel-all (a loop over the modelled cancel); GLOBAL incidents, gate locks, audit and metrics.
Delays, windows and clock readings are not timed anywhere: what they decide is a nondeterministic choice.
