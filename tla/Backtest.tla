------------------------------ MODULE Backtest ------------------------------
(***************************************************************************)
(* The trading loop of the strategy runner as its backtest replays it: a   *)
(* recorded tick settles the resting orders, the strategy decides on the   *)
(* portfolio of that moment, and each decision passes the risk gate and    *)
(* reaches the simulated exchange (backtest/engine.ts,                     *)
(* backtest/simulated-exchange.ts, risk/risk-gate.ts,                      *)
(* runner/strategy-host.ts), with the two bundled strategies               *)
(* (strategies/grid.ts, strategies/sma-crossover.ts) and the position cost *)
(* and fee arithmetic of trading-core.                                     *)
(*                                                                         *)
(* One instrument, one market.  Money and quantities are integers, and the *)
(* code rounds money twice: a fee to its schedule's decimals in any of     *)
(* four modes, a weighted cost half up to ten decimals.  FeeUnit and       *)
(* CostUnit say how many of the integers' units those decimals are.  A     *)
(* third strategy, "caller", stands for any other the SDK admits: it       *)
(* returns any of the given decisions, or throws.  The live loop,          *)
(* runner/supervisor.ts, runs the same hosts and adds what a replay has    *)
(* none of: the strategies' states saved after each cycle, and a restart   *)
(* from what was saved.                                                    *)
(***************************************************************************)
EXTENDS Integers, Sequences, FiniteSets, SequencesExt

CONSTANTS
    Strategies,         \* the strategies replayed, one per behaviour
    Prices,             \* prices a tick may carry
    LowerPrice, Step, Levels, Quantity,                 \* grid and entry parameters
    FastPeriod, SlowPeriod,                             \* crossover parameters
    CallerDecisions,    \* the decision lists "caller" may return
    Cash,               \* the opening balance
    Commission, SellTax, Rate,                          \* fees, in 1/Rate of the notional
    RoundingMode, FeeUnit, CostUnit,                    \* how money is rounded, and to what
    MaxOpenOrders, MaxOrderNotional, MaxDailyNotional,  \* risk limits
    MaxConsecutiveLosses, MaxDailyLoss, MaxPositionQuantity,
    QuarantineAfter,    \* failures in a row that quarantine a strategy
    MaxTicks,           \* bound: ticks of the recorded series, by strategy
    MaxRestarts         \* bound: restarts of the live loop, by strategy; none in a replay

Positive == Nat \ {0}

\* What a strategy may return: a cancel, or an order as its author wrote it.
Decisions ==
    [kind : {"cancel"}, side : {"none"}] \union
    [kind : {"place"}, type : {"MARKET", "LIMIT", "STOP", "TAKE_PROFIT", "OCO", "unknown"},
     side : {"BUY", "SELL"}, quantity : Int, limit : Nat, stop : Nat, listed : BOOLEAN]

\* What the parameter schemas, the fee schedule, the limits' reader and the
\* plan's reader accept.
GridParamsValid ==
    LowerPrice \in Positive /\ Step \in Positive /\ Quantity \in Positive /\ Levels \in Nat \ 0..1
SmaParamsValid == SlowPeriod \in Nat /\ FastPeriod \in 1..(SlowPeriod - 1)
FeeScheduleValid ==
    /\ Commission \in Nat /\ SellTax \in Nat /\ Rate \in Positive
    /\ RoundingMode \in {"HALF_UP", "HALF_EVEN", "UP", "DOWN"}
    /\ FeeUnit \in Positive /\ CostUnit \in Positive
RiskLimitsValid == {MaxOrderNotional, MaxDailyNotional, MaxPositionQuantity} \subseteq Positive
PlanValid ==
    /\ Strategies \subseteq {"grid", "sma", "caller"}
    /\ Cash \in Nat
    /\ Prices \subseteq Positive
    /\ CallerDecisions \subseteq Seq(Decisions)
    /\ GridParamsValid /\ SmaParamsValid /\ FeeScheduleValid /\ RiskLimitsValid

ASSUME BacktestAssumption == PlanValid

VARIABLES
    strategy,   \* the strategy replayed
    mind,       \* its state: the grid's rung and lots, the crossover's ring
    host,       \* consecutive failures, quarantine, and whether it has a state to save
    holdings,   \* cash, reserved cash, the position, its cost and realised profit,
                \* and the settlement that threw, if one did
    resting,    \* resting LIMIT orders, in order of submission
    nextId,
    spent,      \* the day's entry notional
    tick,       \* the tick being acted on
    snapshot,   \* the portfolio read after the tick settled
    decisions,  \* decisions of the strategy still to be applied
    ticks,      \* ticks read
    savedState, \* the runtime cell: the strategy's state last saved, if any was
    restarts,
    missed,     \* a decision was refused or rejected            (history)
    asked,      \* the side the crossover asked for, or "none"   (history)
    series,     \* the crossover's prices since the last gap     (history)
    basis,      \* the price of the tick each slot was bought at (history)
    forgot      \* a restart restored fewer lots than are held   (history)

loop == <<tick, snapshot, decisions, ticks>>
durable == <<savedState, restarts, forgot>>
history == <<missed, asked, series, basis>>
replayVars == <<strategy, mind, host, holdings, resting, nextId, spent, loop, history, durable>>

Slots == 0..(Levels - 2)
NoPrice == 0    \* a side of the book with no level, a price an order does not have
NoRung == -1    \* before the first tick

\* initialGridState and initialSmaCrossoverState.
NoMind == [rung |-> NoRung, lots |-> {}, prices |-> <<>>]

-----------------------------------------------------------------------------
(* trading-core: fees and position cost *)

\* a / b to a whole number.
Rounded(mode, a, b) ==
    LET below == a \div b
        rest  == a % b
        up    == CASE mode = "UP"        -> rest > 0
                   [] mode = "HALF_UP"   -> 2 * rest >= b
                   [] mode = "HALF_EVEN" -> 2 * rest > b \/ (2 * rest = b /\ below % 2 = 1)
                   [] OTHER              -> FALSE
    IN IF up THEN below + 1 ELSE below

\* Any rate that is not negative is accepted: a fee may exceed its notional.
Fee(side, notional) ==
    FeeUnit * Rounded(RoundingMode,
                      notional * (Commission + IF side = "SELL" THEN SellTax ELSE 0),
                      Rate * FeeUnit)

CostRemoved(a, quantity) ==
    IF quantity = a.quantity THEN a.cost
    ELSE Min({a.cost,
              CostUnit * Rounded("HALF_UP", a.cost * quantity, a.quantity * CostUnit)})

ApplyFillToPosition(a, side, notional, fee, quantity) ==
    IF side = "BUY"
    THEN [a EXCEPT !.quantity = @ + quantity, !.cost = @ + notional + fee]
    ELSE LET removed == CostRemoved(a, quantity)
             delta   == notional - fee - removed IN
         [a EXCEPT !.quantity = @ - quantity, !.cost = @ - removed, !.realised = @ + delta,
                   !.today = @ + delta, !.losses = IF delta < 0 THEN @ + 1 ELSE 0]

-----------------------------------------------------------------------------
(* The simulated exchange *)

Touch(side, t) ==
    LET opposite == IF side = "BUY" THEN t.ask ELSE t.bid IN
    IF opposite = NoPrice THEN t.price ELSE opposite

Reaches(side, limit, t) ==
    IF side = "BUY" THEN Touch(side, t) <= limit ELSE Touch(side, t) >= limit

\* The order's cost when it settles: its notional, and on a purchase its fee.
CostOf(side, price, quantity) ==
    price * quantity + IF side = "BUY" THEN Fee(side, price * quantity) ELSE 0

\* A fill.  A sale beyond the position throws, and so does a balance below
\* zero, by when the position has changed and the cash and the fills have not.
Settle(a, side, price, quantity) ==
    LET notional == price * quantity
        fee      == Fee(side, notional)
        cash     == a.cash + IF side = "BUY" THEN -(notional + fee) ELSE notional - fee
        filled   == ApplyFillToPosition(a, side, notional, fee, quantity)
        thrown   == {[side |-> side, price |-> price, quantity |-> quantity,
                      held |-> a.quantity]} IN
    IF side = "SELL" /\ quantity > a.quantity THEN [a EXCEPT !.thrown = thrown]
    ELSE IF cash < 0 THEN [filled EXCEPT !.today = a.today, !.losses = a.losses, !.thrown = thrown]
    ELSE [filled EXCEPT !.cash = cash]

OpeningAccount ==
    [cash |-> Cash, reserved |-> 0, quantity |-> 0, cost |-> 0, realised |-> 0,
     today |-> 0, losses |-> 0, thrown |-> {}]

\* Mutant: the fee of a resting purchase is not reserved.
ReservedNotional(order) == IF order.side = "BUY" THEN order.limit * order.quantity ELSE 0

ReservedCash(order) == IF order.side = "BUY" THEN CostOf("BUY", order.limit, order.quantity) ELSE 0

Reserve(a, order) ==
    [a EXCEPT !.cash = @ - ReservedCash(order), !.reserved = @ + ReservedCash(order)]

Release(a, order) ==
    [a EXCEPT !.cash = @ + ReservedCash(order), !.reserved = @ - ReservedCash(order)]

\* One resting order: filled at its limit if the tick reaches it, left if not,
\* and once a settlement has thrown.
MatchOne(state, order, t) ==
    IF state.account.thrown = {} /\ Reaches(order.side, order.limit, t)
    THEN [account |->
             Settle(Release(state.account, order), order.side, order.limit, order.quantity),
          left |-> state.left]
    ELSE [account |-> state.account, left |-> Append(state.left, order)]

\* Every resting order, in order of submission.
Match(a, t) ==
    LET walk[n \in 0..Len(resting)] ==
          IF n = 0 THEN [account |-> a, left |-> <<>>] ELSE MatchOne(walk[n - 1], resting[n], t)
    IN walk[Len(resting)]

Total(seq) ==
    LET sum[n \in 0..Len(seq)] == IF n = 0 THEN 0 ELSE sum[n - 1] + seq[n]
    IN sum[Len(seq)]

TotalReserved(orders) == Total([n \in 1..Len(orders) |-> ReservedCash(orders[n])])

SoldBy(order) == IF order.side = "SELL" THEN order.quantity ELSE 0

ReservedQuantity(orders) == Total([n \in 1..Len(orders) |-> SoldBy(orders[n])])

Available(a, orders) == a.quantity - ReservedQuantity(orders)

Portfolio(a, orders) ==
    [held |-> a.quantity, available |-> Available(a, orders), open |-> Len(orders)]

-----------------------------------------------------------------------------
(* The strategies: a new state and the orders asked for *)

MarketOrder(side, quantity) ==
    [kind |-> "place", type |-> "MARKET", side |-> side, quantity |-> quantity,
     limit |-> NoPrice, stop |-> NoPrice, listed |-> TRUE]

RungOf(price) == Cardinality({n \in 0..(Levels - 1) : price >= LowerPrice + n * Step})

\* Mutant: slots already held are bought again.
FallHeldToo(rung) ==
    LET wanted == rung..Min({mind.rung - 1, Levels - 2}) IN
    [mind |-> [mind EXCEPT !.rung = rung, !.lots = @ \union wanted],
     orders |-> IF wanted = {} THEN <<>>
                ELSE <<MarketOrder("BUY", Quantity * Cardinality(wanted))>>]

\* Falling to a rung buys its slot and those passed on the way, as one order.
\* The top level is sell-only.
Fall(rung) ==
    LET wanted == (rung..Min({mind.rung - 1, Levels - 2})) \ mind.lots IN
    [mind |-> [mind EXCEPT !.rung = rung, !.lots = @ \union wanted],
     orders |-> IF wanted = {} THEN <<>>
                ELSE <<MarketOrder("BUY", Quantity * Cardinality(wanted))>>]

\* Rising sells the lots a level below and leaves them behind whatever the
\* ledger holds; what it does not hold is not sold.
Rise(rung, available) ==
    LET due    == mind.lots \intersect ((mind.rung - 1)..(rung - 2))
        amount == Min({available, Quantity * Cardinality(due)}) IN
    [mind |-> [mind EXCEPT !.rung = rung, !.lots = @ \ due],
     orders |-> IF amount = 0 THEN <<>> ELSE <<MarketOrder("SELL", amount)>>]

AdvanceGrid(t, view) ==
    LET rung == RungOf(t.price) IN
    IF t.gap \/ mind.rung \in {NoRung, rung}
    THEN [mind |-> [mind EXCEPT !.rung = rung], orders |-> <<>>]
    ELSE IF rung < mind.rung THEN Fall(rung) ELSE Rise(rung, view.available)

Newest(seq, n) == SubSeq(seq, IF Len(seq) > n THEN Len(seq) - n + 1 ELSE 1, Len(seq))

\* The averages compared without dividing.
Difference(prices) ==
    Total(Newest(prices, FastPeriod)) * SlowPeriod - Total(Newest(prices, SlowPeriod)) * FastPeriod

\* Mutant: the ring is kept across a gap.
KeptAcrossGap(t) == mind.prices

\* A gap makes the earlier prices non-consecutive with this one.
Kept(t) == IF t.gap THEN <<>> ELSE mind.prices

\* An order only between two strict relations of a full window of consecutive
\* prices: an entry when nothing is held, an exit of all that can be sold.
AdvanceSmaCrossover(t, view) ==
    LET prices   == Append(Newest(Kept(t), SlowPeriod), t.price)
        full     == Len(prices) = SlowPeriod + 1
        current  == Difference(prices)
        previous == Difference(Front(prices)) IN
    [mind |-> [mind EXCEPT !.prices = prices],
     orders |-> CASE full /\ current > 0 /\ previous < 0 /\ view.held = 0
                       -> <<MarketOrder("BUY", Quantity)>>
                  [] full /\ current < 0 /\ previous > 0 /\ view.available > 0
                       -> <<MarketOrder("SELL", view.available)>>
                  [] OTHER -> <<>>]

\* ORDER_INTENT_PRICE_RULES: the prices an order of each type has.
PriceRules == [MARKET |-> {}, LIMIT |-> {"limit"}, STOP |-> {"stop"}, TAKE_PROFIT |-> {"stop"},
               OCO |-> {"limit", "stop"}]

ReadOrderIntent(order) ==
    /\ order.type \in DOMAIN PriceRules /\ order.quantity > 0
    /\ {field \in {"limit", "stop"} : order[field] # NoPrice} = PriceRules[order.type]

\* One decision the reader refuses fails the whole list.
ReadStrategyDecisions(list) ==
    \A i \in 1..Len(list) : list[i].kind = "place" => ReadOrderIntent(list[i])

\* What one strategy may do with a tick: advance, or throw.
Reactions(t, view) ==
    CASE strategy = "grid" -> {AdvanceGrid(t, view)}
      [] strategy = "sma"  -> {AdvanceSmaCrossover(t, view)}
      [] OTHER             -> {[mind |-> mind, orders |-> list] :
                                 list \in {l \in CallerDecisions : ReadStrategyDecisions(l)}}

-----------------------------------------------------------------------------
(* The risk gate *)

\* A priced order is measured at its own price, a market order at the tick's.
NotionalOf(order, t) ==
    order.quantity * CASE order.type \in {"LIMIT", "OCO"}        -> order.limit
                       [] order.type \in {"STOP", "TAKE_PROFIT"} -> order.stop
                       [] OTHER                                  -> t.price

ConsecutiveLosses == holdings.losses
RealizedPnlOn == holdings.today
DailyEntryNotional == spent

LossLimitBreach ==
    \/ ConsecutiveLosses >= MaxConsecutiveLosses
    \/ RealizedPnlOn < 0 /\ -RealizedPnlOn >= MaxDailyLoss

\* A listed exit is always allowed; an entry within every limit, judged on the
\* portfolio read once for the tick.  A replay's clock is the tick's own, so
\* its quote is never old, and the plan's market phase is the regular one.
Allowed(order) ==
    /\ order.listed
    /\ order.side = "BUY" =>
         /\ snapshot.open < MaxOpenOrders
         /\ NotionalOf(order, tick) <= MaxOrderNotional
         /\ DailyEntryNotional + NotionalOf(order, tick) <= MaxDailyNotional
         /\ ~LossLimitBreach
         /\ snapshot.held + order.quantity <= MaxPositionQuantity

-----------------------------------------------------------------------------
(* The replay *)

ReplayInit ==
    /\ strategy \in Strategies
    /\ mind = NoMind
    /\ host = [failures |-> 0, quarantined |-> FALSE, active |-> FALSE]
    /\ holdings = OpeningAccount
    /\ resting = <<>>
    /\ nextId = 1
    /\ spent = 0
    /\ tick = [price |-> NoPrice, bid |-> NoPrice, ask |-> NoPrice, gap |-> TRUE]
    /\ snapshot = Portfolio(holdings, <<>>)
    /\ decisions = <<>>
    /\ ticks = 0
    /\ missed = FALSE
    /\ asked = "none"
    /\ series = <<>>
    /\ basis = [s \in Slots |-> NoPrice]
    /\ savedState = [written |-> FALSE, mind |-> NoMind, series |-> <<>>, basis |-> basis]
    /\ restarts = 0
    /\ forgot = FALSE

\* The recorded ticks: with a book or without one, and a gap before the first.
RecordedTicks ==
    {[price |-> p, bid |-> IF book THEN p - 1 ELSE NoPrice,
      ask |-> IF book THEN p + 1 ELSE NoPrice, gap |-> gap] :
        p \in Prices, book \in BOOLEAN, gap \in BOOLEAN}

\* The tick settles the resting orders before anything sees it.  A new day
\* clears what the day's limits count.
Matched(t, newDay) ==
    LET a == IF newDay THEN [holdings EXCEPT !.today = 0] ELSE holdings IN
    /\ holdings' = Match(a, t).account
    /\ resting' = Match(a, t).left
    /\ spent' = IF newDay THEN 0 ELSE spent
    /\ tick' = t
    /\ ticks' = ticks + 1

\* The portfolio read then serves every decision the tick brings.
Settled(t, newDay) ==
    /\ Matched(t, newDay) /\ holdings'.thrown = {}
    /\ snapshot' = Portfolio(holdings', resting')

Ready(t) ==
    /\ decisions = <<>> /\ holdings.thrown = {}
    /\ ticks < MaxTicks[strategy] /\ (ticks = 0 => t.gap)

OnTick(t, newDay) ==
    /\ Ready(t) /\ ~host.quarantined
    /\ Settled(t, newDay)
    /\ \E next \in Reactions(t, snapshot') :
         /\ mind' = next.mind
         /\ decisions' = next.orders
         /\ asked' = IF strategy # "sma" \/ next.orders = <<>> THEN "none"
                     ELSE Head(next.orders).side
         /\ basis' = [s \in Slots |->
                        IF s \in next.mind.lots \ mind.lots THEN t.price ELSE basis[s]]
    /\ host' = [host EXCEPT !.failures = 0, !.active = TRUE]
    /\ series' = IF strategy = "sma" THEN Append(IF t.gap THEN <<>> ELSE series, t.price)
                ELSE series
    /\ UNCHANGED <<strategy, nextId, missed, durable>>

\* A throw, of the strategy or of the reader, is contained: no decision, and
\* quarantine after enough in a row.
Contain(t, newDay) ==
    /\ Ready(t) /\ ~host.quarantined /\ strategy = "caller"
    /\ Settled(t, newDay)
    /\ host' = [host EXCEPT !.failures = @ + 1,
                            !.quarantined = host.failures + 1 >= QuarantineAfter]
    /\ asked' = "none"
    /\ UNCHANGED <<strategy, mind, nextId, decisions, missed, series, basis, durable>>

\* A quarantined strategy decides nothing; its resting orders still settle.
Quarantined(t, newDay) ==
    /\ Ready(t) /\ host.quarantined
    /\ Settled(t, newDay)
    /\ asked' = "none"
    /\ UNCHANGED <<strategy, mind, host, nextId, decisions, missed, series, basis, durable>>

\* A settlement that throws while the tick is matched ends the replay.
MatchThrows(t, newDay) ==
    /\ Ready(t)
    /\ Matched(t, newDay) /\ holdings'.thrown # {}
    /\ asked' = "none"
    /\ UNCHANGED <<strategy, mind, host, nextId, snapshot, decisions, missed, series, basis,
                   durable>>

NextDecision == decisions' = Tail(decisions)
Pending(kind) == decisions # <<>> /\ holdings.thrown = {} /\ Head(decisions).kind = kind

\* Any resting order, whichever the decision names, or none of that name.
Cancel ==
    /\ Pending("cancel")
    /\ \/ UNCHANGED <<holdings, resting>>
       \/ \E i \in 1..Len(resting) :
            /\ holdings' = Release(holdings, resting[i])
            /\ resting' = RemoveAt(resting, i)
    /\ NextDecision
    /\ UNCHANGED <<strategy, mind, host, nextId, spent, tick, snapshot, ticks, history, durable>>

Refuse ==
    /\ Pending("place") /\ ~Allowed(Head(decisions))
    /\ missed' = TRUE
    /\ NextDecision
    /\ UNCHANGED <<strategy, mind, host, holdings, resting, nextId, spent, tick, snapshot, ticks,
                   asked, series, basis, durable>>

PriceOf(order) == IF order.type = "LIMIT" THEN order.limit ELSE Touch(order.side, tick)

Fundable(order) ==
    IF order.side = "SELL" THEN order.quantity <= Available(holdings, resting)
    ELSE CostOf("BUY", PriceOf(order), order.quantity) <= holdings.cash

\* An order the exchange does not simulate, or that the account cannot cover.
Rejected(order) == order.type \notin {"MARKET", "LIMIT"} \/ ~Fundable(order)

\* An allowed entry is charged to the day before it is submitted, whatever the
\* exchange then says; the exchange rejects it, fills it or lets it rest.
Submit ==
    /\ Pending("place") /\ Allowed(Head(decisions))
    /\ LET order == Head(decisions) IN
       /\ spent' = spent + IF order.side = "BUY" THEN NotionalOf(order, tick) ELSE 0
       /\ missed' = (missed \/ Rejected(order))
       /\ nextId' = IF Rejected(order) THEN nextId ELSE nextId + 1
       /\ IF Rejected(order) THEN UNCHANGED <<holdings, resting>>
          ELSE IF order.type = "MARKET" \/ Reaches(order.side, order.limit, tick)
          THEN /\ holdings' = Settle(holdings, order.side, PriceOf(order), order.quantity)
               /\ UNCHANGED resting
          ELSE LET placed == [id |-> nextId, side |-> order.side, quantity |-> order.quantity,
                              limit |-> order.limit] IN
               /\ holdings' = Reserve(holdings, placed)
               /\ resting' = Append(resting, placed)
    /\ NextDecision
    /\ UNCHANGED <<strategy, mind, host, tick, snapshot, ticks, asked, series, basis, durable>>

\* The host's snapshot of its strategy, with the history that belongs to it.  A
\* host that neither restored a state nor decided on a tick has none, and the
\* cell keeps what it held.
Snapshot ==
    IF host.active
    THEN [written |-> TRUE, mind |-> mind, series |-> series, basis |-> basis]
    ELSE savedState

\* #persist, at the end of a cycle: the host's snapshot and the feed's cursors
\* replace the cell as one.
PersistRuntime ==
    /\ decisions = <<>> /\ holdings.thrown = {} /\ ticks > 0 /\ restarts < MaxRestarts[strategy]
    /\ savedState' = Snapshot
    /\ savedState' # savedState
    /\ UNCHANGED <<strategy, mind, host, holdings, resting, nextId, spent, loop, history,
                   restarts, forgot>>

\* readGridState and readSmaCrossoverState: what the reconfigured strategy has
\* no room for is clamped or dropped.
ReadGridState(state) ==
    [state EXCEPT !.rung = Min({@, Levels}), !.lots = {s \in @ : s <= Levels - 2}]

ReadSmaCrossoverState(state) == [state EXCEPT !.prices = Newest(@, SlowPeriod + 1)]

\* What onStart makes of a cell that holds this strategy's state.
ReadState(state) ==
    CASE strategy = "grid" -> ReadGridState(state)
      [] strategy = "sma"  -> ReadSmaCrossoverState(state)
      [] OTHER             -> state

\* What a life restores its strategy from: the cell, or nothing when there is
\* none or it is another instrument's; a cell that cannot be read quarantines.
RestoreCell ==
    /\ mind' = ReadState(savedState.mind)
    /\ series' = savedState.series /\ basis' = savedState.basis
    /\ host' = [failures |-> 0, quarantined |-> FALSE, active |-> savedState.written]

RestoreNothing(unreadable) ==
    /\ savedState.written
    /\ mind' = NoMind /\ series' = <<>> /\ UNCHANGED basis
    /\ host' = [failures |-> 0, quarantined |-> unreadable, active |-> ~unreadable]

\* The runner dies, decisions not yet taken with it, and its next life restores
\* the strategy.  The account and the day's entries are durable.
RestartRunner ==
    /\ restarts < MaxRestarts[strategy] /\ ticks > 0 /\ holdings.thrown = {}
    /\ restarts' = restarts + 1
    /\ RestoreCell \/ RestoreNothing(FALSE) \/ RestoreNothing(TRUE)
    /\ forgot' = (forgot \/ holdings.quantity > Quantity * Cardinality(mind'.lots))
    /\ missed' = (missed \/ mind.lots # mind'.lots \/ decisions # <<>>)
    /\ decisions' = <<>> /\ asked' = "none"
    /\ UNCHANGED <<strategy, holdings, resting, nextId, spent, tick, snapshot, ticks, savedState>>

\* The report, once the series is over, or the throw.
Report ==
    /\ (ticks = MaxTicks[strategy] /\ decisions = <<>>) \/ holdings.thrown # {}
    /\ UNCHANGED replayVars

ReplayNext ==
    \/ \E t \in RecordedTicks, newDay \in BOOLEAN :
          \/ OnTick(t, newDay) \/ Contain(t, newDay) \/ Quarantined(t, newDay)
          \/ MatchThrows(t, newDay)
    \/ Cancel \/ Refuse \/ Submit \/ PersistRuntime \/ RestartRunner \/ Report

ReplaySpec == ReplayInit /\ [][ReplayNext]_replayVars

-----------------------------------------------------------------------------
(* Properties *)

\* A sale of what is held, whose fee is more than it brings and the wallet has.
Overdraws(sale, cash) ==
    LET notional == sale.price * sale.quantity IN
    /\ sale.side = "SELL" /\ sale.quantity <= sale.held
    /\ notional + cash < Fee("SELL", notional)

\* Nothing is made or lost by reserving, releasing, filling at a limit or
\* rounding a fee or a cost, in any mode and to any decimals: what is in the
\* wallet and what the position cost is the opening balance and the profit
\* realised, and the wallet covers every resting order.  No settlement throws
\* but a sale whose fee is more than it brings and the wallet holds: never a
\* purchase that was accepted, never a sale of what is not there.
BooksBalance ==
    /\ holdings.thrown = {} =>
          holdings.cash + holdings.reserved + holdings.cost = Cash + holdings.realised
    /\ \A sale \in holdings.thrown : Overdraws(sale, holdings.cash)
    /\ holdings.cash >= 0 /\ holdings.cost >= 0
    /\ holdings.reserved = TotalReserved(resting)
    /\ Available(holdings, resting) >= 0
    /\ holdings.quantity = 0 => holdings.cost = 0

\* No strategy comes to hold more than it should.  The grid never holds more
\* than the lots it remembers buying, however many of its orders were refused or
\* rejected, and exactly those when none was: a lot that was never bought
\* cannot be added to twice.  Only a restart from a cell older than a purchase
\* makes it forget what it holds.  The day's entries stay within the day's limit
\* whatever is asked for on one tick, and a bundled strategy, which asks for one
\* market order on a tick, never holds more than the position limit.
NeverOverexposed ==
    /\ strategy = "grid" /\ decisions = <<>> /\ ~forgot =>
          /\ holdings.quantity <= Quantity * Cardinality(mind.lots)
          /\ ~missed => holdings.quantity = Quantity * Cardinality(mind.lots)
    /\ spent <= MaxDailyNotional
    /\ strategy # "caller" => holdings.quantity <= MaxPositionQuantity /\ resting = <<>>

Averaged(k, period) == Total(SubSeq(series, k - period + 1, k))
AboveAt(k) == Averaged(k, FastPeriod) * SlowPeriod > Averaged(k, SlowPeriod) * FastPeriod
BelowAt(k) == Averaged(k, FastPeriod) * SlowPeriod < Averaged(k, SlowPeriod) * FastPeriod

AsksOnCross ==
    LET n == Len(series) IN
    /\ asked = "BUY" <=> n > SlowPeriod /\ AboveAt(n) /\ BelowAt(n - 1) /\ snapshot.held = 0
    /\ asked = "SELL" <=> n > SlowPeriod /\ BelowAt(n) /\ AboveAt(n - 1) /\ snapshot.available > 0
    /\ holdings.quantity \in {0, Quantity}

\* The strategies trade on their signal and on nothing else, whatever path the
\* price took and whatever gaps hid part of it.  The crossover asks exactly on a
\* strict cross of the averages of the prices since the last gap: the bounded
\* ring loses nothing, over a restart neither, a gap's earlier prices are never
\* averaged, and what it holds is one entry or nothing.  The grid gives up a lot
\* only more than a whole step above its buying price.
TradesOnSignal ==
    [][ticks' # ticks =>
         /\ strategy = "sma" /\ ~host.quarantined => AsksOnCross'
         /\ strategy = "grid" =>
               \A s \in mind.lots \ mind'.lots : tick'.price > basis[s] + Step]_replayVars
=============================================================================
