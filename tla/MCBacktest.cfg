CONSTANTS
    Strategies = {"grid", "sma", "caller"}
    Prices = {1, 2, 3, 4}
    LowerPrice = 2
    Step = 1
    Levels = 4
    Quantity = 1
    FastPeriod = 1
    SlowPeriod = 2
    CallerDecisions <- MCCallerDecisions
    Cash = 11
    Commission = 2
    SellTax = 2
    Rate = 10
    RoundingMode = "UP"
    FeeUnit = 3
    CostUnit = 1
    MaxOpenOrders = 3
    MaxOrderNotional = 8
    MaxDailyNotional = 9
    MaxConsecutiveLosses = 2
    MaxDailyLoss = 3
    MaxPositionQuantity = 2
    QuarantineAfter = 2
    MaxTicks <- MCMaxTicks
    MaxRestarts <- MCMaxRestarts
SPECIFICATION ReplaySpec
INVARIANTS
    BooksBalance
    NeverOverexposed
PROPERTIES
    TradesOnSignal
