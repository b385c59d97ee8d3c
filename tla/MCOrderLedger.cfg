CONSTANTS
    o1 = o1
    o2 = o2
    o3 = o3
    k1 = k1
    k2 = k2
    KR = KR
    US = US
    S = S
    x1 = x1
    g1 = g1
    Orders = {o1, o2, o3}
    Groups = {g1}
    Keys = {k1, k2}
    Quotes = {x1}
    Markets = {KR, US}
    Symbols = {S}
    None = None
    MarketOf <- MCMarketOf
    Prices = {1, 2}
    MaxQuantity = 2
    Fee <- MCFee
    QuoteTerms <- MCQuoteTerms
    Opening <- MCOpening
    MaxToken = 1
    MaxSequence = 5
SPECIFICATION Spec
SYMMETRY OrderSymmetry
INVARIANTS
    TypeOK
    LedgerReconciles
    ReservationsFollowOrders
    OcoResolution
    EventsTellRows
    SharesConserved
PROPERTIES
    TerminalIsFinal
CHECK_DEADLOCK FALSE
