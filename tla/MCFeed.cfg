CONSTANTS
    Instruments <- MCOneInstrument
    None = None
    MaxVersion = 2
    BookMoves = {2}
    MaxEpoch = 1
    MaxLosses = 1
SPECIFICATION FairSpec
INVARIANTS
    TicksAreNew
PROPERTIES
    KeepsFresh
CHECK_DEADLOCK FALSE
