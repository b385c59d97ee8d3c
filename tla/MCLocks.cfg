SPECIFICATION EdgeSpec
CONSTANTS
    Tx = {t1, t2, t3}
    Processes = {1, 2}
    Stopping = {2}
    Nobody = Nobody
    Requests <- MCRequests
    Legs <- MCLegs
    Cash = {1}
    MarketOf <- MCMarketOf
    FirstSequence = 8
    MaxRetries = 1
    MaxAttempts = 2
    MaxFaults = 2
    MaxAborts = 1
SYMMETRY Symmetry
INVARIANTS
    NoWaitCycle
    NeverRefused
    DecisionsHold
    RepliesAreTrue
    DrainedMeansDone
CHECK_DEADLOCK FALSE
