CONSTANTS
    p1 = p1
    p2 = p2
    None = None
    Processes = {p1}
    MaxEvents = 3
    BatchSize = 2
    OpeningQueueMax = 2
    PromoteMaxRounds = 1
    BacklogMax = 1
    MaxResyncs = 2
    MaxSkew = 1
    FaultKinds = {"day", "drop"}
    MaxFaults = 2
SPECIFICATION FairSpec
PROPERTIES
    CatchesUp
