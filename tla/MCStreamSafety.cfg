CONSTANTS
    p1 = p1
    p2 = p2
    None = None
    Processes = {p1, p2}
    MaxEvents = 3
    BatchSize = 2
    OpeningQueueMax = 2
    PromoteMaxRounds = 1
    BacklogMax = 1
    MaxResyncs = 2
    MaxSkew = 1
    FaultKinds = {"skew", "publish", "busy", "process", "day", "drop", "handover"}
    MaxFaults = 2
SYMMETRY ProcessSymmetry
SPECIFICATION Spec
INVARIANTS
    BarrierHolds
    NoSilentLoss
    AccountedOnce
