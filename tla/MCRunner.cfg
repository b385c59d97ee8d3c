CONSTANTS
    Resweeps = {"resweep"}
    MaxAttempts = 2
    TripAfter = 2
    MaxPasses = 2
    MaxTicks = 2
    MaxEvents = 1
    MaxDaily = 2
    FaultKinds = {"request", "answer", "late", "verdict", "expiry", "create", "portfolio",
                  "slow", "write", "wedge", "loss", "operator", "clear", "crash"}
    MaxFaults = 2
SPECIFICATION Spec
INVARIANTS
    OneOrderPerDecision
    OrdersAreCharged
    SweptClean
PROPERTIES
    LatchHolds
    LatchSettles
