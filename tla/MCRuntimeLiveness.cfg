CONSTANTS
    p1 = p1
    p2 = p2
    KR = KR
    US = US
    Procs = {p1, p2}
    Order <- MCOrder
    None = None
    Ghost = Ghost
    FailureLimit = 3
    MaxFaults = 1
SPECIFICATION FairSpec
PROPERTIES
    SomeoneLeads
    StopGoesThrough
CHECK_DEADLOCK FALSE
