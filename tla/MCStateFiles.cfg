CONSTANTS
    MaxEvents = 3
    MaxWrites = 2
    MaxFaults = 2
SPECIFICATION Spec
CHECK_DEADLOCK FALSE
INVARIANTS
    FilesTellTheTruth
PROPERTY ImplementsJournal
