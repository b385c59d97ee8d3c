SPECIFICATION Spec
CONSTANTS
  Loops <- MCLoops
  Rows <- MCRows
  MissedPongs = 2
  BurstLimit = 2
  MaxFailures = 2
  MaxFaults = 4
INVARIANTS NeverAbandoned HeldWhileDown NoOrphanIncident
PROPERTY Recovers
CHECK_DEADLOCK FALSE
