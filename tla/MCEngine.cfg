SPECIFICATION Spec
CONSTANTS
  Nodes = {n1, n2}
  Orders = {1, 2}
  Scenarios <- MCScenarios
  MaxDeviationBps = 10000
  MaxTokens = 2
  MaxEvents = 2

SYMMETRY Symmetry
INVARIANTS FillsAddUp LiveOrdersMirrored BestExecution
PROPERTY FillsFollowTheFence
CHECK_DEADLOCK FALSE
