SPECIFICATION FairSpec
CONSTANTS
  o1 = o1
  Orders = {o1}
  MaxIterations = 8
  MaxSessions = 1
  MaxGeneration = 1
  PartialFills = FALSE
  Faults = FALSE
  Reconciling = FALSE
PROPERTY RefreshConverges
CHECK_DEADLOCK FALSE
