SPECIFICATION Spec
CONSTANTS
  o1 = o1
  Orders = {o1}
  MaxIterations = 2
  MaxSessions = 1
  MaxGeneration = 1
  PartialFills = TRUE
  Faults = FALSE
  Reconciling = FALSE
INVARIANT EntryGuardSeesExposure
CHECK_DEADLOCK FALSE
