SPECIFICATION Spec
CONSTANTS
  o1 = o1
  Orders = {o1}
  MaxIterations = 1
  MaxSessions = 2
  MaxGeneration = 2
  PartialFills = TRUE
  Faults = TRUE
  Reconciling = TRUE
ACTION_CONSTRAINT RunsForProposedRows
CONSTRAINT PartialFillsAlone
INVARIANTS
  CallbackReleaseIsFenced
  HealthyMeansTrusted
CHECK_DEADLOCK FALSE
