SPECIFICATION Spec
CONSTANTS
  f1 = f1
  f2 = f2
  e1 = e1
  FreshCalls = {f1, f2}
  ExplicitCalls = {e1}
  SkipWindow = 0
  MaxClock = 1
  MaxGeneration = 3
  MaxCaptures = 2
INVARIANTS
  FreshReportIsFresh
  StopDrains
  NobodyIsForgotten
PROPERTIES
  SkipIsCovered
  NoCaptureAfterStop
CHECK_DEADLOCK FALSE
