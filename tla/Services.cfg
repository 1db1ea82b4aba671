SPECIFICATION Spec
CONSTANTS
  Proposals = {p1, p2}
  Contracts = {pko, aapl}
  Agents = {a1, a2}
  MaxDay = 2
  Workers = {w1, w2}
  MaxAttempts = 2
  MaxEpisodes = 1
  MaxGeneration = 2
  N = 2
  MaxConcurrent = 1
  MaxBucket = 2
  MaxWaiting = 2
  MaxRestarts = 1
  MaxClaims = 2
  MaxReboots = 1
  MaxTicks = 2
  MaxControls = 2
  MaxFaults = 2
  MaxInvalidations = 2
  MaxTroubles = 2
INVARIANTS
  TypeOK
  DailyBudget
  SentStaysApproved
  OneOrderPerTrigger
  RotationReachesAll
  OneCallAtATime
  ChallengeStaysAnswerable
  RetiredReadsAreGone
  DurableStopHolds
PROPERTIES
  CoalescedIsSilent
  AdmittedWhenSent
  StoppedStartsNothing
  NewsNeverFallBack
  EveryAlertSettles
  EveryAttemptResolves
  EvidenceIsUnbroken
  ReadersRecover
CHECK_DEADLOCK FALSE
