\* One close, two connections: a reconnect or a new process in between.
SPECIFICATION Spec
CONSTANTS
    MaxConnections = 2
    TimerRuns = FALSE
INVARIANTS
    NeverOversold
    CompletedIsFlat
    WritesAreMarked
    ParentFirst
PROPERTIES
    FilledCloseCompletes
