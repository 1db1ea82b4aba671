\* A close of an entry that has not filled, whose children the broker cancels
\* together with their parent.
SPECIFICATION Spec
CONSTANTS
    MaxConnections = 1
    TimerRuns = TRUE
INVARIANTS
    CancelledParentCompletes
