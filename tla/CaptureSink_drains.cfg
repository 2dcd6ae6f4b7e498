\* More may be held than one batch takes; any fault, and pauses.
SPECIFICATION FairSpec
CONSTANTS
    MaxFragments = 3
    MaxPending = 3
    MaxBatch = 2
    MaxLines = 3
    Faults = {"refused", "lost", "late"}
    Pausing = TRUE
    Crashing = FALSE
CHECK_DEADLOCK FALSE
PROPERTY Drains
