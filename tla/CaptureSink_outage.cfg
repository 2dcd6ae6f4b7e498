\* Every fault, pauses, more held than one batch takes, and a logger that may die.
SPECIFICATION Spec
CONSTANTS
    MaxFragments = 4
    MaxPending = 3
    MaxBatch = 2
    MaxLines = 2
    Faults = {"refused", "lost", "late"}
    Pausing = TRUE
    Crashing = TRUE
CHECK_DEADLOCK FALSE
INVARIANTS NothingVanishes InOrder HalvesReplaced
PROPERTY RetractsItsOwn
