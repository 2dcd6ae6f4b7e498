\* The reader scrolls back, clears and undoes, twice at once too, while the
\* stream drops and the logger retracts; queries and requests fail.
SPECIFICATION Spec
CONSTANTS
    MaxRows = 3
    InitialRows = 2
    MinOpening = 1
    MaxBatch = 2
    PageSize = 2
    MaxDrops = 1
    Undos = {u1, u2}
    Retracting = TRUE
    MaxClears = 2
    Paging = TRUE
    Failing = TRUE
SYMMETRY AnyUndo
CHECK_DEADLOCK FALSE
INVARIANTS FeedWhole ScreenAgrees
