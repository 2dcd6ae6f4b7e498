\* The tab may open on an empty table and scrolls back; queries and requests fail.
SPECIFICATION FairSpec
CONSTANTS
    MaxRows = 5
    InitialRows = 0
    MinOpening = 1
    MaxBatch = 2
    PageSize = 2
    MaxDrops = 2
    Undos = {u1}
    Retracting = TRUE
    MaxClears = 0
    Paging = TRUE
    Failing = TRUE
CHECK_DEADLOCK FALSE
INVARIANT FeedWhole
PROPERTY Arrives
