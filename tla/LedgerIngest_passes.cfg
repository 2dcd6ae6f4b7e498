\* A rebuild and a refresh overlap and fail anywhere.
SPECIFICATION Spec
CONSTANTS
    NSinks = 2
    MaxLine = 2
    Passes = {r, a}
    Rebuilders = {r}
    Unreadable = {}
    Failures = TRUE
INVARIANTS NoLineLost IngestInv CountedOnce
PROPERTIES RebuildIsExact MarksOnlyRise
