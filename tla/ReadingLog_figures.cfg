\* Days of 10 seconds, gaps that are reading, that are long and that end a sitting, a line 2 s late;
\* the four lines make streaks of two days and two days with one between that nothing was read on.
SPECIFICATION Spec
CONSTANTS
    AfkSecs = 1
    SessionGap = 4
    InterruptionSecs = 2
    DaySecs = 10
    Rollover = 3
    BucketSecs = 3
    PadSecs = 7
    StreakFloor = 1
    MinOpening = 2
    MaxBatch = 3
    Works = {"long", "short"}
    CharsOf <- MCCharsOf
    Steps = {1, 6}
    Late = {0, 2}
    Horizon = 20
    MaxLines = 4
    MaxSigns = 1
    MaxCleared = 1
    DedupeSecs = 2
CHECK_DEADLOCK FALSE
INVARIANTS OneRule NoTimeInvented DayPageAgrees PageMatchesShelf CleanApart LongestRuns RetractKeepsTime OpensOnTheSitting
