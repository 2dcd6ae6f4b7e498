\* One video, from YouTube or from disk; writes fail, requests are dropped, or the server restarts.
SPECIFICATION Spec
CONSTANTS
    Videos = {v}
    Local = {v}
    Ends <- MCEnds
    Submitters = {a}
    Readers = {x, y}
    MaxJobs = 2
    MaxTrouble = 1
SYMMETRY Alike
CHECK_DEADLOCK FALSE
INVARIANTS PrimerWhole PlaysItsLine NeverStuck
PROPERTY KeepsItsPromise
