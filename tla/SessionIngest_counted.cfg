\* Any session may be deleted, rebuilds rewind some sinks and not others, and
\* a pass may fail anywhere.
SPECIFICATION Spec
CONSTANTS
    NSinks = 2
    MaxText = 2
    MaxId = 3
    Failures = TRUE
INVARIANTS SessionsCounted TextCountedOnce
