\* Two lines and one add, beside a refresh of the deck; scripts hang, replies are lost.
SPECIFICATION FairSpec
CONSTANTS
    Adds = {p}
    Words = {w}
    Refreshers = {r}
    Losses = {"out", "back", "unreadable"}
    Deleting = TRUE
    Lines = {l, k}
    Ring = Ring
    Stalling = TRUE
    Clearing = FALSE
    Crashing = FALSE
CHECK_DEADLOCK FALSE
PROPERTIES CapturesEnd MirrorCatchesUp
