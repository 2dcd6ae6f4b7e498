\* One line and two adds of two words; scripts hang, replies are lost, the queue is
\* cleared and the server may die.
SPECIFICATION Spec
CONSTANTS
    Adds = {p, q}
    Words = {w, v}
    Refreshers = {}
    Losses = {"out", "back", "unreadable"}
    Deleting = FALSE
    Lines = {l}
    Ring = Ring
    Stalling = TRUE
    Clearing = TRUE
    Crashing = TRUE
SYMMETRY Alike
CHECK_DEADLOCK FALSE
INVARIANTS PendingHasMedia RowTellsOfCard OneCardPerLine ToldMeansMedia
