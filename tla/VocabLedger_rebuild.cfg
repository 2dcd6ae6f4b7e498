\* A rebuild and a refresh overlap and fail anywhere, before and after an
\* upgrade of the tokenizer, beside judgements and repairs.
SPECIFICATION Spec
CONSTANTS
    Terms <- KeyNames
    HeadwordOf <- Spelling
    WordOf <- Meaning
    Uses <- UseNames
    Rules = {"old", "new"}
    FirstRule = "old"
    KeyOf <- Counted
    CalledNow <- Called
    RealKey <- Repaired
    NonWords = {"kana"}
    Passes = {"r", "a"}
    Rebuilders = {"r"}
    Decks <- SomeDecks
    Answers = {"new", "known"}
    MaxAsserts = 2
    MaxStarts = 2
    Failures = TRUE
CHECK_DEADLOCK FALSE
INVARIANTS NothingUnsaid NothingForgotten
PROPERTY RebuildFollowsReading
