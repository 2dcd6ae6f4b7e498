\* Two commands and two starts over two dictionaries, of which one is installed.
SPECIFICATION Spec
CONSTANTS
    Commands = {c, d}
    Servers = {s}
    Zips <- MCZips
    Holds <- MCHolds
    Reparsed <- MCReparsed
    Configured = "sankoku"
    Installed <- MCInstalled
    Settable = {"master"}
    MaxId = 3
    MaxRuns = 2
    MaxDeaths = 1
    MaxStarts = 1
SYMMETRY Alike
CHECK_DEADLOCK FALSE
INVARIANTS TrustsNoMix OneMaster SyncLeaves
