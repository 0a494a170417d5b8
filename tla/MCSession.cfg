SPECIFICATION FairSpec
CONSTANTS
    Destinations = {"q", "x"}
    Common = {"q"}
    Wanted <- TwoWanted
    MAX_MESSAGES = 2
    MAX_ERRORS = 1
    Height = 1
    Page = 2
    SUB_CAP = 1
    OUT_CAP = 1
    IN_CAP = 1
    MaxCommands = 3
    MaxMessages = 1
    MaxErrors = 2
INVARIANTS
    PanesHoldLatest
    NewestShown
PROPERTIES
    KeysAreHeard
CHECK_DEADLOCK FALSE
