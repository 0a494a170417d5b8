SPECIFICATION Spec
CONSTANTS
    s1 = s1
    s2 = s2
    Subs = {s1, s2}
    Dests = {"q"}
    Dest <- OneDest
    AutoSubs = {s1}
    Cap = 1
    Limit = 1
    MaxMsg = 3
    MaxDrops = 1
PROPERTIES
    IsMailbox
CHECK_DEADLOCK FALSE
