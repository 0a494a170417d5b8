SPECIFICATION FairSpec
CONSTANTS
    s1 = s1
    s2 = s2
    Subs = {s1}
    Dests = {"q"}
    Dest <- OneDest
    AutoSubs = {}
    Cap = 2
    Limit = 2
    MaxMsg = 6
    MaxDrops = 1
INVARIANTS
    NoStrandedFrames
    FailsOnlyWhenFull
    EndedBeforeNone
PROPERTIES
    ParkedFramesMove
    EndedStreamsClose
CHECK_DEADLOCK FALSE
