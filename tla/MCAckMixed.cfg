SPECIFICATION Spec
CONSTANTS
    s1 = s1
    s2 = s2
    a1 = a1
    a2 = a2
    Subs = {s1, s2}
    Dests = {"q"}
    Dest <- OneDest
    Mode <- Mixed
    Ackers = {a1}
    Naming = {"ack"}
    OutCap = 1
    MaxMid = 1
    MaxSession = 1
    MaxCalls = 2
    MaxInflight = 1
INVARIANTS
    NothingForgotten
    ClosedIsForgotten
CHECK_DEADLOCK FALSE
