SPECIFICATION Spec
CONSTANTS
    s1 = s1
    s2 = s2
    a1 = a1
    a2 = a2
    Subs = {s1}
    Dests = {"q"}
    Dest <- OneDest
    Mode <- AllClient
    Ackers = {a1, a2}
    Naming = {"ack", "message-id"}
    OutCap = 1
    MaxMid = 2
    MaxSession = 1
    MaxCalls = 2
    MaxInflight = 1
SYMMETRY AckerSymmetry
INVARIANTS
    AcksNameThisSession
    NoStrayAck
    NothingForgotten
    SettledOnlyIfAsked
CHECK_DEADLOCK FALSE
