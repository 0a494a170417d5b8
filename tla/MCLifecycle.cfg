SPECIFICATION FairSpec
CONSTANTS
    c1 = c1
    c2 = c2
    Clients = {c1, c2}
    Programs <- TwoClients
    OutCap = 2
    WireCap = 1
    MaxLosses = 2
INVARIANTS
    VerdictIsTheBrokers
    NoAnswerMissed
    NoWaiterLeft
    ConfirmedCloseDrains
    EndsOnlyIfAsked
PROPERTIES
    NoConnectAfterClose
    TornDown
    
CHECK_DEADLOCK FALSE
