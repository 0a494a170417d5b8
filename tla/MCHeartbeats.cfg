SPECIFICATION Spec
CONSTANTS
    ClientOut = 6
    ClientIn = 4
    ServerOut = 10
    ServerIn = 2
    MaxWrites = 3
INVARIANTS
    NeverIdleForTwo
    LiveServerKept
    NoticedInTime
CHECK_DEADLOCK FALSE
