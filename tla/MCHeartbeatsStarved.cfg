SPECIFICATION FairSpec
CONSTANTS
    ClientOut = 1
    ClientIn = 10
    ServerOut = 10
    ServerIn = 1
    MaxWrites = 0
PROPERTIES
    DeadServerNoticed
CHECK_DEADLOCK FALSE
