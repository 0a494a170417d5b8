SPECIFICATION Spec
CONSTANTS
    ConnectTimeout = 40
    Takes = {0, 3}
    Lives = {1, 6, 40}
    MaxWaits = 7
INVARIANTS
    TimeoutTellsWhy
    CrashLoopSlowsDown
CHECK_DEADLOCK FALSE
