\* Lock files go away or were left by a process that is gone
CONSTANTS
    d1 = d1
    d2 = d2
    w1 = w1
    w2 = w2
    j1 = j1
    j2 = j2
    j3 = j3
    Timer = Timer
    All = All
    None = None
    Domains = {d1}
    Workers = {w1}
    Slots = {j1, j2}
    Console = TRUE
    MaxTimerRuns = 1
    MaxRestarts = 1
    MaxClears = 1
SPECIFICATION FairSpec
CHECK_DEADLOCK FALSE
PROPERTIES
    LocksClear
