\* MSP Console, one worker: a domain's button, then renew all
CONSTANTS
    d1 = d1
    d2 = d2
    w1 = w1
    w2 = w2
    j1 = j1
    j2 = j2
    j3 = j3
    Timer = Timer
    All = All
    None = None
    Domains = {d1, d2}
    Workers = {w1}
    Slots = {j1, j2}
    Console = TRUE
    MaxTimerRuns = 0
    MaxRestarts = 0
    MaxClears = 0
SPECIFICATION Spec
CHECK_DEADLOCK FALSE
INVARIANTS
    ButtonsExclusive
