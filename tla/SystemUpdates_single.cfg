\* Single-instance profile: one worker, system updates, a restart or reboot
CONSTANTS
    d1 = d1
    d2 = d2
    w1 = w1
    j1 = j1
    j2 = j2
    Timer = Timer
    All = All
    None = None
    Domains = {d1, d2}
    Workers = {w1}
    Slots = {j1, j2}
    Console = FALSE
    MaxTimerRuns = 0
    MaxRestarts = 1
    MaxClears = 0
    MaxUnits = 2
SPECIFICATION SysSpec
CHECK_DEADLOCK FALSE
SYMMETRY Symmetry
INVARIANTS
    TypeOK
    SysTypeOK
    PageHonest
    ButtonsExclusive
    RunningIsLocked
