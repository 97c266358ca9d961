\* Two runs and the daily scan of two customers, with failures and deaths
CONSTANTS
    r1 = r1
    r2 = r2
    s1 = s1
    c1 = c1
    c2 = c2
    n1 = n1
    n2 = n2
    Nobody = Nobody
    Callers = {r1, r2}
    Scans = {s1}
    Customers = {c1, c2}
    Order <- UselessFirst
    Names = {n1}
    EventsOn <- FailuresOnly
    MinGap <- HoursBetween
    LastGap = 2
    WarnGap = 2
    LastDays = 1
    WarnDays = 2
    Keep = 2
    Day = 4
    Jitter = 1
    InitialSettings <- OnOrUseless
    InitialEntries <- OneEntry
    InitialCerts <- SomeExpire
    Life = 5
    Timer = r1
    RenewBefore = 3
    MaxNow = 3
    MaxRuns = 2
    MaxFaults = 1
SPECIFICATION Spec
CHECK_DEADLOCK FALSE
INVARIANTS
    TypeOK
    RateLimited
    ScanTells
    ExitCodeTells
PROPERTIES
    LimitedWasMailed
