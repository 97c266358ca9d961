\* The daily scan alone, a certificate in its last days; a unit is twenty minutes
CONSTANTS
    r1 = r1
    r2 = r2
    s1 = s1
    c1 = c1
    c2 = c2
    n1 = n1
    n2 = n2
    Nobody = Nobody
    Callers = {}
    Scans = {s1}
    Customers = {c1}
    Order <- OneCustomer
    Names = {n1}
    EventsOn <- ExpiryOnly
    MinGap <- HoursBetween
    LastGap = 72
    WarnGap = 216
    LastDays = 216
    WarnDays = 1008
    Keep = 4320
    Day = 72
    Jitter = 1
    InitialSettings <- AllOn
    InitialEntries <- OneEntry
    InitialCerts <- LastDay
    Life = 6480
    Timer = r1
    RenewBefore = 2160
    MaxNow = 144
    MaxRuns = 0
    MaxFaults = 0
SPECIFICATION Spec
CHECK_DEADLOCK FALSE
INVARIANTS
    LastDaysDaily
