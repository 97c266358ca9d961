\* Single-instance profile: one worker, three edits in a row, in three seconds
CONSTANTS
    a = a
    b = b
    p1 = p1
    p2 = p2
    t1 = t1
    w1 = w1
    w2 = w2
    Names = {a}
    DnsProviders = {p1, p2}
    DeployTargets = {t1}
    Absent = Absent
    Direct = Direct
    NoFile = NoFile
    Torn = Torn
    Free = Free
    Workers = {w1}
    InitialFiles <- UsualFile
    Keep = 2
    MaxEdits = 3
    MaxNow = 2
SPECIFICATION Spec
INVARIANTS
    AckedStays
PROPERTIES
    ImplementsSerial
    AliasTargetKept
    OverwrittenIsBackedUp
