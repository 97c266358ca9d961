\* MSP Console: two workers, every kind of starting file, one second
CONSTANTS
    a = a
    b = b
    p1 = p1
    p2 = p2
    t1 = t1
    w1 = w1
    w2 = w2
    Names = {a}
    DnsProviders = {p1, p2}
    DeployTargets = {t1}
    Absent = Absent
    Direct = Direct
    NoFile = NoFile
    Torn = Torn
    Free = Free
    Workers = {w1, w2}
    InitialFiles <- AnyFile
    Keep = 1
    MaxEdits = 2
    MaxNow = 0
SPECIFICATION FairSpec
PROPERTIES
    RequestsEnd
    ImplementsHistory
INVARIANTS
    TypeOK
    FileUsable
    BackupsUsable
