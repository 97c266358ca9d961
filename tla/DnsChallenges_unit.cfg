\* Two runs of one unit: a wildcard with its apex, and two users of a Namecheap zone
CONSTANTS
    apex = apex
    wild = wild
    shop = shop
    cloud = cloud
    odd = odd
    recA = recA
    recT = recT
    recC = recC
    recH = recH
    main = main
    delegate = delegate
    direct = direct
    zN = zN
    zC = zC
    r1 = r1
    r2 = r2
    console = console
    www = www
    Runs = {r1, r2}
    Names = {apex, wild, shop, cloud, odd}
    Records = {recA, recT, recC, recH}
    Providers = {main, delegate, direct}
    Zones = {zN, zC}
    Others = {www}
    Existing <- MCExisting
    Entries <- MCEntries
    EndsWith = {}
    Types <- MCTypes
    ZoneOf <- MCZoneOf
    RecordOf <- MCRecordOf
    Serves <- MCServes
    Unit <- OneUnit
    None = None
SPECIFICATION FairSpec
CHECK_DEADLOCK FALSE
INVARIANTS
    TypeOK
    AddedStay
    OthersStay
    CleanedUp
PROPERTIES
    ValuesOneByOne
    RunsEnd
