\* Two entries on one firewall, a third with two bindings of a server
CONSTANTS
    nA = nA
    nB = nB
    nC = nC
    nX = nX
    pA = pA
    pB = pB
    fw = fw
    web = web
    fA = fA
    fB = fB
    wA = wA
    wB = wB
    gone = gone
    r1 = r1
    r2 = r2
    Runs = {r1, r2}
    Names = {nA, nB, nC, nX}
    Prefixes = {pA, pB}
    Entries <- ThreeEntries
    Devices = {fw, web}
    Firewalls = {fw}
    Cleanup = {fw, web}
    Slots = {fA, fB, wA, wB, gone}
    DeviceOf <- MCDeviceOf
    StartsWith = {}
    MaxStamp = 2
    MaxRenewals = 1
    None = None
SPECIFICATION FairSpec
CHECK_DEADLOCK FALSE
INVARIANTS
    TypeOK
    PromisedServed
    CandidatesValid
    ExitZeroCoversAll
PROPERTIES
    RunsEnd
