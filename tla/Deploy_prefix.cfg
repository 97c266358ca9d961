\* Two entries with one prefix on one Windows server
CONSTANTS
    nA = nA
    nB = nB
    nC = nC
    nX = nX
    pA = pA
    pB = pB
    fw = fw
    web = web
    fA = fA
    fB = fB
    wA = wA
    wB = wB
    gone = gone
    r1 = r1
    r2 = r2
    Runs = {r1, r2}
    Names = {nA, nB, nX}
    Prefixes = {pA}
    Entries <- DefaultPrefix
    Devices = {web}
    Firewalls = {}
    Cleanup = {web}
    Slots = {wA, wB}
    DeviceOf <- MCDeviceOf
    StartsWith = {}
    MaxStamp = 1
    MaxRenewals = 1
    None = None
SPECIFICATION Spec
CHECK_DEADLOCK FALSE
INVARIANTS
    PromisedServed
