\* Two workers, all requests, deaths at every step
CONSTANTS
    w1 = w1
    w2 = w2
    ann = ann
    bob = bob
    slug = slug
    Nobody = Nobody
    Workers = {w1, w2}
    Admins = {ann, bob}
    Slugs = {slug}
    InitialAdmins <- AtFirst
    MaxEdits = 1
    MaxSeconds = 2
    Stray = Stray
    MaxRequests = 3
SPECIFICATION FairSpec
CHECK_DEADLOCK FALSE
INVARIANTS
    TypeOK
PROPERTIES
    LastOwnerOnlyRaced
    RemovedIsArchived
    OverwrittenOnlyRaced
    RequestsEnd
