\* One worker, one owner: the page of a customer that was deprovisioned
CONSTANTS
    w1 = w1
    w2 = w2
    ann = ann
    bob = bob
    slug = slug
    Nobody = Nobody
    Workers = {w1}
    Admins = {ann}
    Slugs = {slug}
    InitialAdmins <- OneOwner
    MaxEdits = 1
    MaxSeconds = 1
    Stray = Stray
    MaxRequests = 3
SPECIFICATION FairSpec
CHECK_DEADLOCK FALSE
INVARIANTS
    GoneStaysGone
