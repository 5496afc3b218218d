\* Two operations queued on one tab, with every kind of interruption.
\* The bounds stop the system, so deadlock is not checked.
CONSTANTS
    r1 = r1  r2 = r2  r3 = r3
    c1 = c1
    t1 = t1  t2 = t2  t3 = t3
    k1 = k1  k2 = k2  k3 = k3
    NoRequest = NoRequest
    Requests = {r1, r2}
    Keys = {k1, k2}
    Tabs = {t1}
    Clients = {c1}
    ClientOf <- OneClient
    TabOf <- OneTab
    KeyOf <- OwnKeys
    Fingerprints <- LeaseIds
    Concurrency = 1
    QueueDepth = 1
    MaxLease = 1
    MaxPeer = 1
    MaxRestart = 0
    Disturbances = {"cancel", "disconnect", "lease", "timeout", "extension"}
    PersistMayFail = FALSE
SPECIFICATION FairSpec
CHECK_DEADLOCK FALSE
INVARIANTS
    KnownEffectsAreTrue
    AnswersAreTrue
    TabOrder
PROPERTIES
    EveryRequestEnds
