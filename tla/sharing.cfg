\* Three tabs share one slot and a waiting list of one.
\* The bounds stop the system, so deadlock is not checked.
CONSTANTS
    r1 = r1  r2 = r2  r3 = r3
    c1 = c1
    t1 = t1  t2 = t2  t3 = t3
    k1 = k1  k2 = k2  k3 = k3
    NoRequest = NoRequest
    Requests = {r1, r2, r3}
    Keys = {k1, k2, k3}
    Tabs = {t1, t2, t3}
    Clients = {c1}
    ClientOf <- OneClient
    TabOf <- ThreeTabs
    KeyOf <- OwnKeys
    Fingerprints <- LeaseIds
    None = None
    MaxStates = 2
    Concurrency = 1
    QueueDepth = 1
    MaxLease = 3
    MaxPeer = 1
    MaxRestart = 0
    Disturbances = {"cancel"}
    PersistMayFail = FALSE
SPECIFICATION MCSpec
SYMMETRY Renamings
CHECK_DEADLOCK FALSE
INVARIANTS
    SlotsDoNotLeak
    NobodyLosesTheDebugger
    NothingLeaks
