\* A retransmitted operation, across leases, connections and a restart.
\* The bounds stop the system, so deadlock is not checked.
CONSTANTS
    r1 = r1  r2 = r2  r3 = r3
    c1 = c1
    t1 = t1  t2 = t2  t3 = t3
    k1 = k1  k2 = k2  k3 = k3
    NoRequest = NoRequest
    Requests = {r1, r2}
    Keys = {k1}
    Tabs = {t1}
    Clients = {c1}
    ClientOf <- OneClient
    TabOf <- OneTab
    KeyOf <- Shared
    Fingerprints <- LeaseIds
    Concurrency = 1
    QueueDepth = 1
    MaxLease = 2
    MaxPeer = 2
    MaxRestart = 1
    Disturbances = {"cancel", "disconnect", "timeout", "extension"}
    PersistMayFail = TRUE
SPECIFICATION Spec
SYMMETRY Twins
CHECK_DEADLOCK FALSE
INVARIANTS
    SentOncePerKey
    DurableBeforeSend
    NoDispatchIsTrue
PROPERTIES
    NoLateSend
    KeepsPromise
