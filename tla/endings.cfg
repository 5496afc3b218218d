\* Sessions end: their owners leave, or fail to leave, hand over, or fall idle.  A native port
\* is lost, twice.
\* The bounds stop the system, so deadlock is not checked.
CONSTANTS
    Clients = {c1, c2}
    Tasks = {k1}
    Tabs = {t1}
    SessionIds = {s1}
    LeaseIds = {l1}
    Relays = {r1}
    Ops = {o1}
    NoTask = NoTask
    NoSession = NoSession
    NoLease = NoLease
    NoLeaseId = NoLeaseId
    NoRelay = NoRelay
    NoTab = NoTab
    MaxGen = 1
    Events = {"idle", "disconnect", "transfer"}
    WritesFail = {"leaving"}
    ReloadMayBeInFlight = FALSE
    Small = {"s"}
    Large = {}
    Slots = 1
    MaxPorts = 6
    Upsets = {"storage", "slow", "worker", "refused", "host", "broker", "mismatch"}
    MaxUpsets = 2
SPECIFICATION MCEndingsSpec
CHECK_DEADLOCK FALSE
PROPERTIES
    DepartedAreForgotten
    PortComesBack
