\* Two clients of one task, or two relays of the Extension, whose sessions and
\* generations cross, with tabs removed and reloads in flight.  Two calls ask for a reload of
\* the Extension, while the port, the worker or the broker is lost.
\* The bounds stop the system, so deadlock is not checked.
CONSTANTS
    Clients = {c1, c2}
    Tasks = {k1}
    Tabs = {t1}
    SessionIds = {s1, s2}
    LeaseIds = {l1}
    Relays = {r1, r2}
    Ops = {o1}
    NoTask = NoTask
    NoSession = NoSession
    NoLease = NoLease
    NoLeaseId = NoLeaseId
    NoRelay = NoRelay
    NoTab = NoTab
    MaxGen = 2
    Events = {"relay", "removed", "disconnect", "transfer"}
    WritesFail = {"hello"}
    ReloadMayBeInFlight = TRUE
    Calls = {q1, q2}
    None = None
    MaxUpsets = 1
SPECIFICATION MCReloadSpec
CHECK_DEADLOCK FALSE
SYMMETRY Names
INVARIANTS
    IndicesAgree
    OneSessionPerTask
    OneReloadPerGeneration
    ReflectedIsFresh
PROPERTIES
    OwnerSends
