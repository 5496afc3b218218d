\* Client: two tasks share one MCP process whose connection fails, is replaced and is closed.
\* Extension: a native port that fails twice while a small
\* and two large commands pass; two attempts of one clipboard operation and one of another;
\* two recordings.  The bounds stop the system, so deadlock is not checked.
CONSTANTS
    Calls = {c1, c2}
    MaxConns = 2
    Tasks = {ta, tb}
    NoTask = NoTask
    Sessions = {s1, s2}
    NoSession = NoSession
    Leases = {l1}
    NoLease = NoLease
    MaxTools = 3
    None = None
    Small = {"s"}
    Large = {"l1", "l2"}
    Slots = 1
    MaxPorts = 4
    Upsets = {"storage", "slow", "worker", "refused", "host", "broker", "mismatch"}
    MaxUpsets = 1
    v1 = v1  v2 = v2  v3 = v3  o1 = o1  o2 = o2
    Deliveries = {v1, v2, v3}
    Operations = {o1, o2}
    Of <- TwoOfThree
    Capacity = 1
    MaxDocs = 3
    MaxFailures = 2
    MaxIntrusions = 2
SPECIFICATION MCSpec
SYMMETRY Renamings
CHECK_DEADLOCK FALSE
INVARIANTS
    WrittenOnce
    AnswersAreSound
    ReceiptsAreTrue
    UsableIsClean
PROPERTIES
    NoForeignUse
