CONSTANTS
    s1 = s1  s2 = s2  s3 = s3  a = a  b = b  t1 = t1  t2 = t2  none = none  sweep = sweep
    None = none
    Sweep = sweep
    Tabs = {t1}
    Tasks = {a}
    Sessions = {s1, s2}
    Users = {}
    Popups = {}
    Viewing = {}
    TaskOf <- OneOwner
    Kinds = {"sweep", "finalize", "expire", "abandon", "cleanup", "stale", "group", "transfer"}
    Endings = {"closed", "completed", "failed", "awaits", "in_doubt", "close_fails"}
    Upsets = {"unknown", "refuse", "restart", "client", "generation", "age", "reserve", "extension", "user"}
    MaxUpsets = 1
    MaxPasses = 2
CHECK_DEADLOCK FALSE
SYMMETRY Twins
SPECIFICATION Spec
INVARIANT NothingUnrecorded
PROPERTY NoCloseUnderTransaction
