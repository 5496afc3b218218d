CONSTANTS
    s1 = s1  s2 = s2  s3 = s3  a = a  b = b  t1 = t1  t2 = t2  none = none  sweep = sweep
    None = none
    Sweep = sweep
    Tabs = {t1, t2}
    Tasks = {a, b}
    Sessions = {s1, s3}
    Users = {t2}
    Popups = {t2}
    Viewing = {}
    TaskOf <- OwnerOf
    Kinds = {"sweep", "transfer"}
    Endings = {"completed", "in_doubt", "close_fails"}
    Upsets = {"client", "restart", "refuse", "popup"}
    MaxUpsets = 1
    MaxPasses = 1
CHECK_DEADLOCK FALSE
SPECIFICATION EarlySpec
PROPERTY OrphansGo
