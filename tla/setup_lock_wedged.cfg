\* One process dies with the lock, another loses the helper that takes it over.
CONSTANTS
    Absent = Absent
    Keys = {k1}
    Values = {v1}
    MaxWrites = 1
    MaxBytes = 1
    MaxSequence = 1
    Disturbances = {}
    Processes = {p1, p2, p3}
    None = None
SPECIFICATION MCSpec
SYMMETRY Symmetric
CHECK_DEADLOCK FALSE
INVARIANT DeadMarkersRecover
