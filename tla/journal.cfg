CONSTANTS
    Absent = Absent
    Keys = {k1, k2}
    Values = {v1}
    MaxWrites = 2
    MaxBytes = 3
    MaxSequence = 4
    Disturbances = {"kill", "power", "io"}
    Processes = {p1, p2, p3}
    None = None
SPECIFICATION MCSpec
SYMMETRY Symmetric
CHECK_DEADLOCK FALSE
INVARIANTS HolderIsMarked ReleaseIsTrue
PROPERTY ImplementsStore
