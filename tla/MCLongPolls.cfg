SPECIFICATION Spec
CONSTANTS
    t1 = t1  t2 = t2  a1 = a1  a2 = a2
    Tasks = {t1, t2}
    Addresses = {a1, a2}
    Buckets = 3
    Ahead = 2
    MinAge = 2
    Second = 2
    MinInterval = 2
    Late = 1
    MaxTraces = 2
    MaxTime = 17
SYMMETRY Symmetry
INVARIANTS
    ReportsCounted
    ReportedInTime
CHECK_DEADLOCK FALSE
