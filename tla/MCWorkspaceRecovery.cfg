CONSTANTS
    Procs = {p1, p2}
    Gone = Gone
    Keys = {k1}
    Values = {v1, v2}
    Absent = Absent
    Ids = {u1, u2}
    NoId = NoId
    SlowAcquire = TRUE
    MaxFaults = 2
SYMMETRY Symmetry
SPECIFICATION Spec
CHECK_DEADLOCK FALSE
INVARIANTS
    RevisionsProven
