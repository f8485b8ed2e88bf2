CONSTANTS
    Procs = {p1, p2}
    Gone = Gone
    Keys = {k1}
    Values = {v1}
    Absent = Absent
    Ids = {u1}
    NoId = NoId
    SlowAcquire = FALSE
    MaxFaults = 1
SYMMETRY Symmetry
SPECIFICATION Spec
CHECK_DEADLOCK FALSE
PROPERTY
    LawfulReclaim
