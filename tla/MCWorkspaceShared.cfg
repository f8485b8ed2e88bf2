CONSTANTS
    Procs = {p1, p2}
    Gone = Gone
    Keys = {k1}
    Values = {v1, v2}
    Absent = Absent
    Ids = {u1, u2, u3}
    NoId = NoId
    SlowAcquire = FALSE
    MaxFaults = 2
SYMMETRY Symmetry
SPECIFICATION Spec
CHECK_DEADLOCK FALSE
ACTION_CONSTRAINT
    ReclaimsJudged
INVARIANTS
    TypeOK
    Exclusive
    AckedDurable
PROPERTY
    KeepsWorkspaceLog
