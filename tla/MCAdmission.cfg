CONSTANTS
    Nonces = {n1}
    Window = 1
    Skew = 1
    Retention = 2
    MaxTime = 4
    Buckets = {k1}
    LimitOf <- MCLimits
    RateWindow = 2
    MaxRequests = 3
    Keys = {k1}
    KeyCalls = {c1, c2}
    NoKey = NoKey
    MaxRuns = 1
SYMMETRY Symmetry
SPECIFICATION Spec
CHECK_DEADLOCK FALSE
INVARIANTS
    NonceSpentOnce
    RateRespected
    RevokedForGood
    RefusedSinceAsked
