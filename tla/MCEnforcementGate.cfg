CONSTANTS
    Tokens = {t1, t2}
    NoToken = NoToken
    Calls = {c1, c2}
    Traces = {tr1, tr2}
    Hashes = {h1, h2}
    ClockSetBack = TRUE
    MaxReceipts = 3
SYMMETRY Symmetry
SPECIFICATION Spec
CHECK_DEADLOCK FALSE
INVARIANTS
    TypeOK
    TokenExecutesOnce
    PendingSettledOnce
    BoundToPayload
PROPERTIES
    ExpiredNeverExecutes
    KeepsTokenPromise
