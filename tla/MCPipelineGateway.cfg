CONSTANTS
    Intents = {i1, i2}
    Tokens = {t1, t2}
    NoToken = NoToken
    NoIntent = NoIntent
    Principals = {p1, p2}
    Proposers = {p1}
    Approvers = {p2}
    Authorities = {p2}
    NoPrincipal = NoPrincipal
    Calls = {c1}
    Direct = {i1}
    Surfaces = {"gateway"}
    Deadlines = {"expires_at", "ttl"}
    MaxRestarts = 0
SPECIFICATION FairSpec
CHECK_DEADLOCK FALSE
INVARIANTS
    EachExecutionDispatched
    EachReceiptExecuted
PROPERTIES
    NoOverdueDispatch
    ReservationSettles
