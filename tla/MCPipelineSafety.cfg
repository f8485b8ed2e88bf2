CONSTANTS
    Intents = {i1}
    Tokens = {t1, t2, t3}
    NoToken = NoToken
    NoIntent = NoIntent
    Principals = {p1, p2}
    Proposers = {p1, p2}
    Approvers = {p1, p2}
    Authorities = {p1, p2}
    NoPrincipal = NoPrincipal
    Calls = {c1, c2}
    Direct = {i1}
    Surfaces = {"gateway", "apiv1"}
    Deadlines = {"expires_at", "ttl"}
    MaxRestarts = 1
SYMMETRY Symmetry
SPECIFICATION Spec
CHECK_DEADLOCK FALSE
INVARIANTS
    TypeOK
    EachDispatchGranted
    PolicyVerdictBinds
    InFlightAccounted
    VerdictBookkeeping
    VotesBounded
PROPERTIES
    SupersededTokenIsDead
    KeepsTokenPromise
