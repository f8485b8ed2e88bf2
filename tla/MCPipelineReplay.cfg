CONSTANTS
    Intents = {i1}
    Tokens = {t1, t2}
    NoToken = NoToken
    NoIntent = NoIntent
    Principals = {p1, p2, p3}
    Proposers = {p1, p2, p3}
    Approvers = {p1, p2, p3}
    Authorities = {p1, p2, p3}
    NoPrincipal = NoPrincipal
    Calls = {c1, c2}
    Direct = {i1}
    Surfaces = {"gateway"}
    Deadlines = {"expires_at", "ttl"}
    MaxRestarts = 0
SYMMETRY Symmetry
SPECIFICATION Spec
CHECK_DEADLOCK FALSE
INVARIANTS
    AtMostOneDispatch
