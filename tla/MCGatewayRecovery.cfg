CONSTANTS
    Intents = {i1}
    Tokens = {t1, t2}
    NoToken = NoToken
    NoIntent = NoIntent
    Principals = {p1, p2}
    Proposers = {p1, p2}
    Approvers = {p1, p2}
    Authorities = {p1, p2}
    NoPrincipal = NoPrincipal
    Calls = {c1}
    Direct = {i1}
    Surfaces = {"gateway"}
    Deadlines = {}
    MaxRestarts = 1
    MaxPending = 2
SYMMETRY Symmetry
SPECIFICATION RecoverySpec
CHECK_DEADLOCK FALSE
INVARIANTS
    RepeatsBounded
    ReceiptRepeatsBounded
    ReceiptNamesDecider
    NoSelfApproval
PROPERTIES
    KeepsRecordHistory
