CONSTANTS
    read = read
    send = send
    agent = agent
    stranger = stranger
    sys = sys
    Actions = {read, send}
    Agents = {agent, stranger}
    Systems = {sys}
    Local = Local
    Confidences = {79, 80}
    SignerIds = {s1}
    PublicKeys = {q1, q2}
    NoPublicKey = NoPublicKey
    NoSigner = NoSigner
    SignerCalls = {c1, c2}
    Intents = {i1}
    Requests <- MCRequests
    Policies <- MCPolicies
    NoPolicy = NoPolicy
    NoRequest = NoRequest
    Proposers = {a1}
    Approvers = {a1}
    NoPrincipal = NoPrincipal
    MaxRestarts = 1
SYMMETRY Symmetry
SPECIFICATION Spec
CHECK_DEADLOCK FALSE
INVARIANTS
    UnattendedOnGrounds
    DeniedStaysDenied
    SignedWithStoredKey
    RegistrationWins
