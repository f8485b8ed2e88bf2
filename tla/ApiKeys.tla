------------------------------ MODULE ApiKeys ------------------------------
(***************************************************************************)
(* The API keys of the gateway (gateway/security/api-keys.mjs): a table    *)
(* and a cache of it.  createApiKey and revokeApiKey await a statement; a  *)
(* statement may fail, or be executed although its answer is lost, and the *)
(* one of a process that is gone may still be executed.                    *)
(***************************************************************************)
EXTENDS Naturals

CONSTANTS
    Keys,       \* key ids (random: none is created twice)
    KeyCalls,   \* slots for the handlers and statements under way
    NoKey       \* the key of an empty slot

ASSUME KeyAssumption == NoKey \notin Keys

VARIABLES
    rows,       \* api_keys: the status column
    keyCache,   \* keyCache: the status of the record
    keyCalls,   \* the handlers that await their statement, and orphaned statements
    created,    \* keys whose id was made
    refusing,   \* keys whose revocation was asked for in this process
    revoked     \* keys whose revocation was answered with success

keyVars == <<rows, keyCache, keyCalls, created, refusing, revoked>>

KeyStatus == {"absent", "active", "revoked"}
Stages == {"idle", "sent", "executed", "orphaned"}
KeyCall == [op: {"create", "revoke"}, key: Keys \cup {NoKey}, stage: Stages]
IdleKeyCall == [op |-> "create", key |-> NoKey, stage |-> "idle"]

KeyTypeOK ==
    /\ rows \in [Keys -> KeyStatus]
    /\ keyCache \in [Keys -> KeyStatus]
    /\ keyCalls \in [KeyCalls -> KeyCall]
    /\ created \subseteq Keys
    /\ refusing \subseteq Keys
    /\ revoked \subseteq Keys

KeyInit ==
    /\ rows = [k \in Keys |-> "absent"]
    /\ keyCache = [k \in Keys |-> "absent"]
    /\ keyCalls = [c \in KeyCalls |-> IdleKeyCall]
    /\ created = {}
    /\ refusing = {}
    /\ revoked = {}

-----------------------------------------------------------------------------
Sent(op, k) == [op |-> op, key |-> k, stage |-> "sent"]
InStage(c, op, stage) == keyCalls[c].op = op /\ keyCalls[c].stage = stage

\* createApiKey up to its INSERT.
CreateApiKey(c, k) ==
    /\ keyCalls[c].stage = "idle"
    /\ k \notin created
    /\ created' = created \cup {k}
    /\ keyCalls' = [keyCalls EXCEPT ![c] = Sent("create", k)]
    /\ UNCHANGED <<rows, keyCache, refusing, revoked>>

\* Its continuation: the key is cached and handed out.
CreateDone(c) ==
    /\ InStage(c, "create", "executed")
    /\ keyCache' = [keyCache EXCEPT ![keyCalls[c].key] = "active"]
    /\ keyCalls' = [keyCalls EXCEPT ![c] = IdleKeyCall]
    /\ UNCHANGED <<rows, created, refusing, revoked>>

\* Mutant: the record is left as it is until the row is updated.
RevokeAfterUpdate(c, k) ==
    /\ keyCalls[c].stage = "idle"
    /\ keyCache[k] # "absent"
    /\ refusing' = refusing \cup {k}
    /\ keyCalls' = [keyCalls EXCEPT ![c] = Sent("revoke", k)]
    /\ UNCHANGED <<rows, keyCache, created, revoked>>

\* revokeApiKey up to its UPDATE: the cached record is refused from here on.
RevokeApiKey(c, k) ==
    /\ keyCalls[c].stage = "idle"
    /\ keyCache[k] # "absent"
    /\ keyCache' = [keyCache EXCEPT ![k] = "revoked"]
    /\ refusing' = refusing \cup {k}
    /\ keyCalls' = [keyCalls EXCEPT ![c] = Sent("revoke", k)]
    /\ UNCHANGED <<rows, created, revoked>>

\* Mutant: the UPDATE is not awaited.
RevokeNotAwaited(c) ==
    /\ InStage(c, "revoke", "executed") \/ InStage(c, "revoke", "sent")
    /\ keyCache' = [keyCache EXCEPT ![keyCalls[c].key] = "absent"]
    /\ revoked' = revoked \cup {keyCalls[c].key}
    /\ keyCalls' = [keyCalls EXCEPT ![c] =
                      IF @.stage = "sent" THEN [@ EXCEPT !.stage = "orphaned"]
                      ELSE IdleKeyCall]
    /\ UNCHANGED <<rows, created, refusing>>

\* Its continuation: the record is dropped and the success reported.
RevokeDone(c) ==
    /\ InStage(c, "revoke", "executed")
    /\ keyCache' = [keyCache EXCEPT ![keyCalls[c].key] = "absent"]
    /\ revoked' = revoked \cup {keyCalls[c].key}
    /\ keyCalls' = [keyCalls EXCEPT ![c] = IdleKeyCall]
    /\ UNCHANGED <<rows, created, refusing>>

\* The database executes a statement: an INSERT adds the row, an UPDATE changes it
\* when it is there.
RowAfter(c) ==
    IF keyCalls[c].op = "create" THEN "active"
    ELSE IF rows[keyCalls[c].key] = "absent" THEN "absent" ELSE "revoked"

ExecuteStatement(c) ==
    /\ keyCalls[c].stage \in {"sent", "orphaned"}
    /\ rows' = [rows EXCEPT ![keyCalls[c].key] = RowAfter(c)]
    /\ keyCalls' = [keyCalls EXCEPT ![c] =
                      IF @.stage = "sent" THEN [@ EXCEPT !.stage = "executed"]
                      ELSE IdleKeyCall]
    /\ UNCHANGED <<keyCache, created, refusing, revoked>>

\* The statement, or its answer, fails: the handler answers 500.  What was sent may
\* still be executed, or not.
StatementFails(c) ==
    /\ keyCalls[c].stage \in {"sent", "executed", "orphaned"}
    /\ \/ keyCalls' = [keyCalls EXCEPT ![c] = IdleKeyCall]
       \/ /\ keyCalls[c].stage = "sent"
          /\ keyCalls' = [keyCalls EXCEPT ![c].stage = "orphaned"]
    /\ UNCHANGED <<rows, keyCache, created, refusing, revoked>>

\* A new process loads the active rows (initApiKeys).
LoadKeys ==
    /\ keyCache' = [k \in Keys |-> IF rows[k] = "active" THEN "active" ELSE "absent"]
    /\ keyCalls' = [c \in KeyCalls |->
                      IF keyCalls[c].stage \in {"sent", "orphaned"}
                      THEN [keyCalls[c] EXCEPT !.stage = "orphaned"] ELSE IdleKeyCall]
    /\ refusing' = {}
    /\ UNCHANGED <<rows, created, revoked>>

KeyStep ==
    \E c \in KeyCalls :
        \/ \E k \in Keys : CreateApiKey(c, k) \/ RevokeApiKey(c, k)
        \/ CreateDone(c) \/ RevokeDone(c) \/ ExecuteStatement(c) \/ StatementFails(c)

\* validateApiKey accepts the key.
ValidateApiKey(k) == keyCache[k] = "active"

-----------------------------------------------------------------------------
\* A key whose revocation was answered with success is refused for good, by this
\* process and by every one that loads the table.
RevokedForGood ==
    \A k \in revoked : ~ValidateApiKey(k) /\ rows[k] # "active"

\* A key whose revocation was asked for is refused by this process from then on,
\* whether the UPDATE succeeds or not.  (The next process may accept it again.)
RefusedSinceAsked == \A k \in refusing : ~ValidateApiKey(k)
=============================================================================
