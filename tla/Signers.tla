------------------------------ MODULE Signers ------------------------------
(***************************************************************************)
(* The signers whose signatures the approving routes accept                *)
(* (gateway/security/identity-binding.mjs): a table and a cache of it.     *)
(* registerSigner and revokeSigner await a statement before they touch the *)
(* cache, so that two of them can be in progress for one signer.           *)
(***************************************************************************)
CONSTANTS
    SignerIds,      \* signer ids
    PublicKeys,     \* public keys
    NoPublicKey,    \* "no row", "no entry"
    NoSigner,       \* the signer of an empty slot
    SignerCalls     \* slots for the handlers and statements under way

ASSUME SignerAssumption == NoPublicKey \notin PublicKeys /\ NoSigner \notin SignerIds

VARIABLES
    authorized_signers, \* the table
    signerCache,        \* signerCache
    signerCalls,        \* the handlers that await their statement, and orphaned statements
    stored,             \* the keys each signer's row ever had
    deleted             \* signers whose row was deleted at some time

signerVars == <<authorized_signers, signerCache, signerCalls, stored, deleted>>

MaybeKey == PublicKeys \cup {NoPublicKey}

\* "done" and "missed": the statement was executed, and touched a row or not.
SignerCall ==
    [op: {"register", "revoke"}, signer: SignerIds \cup {NoSigner}, key: MaybeKey,
     stage: {"idle", "sent", "done", "missed", "orphaned"}]
IdleSignerCall ==
    [op |-> "revoke", signer |-> NoSigner, key |-> NoPublicKey, stage |-> "idle"]

SignerTypeOK ==
    /\ authorized_signers \in [SignerIds -> MaybeKey]
    /\ signerCache \in [SignerIds -> MaybeKey]
    /\ signerCalls \in [SignerCalls -> SignerCall]
    /\ stored \in [SignerIds -> SUBSET PublicKeys]
    /\ deleted \subseteq SignerIds

SignerInit ==
    /\ authorized_signers = [s \in SignerIds |-> NoPublicKey]
    /\ signerCache = [s \in SignerIds |-> NoPublicKey]
    /\ signerCalls = [c \in SignerCalls |-> IdleSignerCall]
    /\ stored = [s \in SignerIds |-> {}]
    /\ deleted = {}

-----------------------------------------------------------------------------
Send(c, op, s, k) ==
    /\ signerCalls[c].stage = "idle"
    /\ signerCalls' = [signerCalls EXCEPT ![c] =
                         [op |-> op, signer |-> s, key |-> k, stage |-> "sent"]]
    /\ UNCHANGED <<authorized_signers, signerCache, stored, deleted>>

\* registerSigner and revokeSigner up to their statement.
RegisterSigner(c, s, k) == signerCache[s] = NoPublicKey /\ Send(c, "register", s, k)
RevokeSigner(c, s) == Send(c, "revoke", s, NoPublicKey)

\* INSERT ... ON CONFLICT DO NOTHING touches a row when there is none, DELETE when
\* there is one.
Touches(c) ==
    (signerCalls[c].op = "register") <=>
        (authorized_signers[signerCalls[c].signer] = NoPublicKey)

\* The database executes a statement.
ExecuteSigner(c) ==
    LET call == signerCalls[c] IN
    /\ call.stage \in {"sent", "orphaned"}
    /\ authorized_signers' =
         IF Touches(c) THEN [authorized_signers EXCEPT ![call.signer] = call.key]
         ELSE authorized_signers
    /\ stored' =
         IF Touches(c) /\ call.op = "register"
         THEN [stored EXCEPT ![call.signer] = @ \cup {call.key}] ELSE stored
    /\ deleted' =
         IF Touches(c) /\ call.op = "revoke" THEN deleted \cup {call.signer} ELSE deleted
    /\ signerCalls' = [signerCalls EXCEPT ![c] =
                         IF call.stage = "orphaned" THEN IdleSignerCall
                         ELSE [call EXCEPT !.stage = IF Touches(c) THEN "done" ELSE "missed"]]
    /\ UNCHANGED signerCache

\* The statement, or its answer, fails; what was sent may still be executed, or not.
SignerFails(c) ==
    /\ signerCalls[c].stage # "idle"
    /\ \/ signerCalls' = [signerCalls EXCEPT ![c] = IdleSignerCall]
       \/ /\ signerCalls[c].stage = "sent"
          /\ signerCalls' = [signerCalls EXCEPT ![c].stage = "orphaned"]
    /\ UNCHANGED <<authorized_signers, signerCache, stored, deleted>>

\* Mutant: the cache is set whether the row was inserted or not.
AlwaysCached(c) ==
    /\ signerCalls[c].stage \in {"done", "missed"}
    /\ signerCache' = [signerCache EXCEPT ![signerCalls[c].signer] = signerCalls[c].key]
    /\ signerCalls' = [signerCalls EXCEPT ![c] = IdleSignerCall]
    /\ UNCHANGED <<authorized_signers, stored, deleted>>

\* The continuation: a row that was inserted is cached, one that was deleted dropped.
SignerDone(c) ==
    /\ signerCalls[c].stage \in {"done", "missed"}
    /\ signerCache' =
         IF signerCalls[c].stage = "done"
         THEN [signerCache EXCEPT ![signerCalls[c].signer] = signerCalls[c].key]
         ELSE signerCache
    /\ signerCalls' = [signerCalls EXCEPT ![c] = IdleSignerCall]
    /\ UNCHANGED <<authorized_signers, stored, deleted>>

\* A new process loads the table (initIdentityBinding).
LoadSigners ==
    /\ signerCache' = authorized_signers
    /\ signerCalls' = [c \in SignerCalls |->
                         IF signerCalls[c].stage \in {"sent", "orphaned"}
                         THEN [signerCalls[c] EXCEPT !.stage = "orphaned"]
                         ELSE IdleSignerCall]
    /\ UNCHANGED <<authorized_signers, stored, deleted>>

SignerStep ==
    \E c \in SignerCalls :
        \/ \E s \in SignerIds, k \in PublicKeys : RegisterSigner(c, s, k)
        \/ \E s \in SignerIds : RevokeSigner(c, s)
        \/ ExecuteSigner(c) \/ SignerFails(c) \/ SignerDone(c)

-----------------------------------------------------------------------------
\* Until a signer's row is deleted, the cache holds the key of the row or nothing:
\* of concurrent registrations one wins, in the table and in the cache.
RegistrationWins ==
    \A s \in SignerIds \ deleted :
        signerCache[s] # NoPublicKey => signerCache[s] = authorized_signers[s]
=============================================================================
