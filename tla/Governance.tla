----------------------------- MODULE Governance -----------------------------
(***************************************************************************)
(* The governance of one intent, from its submission to the decision on    *)
(* it: the policy verdict (POST /govern, with or without SPG-M review      *)
(* metadata, and POST /api/v1/intents/:id/govern) and the signed approval  *)
(* (POST /authorize and its API v1 twin, POST /approvals), with the signer *)
(* store they verify against.  IntentPipeline has the whole life of an     *)
(* intent, with the verdict as an input; here the verdict is computed.     *)
(*                                                                         *)
(* ED25519_MODE is "required", as it comes: a decision without a signature *)
(* is refused, except the denial that POST /authorize itself records when  *)
(* the approver is the proposer, which nobody signs.                       *)
(*                                                                         *)
(* The active policy and the system mode are what the policy store loaded  *)
(* at the last start, and its setters may change them at any time: each    *)
(* verdict is given by any policy, in any mode.                            *)
(***************************************************************************)
EXTENDS PolicyEngine, Signers

CONSTANTS
    Intents,
    Requests,       \* the requests that may be submitted
    Policies,       \* the policies that may be active
    NoRequest, NoPolicy,    \* of an intent that is not there, or not governed
    Proposers,      \* principals with the proposer role,
    Approvers,      \* and with the approver role
    NoPrincipal,    \* "none recorded"
    MaxRestarts     \* bound

ASSUME GovernanceAssumption ==
    /\ Requests \subseteq Request
    /\ Policies \subseteq Policy
    /\ NoRequest \notin Requests /\ NoPolicy \notin Policies
    /\ NoPrincipal \notin Proposers \cup Approvers
    /\ MaxRestarts \in Nat

VARIABLES
    intents,    \* per intent: status, request, who made it, verdict, grounds, decision
    voting,     \* POST /approvals calls that await a query; without a key until verified
    restarts

vars == <<signerVars, intents, voting, restarts>>

Status == {"absent", "submitted", "blocked", "governed", "authorized", "denied"}

NoGround ==
    [policy |-> NoPolicy, mode |-> "NORMAL", delegate |-> FALSE, review |-> FALSE]
Ground ==
    [policy: Policies \cup {NoPolicy}, mode: Modes, delegate: BOOLEAN, review: BOOLEAN]

\* Who decided, and the signer and key that verified it: none, if nobody signed.
NoSignature == [approver |-> NoPrincipal, signer |-> NoSigner, key |-> NoPublicKey]
Signature ==
    [approver: Approvers \cup {NoPrincipal}, signer: SignerIds \cup {NoSigner}, key: MaybeKey]

NoVerdict == [decision |-> "REQUIRE_HUMAN", risk |-> 0, root_only |-> FALSE]

IntentRecord ==
    [status: Status, request: Requests \cup {NoRequest},
     principal_id: Proposers \cup {NoPrincipal}, verdict: Verdict, ground: Ground,
     decided: Signature]

TypeOK ==
    /\ SignerTypeOK
    /\ intents \in [Intents -> IntentRecord]
    /\ voting \subseteq [intent: Intents, vote: {"approved", "denied"}, signed: Signature]
    /\ restarts \in 0..MaxRestarts

Init ==
    /\ SignerInit
    /\ intents =
         [i \in Intents |->
            [status |-> "absent", request |-> NoRequest, principal_id |-> NoPrincipal,
             verdict |-> NoVerdict, ground |-> NoGround, decided |-> NoSignature]]
    /\ voting = {}
    /\ restarts = 0

-----------------------------------------------------------------------------
\* POST /intent by p; the other create routes record nobody.
Submit(i, r, p) ==
    /\ intents[i].status = "absent"
    /\ intents' = [intents EXCEPT ![i].status = "submitted", ![i].request = r,
                                  ![i].principal_id = p]
    /\ UNCHANGED <<signerVars, voting, restarts>>

StatusAfter(d) ==
    CASE d = "AUTO_DENY" -> "blocked"
      [] d = "AUTO_APPROVE" -> "authorized"
      [] OTHER -> "governed"

\* POST /govern: the verdict is computed and stored with what it rests on.
Govern(i, p, mode, delegate, review) ==
    LET v == EvaluatePolicy(intents[i].request, p, mode, delegate, review) IN
    /\ intents[i].status = "submitted"
    /\ intents' = [intents EXCEPT
         ![i].status = StatusAfter(v.decision), ![i].verdict = v,
         ![i].ground = [policy |-> p, mode |-> mode, delegate |-> delegate,
                        review |-> review]]
    /\ UNCHANGED <<signerVars, voting, restarts>>

\* The signature is verified with the key the cache has for the signer it names.
Signed(a, s) == [approver |-> a, signer |-> s, key |-> signerCache[s]]
Verified(s) == signerCache[s] # NoPublicKey

Outcome(vote) == IF vote = "approved" THEN "authorized" ELSE "denied"

\* intent.principal_id || intent.agent_id
ProposerOf(i) ==
    IF intents[i].principal_id # NoPrincipal
    THEN intents[i].principal_id
    ELSE intents[i].request.agent

\* POST /authorize by the proposer: whatever was asked, a denial is recorded, before any
\* signature is looked at.
RefuseSelfApproval(i, a) ==
    /\ intents[i].status = "governed"
    /\ a = ProposerOf(i)
    /\ intents' = [intents EXCEPT
         ![i].status = "denied",
         ![i].decided = [approver |-> a, signer |-> NoSigner, key |-> NoPublicKey]]
    /\ UNCHANGED <<signerVars, voting, restarts>>

\* POST /authorize by another, in one step; POST /api/v1/intents/:id/authorize by
\* anybody, the proposer as well.
Authorize(i, a, s, vote) ==
    /\ intents[i].status = "governed"
    /\ Verified(s)
    /\ intents' = [intents EXCEPT ![i].status = Outcome(vote), ![i].decided = Signed(a, s)]
    /\ UNCHANGED <<signerVars, voting, restarts>>

\* POST /approvals, up to the query for an earlier vote of the approver.  Bound: one
\* such call is under way at a time.
BeginApproval(i, a, s, vote) ==
    /\ intents[i].status = "governed"
    /\ a # intents[i].principal_id
    /\ voting = {}
    /\ voting' = {[intent |-> i, vote |-> vote,
                   signed |-> [approver |-> a, signer |-> s, key |-> NoPublicKey]]}
    /\ UNCHANGED <<signerVars, intents, restarts>>

\* There is none: the signature is verified, and the vote sent to its table.
VerifyVote(w) ==
    /\ w.signed.key = NoPublicKey
    /\ Verified(w.signed.signer)
    /\ voting' = (voting \ {w}) \cup
                   {[w EXCEPT !.signed = Signed(w.signed.approver, w.signed.signer)]}
    /\ UNCHANGED <<signerVars, intents, restarts>>

\* The vote is stored: the outcome is written, whatever has happened since.
EndApproval(w) ==
    /\ w.signed.key # NoPublicKey
    /\ voting' = voting \ {w}
    /\ intents' = [intents EXCEPT ![w.intent].status = Outcome(w.vote),
                                  ![w.intent].decided = w.signed]
    /\ UNCHANGED <<signerVars, restarts>>

\* An earlier vote, no key, a bad signature, or a query that fails.
AbandonVote(w) ==
    /\ voting' = voting \ {w}
    /\ UNCHANGED <<signerVars, intents, restarts>>

SignerHandlers == SignerStep /\ UNCHANGED <<intents, voting, restarts>>

\* The process restarts; the intents come back as stored (GatewayRecovery).
Restart ==
    /\ restarts < MaxRestarts
    /\ restarts' = restarts + 1
    /\ LoadSigners
    /\ voting' = {}
    /\ UNCHANGED intents

Next ==
    \/ \E i \in Intents, r \in Requests, p \in Proposers \cup {NoPrincipal} : Submit(i, r, p)
    \/ \E i \in Intents, p \in Policies, mode \in Modes, delegate \in BOOLEAN,
          review \in BOOLEAN : Govern(i, p, mode, delegate, review)
    \/ \E i \in Intents, a \in Approvers : RefuseSelfApproval(i, a)
    \/ \E i \in Intents, a \in Approvers, s \in SignerIds, vote \in {"approved", "denied"} :
          Authorize(i, a, s, vote) \/ BeginApproval(i, a, s, vote)
    \/ \E w \in voting : VerifyVote(w) \/ EndApproval(w) \/ AbandonVote(w)
    \/ SignerHandlers
    \/ Restart

Spec == Init /\ [][Next]_vars

-----------------------------------------------------------------------------
\* The first class of the policy that applies to the request is its n-th.
First(r, p, n) ==
    /\ Applies(r, p.classes[n])
    /\ \A k \in 1..(n - 1) : ~Applies(r, p.classes[k])

\* An intent nobody approved is authorized only on these grounds: the mode was NORMAL,
\* the agent and the system are in the scope of the policy, the request is confident,
\* the SPG-M review asked for nothing, a delegate is within its ceiling, and the first
\* class that applies approves it.
Grounds(r, g) ==
    /\ g.mode = "NORMAL"
    /\ InScope(r, g.policy)
    /\ r.confidence >= 80
    /\ ~g.review
    /\ \E n \in DOMAIN g.policy.classes :
         LET class == g.policy.classes[n] IN
         /\ First(r, g.policy, n)
         /\ class.decision = "AUTO_APPROVE"
         /\ g.delegate /\ g.policy.delegation => class.risk <= g.policy.ceiling

UnattendedOnGrounds ==
    \A i \in Intents :
        intents[i].status = "authorized" /\ intents[i].decided = NoSignature
            => Grounds(intents[i].request, intents[i].ground)

\* What is out of the scope of the policy never gets past the verdict, and neither does
\* what its class denies, by a slow approval either; except that a verdict given in
\* MAINTENANCE does not tell a class that denies from any other.
DeniedStaysDenied ==
    \A i \in Intents :
        LET r == intents[i].request
            g == intents[i].ground
        IN  intents[i].status \in {"governed", "authorized", "denied"} =>
              /\ InScope(r, g.policy)
              /\ g.mode # "MAINTENANCE" =>
                   \A n \in DOMAIN g.policy.classes :
                       First(r, g.policy, n) => g.policy.classes[n].decision # "AUTO_DENY"

\* A decision was signed under a key that the signer's row has held, whatever
\* registrations and revocations were under way; one that nobody signed is a denial, on
\* the approver's own intent, and a late vote replaces both at once.  (The key need not
\* be the row's any more: the cache may keep one that was revoked.)
SignedWithStoredKey ==
    \A i \in Intents :
        LET d == intents[i].decided IN
        d # NoSignature =>
            IF d.signer = NoSigner
            THEN intents[i].status = "denied" /\ d.approver = ProposerOf(i)
            ELSE d.key \in stored[d.signer]
=============================================================================
