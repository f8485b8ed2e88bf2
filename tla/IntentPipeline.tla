--------------------------- MODULE IntentPipeline ---------------------------
(***************************************************************************)
(* The governed pipeline of the gateway: the intent store                  *)
(* (gateway/governance/intents.mjs) and the HTTP handlers that move an     *)
(* intent through it (gateway/routes/index.mjs, and the same pipeline      *)
(* under /api/v1 in gateway/routes/api-v1.mjs), with the token store of    *)
(* TokenManager.                                                           *)
(*                                                                         *)
(* Node runs one handler at a time and switches only at an `await'.  A     *)
(* handler without one is a single action here.  POST /approvals/:id and   *)
(* POST /execute-action do wait (for PostgreSQL, for the mail or SMS       *)
(* connector): each such request is a member of Calls whose `at' says what *)
(* it is waiting for, and what it read before waiting may be stale when it *)
(* resumes.  A refusal that changes no state is not an action.             *)
(***************************************************************************)
EXTENDS TokenManager, Integers, FiniteSets

CONSTANTS
    Principals,     \* authenticated principals
    Proposers,      \* those whose roles let them submit,
    Approvers,      \* decide,
    Authorities,    \* and throw the kill switch (root_authority, meta_governor)
    NoPrincipal,    \* "none recorded"
    Calls,          \* concurrent requests of the two waiting handlers
    Direct,         \* intents for e-mail or SMS to a recipient, delivered by the gateway
    Surfaces,       \* route families in service, \subseteq {"gateway", "apiv1"}
    Deadlines,      \* bound: deadlines that may pass, \subseteq {"expires_at", "ttl"}
    MaxRestarts     \* bound: restarts of the gateway process

ASSUME PipelineAssumption ==
    /\ NoPrincipal \notin Principals
    /\ Proposers \subseteq Principals
    /\ Approvers \subseteq Principals
    /\ Authorities \subseteq Principals
    /\ Direct \subseteq Intents
    /\ Surfaces \subseteq {"gateway", "apiv1"}
    /\ Deadlines \subseteq {"expires_at", "ttl"}
    /\ MaxRestarts \in Nat

VARIABLES
    intents,    \* the intent cache
    votes,      \* rows of the approvals table, per intent and approver
    calls,      \* the waiting requests
    restarts,   \* restarts so far
    tally       \* history: what happened to each intent, counted

vars == <<tokens, intents, votes, calls, restarts, tally>>

Statuses == {"absent", "submitted", "governed", "authorized", "denied",
             "blocked", "executing", "executed", "receipted"}
Decisions == {"approved", "denied"}
\* Whether a request may give an expires_at.
Expiring == {x \in BOOLEAN : x => "expires_at" \in Deadlines}

\* intent.authorization: the decision, the principal who took it and whether
\* the request gave an expires_at.
Authorizations ==
    [decision: Decisions \cup {"none"}, by: Principals \cup {NoPrincipal},
     expires: BOOLEAN]
NoAuthorization == [decision |-> "none", by |-> NoPrincipal, expires |-> FALSE]

IntentRecord ==
    [status: Statuses,
     \* REVIEW stands for every decision other than AUTO_APPROVE and AUTO_DENY
     governance: {"none", "AUTO_APPROVE", "AUTO_DENY", "REVIEW"},
     submitter: Principals \cup {NoPrincipal},      \* history: caller of POST /intent
     principal_id: Principals \cup {NoPrincipal},   \* as stored: null if none recorded
     agent_id: Principals \cup {NoPrincipal},       \* the principal it names, if any
     authorization: Authorizations,
     passed: SUBSET Deadlines,      \* deadlines of the authorization in the past
     token: Tokens \cup {NoToken},  \* intent.execution_token
     execution: {"none", "reserved", "failed", "done"},
     \* decision of the authorization the receipt carries; "unknown" if none
     receipt: {"none", "unknown", "approved", "denied"}]

Absent ==
    [status |-> "absent", governance |-> "none", submitter |-> NoPrincipal,
     principal_id |-> NoPrincipal, agent_id |-> NoPrincipal,
     authorization |-> NoAuthorization, passed |-> {}, token |-> NoToken,
     execution |-> "none", receipt |-> "none"]

\* A waiting request knows its intent; a vote also its approver and decision.
IdleCall == [at |-> "idle", intent |-> NoIntent, by |-> NoPrincipal, decision |-> "none"]
Voting == [at: {"lookup", "insert", "record"}, intent: Intents, by: Principals,
           decision: Decisions]
Sending == [at: {"sending"}, intent: Intents, by: {NoPrincipal}, decision: {"none"}]
CallRecord == {IdleCall} \cup Voting \cup Sending

\* History counters: approvals recorded, executions let out (a token handed to
\* an agent, or a connector called), executions recorded, receipts generated for
\* an execution (governed_action), and receipts generated for an intent that was
\* not executed (governed_denial, onboard, kill_switch).
Tally == [granted: Nat, dispatched: Nat, executed: Nat, receipted: Nat, unexecuted: Nat]
NothingCounted ==
    [granted |-> 0, dispatched |-> 0, executed |-> 0, receipted |-> 0, unexecuted |-> 0]

TypeOK ==
    /\ TokenTypeOK
    /\ intents \in [Intents -> IntentRecord]
    /\ votes \in [Intents -> [Principals -> Nat]]
    /\ calls \in [Calls -> CallRecord]
    /\ restarts \in 0..MaxRestarts
    /\ tally \in [Intents -> Tally]

Init ==
    /\ TokenInit
    /\ intents = [i \in Intents |-> Absent]
    /\ votes = [i \in Intents |-> [p \in Principals |-> 0]]
    /\ calls = [c \in Calls |-> IdleCall]
    /\ restarts = 0
    /\ tally = [i \in Intents |-> NothingCounted]

-----------------------------------------------------------------------------
\* updateIntent: an unconditional write of the cached object.
UpdateIntent(i, new) == intents' = [intents EXCEPT ![i] = new]

\* The write every authorization route ends in: the new record replaces the
\* old one, whatever status the intent has by then.
RecordAuthorization(i, d, p, exp) ==
    /\ UpdateIntent(i, [intents[i] EXCEPT
                          !.status = IF d = "approved" THEN "authorized" ELSE "denied",
                          !.authorization = [decision |-> d, by |-> p, expires |-> exp],
                          !.passed = {}])
    /\ tally' = IF d = "approved"
                THEN [tally EXCEPT ![i].granted = @ + 1]
                ELSE tally

\* The decision whose hash a receipt generated now would carry.  Without an
\* authorization the code writes authorized_by "unknown" and an empty hash.
DecisionInForce(i) ==
    IF intents[i].authorization.decision = "none"
    THEN "unknown"
    ELSE intents[i].authorization.decision

\* The /api/v1 routes record no principal_id, on an intent or on a decision.
PrincipalOn(s, p) == IF s = "gateway" THEN p ELSE NoPrincipal

\* POST /intent and POST /api/v1/intents.  With the principal recorded the agent id
\* is never compared, so any value stands for it.
Submit(s, i, p, agent) ==
    /\ p \in Proposers
    /\ intents[i].status = "absent"
    /\ s = "gateway" => agent = p
    /\ UpdateIntent(i, [Absent EXCEPT
                          !.status = "submitted",
                          !.submitter = PrincipalOn(s, p),
                          !.principal_id = PrincipalOn(s, p),
                          !.agent_id = agent])
    /\ UNCHANGED <<tokens, votes, calls, restarts, tally>>

\* POST /api/kill by p, POST /api/onboard by nobody (its agent is "system"): the
\* intent gets a receipt at once, records no principal, and is left "submitted"
\* for every later route to take up.  Its action is neither e-mail nor SMS.
Announce(i, p) ==
    /\ p \in Authorities \cup {NoPrincipal}
    /\ intents[i].status = "absent"
    /\ i \notin Direct
    /\ UpdateIntent(i, [Absent EXCEPT !.status = "submitted", !.agent_id = p])
    /\ tally' = [tally EXCEPT ![i].unexecuted = @ + 1]
    /\ UNCHANGED <<tokens, votes, calls, restarts>>

\* POST /govern.  The policy engine's verdict is an input of this module.
Govern(i, verdict) ==
    /\ intents[i].status = "submitted"
    /\ UpdateIntent(i, [intents[i] EXCEPT
                          !.governance = verdict,
                          !.status = CASE verdict = "AUTO_DENY" -> "blocked"
                                       [] verdict = "AUTO_APPROVE" -> "authorized"
                                       [] OTHER -> "governed"])
    /\ tally' = IF verdict = "AUTO_APPROVE"
                THEN [tally EXCEPT ![i].granted = @ + 1]
                ELSE tally
    /\ UNCHANGED <<tokens, votes, calls, restarts>>

\* intent.principal_id || intent.agent_id
ProposerOf(i) ==
    IF intents[i].principal_id # NoPrincipal
    THEN intents[i].principal_id
    ELSE intents[i].agent_id

\* POST /authorize on the proposer's own intent: whatever was decided, a denial is
\* recorded and a governed_denial receipt is generated and stored.
RefuseSelfApproval(i, p) ==
    /\ UpdateIntent(i, [intents[i] EXCEPT
                          !.status = "denied",
                          !.authorization = [decision |-> "denied", by |-> p, expires |-> FALSE],
                          !.passed = {}])
    /\ tally' = [tally EXCEPT ![i].unexecuted = @ + 1]

\* POST /authorize; POST /api/v1/intents/:id/authorize makes no such comparison.
Authorize(s, i, p, d, exp) ==
    /\ p \in Approvers
    /\ intents[i].status = "governed"
    /\ IF s = "gateway" /\ p = ProposerOf(i)
       THEN RefuseSelfApproval(i, p)
       ELSE RecordAuthorization(i, d, PrincipalOn(s, p), exp)
    /\ UNCHANGED <<tokens, votes, calls, restarts>>

-----------------------------------------------------------------------------
\* Mutant: a vote on an intent that was not governed yet is let in.
FaultyApprovalBegin(c, i, p, d) ==
    /\ calls[c].at = "idle"
    /\ p \in Approvers
    /\ intents[i].status \in {"submitted", "governed"}
    /\ p # intents[i].principal_id
    /\ calls' = [calls EXCEPT ![c] =
                   [at |-> "lookup", intent |-> i, by |-> p, decision |-> d]]
    /\ UNCHANGED <<tokens, intents, votes, restarts, tally>>

\* POST /approvals/:id up to its first await.  The status and the proposer are
\* compared here and never again.
ApprovalBegin(c, i, p, d) ==
    /\ calls[c].at = "idle"
    /\ p \in Approvers
    /\ intents[i].status = "governed"
    /\ p # intents[i].principal_id
    /\ calls' = [calls EXCEPT ![c] =
                   [at |-> "lookup", intent |-> i, by |-> p, decision |-> d]]
    /\ UNCHANGED <<tokens, intents, votes, restarts, tally>>

\* Mutant: a row of this approver does not stop the INSERT.
FaultyApprovalLookup(c) ==
    /\ calls[c].at = "lookup"
    /\ calls' = [calls EXCEPT ![c].at = "insert"]
    /\ UNCHANGED <<tokens, intents, votes, restarts, tally>>

\* No row of this approver was found and the signature is accepted: the INSERT
\* is sent.
ApprovalLookup(c) ==
    /\ calls[c].at = "lookup"
    /\ votes[calls[c].intent][calls[c].by] = 0
    /\ calls' = [calls EXCEPT ![c].at = "insert"]
    /\ UNCHANGED <<tokens, intents, votes, restarts, tally>>

\* PostgreSQL commits the row.
ApprovalInsert(c) ==
    /\ calls[c].at = "insert"
    /\ votes' = [votes EXCEPT ![calls[c].intent][calls[c].by] = @ + 1]
    /\ calls' = [calls EXCEPT ![c].at = "record"]
    /\ UNCHANGED <<tokens, intents, restarts, tally>>

\* The handler resumes after the INSERT and writes the decision.
ApprovalRecord(c) ==
    /\ calls[c].at = "record"
    /\ RecordAuthorization(calls[c].intent, calls[c].decision, calls[c].by, FALSE)
    /\ calls' = [calls EXCEPT ![c] = IdleCall]
    /\ UNCHANGED <<tokens, votes, restarts>>

\* A row was found, the signature is refused, or a query throws: the handler
\* answers 409, 403 or 500 and writes nothing to the intent.
ApprovalAbandoned(c) ==
    /\ calls[c].at \in {"lookup", "insert", "record"}
    /\ calls' = [calls EXCEPT ![c] = IdleCall]
    /\ UNCHANGED <<tokens, intents, votes, restarts, tally>>

-----------------------------------------------------------------------------
\* Mutant: the approval TTL is compared by no route.
FaultyOverdue(s, i) == "expires_at" \in intents[i].passed

\* The deadlines the execution routes compare with the clock: the /api/v1 one
\* does not evaluate the approval TTL.
Overdue(s, i) ==
    intents[i].passed \cap (IF s = "gateway" THEN Deadlines ELSE {"expires_at"}) # {}

\* An execution route finds an authorization past its deadline.
ExpireAuthorization(s, i) ==
    /\ intents[i].status = "authorized"
    /\ Overdue(s, i)
    /\ UpdateIntent(i, [intents[i] EXCEPT !.status = "blocked"])
    /\ UNCHANGED <<tokens, votes, calls, restarts, tally>>

\* Mutant: the intent stays authorized while its token is out.
FaultyExecute(s, i, t) ==
    /\ intents[i].status = "authorized"
    /\ ~Overdue(s, i)
    /\ IssueExecutionToken(t, i)
    /\ UpdateIntent(i, [intents[i] EXCEPT !.token = t])
    /\ tally' = [tally EXCEPT ![i].dispatched = @ + 1]
    /\ UNCHANGED <<votes, calls, restarts>>

\* POST /execute: a token goes to the agent, which executes outside.
Execute(s, i, t) ==
    /\ intents[i].status = "authorized"
    /\ ~Overdue(s, i)
    /\ IssueExecutionToken(t, i)
    /\ UpdateIntent(i, [intents[i] EXCEPT !.status = "executing", !.token = t])
    /\ tally' = [tally EXCEPT ![i].dispatched = @ + 1]
    /\ UNCHANGED <<votes, calls, restarts>>

\* The token /execute-confirm presents: the one of the body, else the stored one.
Presented(i, t) == IF t = NoToken THEN intents[i].token ELSE t

\* POST /execute-confirm with an accepted token.
ExecuteConfirm(i, t) ==
    /\ intents[i].status = "executing"
    /\ BurnToken(Presented(i, t), i, intents[i].token)
    /\ UpdateIntent(i, [intents[i] EXCEPT !.status = "executed", !.execution = "done"])
    /\ tally' = [tally EXCEPT ![i].executed = @ + 1]
    /\ UNCHANGED <<votes, calls, restarts>>

\* POST /execute-confirm with a token past its TTL: the intent stays executing.
ExecuteConfirmExpired(i, t) ==
    /\ intents[i].status = "executing"
    /\ MarkExpired(Presented(i, t), intents[i].token)
    /\ UNCHANGED <<intents, votes, calls, restarts, tally>>

\* Mutant: the intent is not moved on, so the receipt can be generated again.
FaultyGenerateReceipt(i) ==
    /\ intents[i].status = "executed"
    /\ UpdateIntent(i, [intents[i] EXCEPT !.receipt = DecisionInForce(i)])
    /\ tally' = [tally EXCEPT ![i].receipted = @ + 1]
    /\ UNCHANGED <<tokens, votes, calls, restarts>>

\* POST /receipt.
GenerateReceipt(i) ==
    /\ intents[i].status = "executed"
    /\ UpdateIntent(i, [intents[i] EXCEPT
                          !.status = "receipted", !.receipt = DecisionInForce(i)])
    /\ tally' = [tally EXCEPT ![i].receipted = @ + 1]
    /\ UNCHANGED <<tokens, votes, calls, restarts>>

\* POST /execute-action up to the connector call: reserve by compare-and-set,
\* issue a token and burn it.  (The burn of a token issued in the same step
\* passes; the branch for one that does not is not reached.)
ExecuteAction(c, i, t) ==
    /\ calls[c].at = "idle"
    /\ i \in Direct
    /\ intents[i].status = "authorized"
    /\ ~Overdue("gateway", i)
    /\ IssueAndBurnToken(t, i)
    /\ UpdateIntent(i, [intents[i] EXCEPT !.status = "executing", !.execution = "reserved"])
    /\ calls' = [calls EXCEPT ![c] = [IdleCall EXCEPT !.at = "sending", !.intent = i]]
    /\ tally' = [tally EXCEPT ![i].dispatched = @ + 1]
    /\ UNCHANGED <<votes, restarts>>

ExecutedAndReceipted(r) ==
    [granted |-> r.granted, dispatched |-> r.dispatched,
     executed |-> r.executed + 1, receipted |-> r.receipted + 1,
     unexecuted |-> r.unexecuted]

\* The connector reports "sent": execution, receipt and both ledger entries are
\* written in one continuation.
SendCompletes(c) ==
    LET i == calls[c].intent IN
    /\ calls[c].at = "sending"
    /\ UpdateIntent(i, [intents[i] EXCEPT
                          !.status = "receipted", !.execution = "done",
                          !.receipt = DecisionInForce(i)])
    /\ calls' = [calls EXCEPT ![c] = IdleCall]
    /\ tally' = [tally EXCEPT ![i] = ExecutedAndReceipted(tally[i])]
    /\ UNCHANGED <<tokens, votes, restarts>>

\* Mutant: the failure is written to the status and the reservation is kept.
FaultySendFails(c) ==
    LET i == calls[c].intent IN
    /\ calls[c].at = "sending"
    /\ UpdateIntent(i, [intents[i] EXCEPT !.status = "blocked"])
    /\ calls' = [calls EXCEPT ![c] = IdleCall]
    /\ UNCHANGED <<tokens, votes, restarts, tally>>

\* Mutant: the name of the execution state is written as the intent's status.
MisnamedSendFails(c) ==
    LET i == calls[c].intent IN
    /\ calls[c].at = "sending"
    /\ UpdateIntent(i, [intents[i] EXCEPT !.status = "failed", !.execution = "failed"])
    /\ calls' = [calls EXCEPT ![c] = IdleCall]
    /\ UNCHANGED <<tokens, votes, restarts, tally>>

\* The connector throws or reports anything else.
SendFails(c) ==
    LET i == calls[c].intent IN
    /\ calls[c].at = "sending"
    /\ UpdateIntent(i, [intents[i] EXCEPT !.status = "blocked", !.execution = "failed"])
    /\ calls' = [calls EXCEPT ![c] = IdleCall]
    /\ UNCHANGED <<tokens, votes, restarts, tally>>

-----------------------------------------------------------------------------
\* Time: a deadline of the authorization in force passes.  Only an authorized
\* intent is ever compared with one, and every later authorization starts anew.
ApprovalClock(i, d) ==
    /\ intents[i].status = "authorized"
    /\ intents[i].authorization.decision # "none"
    /\ d = "expires_at" => intents[i].authorization.expires
    /\ d \notin intents[i].passed
    /\ UpdateIntent(i, [intents[i] EXCEPT !.passed = intents[i].passed \cup {d}])
    /\ UNCHANGED <<tokens, votes, calls, restarts, tally>>

TokenStoreStep ==
    /\ TokenClock \/ CleanupTokens
    /\ UNCHANGED <<intents, votes, calls, restarts, tally>>

\* The process restarts and reloads the intents table, which has no column for
\* execution_token.  (The table is taken to be up to date here.)
Restart ==
    /\ restarts < MaxRestarts
    /\ restarts' = restarts + 1
    /\ LoseTokens
    /\ intents' = [i \in Intents |-> [intents[i] EXCEPT !.token = NoToken]]
    /\ calls' = [c \in Calls |-> IdleCall]
    /\ UNCHANGED <<votes, tally>>

-----------------------------------------------------------------------------
Request(i) ==
    \/ \E s \in Surfaces, p, agent \in Principals : Submit(s, i, p, agent)
    \/ \E p \in Principals \cup {NoPrincipal} : Announce(i, p)
    \/ \E v \in {"AUTO_APPROVE", "AUTO_DENY", "REVIEW"} : Govern(i, v)
    \/ \E s \in Surfaces, p \in Principals, d \in Decisions, exp \in Expiring :
          Authorize(s, i, p, d, exp)
    \/ \E c \in Calls, p \in Principals, d \in Decisions : ApprovalBegin(c, i, p, d)
    \/ \E s \in Surfaces : ExpireAuthorization(s, i)
    \/ \E s \in Surfaces, t \in Tokens : Execute(s, i, t)
    \/ \E t \in Tokens \cup {NoToken} : ExecuteConfirm(i, t)
    \/ \E t \in Tokens \cup {NoToken} : ExecuteConfirmExpired(i, t)
    \/ GenerateReceipt(i)
    \/ \E c \in Calls, t \in Tokens : ExecuteAction(c, i, t)

Resume(c) ==
    \/ ApprovalLookup(c)
    \/ ApprovalInsert(c)
    \/ ApprovalRecord(c)
    \/ ApprovalAbandoned(c)
    \/ SendCompletes(c)
    \/ SendFails(c)

\* What one process does while it runs.
Serve ==
    \/ \E i \in Intents : Request(i)
    \/ \E c \in Calls : Resume(c)
    \/ \E i \in Intents, d \in Deadlines : ApprovalClock(i, d)
    \/ TokenStoreStep

Next == Serve \/ Restart

Spec == Init /\ [][Next]_vars

\* A query and a connector call settle: the driver and the mailer answer, fail
\* or time out.  Nothing obliges a client to send a request.
FairSpec == Spec /\ \A c \in Calls : WF_vars(Resume(c))

-----------------------------------------------------------------------------
(* Safety.                                                                 *)

Holds(i, status) == IF intents[i].status = status THEN 1 ELSE 0

\* Every execution let out (a token handed to an agent by /execute, or a
\* connector called by /execute-action) uses up an approval of its own, however
\* the two execution routes and the late writes of POST /approvals interleave;
\* an intent standing in "authorized" is one approval not yet used.
EachDispatchGranted ==
    \A i \in Intents :
        tally[i].dispatched + Holds(i, "authorized") <= tally[i].granted

\* Every execution recorded by /execute-confirm or by a connector's answer was
\* let out before, one for one: no token and no answer is counted twice.
EachExecutionDispatched ==
    \A i \in Intents : tally[i].executed <= tally[i].dispatched

\* What can still become a recorded execution of intent i: a token of its own not
\* yet burned, or a connector that has not answered.
LiveTokens(i) == {t \in Tokens : tokens[t].status = "ACTIVE" /\ tokens[t].intent = i}
OpenSends(i) == {c \in Calls : calls[c].at = "sending" /\ calls[c].intent = i}

\* Each of them was let out and is not among the executions recorded so far.
Accounted(i) ==
    /\ IsFiniteSet(LiveTokens(i))
    /\ IsFiniteSet(OpenSends(i))
    /\ tally[i].executed + Cardinality(LiveTokens(i)) + Cardinality(OpenSends(i))
          <= tally[i].dispatched

InFlightAccounted == \A i \in Intents : Accounted(i)

\* Receipts of executions (governed_action) never outnumber the executions
\* recorded, and an intent that stands in "executed" has one to come.  The other
\* kinds name no execution: an intent gets at most one when it is announced
\* (onboard, kill_switch) and one when its proposer's approval is refused
\* (governed_denial), and none once a decision on it was recorded.
Undecided(i) ==
    CASE intents[i].status = "absent" -> 2
      [] intents[i].status \in {"submitted", "governed"} -> 1
      [] OTHER -> 0

EachReceiptExecuted ==
    \A i \in Intents :
        /\ tally[i].receipted + Holds(i, "executed") <= tally[i].executed
        /\ tally[i].unexecuted + Undecided(i) <= 2

\* The policy engine's automatic verdicts are final: AUTO_DENY leaves the intent
\* blocked and never executed, AUTO_APPROVE lets it out at most once.  No waiting
\* vote, restart or retry gets round them.
PolicyVerdictBinds ==
    \A i \in Intents :
        /\ intents[i].governance = "AUTO_DENY" =>
              intents[i].status = "blocked" /\ tally[i].dispatched = 0
        /\ intents[i].governance = "AUTO_APPROVE" => tally[i].dispatched <= 1

\* The receipt of an execution carries the hash of a person's decision whenever the
\* intent was sent to review, and "unknown" only when the policy engine approved it
\* by itself, whatever votes and confirmations were under way when it was made.
ReceiptNamesDecider ==
    \A i \in Intents :
        intents[i].receipt # "none" =>
            (intents[i].receipt = "unknown" <=> intents[i].governance = "AUTO_APPROVE")

\* Why: only intents the engine sent to review are governed or voted on, a verdict
\* is given once, and a connector answers only for an intent that was let out.
VerdictOfIntent(i) ==
    /\ intents[i].governance = "none" <=> intents[i].status \in {"absent", "submitted"}
    /\ intents[i].governance = "none" => tally[i].granted = 0 /\ tally[i].dispatched = 0
    /\ intents[i].status = "governed" => intents[i].governance = "REVIEW"
    /\ intents[i].governance = "AUTO_DENY" =>
          intents[i].status = "blocked" /\ tally[i].dispatched = 0
    /\ intents[i].governance = "AUTO_APPROVE" => tally[i].granted = 1

VerdictOfCall(c) ==
    /\ calls[c].at \in {"lookup", "insert", "record"} =>
          intents[calls[c].intent].governance = "REVIEW"
    /\ calls[c].at = "sending" => tally[calls[c].intent].dispatched > 0

VerdictBookkeeping ==
    (\A i \in Intents : VerdictOfIntent(i)) /\ (\A c \in Calls : VerdictOfCall(c))

\* An intent that records its proposer is never approved by that principal
\* (INVARIANT "Proposer # Approver" of POST /authorize, and POST /approvals).  It
\* says nothing of an intent created without a principal_id (/api/v1, onboard,
\* kill), which POST /approvals compares with nobody, nor of an approval on which
\* no principal is recorded (/api/v1).
NoSelfApproval ==
    \A i \in Intents :
        intents[i].submitter # NoPrincipal /\ intents[i].authorization.decision = "approved"
            => intents[i].authorization.by # intents[i].submitter

\* Why: what is recorded is the caller of POST /intent, and no vote in flight is
\* the proposer's own.
ProposerOfIntent(i) ==
    /\ intents[i].principal_id = intents[i].submitter
    /\ intents[i].status = "absent" => intents[i].authorization.decision = "none"
    /\ intents[i].submitter # NoPrincipal /\ intents[i].authorization.decision = "approved"
          => intents[i].authorization.by # intents[i].submitter

NotProposersCall(c) ==
    calls[c].at # "idle" =>
        /\ intents[calls[c].intent].status # "absent"
        /\ calls[c].at # "sending" => calls[c].by # intents[calls[c].intent].submitter

ProposerKept ==
    (\A i \in Intents : ProposerOfIntent(i)) /\ (\A c \in Calls : NotProposersCall(c))

\* An approver has at most one row per request that can wait at once: POST /approvals
\* looks for a row before it waits for the INSERT, so votes cast at the same time may
\* all add one, and a vote cast after any of them never does.
Inserting(i, p) ==
    {c \in Calls : calls[c].at = "insert" /\ calls[c].intent = i /\ calls[c].by = p}

VotesBounded ==
    \A i \in Intents, p \in Principals :
        votes[i][p] + Cardinality(Inserting(i, p)) <= Cardinality(Calls)

\* Nothing is let out on an authorization that is past a deadline.
NoOverdueDispatch ==
    [][\A i \in Intents :
          tally'[i].dispatched > tally[i].dispatched => intents[i].passed = {}]_vars

\* A token is burned for an intent only while it is the last one /execute issued
\* for it: a token superseded by a later /execute, or handed to another intent,
\* is dead even though the store still says ACTIVE.
SupersededTokenIsDead ==
    [][\A t \in Tokens :
          tokens[t].status = "ACTIVE" /\ tokens'[t].status = "USED" =>
              intents[tokens[t].intent].token = t]_vars

\* Token store as a promise: one life, one intent (see SingleUseToken).
LifeOf(t) ==
    CASE tokens[t].status = "unissued" -> "unborn"
      [] tokens[t].status = "ACTIVE" -> "live"
      [] OTHER -> "dead"

Promise == INSTANCE SingleUseToken WITH
    life <- [t \in Tokens |-> LifeOf(t)],
    bound <- [t \in Tokens |-> tokens[t].intent]

KeepsTokenPromise == Promise!Spec

-----------------------------------------------------------------------------
(* What a document says and the code does not do.                          *)

\* "No replay of executed actions" (SYSTEM_RUNTIME_MAP.md) and "two concurrent
\* requests dispatch once" (gateway/tests/execution-binding-repair.test.mjs): an
\* intent is let out at most once.  A vote of POST /approvals that waited while
\* the intent was executed makes it authorized again.
AtMostOneDispatch == \A i \in Intents : tally[i].dispatched <= 1

(* Liveness.                                                               *)

\* A reservation made by /execute-action does not outlive its connector call:
\* the answer, good or bad, settles it.
ReservationSettles ==
    \A c \in Calls, i \in Intents :
        calls[c].at = "sending" /\ calls[c].intent = i
            ~> calls[c].at = "idle" /\ intents[i].execution # "reserved"
=============================================================================
