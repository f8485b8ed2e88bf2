------------------------ MODULE IntentPipelineProofs ------------------------
(***************************************************************************)
(* Theorems about the governed pipeline, for every value of the constants. *)
(***************************************************************************)
EXTENDS IntentPipeline, FiniteSetTheorems, TLAPS

(***************************************************************************)
(* Type correctness.                                                       *)
(***************************************************************************)
LEMMA AbsentTyped == Absent \in IntentRecord
  BY DEF Absent, IntentRecord, Statuses, Authorizations, NoAuthorization

\* The field updates the handlers make.
LEMMA RecordUpdates ==
    ASSUME NEW r \in IntentRecord
    PROVE  /\ \A s \in Statuses : [r EXCEPT !.status = s] \in IntentRecord
           /\ \A s \in Statuses, v \in {"none", "AUTO_APPROVE", "AUTO_DENY", "REVIEW"} :
                 [r EXCEPT !.governance = v, !.status = s] \in IntentRecord
           /\ \A s \in Statuses, a \in Authorizations :
                 [r EXCEPT !.status = s, !.authorization = a, !.passed = {}] \in IntentRecord
           /\ \A s \in Statuses, t \in Tokens :
                 [r EXCEPT !.status = s, !.token = t] \in IntentRecord
           /\ \A s \in Statuses, x \in {"none", "reserved", "failed", "done"} :
                 [r EXCEPT !.status = s, !.execution = x] \in IntentRecord
           /\ \A s \in Statuses, n \in {"none", "unknown", "approved", "denied"} :
                 [r EXCEPT !.status = s, !.receipt = n] \in IntentRecord
           /\ \A s \in Statuses, x \in {"none", "reserved", "failed", "done"},
                 n \in {"none", "unknown", "approved", "denied"} :
                 [r EXCEPT !.status = s, !.execution = x, !.receipt = n] \in IntentRecord
           /\ \A d \in Deadlines : [r EXCEPT !.passed = r.passed \cup {d}] \in IntentRecord
           /\ [r EXCEPT !.token = NoToken] \in IntentRecord
  <1>1. \A s \in Statuses : [r EXCEPT !.status = s] \in IntentRecord
    BY DEF IntentRecord
  <1>2. \A s \in Statuses, v \in {"none", "AUTO_APPROVE", "AUTO_DENY", "REVIEW"} :
           [r EXCEPT !.governance = v, !.status = s] \in IntentRecord
    BY DEF IntentRecord
  <1>3. \A s \in Statuses, a \in Authorizations :
           [r EXCEPT !.status = s, !.authorization = a, !.passed = {}] \in IntentRecord
    BY DEF IntentRecord
  <1>4. \A s \in Statuses, t \in Tokens : [r EXCEPT !.status = s, !.token = t] \in IntentRecord
    BY DEF IntentRecord
  <1>5. \A s \in Statuses, x \in {"none", "reserved", "failed", "done"} :
           [r EXCEPT !.status = s, !.execution = x] \in IntentRecord
    BY DEF IntentRecord
  <1>6. \A s \in Statuses, n \in {"none", "unknown", "approved", "denied"} :
           [r EXCEPT !.status = s, !.receipt = n] \in IntentRecord
    BY DEF IntentRecord
  <1>7. \A s \in Statuses, x \in {"none", "reserved", "failed", "done"},
           n \in {"none", "unknown", "approved", "denied"} :
           [r EXCEPT !.status = s, !.execution = x, !.receipt = n] \in IntentRecord
    BY DEF IntentRecord
  <1>8. \A d \in Deadlines : [r EXCEPT !.passed = r.passed \cup {d}] \in IntentRecord
    <2> TAKE d \in Deadlines
    <2>1. r.passed \cup {d} \in SUBSET Deadlines
      BY DEF IntentRecord
    <2> QED
      BY <2>1 DEF IntentRecord
  <1>9. [r EXCEPT !.token = NoToken] \in IntentRecord
    BY DEF IntentRecord
  <1> QED
    BY <1>1, <1>2, <1>3, <1>4, <1>5, <1>6, <1>7, <1>8, <1>9

LEMMA UpdateTyped ==
    ASSUME intents \in [Intents -> IntentRecord], NEW i \in Intents,
           NEW new \in IntentRecord, UpdateIntent(i, new)
    PROVE  intents' \in [Intents -> IntentRecord]
  BY DEF UpdateIntent

LEMMA TallyUpdates ==
    ASSUME tally \in [Intents -> Tally], NEW i \in Intents
    PROVE  /\ [tally EXCEPT ![i].granted = @ + 1] \in [Intents -> Tally]
           /\ [tally EXCEPT ![i].dispatched = @ + 1] \in [Intents -> Tally]
           /\ [tally EXCEPT ![i].executed = @ + 1] \in [Intents -> Tally]
           /\ [tally EXCEPT ![i].receipted = @ + 1] \in [Intents -> Tally]
           /\ [tally EXCEPT ![i].unexecuted = @ + 1] \in [Intents -> Tally]
           /\ [tally EXCEPT ![i] = ExecutedAndReceipted(tally[i])]
                 \in [Intents -> Tally]
  <1>1. tally[i] \in Tally
    OBVIOUS
  <1>2. /\ [tally[i] EXCEPT !.granted = @ + 1] \in Tally
        /\ [tally[i] EXCEPT !.dispatched = @ + 1] \in Tally
        /\ [tally[i] EXCEPT !.executed = @ + 1] \in Tally
        /\ [tally[i] EXCEPT !.receipted = @ + 1] \in Tally
        /\ [tally[i] EXCEPT !.unexecuted = @ + 1] \in Tally
    BY <1>1 DEF Tally
  <1>3. ExecutedAndReceipted(tally[i]) \in Tally
    BY <1>1 DEF Tally, ExecutedAndReceipted
  <1> QED
    BY <1>1, <1>2, <1>3

\* What a waiting request knows, and how it moves on.
LEMMA CallUpdates ==
    ASSUME calls \in [Calls -> CallRecord], NEW c \in Calls
    PROVE  /\ [calls EXCEPT ![c] = IdleCall] \in [Calls -> CallRecord]
           /\ calls[c].at \in {"lookup", "insert", "record"} =>
                 /\ calls[c].intent \in Intents
                 /\ calls[c].by \in Principals
                 /\ calls[c].decision \in Decisions
                 /\ \A l \in {"insert", "record"} :
                       [calls EXCEPT ![c].at = l] \in [Calls -> CallRecord]
           /\ calls[c].at = "sending" => calls[c].intent \in Intents
           /\ \A i \in Intents : [IdleCall EXCEPT !.at = "sending", !.intent = i] \in CallRecord
  <1>1. calls[c] \in {IdleCall} \cup Voting \cup Sending
    BY DEF CallRecord
  <1>2. calls[c].at \in {"lookup", "insert", "record"} => calls[c] \in Voting
    BY <1>1 DEF Sending, IdleCall
  <1>3. calls[c].at = "sending" => calls[c] \in Sending
    BY <1>1 DEF Voting, IdleCall
  <1>4. \A r \in Voting, l \in {"insert", "record"} : [r EXCEPT !.at = l] \in Voting
    BY DEF Voting
  <1>5. \A i \in Intents : [IdleCall EXCEPT !.at = "sending", !.intent = i] \in Sending
    BY DEF IdleCall, Sending
  <1>6. \A l \in {"insert", "record"} :
          calls[c] \in Voting => [calls EXCEPT ![c].at = l] \in [Calls -> CallRecord]
    BY <1>4 DEF CallRecord
  <1>7. [calls EXCEPT ![c] = IdleCall] \in [Calls -> CallRecord]
    BY DEF CallRecord
  <1>8. calls[c] \in Voting =>
          calls[c].intent \in Intents /\ calls[c].by \in Principals /\ calls[c].decision \in Decisions
    BY DEF Voting
  <1>9. calls[c] \in Sending => calls[c].intent \in Intents
    BY DEF Sending
  <1> QED
    BY <1>2, <1>3, <1>5, <1>6, <1>7, <1>8, <1>9 DEF CallRecord

LEMMA InForceTyped ==
    ASSUME intents \in [Intents -> IntentRecord], NEW i \in Intents
    PROVE  DecisionInForce(i) \in {"none", "unknown", "approved", "denied"}
  BY DEF DecisionInForce, IntentRecord, Authorizations, Decisions

LEMMA RemovedTyped == \A r \in TokenRecord : Removed(r) \in TokenRecord
  BY DEF TokenRecord, TokenStatus, Removed

\* The steps of the token store.
LEMMA TokenStepTyped ==
    ASSUME TokenTypeOK,
           \/ \E t \in Tokens, i \in Intents : IssueExecutionToken(t, i)
           \/ \E t \in Tokens, i \in Intents : IssueAndBurnToken(t, i)
           \/ \E t \in Tokens \cup {NoToken}, i \in Intents, sig \in Tokens \cup {NoToken} :
                 BurnToken(t, i, sig)
           \/ \E t \in Tokens \cup {NoToken}, sig \in Tokens \cup {NoToken} : MarkExpired(t, sig)
           \/ TokenClock
           \/ CleanupTokens
           \/ LoseTokens
    PROVE  TokenTypeOK'
  <1> USE DEF TokenTypeOK, TokenStatus
  <1>r. \A t \in Tokens : \A st \in TokenStatus :
          /\ tokens[t] \in TokenRecord
          /\ [tokens[t] EXCEPT !.status = st] \in TokenRecord
          /\ [tokens[t] EXCEPT !.pastExpiry = TRUE] \in TokenRecord
          /\ [tokens[t] EXCEPT !.pastRetention = TRUE] \in TokenRecord
    BY DEF TokenRecord
  <1>i. \A i \in Intents : Issued(i, "ACTIVE") \in TokenRecord /\ Issued(i, "USED") \in TokenRecord
    BY DEF Issued, TokenRecord
  <1>1. CASE \E t \in Tokens, i \in Intents : IssueExecutionToken(t, i) \/ IssueAndBurnToken(t, i)
    BY <1>1, <1>i DEF IssueExecutionToken, IssueAndBurnToken
  <1>2. CASE \E t \in Tokens \cup {NoToken}, i \in Intents, sig \in Tokens \cup {NoToken} :
               BurnToken(t, i, sig)
    BY <1>2, <1>r DEF BurnToken, Accepts, Usable
  <1>3. CASE \E t \in Tokens \cup {NoToken}, sig \in Tokens \cup {NoToken} : MarkExpired(t, sig)
    BY <1>3, <1>r DEF MarkExpired, Usable
  <1>4. CASE TokenClock
    BY <1>4, <1>r DEF TokenClock
  <1>5. CASE CleanupTokens
    BY <1>5, <1>r, RemovedTyped DEF CleanupTokens
  <1>6. CASE LoseTokens
    BY <1>6, <1>r, RemovedTyped DEF LoseTokens
  <1> QED
    BY <1>1, <1>2, <1>3, <1>4, <1>5, <1>6

LEMMA InitTyped == Init => TypeOK
  BY AbsentTyped, PipelineAssumption
     DEF Init, TypeOK, TokenInit, TokenTypeOK, TokenRecord, TokenStatus, Unissued,
         CallRecord, Tally, NothingCounted

LEMMA RecordTyped ==
    ASSUME TypeOK, NEW i \in Intents, NEW d \in Decisions,
           NEW p \in Principals \cup {NoPrincipal}, NEW exp \in BOOLEAN,
           RecordAuthorization(i, d, p, exp)
    PROVE  /\ intents' \in [Intents -> IntentRecord]
           /\ tally' \in [Intents -> Tally]
  <1>1. [decision |-> d, by |-> p, expires |-> exp] \in Authorizations
    BY DEF Authorizations
  <1>2. "authorized" \in Statuses /\ "denied" \in Statuses
    BY DEF Statuses
  <1>3. intents[i] \in IntentRecord
    BY DEF TypeOK
  <1> QED
    BY <1>1, <1>2, <1>3, RecordUpdates, UpdateTyped, TallyUpdates
       DEF TypeOK, RecordAuthorization

LEMMA RefusalTyped ==
    ASSUME TypeOK, NEW i \in Intents, NEW p \in Principals, RefuseSelfApproval(i, p)
    PROVE  /\ intents' \in [Intents -> IntentRecord]
           /\ tally' \in [Intents -> Tally]
  <1>1. [decision |-> "denied", by |-> p, expires |-> FALSE] \in Authorizations
    BY DEF Authorizations, Decisions
  <1>2. "denied" \in Statuses
    BY DEF Statuses
  <1>3. intents[i] \in IntentRecord
    BY DEF TypeOK
  <1> QED
    BY <1>1, <1>2, <1>3, RecordUpdates, UpdateTyped, TallyUpdates
       DEF TypeOK, RefuseSelfApproval

LEMMA NextTyped == TypeOK /\ [Next]_vars => TypeOK'
  <1> SUFFICES ASSUME TypeOK, [Next]_vars PROVE TypeOK'
    OBVIOUS
  <1>a. \A i \in Intents : intents[i] \in IntentRecord
    BY DEF TypeOK
  <1>s. /\ "submitted" \in Statuses /\ "governed" \in Statuses /\ "authorized" \in Statuses
        /\ "blocked" \in Statuses /\ "executing" \in Statuses /\ "executed" \in Statuses
        /\ "receipted" \in Statuses
    BY DEF Statuses
  <1>1. ASSUME NEW i \in Intents, NEW s \in Surfaces, NEW p \in Principals,
               NEW agent \in Principals, Submit(s, i, p, agent)
        PROVE  TypeOK'
    <2>1. [Absent EXCEPT !.status = "submitted", !.submitter = PrincipalOn(s, p),
                         !.principal_id = PrincipalOn(s, p),
                         !.agent_id = agent] \in IntentRecord
      BY AbsentTyped, <1>s DEF IntentRecord, PrincipalOn
    <2> QED
      BY <1>1, <2>1, UpdateTyped DEF TypeOK, TokenTypeOK, Submit
  <1>2. ASSUME NEW i \in Intents, NEW v \in {"AUTO_APPROVE", "AUTO_DENY", "REVIEW"},
               Govern(i, v)
        PROVE  TypeOK'
    BY <1>2, <1>a, <1>s, RecordUpdates, UpdateTyped, TallyUpdates
       DEF TypeOK, TokenTypeOK, Govern
  <1>3. ASSUME NEW i \in Intents, NEW s \in Surfaces, NEW p \in Principals,
               NEW d \in Decisions, NEW exp \in Expiring, Authorize(s, i, p, d, exp)
        PROVE  TypeOK'
    <2>1. PrincipalOn(s, p) \in Principals \cup {NoPrincipal} /\ exp \in BOOLEAN
      BY DEF PrincipalOn, Expiring
    <2>2. intents' \in [Intents -> IntentRecord] /\ tally' \in [Intents -> Tally]
      BY <1>3, <2>1, RecordTyped, RefusalTyped DEF Authorize
    <2> QED
      BY <1>3, <2>2 DEF TypeOK, TokenTypeOK, Authorize
  <1>4. ASSUME NEW i \in Intents, NEW c \in Calls, NEW p \in Principals,
               NEW d \in Decisions, ApprovalBegin(c, i, p, d)
        PROVE  TypeOK'
    BY <1>4 DEF TypeOK, TokenTypeOK, ApprovalBegin, CallRecord, Voting
  <1>5. ASSUME NEW i \in Intents, NEW s \in Surfaces, ExpireAuthorization(s, i)
        PROVE  TypeOK'
    BY <1>5, <1>a, <1>s, RecordUpdates, UpdateTyped DEF TypeOK, TokenTypeOK, ExpireAuthorization
  <1>6. ASSUME NEW i \in Intents, NEW s \in Surfaces, NEW t \in Tokens, Execute(s, i, t)
        PROVE  TypeOK'
    BY <1>6, <1>a, <1>s, TokenStepTyped, RecordUpdates, UpdateTyped, TallyUpdates
       DEF TypeOK, Execute
  <1>7. ASSUME NEW i \in Intents, NEW t \in Tokens \cup {NoToken}, ExecuteConfirm(i, t)
        PROVE  TypeOK'
    <2>1. Presented(i, t) \in Tokens \cup {NoToken} /\ intents[i].token \in Tokens \cup {NoToken}
      BY <1>a DEF Presented, IntentRecord
    <2>2. TokenTypeOK'
      BY <1>7, <2>1, TokenStepTyped DEF TypeOK, ExecuteConfirm
    <2> QED
      BY <1>7, <1>a, <1>s, <2>2, RecordUpdates, UpdateTyped, TallyUpdates
         DEF TypeOK, ExecuteConfirm
  <1>8. ASSUME NEW i \in Intents, NEW t \in Tokens \cup {NoToken}, ExecuteConfirmExpired(i, t)
        PROVE  TypeOK'
    <2>1. Presented(i, t) \in Tokens \cup {NoToken} /\ intents[i].token \in Tokens \cup {NoToken}
      BY <1>a DEF Presented, IntentRecord
    <2> QED
      BY <1>8, <2>1, TokenStepTyped DEF TypeOK, ExecuteConfirmExpired
  <1>9. ASSUME NEW i \in Intents, GenerateReceipt(i)
        PROVE  TypeOK'
    BY <1>9, <1>a, <1>s, InForceTyped, RecordUpdates, UpdateTyped, TallyUpdates
       DEF TypeOK, TokenTypeOK, GenerateReceipt
  <1>10. ASSUME NEW i \in Intents, NEW c \in Calls, NEW t \in Tokens, ExecuteAction(c, i, t)
         PROVE  TypeOK'
    <2>1. TokenTypeOK'
      BY <1>10, TokenStepTyped DEF TypeOK, ExecuteAction
    <2>2. calls' \in [Calls -> CallRecord]
      BY <1>10, CallUpdates DEF TypeOK, ExecuteAction
    <2> QED
      BY <1>10, <1>a, <1>s, <2>1, <2>2, RecordUpdates, UpdateTyped, TallyUpdates
         DEF TypeOK, ExecuteAction
  <1>11. ASSUME NEW c \in Calls, ApprovalLookup(c) \/ ApprovalInsert(c) \/ ApprovalAbandoned(c)
         PROVE  TypeOK'
    <2>1. CASE ApprovalLookup(c)
      BY <2>1, CallUpdates DEF TypeOK, TokenTypeOK, ApprovalLookup
    <2>2. CASE ApprovalInsert(c)
      <3>1. calls' \in [Calls -> CallRecord] /\ calls[c].intent \in Intents /\ calls[c].by \in Principals
        BY <2>2, CallUpdates DEF TypeOK, ApprovalInsert
      <3>2. votes' \in [Intents -> [Principals -> Nat]]
        BY <2>2, <3>1 DEF TypeOK, ApprovalInsert
      <3> QED
        BY <2>2, <3>1, <3>2 DEF TypeOK, TokenTypeOK, ApprovalInsert
    <2>3. CASE ApprovalAbandoned(c)
      BY <2>3, CallUpdates DEF TypeOK, TokenTypeOK, ApprovalAbandoned
    <2> QED
      BY <1>11, <2>1, <2>2, <2>3
  <1>12. ASSUME NEW c \in Calls, ApprovalRecord(c)
         PROVE  TypeOK'
    <2>1. calls' \in [Calls -> CallRecord]
      BY <1>12, CallUpdates DEF TypeOK, ApprovalRecord
    <2>2. intents' \in [Intents -> IntentRecord] /\ tally' \in [Intents -> Tally]
      <3>1. calls[c].intent \in Intents /\ calls[c].by \in Principals /\ calls[c].decision \in Decisions
        BY <1>12, CallUpdates DEF TypeOK, ApprovalRecord
      <3> QED
        BY <1>12, <3>1, RecordTyped DEF ApprovalRecord
    <2> QED
      BY <1>12, <2>1, <2>2 DEF TypeOK, TokenTypeOK, ApprovalRecord
  <1>13. ASSUME NEW c \in Calls, SendCompletes(c)
         PROVE  TypeOK'
    <2>1. calls' \in [Calls -> CallRecord] /\ calls[c].intent \in Intents
      BY <1>13, CallUpdates DEF TypeOK, SendCompletes
    <2>2. DecisionInForce(calls[c].intent) \in {"none", "unknown", "approved", "denied"}
      BY <2>1, InForceTyped DEF TypeOK
    <2>3. intents' \in [Intents -> IntentRecord]
      BY <1>13, <1>a, <1>s, <2>1, <2>2, RecordUpdates, UpdateTyped DEF TypeOK, SendCompletes
    <2>4. tally' \in [Intents -> Tally]
      BY <1>13, <2>1, TallyUpdates DEF TypeOK, SendCompletes
    <2> QED
      BY <1>13, <2>1, <2>3, <2>4 DEF TypeOK, TokenTypeOK, SendCompletes
  <1>14. ASSUME NEW c \in Calls, SendFails(c)
         PROVE  TypeOK'
    <2>1. calls' \in [Calls -> CallRecord] /\ calls[c].intent \in Intents
      BY <1>14, CallUpdates DEF TypeOK, SendFails
    <2>2. intents' \in [Intents -> IntentRecord]
      BY <1>14, <1>a, <1>s, <2>1, RecordUpdates, UpdateTyped DEF TypeOK, SendFails
    <2> QED
      BY <1>14, <2>1, <2>2 DEF TypeOK, TokenTypeOK, SendFails
  <1>15. ASSUME NEW i \in Intents, NEW d \in Deadlines, ApprovalClock(i, d)
         PROVE  TypeOK'
    BY <1>15, <1>a, RecordUpdates, UpdateTyped DEF TypeOK, TokenTypeOK, ApprovalClock
  <1>16. CASE TokenStoreStep
    BY <1>16, TokenStepTyped DEF TypeOK, TokenStoreStep
  <1>17. CASE Restart
    <2>1. TokenTypeOK'
      BY <1>17, TokenStepTyped DEF TypeOK, Restart
    <2>2. intents' \in [Intents -> IntentRecord]
      BY <1>17, <1>a, RecordUpdates DEF Restart
    <2>3. calls' \in [Calls -> CallRecord]
      BY <1>17 DEF Restart, CallRecord
    <2>4. restarts' \in 0..MaxRestarts
      BY <1>17, PipelineAssumption DEF TypeOK, Restart
    <2> QED
      BY <1>17, <2>1, <2>2, <2>3, <2>4 DEF TypeOK, Restart
  <1>19. ASSUME NEW i \in Intents, NEW p \in Principals \cup {NoPrincipal}, Announce(i, p)
         PROVE  TypeOK'
    <2>1. [Absent EXCEPT !.status = "submitted", !.agent_id = p] \in IntentRecord
      BY AbsentTyped, <1>s DEF IntentRecord
    <2> QED
      BY <1>19, <2>1, UpdateTyped, TallyUpdates DEF TypeOK, TokenTypeOK, Announce
  <1>18. CASE UNCHANGED vars
    BY <1>18 DEF vars, TypeOK, TokenTypeOK
  <1> QED
    BY <1>1, <1>2, <1>3, <1>4, <1>5, <1>6, <1>7, <1>8, <1>9, <1>10, <1>11, <1>12, <1>13,
       <1>14, <1>15, <1>16, <1>17, <1>18, <1>19 DEF Next, Serve, Request, Resume


(***************************************************************************)
(* The counts of dispatches, executions and receipts.                      *)
(***************************************************************************)
LEMMA CallsKnow ==
    ASSUME TypeOK
    PROVE  \A c \in Calls :
             /\ calls[c].at \in {"lookup", "insert", "record"} =>
                   /\ calls[c].intent \in Intents
                   /\ calls[c].by \in Principals
                   /\ calls[c].decision \in Decisions
             /\ calls[c].at = "sending" =>
                   calls[c].intent \in Intents /\ calls[c].by = NoPrincipal
             /\ calls[c].at \in {"idle", "lookup", "insert", "record", "sending"}
  <1> TAKE c \in Calls
  <1>1. calls[c] \in CallRecord
    BY DEF TypeOK
  <1>2. CASE calls[c] = IdleCall
    BY <1>2 DEF IdleCall
  <1>3. CASE calls[c] \in Voting
    BY <1>3 DEF Voting
  <1>4. CASE calls[c] \in Sending
    BY <1>4 DEF Sending
  <1> QED
    BY <1>1, <1>2, <1>3, <1>4 DEF CallRecord

\* What RecordAuthorization changes, field by field.
Recorded(i, d, p) ==
    /\ \A j \in Intents : j # i => intents'[j] = intents[j] /\ tally'[j] = tally[j]
    /\ intents'[i].status = IF d = "approved" THEN "authorized" ELSE "denied"
    /\ intents'[i].authorization.decision = d
    /\ intents'[i].authorization.by = p
    /\ intents'[i].governance = intents[i].governance
    /\ intents'[i].receipt = intents[i].receipt
    /\ intents'[i].submitter = intents[i].submitter
    /\ intents'[i].principal_id = intents[i].principal_id
    /\ tally'[i].granted = tally[i].granted + (IF d = "approved" THEN 1 ELSE 0)
    /\ tally'[i].dispatched = tally[i].dispatched
    /\ tally'[i].executed = tally[i].executed
    /\ tally'[i].receipted = tally[i].receipted

LEMMA RecordEffect ==
    ASSUME TypeOK, NEW i \in Intents, NEW d \in Decisions,
           NEW p \in Principals \cup {NoPrincipal}, NEW exp \in BOOLEAN,
           RecordAuthorization(i, d, p, exp)
    PROVE  Recorded(i, d, p)
  <1>1. intents[i] \in IntentRecord /\ tally[i] \in Tally
    BY DEF TypeOK
  <1>2. \A j \in Intents : j # i => intents'[j] = intents[j] /\ tally'[j] = tally[j]
    BY DEF TypeOK, RecordAuthorization, UpdateIntent
  <1>3. intents'[i] = [intents[i] EXCEPT
                         !.status = IF d = "approved" THEN "authorized" ELSE "denied",
                         !.authorization = [decision |-> d, by |-> p, expires |-> exp],
                         !.passed = {}]
    BY DEF TypeOK, RecordAuthorization, UpdateIntent
  <1>4. /\ tally'[i].granted = tally[i].granted + (IF d = "approved" THEN 1 ELSE 0)
        /\ tally'[i].dispatched = tally[i].dispatched
        /\ tally'[i].executed = tally[i].executed
        /\ tally'[i].receipted = tally[i].receipted
    BY <1>1 DEF TypeOK, RecordAuthorization, Tally
  <1> QED
    BY <1>1, <1>2, <1>3, <1>4 DEF IntentRecord, Recorded

\* A refused self-approval is recorded like a denial.
LEMMA RefusalEffect ==
    ASSUME TypeOK, NEW i \in Intents, NEW p, RefuseSelfApproval(i, p)
    PROVE  Recorded(i, "denied", p)
  <1>1. intents[i] \in IntentRecord /\ tally[i] \in Tally
    BY DEF TypeOK
  <1>2. \A j \in Intents : j # i => intents'[j] = intents[j] /\ tally'[j] = tally[j]
    BY DEF TypeOK, RefuseSelfApproval, UpdateIntent
  <1>3. intents'[i] = [intents[i] EXCEPT
                         !.status = "denied",
                         !.authorization = [decision |-> "denied", by |-> p, expires |-> FALSE],
                         !.passed = {}]
    BY DEF TypeOK, RefuseSelfApproval, UpdateIntent
  <1>4. /\ tally'[i].granted = tally[i].granted
        /\ tally'[i].dispatched = tally[i].dispatched
        /\ tally'[i].executed = tally[i].executed
        /\ tally'[i].receipted = tally[i].receipted
    BY <1>1 DEF TypeOK, RefuseSelfApproval, Tally
  <1>5. tally[i].granted = tally[i].granted + 0
    BY <1>1 DEF Tally
  <1> QED
    BY <1>1, <1>2, <1>3, <1>4, <1>5 DEF IntentRecord, Recorded

\* What the two routes that record an approval of a person change.
LEMMA AuthorizeEffect ==
    ASSUME TypeOK, NEW s, NEW i \in Intents, NEW p \in Principals, NEW d \in Decisions,
           NEW exp \in Expiring, Authorize(s, i, p, d, exp)
    PROVE  \E x \in Decisions, q \in Principals \cup {NoPrincipal} :
             /\ Recorded(i, x, q)
             /\ q = NoPrincipal \/ (q = p /\ (p = ProposerOf(i) => x = "denied"))
  <1>1. CASE s = "gateway" /\ p = ProposerOf(i)
    BY <1>1, RefusalEffect DEF Authorize, Decisions
  <1>2. CASE ~(s = "gateway" /\ p = ProposerOf(i))
    <2>1. PrincipalOn(s, p) \in Principals \cup {NoPrincipal} /\ exp \in BOOLEAN
      BY DEF PrincipalOn, Expiring
    <2>2. Recorded(i, d, PrincipalOn(s, p))
      BY <1>2, <2>1, RecordEffect DEF Authorize
    <2> QED
      BY <1>2, <2>1, <2>2 DEF PrincipalOn
  <1> QED
    BY <1>1, <1>2

LEMMA VoteEffect ==
    ASSUME TypeOK, NEW c \in Calls, ApprovalRecord(c)
    PROVE  /\ calls[c].intent \in Intents
           /\ calls[c].by \in Principals
           /\ calls[c].decision \in Decisions
           /\ Recorded(calls[c].intent, calls[c].decision, calls[c].by)
           /\ calls' = [calls EXCEPT ![c] = IdleCall]
  <1>1. calls[c].intent \in Intents /\ calls[c].by \in Principals /\ calls[c].decision \in Decisions
    BY CallsKnow DEF ApprovalRecord
  <1> QED
    BY <1>1, RecordEffect DEF ApprovalRecord

\* EachDispatchGranted with k dispatches to spare: no step spends one.
GrantedBut(k) ==
    \A i \in Intents : tally[i].dispatched + Holds(i, "authorized") <= tally[i].granted + k

LEMMA GrantStep ==
    ASSUME TypeOK, NEW k \in Nat, GrantedBut(k), [Next]_vars
    PROVE  GrantedBut(k)'
  <1>a. \A i \in Intents : intents[i] \in IntentRecord /\ tally[i] \in Tally
    BY DEF TypeOK
  <1> USE <1>a DEF TypeOK, GrantedBut, Holds, UpdateIntent, IntentRecord, Tally
  <1>1. ASSUME NEW i \in Intents, NEW s \in Surfaces, NEW p \in Principals,
               NEW agent \in Principals, Submit(s, i, p, agent)
        PROVE  GrantedBut(k)'
    BY <1>1 DEF Submit, Absent
  <1>2. ASSUME NEW i \in Intents, NEW v \in {"AUTO_APPROVE", "AUTO_DENY", "REVIEW"},
               Govern(i, v)
        PROVE  GrantedBut(k)'
    BY <1>2 DEF Govern
  <1>3. ASSUME NEW i \in Intents, NEW s \in Surfaces, NEW p \in Principals,
               NEW d \in Decisions, NEW exp \in Expiring, Authorize(s, i, p, d, exp)
        PROVE  GrantedBut(k)'
    <2>1. PICK x \in Decisions, q \in Principals \cup {NoPrincipal} : Recorded(i, x, q)
      BY <1>3, AuthorizeEffect
    <2> QED
      BY <1>3, <2>1 DEF Authorize, Recorded, Decisions
  <1>4. ASSUME NEW i \in Intents, NEW c \in Calls, NEW p \in Principals,
               NEW d \in Decisions, ApprovalBegin(c, i, p, d)
        PROVE  GrantedBut(k)'
    BY <1>4 DEF ApprovalBegin
  <1>5. ASSUME NEW i \in Intents, NEW s \in Surfaces, ExpireAuthorization(s, i)
        PROVE  GrantedBut(k)'
    BY <1>5 DEF ExpireAuthorization
  <1>6. ASSUME NEW i \in Intents, NEW s \in Surfaces, NEW t \in Tokens, Execute(s, i, t)
        PROVE  GrantedBut(k)'
    BY <1>6 DEF Execute
  <1>7. ASSUME NEW i \in Intents, NEW t \in Tokens \cup {NoToken}, ExecuteConfirm(i, t)
        PROVE  GrantedBut(k)'
    BY <1>7 DEF ExecuteConfirm
  <1>8. ASSUME NEW i \in Intents, NEW t \in Tokens \cup {NoToken}, ExecuteConfirmExpired(i, t)
        PROVE  GrantedBut(k)'
    BY <1>8 DEF ExecuteConfirmExpired
  <1>9. ASSUME NEW i \in Intents, GenerateReceipt(i)
        PROVE  GrantedBut(k)'
    BY <1>9 DEF GenerateReceipt
  <1>10. ASSUME NEW i \in Intents, NEW c \in Calls, NEW t \in Tokens, ExecuteAction(c, i, t)
        PROVE  GrantedBut(k)'
    BY <1>10 DEF ExecuteAction
  <1>11. ASSUME NEW c \in Calls, ApprovalLookup(c)
        PROVE  GrantedBut(k)'
    BY <1>11 DEF ApprovalLookup
  <1>12. ASSUME NEW c \in Calls, ApprovalInsert(c)
        PROVE  GrantedBut(k)'
    BY <1>12 DEF ApprovalInsert
  <1>13. ASSUME NEW c \in Calls, ApprovalAbandoned(c)
        PROVE  GrantedBut(k)'
    BY <1>13 DEF ApprovalAbandoned
  <1>14. ASSUME NEW c \in Calls, ApprovalRecord(c)
        PROVE  GrantedBut(k)'
    <2>1. PICK j \in Intents, x \in Decisions, p \in Principals : Recorded(j, x, p)
      BY <1>14, VoteEffect
    <2> QED
      BY <1>14, <2>1 DEF ApprovalRecord, Recorded, Decisions
  <1>15. ASSUME NEW c \in Calls, SendCompletes(c)
        PROVE  GrantedBut(k)'
    <2>1. calls[c].intent \in Intents
      BY <1>15, CallsKnow DEF SendCompletes
    <2> QED
      BY <1>15, <2>1 DEF SendCompletes, ExecutedAndReceipted, IdleCall
  <1>16. ASSUME NEW c \in Calls, SendFails(c)
        PROVE  GrantedBut(k)'
    <2>1. calls[c].intent \in Intents
      BY <1>16, CallsKnow DEF SendFails
    <2> QED
      BY <1>16, <2>1 DEF SendFails, IdleCall
  <1>17. ASSUME NEW i \in Intents, NEW d \in Deadlines, ApprovalClock(i, d)
        PROVE  GrantedBut(k)'
    BY <1>17 DEF ApprovalClock
  <1>18. CASE TokenStoreStep
    BY <1>18 DEF TokenStoreStep
  <1>19. CASE Restart
    BY <1>19 DEF Restart
  <1>21. ASSUME NEW i \in Intents, NEW p \in Principals \cup {NoPrincipal}, Announce(i, p)
         PROVE  GrantedBut(k)'
    BY <1>21 DEF Announce, Absent, NoAuthorization
  <1>20. CASE UNCHANGED vars
    BY <1>20 DEF vars
  <1> HIDE <1>a DEF TypeOK, GrantedBut, Holds, UpdateIntent, IntentRecord, Tally
  <1> QED
    BY <1>1, <1>2, <1>3, <1>4, <1>5, <1>6, <1>7, <1>8, <1>9, <1>10, <1>11, <1>12,
       <1>13, <1>14, <1>15, <1>16, <1>17, <1>18, <1>19, <1>20, <1>21 DEF Next, Serve, Request, Resume
\* EachReceiptExecuted with k receipts to spare.
ReceiptedBut(k) ==
    \A i \in Intents : tally[i].receipted + Holds(i, "executed") <= tally[i].executed + k

LEMMA ReceiptStep ==
    ASSUME TypeOK, NEW k \in Nat, ReceiptedBut(k), [Next]_vars
    PROVE  ReceiptedBut(k)'
  <1>a. \A i \in Intents : intents[i] \in IntentRecord /\ tally[i] \in Tally
    BY DEF TypeOK
  <1> USE <1>a DEF TypeOK, ReceiptedBut, Holds, UpdateIntent, IntentRecord, Tally
  <1>1. ASSUME NEW i \in Intents, NEW s \in Surfaces, NEW p \in Principals,
               NEW agent \in Principals, Submit(s, i, p, agent)
        PROVE  ReceiptedBut(k)'
    BY <1>1 DEF Submit, Absent
  <1>2. ASSUME NEW i \in Intents, NEW v \in {"AUTO_APPROVE", "AUTO_DENY", "REVIEW"},
               Govern(i, v)
        PROVE  ReceiptedBut(k)'
    BY <1>2 DEF Govern
  <1>3. ASSUME NEW i \in Intents, NEW s \in Surfaces, NEW p \in Principals,
               NEW d \in Decisions, NEW exp \in Expiring, Authorize(s, i, p, d, exp)
        PROVE  ReceiptedBut(k)'
    <2>1. PICK x \in Decisions, q \in Principals \cup {NoPrincipal} : Recorded(i, x, q)
      BY <1>3, AuthorizeEffect
    <2> QED
      BY <1>3, <2>1 DEF Authorize, Recorded, Decisions
  <1>4. ASSUME NEW i \in Intents, NEW c \in Calls, NEW p \in Principals,
               NEW d \in Decisions, ApprovalBegin(c, i, p, d)
        PROVE  ReceiptedBut(k)'
    BY <1>4 DEF ApprovalBegin
  <1>5. ASSUME NEW i \in Intents, NEW s \in Surfaces, ExpireAuthorization(s, i)
        PROVE  ReceiptedBut(k)'
    BY <1>5 DEF ExpireAuthorization
  <1>6. ASSUME NEW i \in Intents, NEW s \in Surfaces, NEW t \in Tokens, Execute(s, i, t)
        PROVE  ReceiptedBut(k)'
    BY <1>6 DEF Execute
  <1>7. ASSUME NEW i \in Intents, NEW t \in Tokens \cup {NoToken}, ExecuteConfirm(i, t)
        PROVE  ReceiptedBut(k)'
    BY <1>7 DEF ExecuteConfirm
  <1>8. ASSUME NEW i \in Intents, NEW t \in Tokens \cup {NoToken}, ExecuteConfirmExpired(i, t)
        PROVE  ReceiptedBut(k)'
    BY <1>8 DEF ExecuteConfirmExpired
  <1>9. ASSUME NEW i \in Intents, GenerateReceipt(i)
        PROVE  ReceiptedBut(k)'
    BY <1>9 DEF GenerateReceipt
  <1>10. ASSUME NEW i \in Intents, NEW c \in Calls, NEW t \in Tokens, ExecuteAction(c, i, t)
        PROVE  ReceiptedBut(k)'
    BY <1>10 DEF ExecuteAction
  <1>11. ASSUME NEW c \in Calls, ApprovalLookup(c)
        PROVE  ReceiptedBut(k)'
    BY <1>11 DEF ApprovalLookup
  <1>12. ASSUME NEW c \in Calls, ApprovalInsert(c)
        PROVE  ReceiptedBut(k)'
    BY <1>12 DEF ApprovalInsert
  <1>13. ASSUME NEW c \in Calls, ApprovalAbandoned(c)
        PROVE  ReceiptedBut(k)'
    BY <1>13 DEF ApprovalAbandoned
  <1>14. ASSUME NEW c \in Calls, ApprovalRecord(c)
        PROVE  ReceiptedBut(k)'
    <2>1. PICK j \in Intents, x \in Decisions, p \in Principals : Recorded(j, x, p)
      BY <1>14, VoteEffect
    <2> QED
      BY <1>14, <2>1 DEF ApprovalRecord, Recorded, Decisions
  <1>15. ASSUME NEW c \in Calls, SendCompletes(c)
        PROVE  ReceiptedBut(k)'
    <2>1. calls[c].intent \in Intents
      BY <1>15, CallsKnow DEF SendCompletes
    <2> QED
      BY <1>15, <2>1 DEF SendCompletes, ExecutedAndReceipted, IdleCall
  <1>16. ASSUME NEW c \in Calls, SendFails(c)
        PROVE  ReceiptedBut(k)'
    <2>1. calls[c].intent \in Intents
      BY <1>16, CallsKnow DEF SendFails
    <2> QED
      BY <1>16, <2>1 DEF SendFails, IdleCall
  <1>17. ASSUME NEW i \in Intents, NEW d \in Deadlines, ApprovalClock(i, d)
        PROVE  ReceiptedBut(k)'
    BY <1>17 DEF ApprovalClock
  <1>18. CASE TokenStoreStep
    BY <1>18 DEF TokenStoreStep
  <1>19. CASE Restart
    BY <1>19 DEF Restart
  <1>21. ASSUME NEW i \in Intents, NEW p \in Principals \cup {NoPrincipal}, Announce(i, p)
         PROVE  ReceiptedBut(k)'
    BY <1>21 DEF Announce, Absent, NoAuthorization
  <1>20. CASE UNCHANGED vars
    BY <1>20 DEF vars
  <1> HIDE <1>a DEF TypeOK, ReceiptedBut, Holds, UpdateIntent, IntentRecord, Tally
  <1> QED
    BY <1>1, <1>2, <1>3, <1>4, <1>5, <1>6, <1>7, <1>8, <1>9, <1>10, <1>11, <1>12,
       <1>13, <1>14, <1>15, <1>16, <1>17, <1>18, <1>19, <1>20, <1>21 DEF Next, Serve, Request, Resume

\* The receipts of no execution: one may come with the intent and one with the refusal
\* of its proposer's approval, which leaves it decided; no other step makes one, and no
\* step makes a decided intent undecided.
UnexecutedFew == \A i \in Intents : tally[i].unexecuted + Undecided(i) <= 2

LEMMA UnexecutedStep ==
    ASSUME TypeOK, UnexecutedFew, [Next]_vars
    PROVE  UnexecutedFew'
  <1>a. \A i \in Intents : intents[i] \in IntentRecord /\ tally[i] \in Tally
    BY DEF TypeOK
  <1>k. ASSUME \A i \in Intents :
                 /\ tally'[i].unexecuted = tally[i].unexecuted
                 /\ Undecided(i)' <= Undecided(i)
        PROVE  UnexecutedFew'
    <2> SUFFICES ASSUME NEW i \in Intents
                 PROVE  tally'[i].unexecuted + Undecided(i)' <= 2
      BY DEF UnexecutedFew
    <2>1. tally[i].unexecuted \in Nat /\ Undecided(i) \in Nat /\ Undecided(i)' \in Nat
      BY <1>a DEF Tally, Undecided
    <2>2. tally[i].unexecuted + Undecided(i) <= 2
      BY DEF UnexecutedFew
    <2>3. tally'[i].unexecuted = tally[i].unexecuted /\ Undecided(i)' <= Undecided(i)
      BY <1>k
    <2> QED
      BY <2>1, <2>2, <2>3
  <1> USE <1>a DEF TypeOK, UpdateIntent, IntentRecord, Tally, Undecided
  <1>1. ASSUME NEW i \in Intents, NEW s \in Surfaces, NEW p \in Principals,
               NEW agent \in Principals, Submit(s, i, p, agent)
        PROVE  UnexecutedFew'
    BY <1>1, <1>k DEF Submit, Absent
  <1>2. ASSUME NEW i \in Intents, NEW v \in {"AUTO_APPROVE", "AUTO_DENY", "REVIEW"},
               Govern(i, v)
        PROVE  UnexecutedFew'
    BY <1>2, <1>k DEF Govern
  <1>3. ASSUME NEW i \in Intents, NEW s \in Surfaces, NEW p \in Principals,
               NEW d \in Decisions, NEW exp \in Expiring, Authorize(s, i, p, d, exp)
        PROVE  UnexecutedFew'
    <2>1. CASE RefuseSelfApproval(i, p)
      BY <1>3, <2>1 DEF Authorize, RefuseSelfApproval, UnexecutedFew
    <2>2. CASE RecordAuthorization(i, d, PrincipalOn(s, p), exp)
      BY <1>3, <1>k, <2>2 DEF Authorize, RecordAuthorization
    <2> QED
      BY <1>3, <2>1, <2>2 DEF Authorize
  <1>4. ASSUME NEW i \in Intents, NEW p \in Principals \cup {NoPrincipal}, Announce(i, p)
        PROVE  UnexecutedFew'
    BY <1>4 DEF Announce, Absent, UnexecutedFew
  <1>5. ASSUME NEW i \in Intents, NEW s \in Surfaces, ExpireAuthorization(s, i)
        PROVE  UnexecutedFew'
    BY <1>5, <1>k DEF ExpireAuthorization
  <1>6. ASSUME NEW i \in Intents, NEW s \in Surfaces, NEW t \in Tokens, Execute(s, i, t)
        PROVE  UnexecutedFew'
    BY <1>6, <1>k DEF Execute
  <1>7. ASSUME NEW i \in Intents, NEW t \in Tokens \cup {NoToken}, ExecuteConfirm(i, t)
        PROVE  UnexecutedFew'
    BY <1>7, <1>k DEF ExecuteConfirm
  <1>8. ASSUME NEW i \in Intents, GenerateReceipt(i)
        PROVE  UnexecutedFew'
    BY <1>8, <1>k DEF GenerateReceipt
  <1>9. ASSUME NEW i \in Intents, NEW c \in Calls, NEW t \in Tokens, ExecuteAction(c, i, t)
        PROVE  UnexecutedFew'
    BY <1>9, <1>k DEF ExecuteAction
  <1>10. ASSUME NEW c \in Calls, ApprovalRecord(c)
         PROVE  UnexecutedFew'
    <2>1. calls[c].intent \in Intents /\ calls[c].decision \in Decisions
      BY <1>10, CallsKnow DEF ApprovalRecord
    <2> QED
      BY <1>10, <1>k, <2>1 DEF ApprovalRecord, RecordAuthorization
  <1>11. ASSUME NEW c \in Calls, SendCompletes(c)
         PROVE  UnexecutedFew'
    BY <1>11, <1>k, CallsKnow DEF SendCompletes, ExecutedAndReceipted
  <1>12. ASSUME NEW c \in Calls, SendFails(c)
         PROVE  UnexecutedFew'
    BY <1>12, <1>k, CallsKnow DEF SendFails
  <1>13. ASSUME NEW i \in Intents, NEW d \in Deadlines, ApprovalClock(i, d)
         PROVE  UnexecutedFew'
    BY <1>13, <1>k DEF ApprovalClock
  <1>14. CASE Restart
    BY <1>14, <1>k DEF Restart
  <1>15. CASE UNCHANGED <<intents, tally>>
    BY <1>15, <1>k
  <1> HIDE <1>a DEF TypeOK, UpdateIntent, IntentRecord, Tally, Undecided
  <1> QED
    BY <1>1, <1>2, <1>3, <1>4, <1>5, <1>6, <1>7, <1>8, <1>9, <1>10, <1>11, <1>12, <1>13,
       <1>14, <1>15
    DEF Next, Serve, Request, Resume, ApprovalBegin, ExecuteConfirmExpired, ApprovalLookup,
        ApprovalInsert, ApprovalAbandoned, TokenStoreStep, vars

(***************************************************************************)
(* Verdicts and proposers.                                                 *)
(***************************************************************************)
\* What a step leaves alone when it disturbs no waiting request.
KeepsVerdict(j) ==
    /\ intents[j].governance = "REVIEW" => intents'[j].governance = "REVIEW"
    /\ tally'[j].dispatched = tally[j].dispatched

LEMMA VerdictCalls ==
    ASSUME TypeOK, VerdictBookkeeping, \A j \in Intents : KeepsVerdict(j),
           calls' = calls \/ \E c \in Calls : calls' = [calls EXCEPT ![c] = IdleCall]
    PROVE  \A x \in Calls : VerdictOfCall(x)'
  <1>1. \A x \in Calls : calls'[x] = calls[x] \/ calls'[x].at = "idle"
    BY DEF TypeOK, IdleCall
  <1> QED
    BY <1>1, CallsKnow DEF VerdictBookkeeping, VerdictOfCall, KeepsVerdict

LEMMA VerdictStep ==
    TypeOK /\ VerdictBookkeeping /\ [Next]_vars => VerdictBookkeeping'
  <1> SUFFICES ASSUME TypeOK, VerdictBookkeeping, [Next]_vars PROVE VerdictBookkeeping'
    OBVIOUS
  <1>a. \A i \in Intents : intents[i] \in IntentRecord /\ tally[i] \in Tally
    BY DEF TypeOK
  <1> USE <1>a DEF TypeOK, VerdictBookkeeping, VerdictOfIntent, VerdictOfCall, UpdateIntent, IntentRecord, Tally
  <1>1. ASSUME NEW i \in Intents, NEW s \in Surfaces, NEW p \in Principals,
               NEW agent \in Principals, Submit(s, i, p, agent)
        PROVE  VerdictBookkeeping'
    BY <1>1 DEF Submit, Absent
  <1>2. ASSUME NEW i \in Intents, NEW v \in {"AUTO_APPROVE", "AUTO_DENY", "REVIEW"},
               Govern(i, v)
        PROVE  VerdictBookkeeping'
    BY <1>2 DEF Govern
  <1>3. ASSUME NEW i \in Intents, NEW s \in Surfaces, NEW p \in Principals,
               NEW d \in Decisions, NEW exp \in Expiring, Authorize(s, i, p, d, exp)
        PROVE  VerdictBookkeeping'
    <2>1. PICK x \in Decisions, q \in Principals \cup {NoPrincipal} :
            /\ Recorded(i, x, q)
            /\ q = NoPrincipal \/ (q = p /\ (p = ProposerOf(i) => x = "denied"))
      BY <1>3, AuthorizeEffect
    <2>2. \A j \in Intents : VerdictOfIntent(j)'
      BY <1>3, <2>1 DEF Authorize, Recorded, Decisions
    <2>3. \A j \in Intents : KeepsVerdict(j)
      BY <1>3, <2>1 DEF Authorize, Recorded, KeepsVerdict, Decisions
    <2> QED
      BY <1>3, <2>2, <2>3, VerdictCalls DEF VerdictBookkeeping, Authorize
  <1>4. ASSUME NEW i \in Intents, NEW c \in Calls, NEW p \in Principals,
               NEW d \in Decisions, ApprovalBegin(c, i, p, d)
        PROVE  VerdictBookkeeping'
    BY <1>4 DEF ApprovalBegin
  <1>5. ASSUME NEW i \in Intents, NEW s \in Surfaces, ExpireAuthorization(s, i)
        PROVE  VerdictBookkeeping'
    BY <1>5 DEF ExpireAuthorization
  <1>6. ASSUME NEW i \in Intents, NEW s \in Surfaces, NEW t \in Tokens, Execute(s, i, t)
        PROVE  VerdictBookkeeping'
    BY <1>6 DEF Execute
  <1>7. ASSUME NEW i \in Intents, NEW t \in Tokens \cup {NoToken}, ExecuteConfirm(i, t)
        PROVE  VerdictBookkeeping'
    BY <1>7 DEF ExecuteConfirm
  <1>8. ASSUME NEW i \in Intents, NEW t \in Tokens \cup {NoToken}, ExecuteConfirmExpired(i, t)
        PROVE  VerdictBookkeeping'
    BY <1>8 DEF ExecuteConfirmExpired
  <1>9. ASSUME NEW i \in Intents, GenerateReceipt(i)
        PROVE  VerdictBookkeeping'
    BY <1>9 DEF GenerateReceipt
  <1>10. ASSUME NEW i \in Intents, NEW c \in Calls, NEW t \in Tokens, ExecuteAction(c, i, t)
        PROVE  VerdictBookkeeping'
    BY <1>10 DEF ExecuteAction
  <1>11. ASSUME NEW c \in Calls, ApprovalLookup(c)
        PROVE  VerdictBookkeeping'
    BY <1>11 DEF ApprovalLookup
  <1>12. ASSUME NEW c \in Calls, ApprovalInsert(c)
        PROVE  VerdictBookkeeping'
    BY <1>12 DEF ApprovalInsert
  <1>13. ASSUME NEW c \in Calls, ApprovalAbandoned(c)
        PROVE  VerdictBookkeeping'
    BY <1>13, CallsKnow DEF ApprovalAbandoned, IdleCall
  <1>14. ASSUME NEW c \in Calls, ApprovalRecord(c)
        PROVE  VerdictBookkeeping'
    <2>1. /\ calls[c].intent \in Intents
          /\ Recorded(calls[c].intent, calls[c].decision, calls[c].by)
          /\ calls' = [calls EXCEPT ![c] = IdleCall]
          /\ calls[c].decision \in Decisions
      BY <1>14, VoteEffect
    <2>2. \A j \in Intents : VerdictOfIntent(j)'
      BY <1>14, <2>1 DEF ApprovalRecord, Recorded, Decisions, VerdictOfCall
    <2>3. \A j \in Intents : KeepsVerdict(j)
      BY <1>14, <2>1 DEF ApprovalRecord, Recorded, KeepsVerdict, VerdictOfCall, Decisions
    <2> QED
      BY <2>1, <2>2, <2>3, VerdictCalls DEF VerdictBookkeeping
  <1>15. ASSUME NEW c \in Calls, SendCompletes(c)
        PROVE  VerdictBookkeeping'
    <2>1. calls[c].intent \in Intents /\ calls' = [calls EXCEPT ![c] = IdleCall]
      BY <1>15, CallsKnow DEF SendCompletes
    <2>2. \A j \in Intents : VerdictOfIntent(j)'
      BY <1>15, <2>1 DEF SendCompletes, ExecutedAndReceipted, VerdictOfCall
    <2>3. \A j \in Intents : KeepsVerdict(j)
      BY <1>15, <2>1 DEF SendCompletes, KeepsVerdict, ExecutedAndReceipted, VerdictOfCall
    <2> QED
      BY <2>1, <2>2, <2>3, VerdictCalls DEF VerdictBookkeeping
  <1>16. ASSUME NEW c \in Calls, SendFails(c)
        PROVE  VerdictBookkeeping'
    <2>1. calls[c].intent \in Intents /\ calls' = [calls EXCEPT ![c] = IdleCall]
      BY <1>16, CallsKnow DEF SendFails
    <2>2. \A j \in Intents : VerdictOfIntent(j)'
      BY <1>16, <2>1 DEF SendFails, ExecutedAndReceipted, VerdictOfCall
    <2>3. \A j \in Intents : KeepsVerdict(j)
      BY <1>16, <2>1 DEF SendFails, KeepsVerdict, ExecutedAndReceipted, VerdictOfCall
    <2> QED
      BY <2>1, <2>2, <2>3, VerdictCalls DEF VerdictBookkeeping
  <1>17. ASSUME NEW i \in Intents, NEW d \in Deadlines, ApprovalClock(i, d)
        PROVE  VerdictBookkeeping'
    BY <1>17 DEF ApprovalClock
  <1>18. CASE TokenStoreStep
    BY <1>18 DEF TokenStoreStep
  <1>19. CASE Restart
    <2>1. \A j \in Intents : VerdictOfIntent(j)'
      BY <1>19 DEF Restart
    <2>2. \A x \in Calls : calls'[x].at = "idle"
      BY <1>19 DEF Restart, IdleCall
    <2> QED
      BY <2>1, <2>2
  <1>21. ASSUME NEW i \in Intents, NEW p \in Principals \cup {NoPrincipal}, Announce(i, p)
         PROVE  VerdictBookkeeping'
    BY <1>21 DEF Announce, Absent, NoAuthorization
  <1>20. CASE UNCHANGED vars
    BY <1>20 DEF vars
  <1> HIDE <1>a DEF TypeOK, VerdictBookkeeping, VerdictOfIntent, VerdictOfCall, UpdateIntent,
              IntentRecord, Tally
  <1> QED
    BY <1>1, <1>2, <1>3, <1>4, <1>5, <1>6, <1>7, <1>8, <1>9, <1>10, <1>11, <1>12,
       <1>13, <1>14, <1>15, <1>16, <1>17, <1>18, <1>19, <1>20, <1>21 DEF Next, Serve, Request, Resume

(***************************************************************************)
(* Who decided: a person has decided once an intent sent to review has     *)
(* left "governed", nobody ever decides any other, and nothing is let out  *)
(* before.                                                                 *)
(***************************************************************************)
DeciderOf(i) ==
    /\ intents[i].governance # "REVIEW" => intents[i].authorization.decision = "none"
    /\ intents[i].governance = "REVIEW" /\ intents[i].status # "governed" =>
          intents[i].authorization.decision # "none"
    /\ intents[i].status = "governed" => tally[i].dispatched = 0
    /\ intents[i].receipt # "none" =>
          (intents[i].receipt = "unknown" <=> intents[i].governance = "AUTO_APPROVE")
    /\ intents[i].governance = "none" => intents[i].receipt = "none"

DeciderInv == \A i \in Intents : DeciderOf(i)

\* A restart loses the token of an intent, and nothing else of it.
LEMMA RestartKeeps ==
    ASSUME TypeOK, Restart, NEW i \in Intents
    PROVE  /\ intents'[i].status = intents[i].status
           /\ intents'[i].governance = intents[i].governance
           /\ intents'[i].authorization = intents[i].authorization
           /\ intents'[i].receipt = intents[i].receipt
           /\ tally'[i] = tally[i]
  <1>1. intents'[i] = [intents[i] EXCEPT !.token = NoToken] /\ tally' = tally
    BY DEF Restart
  <1> QED
    BY <1>1 DEF TypeOK, IntentRecord

LEMMA DeciderRecorded ==
    ASSUME TypeOK, DeciderInv, NEW i \in Intents, NEW d \in Decisions, NEW p,
           Recorded(i, d, p), intents[i].governance = "REVIEW"
    PROVE  DeciderInv'
  BY DEF DeciderInv, DeciderOf, Recorded, Decisions

\* A receipt generated for an intent that was let out names who decided.
LEMMA DeciderNamedNow ==
    ASSUME VerdictBookkeeping, DeciderInv, NEW i \in Intents,
           intents[i].governance # "none", intents[i].governance # "AUTO_DENY",
           intents[i].status # "governed", intents[i] \in IntentRecord
    PROVE  /\ DecisionInForce(i) = "unknown" <=> intents[i].governance = "AUTO_APPROVE"
           /\ DecisionInForce(i) # "none"
  BY DEF DeciderInv, DeciderOf, DecisionInForce, IntentRecord, Authorizations, Decisions

LEMMA DeciderStep ==
    TypeOK /\ VerdictBookkeeping /\ DeciderInv /\ [Next]_vars => DeciderInv'
  <1> SUFFICES ASSUME TypeOK, VerdictBookkeeping, DeciderInv, [Next]_vars PROVE DeciderInv'
    OBVIOUS
  <1>a. \A i \in Intents : intents[i] \in IntentRecord /\ tally[i] \in Tally
    BY DEF TypeOK
  <1>b. \A i \in Intents : VerdictOfIntent(i) /\ DeciderOf(i)
    BY DEF VerdictBookkeeping, DeciderInv
  <1> USE <1>a, <1>b DEF TypeOK, DeciderInv, DeciderOf, VerdictOfIntent, UpdateIntent, IntentRecord, Tally
  <1>1. ASSUME NEW i \in Intents, NEW s \in Surfaces, NEW p \in Principals,
               NEW agent \in Principals, Submit(s, i, p, agent)
        PROVE  DeciderInv'
    BY <1>1 DEF Submit, Absent, NoAuthorization
  <1>2. ASSUME NEW i \in Intents, NEW v \in {"AUTO_APPROVE", "AUTO_DENY", "REVIEW"},
               Govern(i, v)
        PROVE  DeciderInv'
    BY <1>2 DEF Govern
  <1>3. ASSUME NEW i \in Intents, NEW s \in Surfaces, NEW p \in Principals,
               NEW d \in Decisions, NEW exp \in Expiring, Authorize(s, i, p, d, exp)
        PROVE  DeciderInv'
    <2>1. PICK x \in Decisions, q \in Principals \cup {NoPrincipal} : Recorded(i, x, q)
      BY <1>3, AuthorizeEffect
    <2> QED
      BY <1>3, <2>1, DeciderRecorded DEF Authorize
  <1>4. ASSUME NEW i \in Intents, NEW c \in Calls, NEW p \in Principals,
               NEW d \in Decisions, ApprovalBegin(c, i, p, d)
        PROVE  DeciderInv'
    BY <1>4 DEF ApprovalBegin
  <1>5. ASSUME NEW i \in Intents, NEW s \in Surfaces, ExpireAuthorization(s, i)
        PROVE  DeciderInv'
    BY <1>5 DEF ExpireAuthorization
  <1>6. ASSUME NEW i \in Intents, NEW s \in Surfaces, NEW t \in Tokens, Execute(s, i, t)
        PROVE  DeciderInv'
    BY <1>6 DEF Execute
  <1>7. ASSUME NEW i \in Intents, NEW t \in Tokens \cup {NoToken}, ExecuteConfirm(i, t)
        PROVE  DeciderInv'
    BY <1>7 DEF ExecuteConfirm
  <1>8. ASSUME NEW i \in Intents, NEW t \in Tokens \cup {NoToken}, ExecuteConfirmExpired(i, t)
        PROVE  DeciderInv'
    BY <1>8 DEF ExecuteConfirmExpired
  <1>9. ASSUME NEW i \in Intents, GenerateReceipt(i)
        PROVE  DeciderInv'
    <2>1. /\ intents[i].governance # "none" /\ intents[i].governance # "AUTO_DENY"
          /\ intents[i].status # "governed"
      BY <1>9 DEF GenerateReceipt
    <2>2. /\ DecisionInForce(i) = "unknown" <=> intents[i].governance = "AUTO_APPROVE"
          /\ DecisionInForce(i) # "none"
      BY <2>1, DeciderNamedNow
    <2> QED
      BY <1>9, <2>1, <2>2 DEF GenerateReceipt
  <1>10. ASSUME NEW i \in Intents, NEW c \in Calls, NEW t \in Tokens, ExecuteAction(c, i, t)
        PROVE  DeciderInv'
    BY <1>10 DEF ExecuteAction
  <1>11. ASSUME NEW c \in Calls, ApprovalLookup(c)
        PROVE  DeciderInv'
    BY <1>11 DEF ApprovalLookup
  <1>12. ASSUME NEW c \in Calls, ApprovalInsert(c)
        PROVE  DeciderInv'
    BY <1>12 DEF ApprovalInsert
  <1>13. ASSUME NEW c \in Calls, ApprovalAbandoned(c)
        PROVE  DeciderInv'
    BY <1>13 DEF ApprovalAbandoned
  <1>14. ASSUME NEW c \in Calls, ApprovalRecord(c)
        PROVE  DeciderInv'
    <2>1. calls[c].at = "record"
      BY <1>14 DEF ApprovalRecord
    <2>2. intents[calls[c].intent].governance = "REVIEW"
      BY <2>1 DEF VerdictBookkeeping, VerdictOfCall
    <2>3. /\ calls[c].intent \in Intents /\ calls[c].decision \in Decisions
          /\ Recorded(calls[c].intent, calls[c].decision, calls[c].by)
      BY <1>14, VoteEffect
    <2> QED
      BY <2>2, <2>3, DeciderRecorded
  <1>15. ASSUME NEW c \in Calls, SendCompletes(c)
        PROVE  DeciderInv'
    <2> DEFINE i == calls[c].intent
    <2>0. i \in Intents /\ calls[c].at = "sending"
      BY <1>15, CallsKnow DEF SendCompletes
    <2>1. i \in Intents /\ tally[i].dispatched > 0
      BY <2>0 DEF VerdictBookkeeping, VerdictOfCall
    <2>2. /\ intents[i].governance # "none" /\ intents[i].governance # "AUTO_DENY"
          /\ intents[i].status # "governed"
      BY <2>1
    <2>3. /\ DecisionInForce(i) = "unknown" <=> intents[i].governance = "AUTO_APPROVE"
          /\ DecisionInForce(i) # "none"
      BY <2>1, <2>2, DeciderNamedNow
    <2> QED
      BY <1>15, <2>1, <2>2, <2>3 DEF SendCompletes, ExecutedAndReceipted
  <1>16. ASSUME NEW c \in Calls, SendFails(c)
        PROVE  DeciderInv'
    <2>1. calls[c].intent \in Intents /\ tally[calls[c].intent].dispatched > 0
      BY <1>16, CallsKnow DEF SendFails, VerdictBookkeeping, VerdictOfCall
    <2> QED
      BY <1>16, <2>1 DEF SendFails
  <1>17. ASSUME NEW i \in Intents, NEW d \in Deadlines, ApprovalClock(i, d)
        PROVE  DeciderInv'
    BY <1>17 DEF ApprovalClock
  <1>18. CASE TokenStoreStep
    BY <1>18 DEF TokenStoreStep
  <1>19. CASE Restart
    <2>1. \A i \in Intents : /\ intents'[i].status = intents[i].status
                             /\ intents'[i].governance = intents[i].governance
                             /\ intents'[i].authorization = intents[i].authorization
                             /\ intents'[i].receipt = intents[i].receipt
                             /\ tally'[i] = tally[i]
      BY <1>19, RestartKeeps
    <2>2. \A i \in Intents : DeciderOf(i)'
      BY <2>1
    <2> QED
      BY <2>2
  <1>21. ASSUME NEW i \in Intents, NEW p \in Principals \cup {NoPrincipal}, Announce(i, p)
         PROVE  DeciderInv'
    BY <1>21 DEF Announce, Absent, NoAuthorization
  <1>20. CASE UNCHANGED vars
    BY <1>20 DEF vars
  <1> HIDE <1>a, <1>b DEF TypeOK, DeciderInv, DeciderOf, VerdictOfIntent, UpdateIntent,
              IntentRecord, Tally
  <1> QED
    BY <1>1, <1>2, <1>3, <1>4, <1>5, <1>6, <1>7, <1>8, <1>9, <1>10, <1>11, <1>12,
       <1>13, <1>14, <1>15, <1>16, <1>17, <1>18, <1>19, <1>20, <1>21 DEF Next, Serve, Request, Resume
KeepsProposer(j) ==
    intents[j].status # "absent" =>
        intents'[j].status # "absent" /\ intents'[j].submitter = intents[j].submitter

LEMMA ProposerCalls ==
    ASSUME TypeOK, ProposerKept, \A j \in Intents : KeepsProposer(j),
           calls' = calls \/ \E c \in Calls : calls' = [calls EXCEPT ![c] = IdleCall]
    PROVE  \A x \in Calls : NotProposersCall(x)'
  <1>1. \A x \in Calls : calls'[x] = calls[x] \/ calls'[x].at = "idle"
    BY DEF TypeOK, IdleCall
  <1> QED
    BY <1>1, CallsKnow DEF ProposerKept, NotProposersCall, KeepsProposer

LEMMA ProposerStep ==
    TypeOK /\ ProposerKept /\ [Next]_vars => ProposerKept'
  <1> SUFFICES ASSUME TypeOK, ProposerKept, [Next]_vars PROVE ProposerKept'
    OBVIOUS
  <1>a. \A i \in Intents : intents[i] \in IntentRecord /\ tally[i] \in Tally
    BY DEF TypeOK
  <1> USE <1>a DEF TypeOK, ProposerKept, ProposerOfIntent, NotProposersCall, UpdateIntent, IntentRecord, Tally
  <1>1. ASSUME NEW i \in Intents, NEW s \in Surfaces, NEW p \in Principals,
               NEW agent \in Principals, Submit(s, i, p, agent)
        PROVE  ProposerKept'
    <2>1. \A j \in Intents : ProposerOfIntent(j)'
      BY <1>1 DEF Submit, Absent, NoAuthorization
    <2>2. \A j \in Intents : KeepsProposer(j)
      BY <1>1 DEF Submit, KeepsProposer, Absent
    <2> QED
      BY <1>1, <2>1, <2>2, ProposerCalls DEF ProposerKept, Submit
  <1>2. ASSUME NEW i \in Intents, NEW v \in {"AUTO_APPROVE", "AUTO_DENY", "REVIEW"},
               Govern(i, v)
        PROVE  ProposerKept'
    BY <1>2 DEF Govern
  <1>3. ASSUME NEW i \in Intents, NEW s \in Surfaces, NEW p \in Principals,
               NEW d \in Decisions, NEW exp \in Expiring, Authorize(s, i, p, d, exp)
        PROVE  ProposerKept'
    <2>1. PICK x \in Decisions, q \in Principals \cup {NoPrincipal} :
            /\ Recorded(i, x, q)
            /\ q = NoPrincipal \/ (q = p /\ (p = ProposerOf(i) => x = "denied"))
      BY <1>3, AuthorizeEffect
    <2>2. \A j \in Intents : ProposerOfIntent(j)'
      BY <1>3, <2>1, PipelineAssumption DEF Authorize, Recorded, Decisions, ProposerOf
    <2>3. \A j \in Intents : KeepsProposer(j)
      BY <1>3, <2>1 DEF Authorize, Recorded, KeepsProposer, Decisions
    <2> QED
      BY <1>3, <2>2, <2>3, ProposerCalls DEF ProposerKept, Authorize
  <1>4. ASSUME NEW i \in Intents, NEW c \in Calls, NEW p \in Principals,
               NEW d \in Decisions, ApprovalBegin(c, i, p, d)
        PROVE  ProposerKept'
    BY <1>4 DEF ApprovalBegin
  <1>5. ASSUME NEW i \in Intents, NEW s \in Surfaces, ExpireAuthorization(s, i)
        PROVE  ProposerKept'
    BY <1>5 DEF ExpireAuthorization
  <1>6. ASSUME NEW i \in Intents, NEW s \in Surfaces, NEW t \in Tokens, Execute(s, i, t)
        PROVE  ProposerKept'
    BY <1>6 DEF Execute
  <1>7. ASSUME NEW i \in Intents, NEW t \in Tokens \cup {NoToken}, ExecuteConfirm(i, t)
        PROVE  ProposerKept'
    BY <1>7 DEF ExecuteConfirm
  <1>8. ASSUME NEW i \in Intents, NEW t \in Tokens \cup {NoToken}, ExecuteConfirmExpired(i, t)
        PROVE  ProposerKept'
    BY <1>8 DEF ExecuteConfirmExpired
  <1>9. ASSUME NEW i \in Intents, GenerateReceipt(i)
        PROVE  ProposerKept'
    BY <1>9 DEF GenerateReceipt
  <1>10. ASSUME NEW i \in Intents, NEW c \in Calls, NEW t \in Tokens, ExecuteAction(c, i, t)
        PROVE  ProposerKept'
    <2>1. \A j \in Intents : ProposerOfIntent(j)'
      BY <1>10 DEF ExecuteAction
    <2>2. \A x \in Calls : x # c => calls'[x] = calls[x]
      BY <1>10 DEF ExecuteAction
    <2>3. calls'[c].intent = i /\ calls'[c].at = "sending"
      BY <1>10 DEF ExecuteAction, IdleCall
    <2>4. \A j \in Intents : KeepsProposer(j)
      BY <1>10 DEF ExecuteAction, KeepsProposer
    <2>5. intents[i].status # "absent"
      BY <1>10 DEF ExecuteAction
    <2>6. NotProposersCall(c)'
      BY <2>3, <2>4, <2>5, PipelineAssumption DEF KeepsProposer
    <2>7. \A x \in Calls : x # c => NotProposersCall(x)'
      BY <2>2, <2>4, CallsKnow DEF KeepsProposer
    <2> QED
      BY <2>1, <2>6, <2>7
  <1>11. ASSUME NEW c \in Calls, ApprovalLookup(c)
        PROVE  ProposerKept'
    BY <1>11 DEF ApprovalLookup
  <1>12. ASSUME NEW c \in Calls, ApprovalInsert(c)
        PROVE  ProposerKept'
    BY <1>12 DEF ApprovalInsert
  <1>13. ASSUME NEW c \in Calls, ApprovalAbandoned(c)
        PROVE  ProposerKept'
    BY <1>13, CallsKnow DEF ApprovalAbandoned, IdleCall
  <1>14. ASSUME NEW c \in Calls, ApprovalRecord(c)
        PROVE  ProposerKept'
    <2>1. /\ calls[c].intent \in Intents
          /\ Recorded(calls[c].intent, calls[c].decision, calls[c].by)
          /\ calls' = [calls EXCEPT ![c] = IdleCall]
          /\ calls[c].decision \in Decisions
      BY <1>14, VoteEffect
    <2>a. /\ calls[c].by # intents[calls[c].intent].submitter
          /\ intents[calls[c].intent].status # "absent"
      BY <1>14 DEF ApprovalRecord
    <2>b. \A j \in Intents : ProposerOfIntent(j)
      OBVIOUS
    <2>2. \A j \in Intents : ProposerOfIntent(j)'
      <3> TAKE j \in Intents
      <3>1. CASE j = calls[c].intent
        BY <2>1, <2>a, <2>b, <3>1 DEF Recorded, Decisions
      <3>2. CASE j # calls[c].intent
        <4>1. intents'[j] = intents[j]
          BY <2>1, <3>2 DEF Recorded
        <4> QED
          BY <2>b, <4>1
      <3> QED
        BY <3>1, <3>2
    <2>3. \A j \in Intents : KeepsProposer(j)
      BY <2>1, <2>a DEF Recorded, KeepsProposer, Decisions
    <2> QED
      BY <2>1, <2>2, <2>3, ProposerCalls DEF ProposerKept
  <1>15. ASSUME NEW c \in Calls, SendCompletes(c)
        PROVE  ProposerKept'
    <2>1. calls[c].intent \in Intents /\ calls' = [calls EXCEPT ![c] = IdleCall]
      BY <1>15, CallsKnow DEF SendCompletes
    <2>2. \A j \in Intents : ProposerOfIntent(j)'
      BY <1>15, <2>1 DEF SendCompletes, ExecutedAndReceipted, NotProposersCall
    <2>3. \A j \in Intents : KeepsProposer(j)
      BY <1>15, <2>1 DEF SendCompletes, KeepsProposer, ExecutedAndReceipted, NotProposersCall
    <2> QED
      BY <2>1, <2>2, <2>3, ProposerCalls DEF ProposerKept
  <1>16. ASSUME NEW c \in Calls, SendFails(c)
        PROVE  ProposerKept'
    <2>1. calls[c].intent \in Intents /\ calls' = [calls EXCEPT ![c] = IdleCall]
      BY <1>16, CallsKnow DEF SendFails
    <2>2. \A j \in Intents : ProposerOfIntent(j)'
      BY <1>16, <2>1 DEF SendFails, ExecutedAndReceipted, NotProposersCall
    <2>3. \A j \in Intents : KeepsProposer(j)
      BY <1>16, <2>1 DEF SendFails, KeepsProposer, ExecutedAndReceipted, NotProposersCall
    <2> QED
      BY <2>1, <2>2, <2>3, ProposerCalls DEF ProposerKept
  <1>17. ASSUME NEW i \in Intents, NEW d \in Deadlines, ApprovalClock(i, d)
        PROVE  ProposerKept'
    BY <1>17 DEF ApprovalClock
  <1>18. CASE TokenStoreStep
    BY <1>18 DEF TokenStoreStep
  <1>19. CASE Restart
    <2>1. \A j \in Intents : ProposerOfIntent(j)'
      <3> TAKE j \in Intents
      <3>1. intents'[j] = [intents[j] EXCEPT !.token = NoToken]
        BY <1>19 DEF Restart
      <3>2. /\ intents'[j].status = intents[j].status
            /\ intents'[j].authorization = intents[j].authorization
            /\ intents'[j].principal_id = intents[j].principal_id
            /\ intents'[j].submitter = intents[j].submitter
        BY <3>1
      <3> QED
        BY <3>2
    <2>2. \A x \in Calls : calls'[x].at = "idle"
      BY <1>19 DEF Restart, IdleCall
    <2> QED
      BY <2>1, <2>2
  <1>21. ASSUME NEW i \in Intents, NEW p \in Principals \cup {NoPrincipal}, Announce(i, p)
         PROVE  ProposerKept'
    BY <1>21 DEF Announce, Absent, NoAuthorization
  <1>20. CASE UNCHANGED vars
    BY <1>20 DEF vars
  <1> HIDE <1>a DEF TypeOK, ProposerKept, ProposerOfIntent, NotProposersCall, UpdateIntent,
              IntentRecord, Tally
  <1> QED
    BY <1>1, <1>2, <1>3, <1>4, <1>5, <1>6, <1>7, <1>8, <1>9, <1>10, <1>11, <1>12,
       <1>13, <1>14, <1>15, <1>16, <1>17, <1>18, <1>19, <1>20, <1>21 DEF Next, Serve, Request, Resume

(***************************************************************************)
(* Rows of the approvals table.                                            *)
(***************************************************************************)
LEMMA InsertingFinite ==
    ASSUME IsFiniteSet(Calls), NEW S \in SUBSET Calls
    PROVE  /\ IsFiniteSet(S) /\ Cardinality(S) \in Nat /\ Cardinality(Calls) \in Nat
           /\ Cardinality(S) <= Cardinality(Calls)
           /\ \A R \in SUBSET S : Cardinality(R) \in Nat /\ Cardinality(R) <= Cardinality(S)
           /\ \A c \in S : Cardinality(S \ {c}) = Cardinality(S) - 1
  <1>1. IsFiniteSet(S) /\ Cardinality(S) <= Cardinality(Calls)
    BY FS_Subset
  <1>2. \A R \in SUBSET S : IsFiniteSet(R) /\ Cardinality(R) <= Cardinality(S)
    BY <1>1, FS_Subset
  <1>3. \A c \in S : Cardinality(S \ {c}) = Cardinality(S) - 1
    BY <1>1, FS_RemoveElement
  <1> QED
    BY <1>1, <1>2, <1>3, FS_CardinalityType

LEMMA VotesStep ==
    ASSUME IsFiniteSet(Calls), TypeOK, VotesBounded, [Next]_vars
    PROVE  VotesBounded'
  <1>a. \A i \in Intents, p \in Principals :
          /\ votes[i][p] \in Nat
          /\ Inserting(i, p) \in SUBSET Calls /\ Inserting(i, p)' \in SUBSET Calls
          /\ votes[i][p] + Cardinality(Inserting(i, p)) <= Cardinality(Calls)
    BY DEF TypeOK, VotesBounded, Inserting
  \* A step that inserts no row and lets no INSERT be sent.
  <1>k. ASSUME NEW i \in Intents, NEW p \in Principals, votes'[i][p] = votes[i][p],
               Inserting(i, p)' \subseteq Inserting(i, p)
        PROVE  votes'[i][p] + Cardinality(Inserting(i, p)') <= Cardinality(Calls)
    <2> DEFINE m == Cardinality(Inserting(i, p))  n == Cardinality(Inserting(i, p)')
    <2>1. m \in Nat /\ n \in Nat /\ n <= m /\ Cardinality(Calls) \in Nat
      BY <1>a, <1>k, InsertingFinite
    <2>2. votes[i][p] \in Nat /\ votes[i][p] + m <= Cardinality(Calls)
      BY <1>a
    <2> HIDE DEF m, n
    <2>3. votes'[i][p] + n <= Cardinality(Calls)
      BY <1>k, <2>1, <2>2
    <2> QED
      BY <2>3 DEF n
  <1>q. ASSUME UNCHANGED votes, \A c \in Calls : calls'[c].at = "insert" => calls'[c] = calls[c]
        PROVE  VotesBounded'
    <2>1. \A i \in Intents, p \in Principals : Inserting(i, p)' \subseteq Inserting(i, p)
      BY <1>q DEF Inserting
    <2> QED
      BY <1>k, <1>q, <2>1 DEF VotesBounded
  <1>1. ASSUME NEW c \in Calls, ApprovalLookup(c)
        PROVE  VotesBounded'
    <2> SUFFICES ASSUME NEW i \in Intents, NEW p \in Principals
                 PROVE  votes'[i][p] + Cardinality(Inserting(i, p)') <= Cardinality(Calls)
      BY DEF VotesBounded
    <2>1. votes' = votes /\ calls' = [calls EXCEPT ![c].at = "insert"]
      BY <1>1 DEF ApprovalLookup
    <2>2. CASE calls[c].intent = i /\ calls[c].by = p
      <3>1. votes'[i][p] = 0
        BY <1>1, <2>1, <2>2 DEF ApprovalLookup
      <3>2. Cardinality(Inserting(i, p)') \in Nat /\ Cardinality(Inserting(i, p)') <= Cardinality(Calls)
        BY <1>a, InsertingFinite
      <3> QED
        BY <3>1, <3>2
    <2>3. CASE ~(calls[c].intent = i /\ calls[c].by = p)
      <3>1. Inserting(i, p)' \subseteq Inserting(i, p)
        BY <2>1, <2>3 DEF Inserting, TypeOK
      <3> QED
        BY <1>k, <2>1, <3>1
    <2> QED
      BY <2>2, <2>3
  <1>2. ASSUME NEW c \in Calls, ApprovalInsert(c)
        PROVE  VotesBounded'
    <2> SUFFICES ASSUME NEW i \in Intents, NEW p \in Principals
                 PROVE  votes'[i][p] + Cardinality(Inserting(i, p)') <= Cardinality(Calls)
      BY DEF VotesBounded
    <2>1. Inserting(i, p)' \subseteq Inserting(i, p) \ {c}
      BY <1>2 DEF ApprovalInsert, Inserting, TypeOK
    <2>2. CASE calls[c].intent = i /\ calls[c].by = p
      <3> DEFINE m == Cardinality(Inserting(i, p))  n == Cardinality(Inserting(i, p)')
      <3>1. c \in Inserting(i, p)
        BY <1>2, <2>2 DEF ApprovalInsert, Inserting
      <3>2. votes'[i][p] = votes[i][p] + 1
        BY <1>2, <2>2 DEF ApprovalInsert, TypeOK
      <3>3. /\ Inserting(i, p) \ {c} \in SUBSET Calls
            /\ Cardinality(Inserting(i, p) \ {c}) = m - 1
        BY <1>a, <3>1, InsertingFinite
      <3>4. m \in Nat /\ n \in Nat /\ n <= m - 1 /\ Cardinality(Calls) \in Nat
        BY <1>a, <2>1, <3>3, InsertingFinite
      <3>5. votes[i][p] \in Nat /\ votes[i][p] + m <= Cardinality(Calls)
        BY <1>a
      <3> HIDE DEF m, n
      <3>6. votes'[i][p] + n <= Cardinality(Calls)
        BY <3>2, <3>4, <3>5
      <3> QED
        BY <3>6 DEF n
    <2>3. CASE ~(calls[c].intent = i /\ calls[c].by = p)
      <3>1. votes'[i][p] = votes[i][p]
        BY <1>2, <2>3 DEF ApprovalInsert, TypeOK
      <3> QED
        BY <1>k, <2>1, <3>1
    <2> QED
      BY <2>2, <2>3
  <1>3. ASSUME NEW c \in Calls, ApprovalRecord(c) \/ ApprovalAbandoned(c)
                               \/ SendCompletes(c) \/ SendFails(c)
        PROVE  VotesBounded'
    <2>1. votes' = votes /\ calls' = [calls EXCEPT ![c] = IdleCall]
      BY <1>3 DEF ApprovalRecord, ApprovalAbandoned, SendCompletes, SendFails
    <2> QED
      BY <2>1, <1>q DEF IdleCall, TypeOK
  <1>4. ASSUME NEW i \in Intents, NEW c \in Calls, NEW p \in Principals,
               NEW d \in Decisions, ApprovalBegin(c, i, p, d)
        PROVE  VotesBounded'
    BY <1>4, <1>q DEF ApprovalBegin, TypeOK
  <1>5. ASSUME NEW i \in Intents, NEW c \in Calls, NEW t \in Tokens, ExecuteAction(c, i, t)
        PROVE  VotesBounded'
    BY <1>5, <1>q DEF ExecuteAction, IdleCall, TypeOK
  <1>6. CASE Restart
    BY <1>6, <1>q DEF Restart, IdleCall
  <1>7. CASE UNCHANGED <<votes, calls>>
    BY <1>7, <1>q
  <1>8. ASSUME NEW i \in Intents, Request(i)
        PROVE  VotesBounded'
    BY <1>4, <1>5, <1>7, <1>8
    DEF Request, Submit, Announce, Govern, Authorize, ExpireAuthorization, Execute,
        ExecuteConfirm, ExecuteConfirmExpired, GenerateReceipt
  <1>9. ASSUME NEW c \in Calls, Resume(c)
        PROVE  VotesBounded'
    BY <1>1, <1>2, <1>3, <1>9 DEF Resume
  <1> QED
    BY <1>6, <1>7, <1>8, <1>9 DEF Next, Serve, ApprovalClock, TokenStoreStep, vars

(***************************************************************************)
(* What is in flight.                                                      *)
(***************************************************************************)
\* A step that lets nothing out and records nothing can only lose what is in flight.
LEMMA NothingLetOut ==
    ASSUME TypeOK, InFlightAccounted, NEW i \in Intents,
           tally'[i].executed = tally[i].executed, tally'[i].dispatched = tally[i].dispatched,
           LiveTokens(i)' \subseteq LiveTokens(i), OpenSends(i)' \subseteq OpenSends(i)
    PROVE  Accounted(i)'
  <1>1. IsFiniteSet(LiveTokens(i)) /\ IsFiniteSet(OpenSends(i))
    BY DEF InFlightAccounted, Accounted
  <1>2. /\ IsFiniteSet(LiveTokens(i)') /\ Cardinality(LiveTokens(i)') <= Cardinality(LiveTokens(i))
        /\ IsFiniteSet(OpenSends(i)') /\ Cardinality(OpenSends(i)') <= Cardinality(OpenSends(i))
    BY <1>1, FS_Subset
  <1>3. /\ Cardinality(LiveTokens(i)) \in Nat /\ Cardinality(LiveTokens(i)') \in Nat
        /\ Cardinality(OpenSends(i)) \in Nat /\ Cardinality(OpenSends(i)') \in Nat
    BY <1>1, <1>2, FS_CardinalityType
  <1>4. tally[i].executed \in Nat /\ tally[i].dispatched \in Nat
    BY DEF TypeOK, Tally
  <1>5. tally[i].executed + Cardinality(LiveTokens(i)) + Cardinality(OpenSends(i))
          <= tally[i].dispatched
    BY DEF InFlightAccounted, Accounted
  <1>6. tally'[i].executed + Cardinality(LiveTokens(i)') + Cardinality(OpenSends(i)')
          <= tally'[i].dispatched
    BY <1>2, <1>3, <1>4, <1>5
  <1> QED
    BY <1>2, <1>6 DEF Accounted

\* One more in flight, let out.
LEMMA OneLetOut ==
    ASSUME TypeOK, InFlightAccounted, NEW i \in Intents,
           tally'[i].executed = tally[i].executed,
           tally'[i].dispatched = tally[i].dispatched + 1,
           \/ /\ \E t : LiveTokens(i)' \subseteq LiveTokens(i) \cup {t}
              /\ OpenSends(i)' \subseteq OpenSends(i)
           \/ /\ LiveTokens(i)' \subseteq LiveTokens(i)
              /\ \E c : OpenSends(i)' \subseteq OpenSends(i) \cup {c}
    PROVE  Accounted(i)'
  <1>1. IsFiniteSet(LiveTokens(i)) /\ IsFiniteSet(OpenSends(i))
    BY DEF InFlightAccounted, Accounted
  <1> DEFINE L == Cardinality(LiveTokens(i))  O == Cardinality(OpenSends(i))
             L2 == Cardinality(LiveTokens(i)')  O2 == Cardinality(OpenSends(i)')
  <1>0. L \in Nat /\ O \in Nat
    BY <1>1, FS_CardinalityType
  <1>2. /\ IsFiniteSet(LiveTokens(i)') /\ IsFiniteSet(OpenSends(i)')
        /\ L2 \in Nat /\ O2 \in Nat /\ L2 + O2 <= L + O + 1
    <2>1. CASE \E t : /\ LiveTokens(i)' \subseteq LiveTokens(i) \cup {t}
                      /\ OpenSends(i)' \subseteq OpenSends(i)
      <3>1. PICK t : LiveTokens(i)' \subseteq LiveTokens(i) \cup {t}
        BY <2>1
      <3>2. /\ IsFiniteSet(LiveTokens(i) \cup {t})
            /\ Cardinality(LiveTokens(i) \cup {t}) \in {L, L + 1}
        BY <1>0, <1>1, FS_AddElement
      <3>3. IsFiniteSet(LiveTokens(i)') /\ L2 <= Cardinality(LiveTokens(i) \cup {t})
        BY <3>1, <3>2, FS_Subset
      <3>4. IsFiniteSet(OpenSends(i)') /\ O2 <= O
        BY <1>1, <2>1, FS_Subset
      <3>5. L2 \in Nat /\ O2 \in Nat
        BY <3>3, <3>4, FS_CardinalityType
      <3> HIDE DEF L, O, L2, O2
      <3> QED
        BY <1>0, <3>2, <3>3, <3>4, <3>5
    <2>2. CASE \E c : /\ LiveTokens(i)' \subseteq LiveTokens(i)
                      /\ OpenSends(i)' \subseteq OpenSends(i) \cup {c}
      <3>1. PICK c : OpenSends(i)' \subseteq OpenSends(i) \cup {c}
        BY <2>2
      <3>2. /\ IsFiniteSet(OpenSends(i) \cup {c})
            /\ Cardinality(OpenSends(i) \cup {c}) \in {O, O + 1}
        BY <1>0, <1>1, FS_AddElement
      <3>3. IsFiniteSet(OpenSends(i)') /\ O2 <= Cardinality(OpenSends(i) \cup {c})
        BY <3>1, <3>2, FS_Subset
      <3>4. IsFiniteSet(LiveTokens(i)') /\ L2 <= L
        BY <1>1, <2>2, FS_Subset
      <3>5. L2 \in Nat /\ O2 \in Nat
        BY <3>3, <3>4, FS_CardinalityType
      <3> HIDE DEF L, O, L2, O2
      <3> QED
        BY <1>0, <3>2, <3>3, <3>4, <3>5
    <2> QED
      BY <2>1, <2>2
  <1>3. tally[i].executed \in Nat /\ tally[i].dispatched \in Nat
    BY DEF TypeOK, Tally
  <1>4. tally[i].executed + L + O <= tally[i].dispatched
    BY DEF InFlightAccounted, Accounted
  <1>5. tally'[i].executed + L2 + O2 <= tally'[i].dispatched
    <2> HIDE DEF L, O, L2, O2
    <2> QED
      BY <1>0, <1>2, <1>3, <1>4
  <1> QED
    BY <1>2, <1>5 DEF Accounted

\* One in flight is recorded.
LEMMA OneRecorded ==
    ASSUME TypeOK, InFlightAccounted, NEW i \in Intents,
           tally'[i].executed = tally[i].executed + 1,
           tally'[i].dispatched = tally[i].dispatched,
           \/ /\ \E t \in LiveTokens(i) : LiveTokens(i)' \subseteq LiveTokens(i) \ {t}
              /\ OpenSends(i)' \subseteq OpenSends(i)
           \/ /\ LiveTokens(i)' \subseteq LiveTokens(i)
              /\ \E c \in OpenSends(i) : OpenSends(i)' \subseteq OpenSends(i) \ {c}
    PROVE  Accounted(i)'
  <1>1. IsFiniteSet(LiveTokens(i)) /\ IsFiniteSet(OpenSends(i))
    BY DEF InFlightAccounted, Accounted
  <1> DEFINE L == Cardinality(LiveTokens(i))  O == Cardinality(OpenSends(i))
             L2 == Cardinality(LiveTokens(i)')  O2 == Cardinality(OpenSends(i)')
  <1>0. L \in Nat /\ O \in Nat
    BY <1>1, FS_CardinalityType
  <1>2. /\ IsFiniteSet(LiveTokens(i)') /\ IsFiniteSet(OpenSends(i)')
        /\ L2 \in Nat /\ O2 \in Nat /\ L2 + O2 + 1 <= L + O
    <2>1. CASE /\ \E t \in LiveTokens(i) : LiveTokens(i)' \subseteq LiveTokens(i) \ {t}
               /\ OpenSends(i)' \subseteq OpenSends(i)
      <3>1. PICK t \in LiveTokens(i) : LiveTokens(i)' \subseteq LiveTokens(i) \ {t}
        BY <2>1
      <3>2. /\ IsFiniteSet(LiveTokens(i) \ {t})
            /\ Cardinality(LiveTokens(i) \ {t}) = L - 1
        BY <1>0, <1>1, FS_RemoveElement
      <3>3. IsFiniteSet(LiveTokens(i)') /\ L2 <= L - 1
        BY <3>1, <3>2, FS_Subset
      <3>4. IsFiniteSet(OpenSends(i)') /\ O2 <= O
        BY <1>1, <2>1, FS_Subset
      <3>5. L2 \in Nat /\ O2 \in Nat
        BY <3>3, <3>4, FS_CardinalityType
      <3> HIDE DEF L, O, L2, O2
      <3> QED
        BY <1>0, <3>3, <3>4, <3>5
    <2>2. CASE /\ LiveTokens(i)' \subseteq LiveTokens(i)
               /\ \E c \in OpenSends(i) : OpenSends(i)' \subseteq OpenSends(i) \ {c}
      <3>1. PICK c \in OpenSends(i) : OpenSends(i)' \subseteq OpenSends(i) \ {c}
        BY <2>2
      <3>2. /\ IsFiniteSet(OpenSends(i) \ {c})
            /\ Cardinality(OpenSends(i) \ {c}) = O - 1
        BY <1>0, <1>1, FS_RemoveElement
      <3>3. IsFiniteSet(OpenSends(i)') /\ O2 <= O - 1
        BY <3>1, <3>2, FS_Subset
      <3>4. IsFiniteSet(LiveTokens(i)') /\ L2 <= L
        BY <1>1, <2>2, FS_Subset
      <3>5. L2 \in Nat /\ O2 \in Nat
        BY <3>3, <3>4, FS_CardinalityType
      <3> HIDE DEF L, O, L2, O2
      <3> QED
        BY <1>0, <3>3, <3>4, <3>5
    <2> QED
      BY <2>1, <2>2
  <1>3. tally[i].executed \in Nat /\ tally[i].dispatched \in Nat
    BY DEF TypeOK, Tally
  <1>4. tally[i].executed + L + O <= tally[i].dispatched
    BY DEF InFlightAccounted, Accounted
  <1>5. tally'[i].executed + L2 + O2 <= tally'[i].dispatched
    <2> HIDE DEF L, O, L2, O2
    <2> QED
      BY <1>0, <1>2, <1>3, <1>4
  <1> QED
    BY <1>2, <1>5 DEF Accounted

LEMMA InFlightStep == TypeOK /\ InFlightAccounted /\ [Next]_vars => InFlightAccounted'
  <1> SUFFICES ASSUME TypeOK, InFlightAccounted, [Next]_vars PROVE InFlightAccounted'
    OBVIOUS
  <1>a. \A j \in Intents : tally[j] \in Tally
    BY DEF TypeOK
  <1>q. ASSUME \A j \in Intents :
                 /\ tally'[j].executed = tally[j].executed
                 /\ tally'[j].dispatched = tally[j].dispatched,
               \/ UNCHANGED tokens
               \/ TokenClock \/ CleanupTokens \/ LoseTokens
               \/ \E t \in Tokens : tokens' = [tokens EXCEPT ![t].status = "EXPIRED"],
               \A c \in Calls : calls'[c].at = "sending" => calls'[c] = calls[c]
        PROVE  InFlightAccounted'
    <2>0. \A t \in Tokens : tokens'[t].status = "ACTIVE" =>
            tokens[t].status = "ACTIVE" /\ tokens'[t].intent = tokens[t].intent
      <3> USE DEF TypeOK, TokenTypeOK, TokenRecord
      <3>1. CASE UNCHANGED tokens
        BY <3>1
      <3>2. CASE TokenClock
        <4>1. PICK t \in Tokens :
                \/ tokens' = [tokens EXCEPT ![t].pastExpiry = TRUE]
                \/ tokens' = [tokens EXCEPT ![t].pastRetention = TRUE]
          BY <3>2 DEF TokenClock
        <4>2. \A u \in Tokens : tokens'[u].status = tokens[u].status
                                /\ tokens'[u].intent = tokens[u].intent
          BY <4>1
        <4> QED
          BY <4>2
      <3>3. CASE CleanupTokens
        BY <3>3 DEF CleanupTokens, Removed
      <3>4. CASE LoseTokens
        BY <3>4 DEF LoseTokens, Removed
      <3>5. CASE \E t \in Tokens : tokens' = [tokens EXCEPT ![t].status = "EXPIRED"]
        BY <3>5
      <3> QED
        BY <1>q, <3>1, <3>2, <3>3, <3>4, <3>5
    <2>1. \A j \in Intents : LiveTokens(j)' \subseteq LiveTokens(j)
      BY <2>0 DEF LiveTokens
    <2>2. \A j \in Intents : OpenSends(j)' \subseteq OpenSends(j)
      BY <1>q DEF OpenSends
    <2> QED
      BY <1>q, <2>1, <2>2, NothingLetOut DEF InFlightAccounted
  <1>1. ASSUME NEW i \in Intents, NEW s \in Surfaces, NEW p \in Principals,
               NEW agent \in Principals, Submit(s, i, p, agent)
        PROVE  InFlightAccounted'
    BY <1>1, <1>q DEF TypeOK, TokenTypeOK, Tally, CallRecord, Submit
  <1>2. ASSUME NEW i \in Intents, NEW v \in {"AUTO_APPROVE", "AUTO_DENY", "REVIEW"},
               Govern(i, v)
        PROVE  InFlightAccounted'
    BY <1>2, <1>q DEF TypeOK, TokenTypeOK, Tally, CallRecord, Govern
  <1>3. ASSUME NEW i \in Intents, NEW s \in Surfaces, NEW p \in Principals,
               NEW d \in Decisions, NEW exp \in Expiring, Authorize(s, i, p, d, exp)
        PROVE  InFlightAccounted'
    <2>1. \A j \in Intents :
            /\ tally'[j].executed = tally[j].executed
            /\ tally'[j].dispatched = tally[j].dispatched
      BY <1>3, AuthorizeEffect DEF Recorded
    <2> QED
      BY <1>3, <2>1, <1>q DEF Authorize
  <1>4. ASSUME NEW i \in Intents, NEW c \in Calls, NEW p \in Principals,
               NEW d \in Decisions, ApprovalBegin(c, i, p, d)
        PROVE  InFlightAccounted'
    BY <1>4, <1>q DEF TypeOK, TokenTypeOK, Tally, CallRecord, ApprovalBegin
  <1>5. ASSUME NEW i \in Intents, NEW s \in Surfaces, ExpireAuthorization(s, i)
        PROVE  InFlightAccounted'
    BY <1>5, <1>q DEF TypeOK, TokenTypeOK, Tally, CallRecord, ExpireAuthorization
  <1>6. ASSUME NEW i \in Intents, NEW t \in Tokens \cup {NoToken}, ExecuteConfirmExpired(i, t)
        PROVE  InFlightAccounted'
    BY <1>6, <1>q DEF TypeOK, TokenTypeOK, Tally, CallRecord, ExecuteConfirmExpired, MarkExpired, Usable
  <1>7. ASSUME NEW i \in Intents, GenerateReceipt(i)
        PROVE  InFlightAccounted'
    BY <1>7, <1>q DEF TypeOK, TokenTypeOK, Tally, CallRecord, GenerateReceipt
  <1>8. ASSUME NEW c \in Calls, ApprovalLookup(c) \/ ApprovalInsert(c) \/ ApprovalAbandoned(c)
        PROVE  InFlightAccounted'
    <2>0. \A x \in Calls : x # c => calls'[x] = calls[x]
      BY <1>8 DEF TypeOK, ApprovalLookup, ApprovalInsert, ApprovalAbandoned
    <2>1. calls'[c].at # "sending"
      <3>1. CASE ApprovalLookup(c)
        BY <3>1 DEF TypeOK, CallRecord, Voting, Sending, IdleCall, ApprovalLookup
      <3>2. CASE ApprovalInsert(c)
        BY <3>2 DEF TypeOK, CallRecord, Voting, Sending, IdleCall, ApprovalInsert
      <3>3. CASE ApprovalAbandoned(c)
        BY <3>3 DEF TypeOK, IdleCall, ApprovalAbandoned
      <3> QED
        BY <1>8, <3>1, <3>2, <3>3
    <2> QED
      BY <1>8, <2>0, <2>1, <1>q DEF ApprovalLookup, ApprovalInsert, ApprovalAbandoned
  <1>9. ASSUME NEW c \in Calls, SendFails(c)
        PROVE  InFlightAccounted'
    BY <1>9, <1>q DEF TypeOK, TokenTypeOK, Tally, CallRecord, SendFails, IdleCall
  <1>10. ASSUME NEW i \in Intents, NEW d \in Deadlines, ApprovalClock(i, d)
        PROVE  InFlightAccounted'
    BY <1>10, <1>q DEF TypeOK, TokenTypeOK, Tally, CallRecord, ApprovalClock
  <1>11. ASSUME NEW c \in Calls, ApprovalRecord(c)
        PROVE  InFlightAccounted'
    <2>1. \A j \in Intents :
            /\ tally'[j].executed = tally[j].executed
            /\ tally'[j].dispatched = tally[j].dispatched
      BY <1>11, VoteEffect DEF Recorded
    <2> QED
      BY <1>11, <2>1, <1>q DEF TypeOK, ApprovalRecord, IdleCall
  <1>12. CASE TokenStoreStep \/ Restart \/ UNCHANGED vars
    BY <1>12, <1>q DEF TypeOK, TokenTypeOK, Tally, TokenStoreStep, Restart, IdleCall, vars
  <1>13. ASSUME NEW i \in Intents, NEW s \in Surfaces, NEW t \in Tokens, Execute(s, i, t)
        PROVE  InFlightAccounted'
    <2>1. \A j \in Intents : j # i =>
            /\ tally'[j].executed = tally[j].executed
            /\ tally'[j].dispatched = tally[j].dispatched
            /\ LiveTokens(j)' \subseteq LiveTokens(j)
      BY <1>13 DEF TypeOK, TokenTypeOK, TokenRecord, Tally, Execute, IssueExecutionToken, Issued, LiveTokens
    <2>2. \A j \in Intents : OpenSends(j)' \subseteq OpenSends(j)
      BY <1>13 DEF Execute, OpenSends
    <2>3. LiveTokens(i)' \subseteq LiveTokens(i) \cup {t}
      BY <1>13 DEF TypeOK, TokenTypeOK, TokenRecord, Tally, Execute, IssueExecutionToken, Issued, LiveTokens
    <2>4. tally'[i].executed = tally[i].executed /\ tally'[i].dispatched = tally[i].dispatched + 1
      BY <1>13, <1>a DEF TypeOK, Tally, Execute
    <2>5. Accounted(i)'
      BY <2>2, <2>3, <2>4, OneLetOut
    <2> QED
      BY <2>1, <2>2, <2>5, NothingLetOut DEF InFlightAccounted
  <1>14. ASSUME NEW i \in Intents, NEW t \in Tokens \cup {NoToken}, ExecuteConfirm(i, t)
        PROVE  InFlightAccounted'
    <2> DEFINE u == Presented(i, t)
    <2>1. u \in LiveTokens(i)
      BY <1>14 DEF ExecuteConfirm, BurnToken, Accepts, Usable, LiveTokens
    <2>2. \A j \in Intents : j # i =>
            /\ tally'[j].executed = tally[j].executed
            /\ tally'[j].dispatched = tally[j].dispatched
      BY <1>14 DEF TypeOK, Tally, ExecuteConfirm
    <2>3. \A j \in Intents : LiveTokens(j)' \subseteq LiveTokens(j)
      BY <1>14 DEF TypeOK, TokenTypeOK, TokenRecord, Tally, ExecuteConfirm, BurnToken, LiveTokens
    <2>4. \A j \in Intents : OpenSends(j)' \subseteq OpenSends(j)
      BY <1>14 DEF ExecuteConfirm, OpenSends
    <2>5. LiveTokens(i)' \subseteq LiveTokens(i) \ {u}
      BY <1>14, <2>1, <2>3 DEF TypeOK, TokenTypeOK, TokenRecord, Tally, ExecuteConfirm, BurnToken, LiveTokens
    <2>6. tally'[i].executed = tally[i].executed + 1 /\ tally'[i].dispatched = tally[i].dispatched
      BY <1>14, <1>a DEF TypeOK, Tally, ExecuteConfirm
    <2> HIDE DEF u
    <2>7. Accounted(i)'
      BY <2>1, <2>4, <2>5, <2>6, OneRecorded
    <2> QED
      BY <2>2, <2>3, <2>4, <2>7, NothingLetOut DEF InFlightAccounted
  <1>15. ASSUME NEW i \in Intents, NEW c \in Calls, NEW t \in Tokens, ExecuteAction(c, i, t)
        PROVE  InFlightAccounted'
    <2>1. \A j \in Intents : j # i =>
            /\ tally'[j].executed = tally[j].executed
            /\ tally'[j].dispatched = tally[j].dispatched
            /\ OpenSends(j)' \subseteq OpenSends(j)
      BY <1>15 DEF TypeOK, Tally, ExecuteAction, OpenSends, IdleCall
    <2>2. \A j \in Intents : LiveTokens(j)' \subseteq LiveTokens(j)
      BY <1>15 DEF TypeOK, TokenTypeOK, TokenRecord, Tally, ExecuteAction, IssueAndBurnToken, Issued, LiveTokens
    <2>3. OpenSends(i)' \subseteq OpenSends(i) \cup {c}
      BY <1>15 DEF TypeOK, ExecuteAction, OpenSends
    <2>4. tally'[i].executed = tally[i].executed /\ tally'[i].dispatched = tally[i].dispatched + 1
      BY <1>15, <1>a DEF TypeOK, Tally, ExecuteAction
    <2>5. Accounted(i)'
      BY <2>2, <2>3, <2>4, OneLetOut
    <2> QED
      BY <2>1, <2>2, <2>5, NothingLetOut DEF InFlightAccounted
  <1>16. ASSUME NEW c \in Calls, SendCompletes(c)
        PROVE  InFlightAccounted'
    <2>1. PICK i \in Intents : i = calls[c].intent /\ c \in OpenSends(i)
      BY <1>16, CallsKnow DEF SendCompletes, OpenSends
    <2>2. \A j \in Intents : j # i =>
            /\ tally'[j].executed = tally[j].executed
            /\ tally'[j].dispatched = tally[j].dispatched
      BY <1>16, <2>1 DEF TypeOK, SendCompletes
    <2>3. \A j \in Intents : LiveTokens(j)' \subseteq LiveTokens(j)
      BY <1>16 DEF SendCompletes, LiveTokens
    <2>4. \A j \in Intents : OpenSends(j)' \subseteq OpenSends(j) \ {c}
      BY <1>16 DEF TypeOK, SendCompletes, OpenSends, IdleCall
    <2>5. tally'[i].executed = tally[i].executed + 1 /\ tally'[i].dispatched = tally[i].dispatched
      BY <1>16, <1>a, <2>1 DEF TypeOK, Tally, SendCompletes, ExecutedAndReceipted
    <2>6. Accounted(i)'
      BY <2>1, <2>3, <2>4, <2>5, OneRecorded
    <2> QED
      BY <2>1, <2>2, <2>3, <2>4, <2>6, NothingLetOut DEF InFlightAccounted
  <1>17. ASSUME NEW i \in Intents, NEW p \in Principals \cup {NoPrincipal}, Announce(i, p)
         PROVE  InFlightAccounted'
    BY <1>17, <1>q DEF TypeOK, TokenTypeOK, Tally, CallRecord, Announce
  <1> QED
    BY <1>1, <1>2, <1>3, <1>4, <1>5, <1>6, <1>7, <1>8, <1>9, <1>10, <1>11, <1>12,
       <1>13, <1>14, <1>15, <1>16, <1>17 DEF Next, Serve, Request, Resume

(***************************************************************************)
(* The token store keeps its promise.                                      *)
(***************************************************************************)

\* The seven ways the token store moves.
TokenMoves ==
    \/ \E i \in Intents, t \in Tokens : IssueExecutionToken(t, i) \/ IssueAndBurnToken(t, i)
    \/ \E i \in Intents, t \in Tokens \cup {NoToken} :
          BurnToken(Presented(i, t), i, intents[i].token)
    \/ \E i \in Intents, t \in Tokens \cup {NoToken} :
          MarkExpired(Presented(i, t), intents[i].token)
    \/ TokenClock
    \/ CleanupTokens
    \/ LoseTokens
    \/ UNCHANGED tokens

LEMMA TokenSteps == [Next]_vars => TokenMoves
  <1>1. ASSUME NEW i \in Intents, Request(i)
        PROVE  TokenMoves
    BY <1>1
    DEF TokenMoves, Request, Submit, Announce, Govern, Authorize, ApprovalBegin,
        ExpireAuthorization, Execute, ExecuteConfirm, ExecuteConfirmExpired, GenerateReceipt,
        ExecuteAction
  <1>2. ASSUME NEW c \in Calls, Resume(c)
        PROVE  UNCHANGED tokens
    BY <1>2
    DEF Resume, ApprovalLookup, ApprovalInsert, ApprovalRecord, ApprovalAbandoned,
        SendCompletes, SendFails
  <1>3. ASSUME TokenStoreStep \/ Restart \/ UNCHANGED vars
        PROVE  TokenMoves
    BY <1>3 DEF TokenMoves, TokenStoreStep, Restart, vars
  <1>4. ASSUME NEW i \in Intents, NEW d \in Deadlines, ApprovalClock(i, d)
        PROVE  UNCHANGED tokens
    BY <1>4 DEF ApprovalClock
  <1> QED
    BY <1>1, <1>2, <1>3, <1>4 DEF Next, Serve, TokenMoves

LEMMA BurnIsOfStored ==
    ASSUME TypeOK, TokenMoves, NEW u \in Tokens, tokens[u].status = "ACTIVE",
           tokens'[u].status = "USED"
    PROVE  intents[tokens[u].intent].token = u
  <1> USE DEF TypeOK, TokenTypeOK, TokenRecord
  <1>1. CASE \E i \in Intents, t \in Tokens : IssueExecutionToken(t, i) \/ IssueAndBurnToken(t, i)
    BY <1>1 DEF IssueExecutionToken, IssueAndBurnToken
  <1>2. CASE \E i \in Intents, t \in Tokens \cup {NoToken} :
               BurnToken(Presented(i, t), i, intents[i].token)
    BY <1>2 DEF BurnToken, Accepts, Usable
  <1>3. CASE \E i \in Intents, t \in Tokens \cup {NoToken} :
               MarkExpired(Presented(i, t), intents[i].token)
    BY <1>3 DEF MarkExpired, Usable
  <1>4. CASE TokenClock
    BY <1>4 DEF TokenClock
  <1>5. CASE CleanupTokens
    BY <1>5 DEF CleanupTokens, Removed
  <1>6. CASE LoseTokens
    BY <1>6 DEF LoseTokens, Removed
  <1> QED
    BY <1>1, <1>2, <1>3, <1>4, <1>5, <1>6 DEF TokenMoves

\* Each token step is a birth, a death or a stutter of SingleUseToken.
LEMMA StepKeepsPromise ==
    ASSUME TypeOK, TokenMoves
    PROVE  [Promise!Next]_<<[t \in Tokens |-> LifeOf(t)], [t \in Tokens |-> tokens[t].intent]>>
  <1> DEFINE life == [t \in Tokens |-> LifeOf(t)]
             bound == [t \in Tokens |-> tokens[t].intent]
  <1> USE DEF TypeOK, TokenTypeOK, TokenRecord
  <1>d. ASSUME NEW S \in SUBSET Tokens,
               \A t \in S : LifeOf(t) = "live" /\ LifeOf(t)' = "dead",
               \A t \in Tokens \ S : LifeOf(t)' = LifeOf(t),
               \A t \in Tokens : tokens'[t].intent = tokens[t].intent
        PROVE  Promise!Next
    <2>1. \A t \in S : life[t] = "live"
      BY <1>d
    <2>2. life' = [t \in Tokens |-> IF t \in S THEN "dead" ELSE life[t]]
      BY <1>d
    <2>3. bound' = bound
      BY <1>d
    <2>4. Promise!Death(S)
      BY <2>1, <2>2, <2>3 DEF Promise!Death
    <2> QED
      BY <2>4 DEF Promise!Next
  <1>1. ASSUME NEW i \in Intents, NEW t \in Tokens, IssueExecutionToken(t, i)
        PROVE  Promise!Birth(t, i, "live")
    BY <1>1 DEF IssueExecutionToken, Issued, LifeOf, Promise!Birth
  <1>2. ASSUME NEW i \in Intents, NEW t \in Tokens, IssueAndBurnToken(t, i)
        PROVE  Promise!Birth(t, i, "dead")
    BY <1>2 DEF IssueAndBurnToken, Issued, LifeOf, Promise!Birth
  <1>3. ASSUME NEW u \in Tokens, tokens[u].status = "ACTIVE",
               \E st \in {"USED", "EXPIRED"} : tokens' = [tokens EXCEPT ![u].status = st]
        PROVE  Promise!Next
    <2> DEFINE S == {u}
    <2>1. S \in SUBSET Tokens /\ \A t \in S : LifeOf(t) = "live" /\ LifeOf(t)' = "dead"
      BY <1>3 DEF LifeOf
    <2>2. \A t \in Tokens \ S : LifeOf(t)' = LifeOf(t)
      BY <1>3 DEF LifeOf
    <2>3. \A t \in Tokens : tokens'[t].intent = tokens[t].intent
      BY <1>3
    <2> HIDE DEF S
    <2> QED
      BY <2>1, <2>2, <2>3, <1>d
  <1>4. CASE \E i \in Intents, t \in Tokens \cup {NoToken} :
               BurnToken(Presented(i, t), i, intents[i].token)
    BY <1>3, <1>4 DEF BurnToken, Accepts, Usable
  <1>5. CASE \E i \in Intents, t \in Tokens \cup {NoToken} :
               MarkExpired(Presented(i, t), intents[i].token)
    BY <1>3, <1>5 DEF MarkExpired, Usable
  <1>6. CASE TokenClock \/ UNCHANGED tokens
    <2>1. CASE TokenClock
      <3>0. PICK u \in Tokens : \/ tokens' = [tokens EXCEPT ![u].pastExpiry = TRUE]
                               \/ tokens' = [tokens EXCEPT ![u].pastRetention = TRUE]
        BY <2>1 DEF TokenClock
      <3>1. \A t \in Tokens :
              tokens'[t].status = tokens[t].status /\ tokens'[t].intent = tokens[t].intent
        BY <3>0
      <3>2. life' = life /\ bound' = bound
        BY <3>1 DEF LifeOf
      <3> QED
        BY <3>2
    <2>2. CASE UNCHANGED tokens
      BY <2>2 DEF LifeOf
    <2> QED
      BY <1>6, <2>1, <2>2
  <1>7. CASE CleanupTokens \/ LoseTokens
    <2> DEFINE S == {t \in Tokens : tokens[t].status = "ACTIVE" /\ tokens'[t].status = "removed"}
    <2>1. \A t \in Tokens :
            /\ tokens'[t].intent = tokens[t].intent
            /\ \/ tokens'[t].status = tokens[t].status
               \/ tokens[t].status # "unissued" /\ tokens'[t].status = "removed"
      BY <1>7 DEF CleanupTokens, LoseTokens, Removable, Removed
    <2>2. \A t \in S : LifeOf(t) = "live" /\ LifeOf(t)' = "dead"
      BY DEF LifeOf
    <2>3. \A t \in Tokens \ S : LifeOf(t)' = LifeOf(t)
      BY <2>1 DEF LifeOf
    <2> HIDE DEF S
    <2>4. S \in SUBSET Tokens
      BY DEF S
    <2> QED
      BY <2>1, <2>2, <2>3, <2>4, <1>d
  <1> QED
    BY <1>1, <1>2, <1>4, <1>5, <1>6, <1>7 DEF TokenMoves, Promise!Next

(***************************************************************************)
(* What a vote that is not looked at again can do.  POST /approvals compares*)
(* the status with "governed" before it waits, and writes its decision after*)
(* it; the comparison is not repeated.  Were it repeated, an intent would be*)
(* let out at most once: the late write is the only way to a second time.   *)
(***************************************************************************)
Rechecked ==
    \A c \in Calls : ApprovalRecord(c) => intents[calls[c].intent].status = "governed"

GrantedOnce ==
    \A i \in Intents :
        /\ tally[i].granted <= 1
        /\ intents[i].status \in {"absent", "submitted", "governed"} => tally[i].granted = 0

\* An approval recorded for an intent that is still governed is its first.
LEMMA RecordedOnce ==
    ASSUME TypeOK, GrantedOnce, NEW i \in Intents, NEW d \in Decisions, NEW p,
           Recorded(i, d, p), intents[i].status = "governed"
    PROVE  GrantedOnce'
  <1>1. /\ tally'[i].granted \in {0, 1}
        /\ intents'[i].status \in {"authorized", "denied"}
    BY DEF Recorded, Decisions, GrantedOnce
  <1> QED
    BY <1>1 DEF Recorded, GrantedOnce

LEMMA GrantedOnceStep ==
    ASSUME TypeOK, GrantedOnce, [Next]_vars, [Rechecked]_vars
    PROVE  GrantedOnce'
  <1>a. \A i \in Intents : intents[i] \in IntentRecord /\ tally[i] \in Tally
    BY DEF TypeOK
  \* Most steps grant nothing, and move no intent back before its decision.
  <1>k. ASSUME \A i \in Intents :
                 /\ tally'[i].granted = tally[i].granted
                 /\ intents'[i].status \in {"absent", "submitted", "governed"} =>
                       intents[i].status \in {"absent", "submitted", "governed"}
        PROVE  GrantedOnce'
    BY <1>k DEF GrantedOnce
  <1> USE <1>a DEF TypeOK, UpdateIntent, IntentRecord, Tally
  <1>1. ASSUME NEW i \in Intents, NEW s \in Surfaces, NEW p \in Principals,
               NEW agent \in Principals, Submit(s, i, p, agent)
        PROVE  GrantedOnce'
    BY <1>1, <1>k DEF Submit
  <1>2. ASSUME NEW i \in Intents, NEW v \in {"AUTO_APPROVE", "AUTO_DENY", "REVIEW"},
               Govern(i, v)
        PROVE  GrantedOnce'
    BY <1>2 DEF Govern, GrantedOnce
  <1>3. ASSUME NEW i \in Intents, NEW s \in Surfaces, NEW p \in Principals,
               NEW d \in Decisions, NEW exp \in Expiring, Authorize(s, i, p, d, exp)
        PROVE  GrantedOnce'
    <2>1. PICK x \in Decisions, q \in Principals \cup {NoPrincipal} : Recorded(i, x, q)
      BY <1>3, AuthorizeEffect
    <2> QED
      BY <1>3, <2>1, RecordedOnce DEF Authorize
  <1>4. ASSUME NEW c \in Calls, ApprovalRecord(c)
        PROVE  GrantedOnce'
    <2>1. CASE UNCHANGED vars
      BY <2>1, <1>k DEF vars
    <2>2. CASE intents[calls[c].intent].status = "governed"
      BY <1>4, <2>2, VoteEffect, RecordedOnce
    <2> QED
      BY <1>4, <2>1, <2>2 DEF Rechecked
  <1>5. ASSUME NEW i \in Intents, NEW s \in Surfaces, ExpireAuthorization(s, i)
        PROVE  GrantedOnce'
    BY <1>5, <1>k DEF ExpireAuthorization
  <1>6. ASSUME NEW i \in Intents, NEW s \in Surfaces, NEW t \in Tokens, Execute(s, i, t)
        PROVE  GrantedOnce'
    BY <1>6, <1>k DEF Execute
  <1>7. ASSUME NEW i \in Intents, NEW t \in Tokens \cup {NoToken}, ExecuteConfirm(i, t)
        PROVE  GrantedOnce'
    BY <1>7, <1>k DEF ExecuteConfirm
  <1>9. ASSUME NEW i \in Intents, GenerateReceipt(i)
        PROVE  GrantedOnce'
    BY <1>9, <1>k DEF GenerateReceipt
  <1>10. ASSUME NEW i \in Intents, NEW c \in Calls, NEW t \in Tokens, ExecuteAction(c, i, t)
        PROVE  GrantedOnce'
    BY <1>10, <1>k DEF ExecuteAction
  <1>11. ASSUME NEW i \in Intents, NEW p \in Principals \cup {NoPrincipal}, Announce(i, p)
        PROVE  GrantedOnce'
    BY <1>11, <1>k DEF Announce, Absent, NoAuthorization
  <1>12. ASSUME NEW c \in Calls, SendCompletes(c)
        PROVE  GrantedOnce'
    BY <1>12, <1>k, CallsKnow DEF SendCompletes, ExecutedAndReceipted
  <1>13. ASSUME NEW c \in Calls, SendFails(c)
        PROVE  GrantedOnce'
    BY <1>13, <1>k, CallsKnow DEF SendFails
  <1>14. ASSUME NEW i \in Intents, NEW d \in Deadlines, ApprovalClock(i, d)
        PROVE  GrantedOnce'
    BY <1>14, <1>k DEF ApprovalClock
  <1>15. CASE Restart
    BY <1>15, <1>k DEF Restart
  <1>16. CASE UNCHANGED <<intents, tally>>
    BY <1>16, <1>k
  <1> HIDE <1>a DEF TypeOK, UpdateIntent, IntentRecord, Tally
  <1> QED
    BY <1>1, <1>2, <1>3, <1>4, <1>5, <1>6, <1>7, <1>9, <1>10, <1>11, <1>12, <1>13, <1>14,
       <1>15, <1>16
    DEF Next, Serve, Request, Resume, ApprovalBegin, ExecuteConfirmExpired, ApprovalLookup,
        ApprovalInsert, ApprovalAbandoned, TokenStoreStep, vars

(***************************************************************************)
(* The theorems.                                                           *)
(***************************************************************************)

\* Type correctness: every reachable state of the pipeline is well typed.
THEOREM TypeCorrect == Spec => []TypeOK
  BY InitTyped, NextTyped, PTL DEF Spec

\* No execution is let out on an approval another execution used up.
THEOREM DispatchesGranted == Spec => []EachDispatchGranted
  <1>1. Init => EachDispatchGranted
    <2> SUFFICES ASSUME Init, NEW i \in Intents
                 PROVE  tally[i].dispatched + Holds(i, "authorized") <= tally[i].granted
      BY DEF EachDispatchGranted
    <2>1. Holds(i, "authorized") = 0
      BY DEF Init, Absent, Holds
    <2>2. tally[i].dispatched = 0 /\ tally[i].granted = 0
      BY DEF Init, NothingCounted
    <2> QED
      BY <2>1, <2>2
  <1>2. TypeOK /\ EachDispatchGranted /\ [Next]_vars => EachDispatchGranted'
    <2> SUFFICES ASSUME TypeOK, EachDispatchGranted, [Next]_vars PROVE EachDispatchGranted'
      OBVIOUS
    <2>1. \A i \in Intents : tally[i] \in Tally /\ tally'[i] \in Tally
      BY NextTyped DEF TypeOK
    <2>2. GrantedBut(0)
      BY <2>1 DEF EachDispatchGranted, GrantedBut, Tally
    <2>3. GrantedBut(0)'
      BY <2>2, GrantStep
    <2> QED
      BY <2>1, <2>3 DEF EachDispatchGranted, GrantedBut, Tally
  <1> QED
    BY <1>1, <1>2, TypeCorrect, PTL DEF Spec

\* No receipt of an execution without a recorded execution of its own, and at most two
\* receipts of any other kind, none of them once the intent was decided.
THEOREM ReceiptsExecuted == Spec => []EachReceiptExecuted
  <1>1. Init => EachReceiptExecuted
    <2> SUFFICES ASSUME Init, NEW i \in Intents
                 PROVE  /\ tally[i].receipted + Holds(i, "executed") <= tally[i].executed
                        /\ tally[i].unexecuted + Undecided(i) <= 2
      BY DEF EachReceiptExecuted
    <2>1. Holds(i, "executed") = 0 /\ Undecided(i) = 2
      BY DEF Init, Absent, Holds, Undecided
    <2>2. tally[i].receipted = 0 /\ tally[i].executed = 0 /\ tally[i].unexecuted = 0
      BY DEF Init, NothingCounted
    <2> QED
      BY <2>1, <2>2
  <1>2. TypeOK /\ EachReceiptExecuted /\ [Next]_vars => EachReceiptExecuted'
    <2> SUFFICES ASSUME TypeOK, EachReceiptExecuted, [Next]_vars PROVE EachReceiptExecuted'
      OBVIOUS
    <2>1. \A i \in Intents : tally[i] \in Tally /\ tally'[i] \in Tally
      BY NextTyped DEF TypeOK
    <2>2. ReceiptedBut(0) /\ UnexecutedFew
      BY <2>1 DEF EachReceiptExecuted, ReceiptedBut, UnexecutedFew, Tally
    <2>3. ReceiptedBut(0)' /\ UnexecutedFew'
      BY <2>2, ReceiptStep, UnexecutedStep
    <2> QED
      BY <2>1, <2>3 DEF EachReceiptExecuted, ReceiptedBut, UnexecutedFew, Tally
  <1> QED
    BY <1>1, <1>2, TypeCorrect, PTL DEF Spec

\* Live tokens, unanswered connectors and recorded executions together are never
\* more than what was let out.
THEOREM FlightAccounted == Spec => []InFlightAccounted
  <1>1. Init => InFlightAccounted
    <2> SUFFICES ASSUME Init, NEW i \in Intents PROVE Accounted(i)
      BY DEF InFlightAccounted
    <2>1. LiveTokens(i) = {} /\ OpenSends(i) = {}
      BY DEF Init, TokenInit, Unissued, IdleCall, LiveTokens, OpenSends
    <2>2. tally[i].executed = 0 /\ tally[i].dispatched = 0
      BY DEF Init, NothingCounted
    <2> QED
      BY <2>1, <2>2, FS_EmptySet DEF Accounted
  <1> QED
    BY <1>1, InFlightStep, TypeCorrect, PTL DEF Spec

\* What is in flight only adds to what was recorded.
LEMMA FlightBoundsExecuted == TypeOK /\ InFlightAccounted => EachExecutionDispatched
  <1> SUFFICES ASSUME TypeOK, InFlightAccounted, NEW i \in Intents
               PROVE  tally[i].executed <= tally[i].dispatched
    BY DEF EachExecutionDispatched
  <1>1. Cardinality(LiveTokens(i)) \in Nat /\ Cardinality(OpenSends(i)) \in Nat
    BY FS_CardinalityType DEF InFlightAccounted, Accounted
  <1>2. tally[i].executed \in Nat /\ tally[i].dispatched \in Nat
    BY DEF TypeOK, Tally
  <1> QED
    BY <1>1, <1>2 DEF InFlightAccounted, Accounted

\* No execution is recorded that was not let out.
THEOREM ExecutionsDispatched == Spec => []EachExecutionDispatched
  BY FlightBoundsExecuted, TypeCorrect, FlightAccounted, PTL

\* A verdict is given once, and no vote or connector call is under way for an intent
\* whose verdict does not allow it (POST /govern).
THEOREM VerdictsKept == Spec => []VerdictBookkeeping
  <1>1. Init => VerdictBookkeeping
    BY DEF Init, VerdictBookkeeping, VerdictOfIntent, VerdictOfCall, Absent, IdleCall,
           NothingCounted, NoAuthorization
  <1> QED
    BY <1>1, VerdictStep, TypeCorrect, PTL DEF Spec

\* The automatic verdicts of the policy engine are final.
THEOREM VerdictsBind == Spec => []PolicyVerdictBinds
  <1>1. TypeOK /\ VerdictBookkeeping /\ EachDispatchGranted => PolicyVerdictBinds
    <2> SUFFICES ASSUME TypeOK, VerdictBookkeeping, EachDispatchGranted, NEW i \in Intents
                 PROVE  /\ intents[i].governance = "AUTO_DENY" =>
                              intents[i].status = "blocked" /\ tally[i].dispatched = 0
                        /\ intents[i].governance = "AUTO_APPROVE" => tally[i].dispatched <= 1
      BY DEF PolicyVerdictBinds
    <2>1. tally[i].granted \in Nat /\ tally[i].dispatched \in Nat
      BY DEF TypeOK, Tally
    <2> QED
      BY <2>1 DEF VerdictBookkeeping, VerdictOfIntent, EachDispatchGranted, Holds
  <1> QED
    BY <1>1, TypeCorrect, VerdictsKept, DispatchesGranted, PTL

\* A receipt names the policy engine if and only if the engine decided alone.
THEOREM DeciderNamed == Spec => []ReceiptNamesDecider
  <1>1. Init => DeciderInv
    <2> SUFFICES ASSUME Init, NEW i \in Intents PROVE DeciderOf(i)
      BY DEF DeciderInv
    <2>1. intents[i] = Absent
      BY DEF Init, NothingCounted
    <2> QED
      BY <2>1 DEF DeciderOf, Absent, NoAuthorization
  <1>2. DeciderInv => ReceiptNamesDecider
    BY DEF DeciderInv, DeciderOf, ReceiptNamesDecider
  <1> QED
    BY <1>1, <1>2, DeciderStep, TypeCorrect, VerdictsKept, PTL DEF Spec

\* What an intent records of its proposer is the caller of POST /intent or nobody, and
\* no vote under way is that principal's own.
LEMMA ProposersRecorded == Spec => []ProposerKept
  <1>1. Init => ProposerKept
    BY DEF Init, ProposerKept, ProposerOfIntent, NotProposersCall, Absent,
           NoAuthorization, IdleCall
  <1>2. TypeOK /\ ProposerKept /\ [Next]_vars => ProposerKept'
    BY ProposerStep
  <1> QED
    BY <1>1, <1>2, TypeCorrect, PTL DEF Spec

\* An intent that records its proposer is never approved by that principal, whichever
\* create and decision routes are in service (POST /authorize, POST /approvals).
THEOREM ProposersNeverApprove == Spec => []NoSelfApproval
  <1>1. ProposerKept => NoSelfApproval
    BY DEF ProposerKept, ProposerOfIntent, NoSelfApproval
  <1> QED
    BY <1>1, ProposersRecorded, PTL

\* However votes overlap, an approver adds no more rows to the approvals table of an
\* intent than there are requests that wait at once (POST /approvals).
THEOREM VotesFew ==
    ASSUME IsFiniteSet(Calls)
    PROVE  Spec => []VotesBounded
  <1>1. Init => VotesBounded
    <2> SUFFICES ASSUME Init, NEW i \in Intents, NEW p \in Principals
                 PROVE  votes[i][p] + Cardinality(Inserting(i, p)) <= Cardinality(Calls)
      BY DEF VotesBounded
    <2>1. votes[i][p] = 0 /\ Inserting(i, p) = {}
      BY DEF Init, Inserting, IdleCall
    <2> QED
      BY <2>1, FS_EmptySet, FS_CardinalityType
  <1>2. TypeOK /\ VotesBounded /\ [Next]_vars => VotesBounded'
    BY VotesStep
  <1> QED
    BY <1>1, <1>2, TypeCorrect, PTL DEF Spec

\* What a step that adds to the executions let out has looked at.
LEMMA LetOutInTime ==
    ASSUME "apiv1" \notin Surfaces, TypeOK, [Next]_vars, NEW i \in Intents,
           tally'[i].dispatched > tally[i].dispatched
    PROVE  intents[i].passed = {}
  <1>1. intents[i].passed \subseteq Deadlines
    BY DEF TypeOK, IntentRecord
  <1>2. \A s \in Surfaces : s = "gateway"
    BY PipelineAssumption
  <1>3. \A s \in Surfaces \cup {"gateway"} : ~Overdue(s, i) => intents[i].passed = {}
    BY <1>1, <1>2 DEF Overdue
  <1>4. tally[i] \in Tally
    BY DEF TypeOK
  <1>6. ASSUME NEW j \in Intents, NEW s \in Surfaces \cup {"gateway"}, ~Overdue(s, j),
               tally' = [tally EXCEPT ![j].dispatched = @ + 1]
        PROVE  intents[i].passed = {}
    <2>1. CASE i = j
      BY <1>3, <1>6, <2>1
    <2>2. CASE i # j
      BY <1>4, <1>6, <2>2 DEF TypeOK, Tally
    <2> QED
      BY <2>1, <2>2
  <1>u. ASSUME NEW j \in Intents, tally' = [tally EXCEPT ![j].unexecuted = @ + 1]
        PROVE  FALSE
    <2>1. tally \in [Intents -> Tally]
      BY DEF TypeOK
    <2>2. tally'[i].dispatched = tally[i].dispatched
      BY <1>u, <2>1 DEF Tally
    <2> QED
      BY <1>4, <2>2 DEF Tally
  <1>7. ASSUME NEW j \in Intents, NEW d, NEW p, NEW exp, RecordAuthorization(j, d, p, exp)
        PROVE  FALSE
    BY <1>4, <1>7 DEF RecordAuthorization, TypeOK, Tally
  <1>8. \A c \in Calls : calls[c].at # "idle" => calls[c].intent \in Intents
    BY CallsKnow
  <1>9. tally' # tally
    BY <1>4 DEF Tally
  <1>10. ASSUME NEW j \in Intents, NEW v, Govern(j, v) PROVE FALSE
    BY <1>4, <1>10 DEF Govern, TypeOK, Tally
  <1>11. ASSUME NEW j \in Intents, NEW t, ExecuteConfirm(j, t) PROVE FALSE
    BY <1>4, <1>11 DEF ExecuteConfirm, TypeOK, Tally
  <1>12. ASSUME NEW j \in Intents, GenerateReceipt(j) PROVE FALSE
    BY <1>4, <1>12 DEF GenerateReceipt, TypeOK, Tally
  <1>13. ASSUME NEW j \in Intents, NEW s \in Surfaces, NEW t, Execute(s, j, t)
         PROVE  intents[i].passed = {}
    BY <1>6, <1>13 DEF Execute
  <1>14. ASSUME NEW j \in Intents, NEW c, NEW t, ExecuteAction(c, j, t)
         PROVE  intents[i].passed = {}
    BY <1>6, <1>14 DEF ExecuteAction
  <1>15. ASSUME NEW c \in Calls, SendCompletes(c) PROVE FALSE
    BY <1>4, <1>8, <1>15 DEF SendCompletes, ExecutedAndReceipted, TypeOK, Tally
  <1>16. ASSUME NEW c \in Calls, ApprovalRecord(c) PROVE FALSE
    BY <1>7, <1>8, <1>16 DEF ApprovalRecord
  <1>17. ASSUME NEW s, NEW j \in Intents, NEW p, NEW d, NEW exp, Authorize(s, j, p, d, exp)
         PROVE FALSE
    <2>1. ~RefuseSelfApproval(j, p)
      BY <1>u DEF RefuseSelfApproval
    <2>2. RecordAuthorization(j, d, PrincipalOn(s, p), exp)
      BY <1>17, <2>1 DEF Authorize
    <2> QED
      BY <1>7, <2>2
  <1>18. ASSUME NEW j \in Intents, NEW p, Announce(j, p) PROVE FALSE
    BY <1>u, <1>18 DEF Announce
  <1> QED
    BY <1>9, <1>10, <1>11, <1>12, <1>13, <1>14, <1>15, <1>16, <1>17, <1>18
    DEF Next, Serve, Request, Resume, Submit, ApprovalBegin, ExpireAuthorization,
        ExecuteConfirmExpired, ApprovalLookup, ApprovalInsert,
        ApprovalAbandoned, SendFails, ApprovalClock, TokenStoreStep, Restart, vars

\* Where /api/v1 is not in service, nothing is let out past a deadline of its approval.
THEOREM NothingOverdue ==
    ASSUME "apiv1" \notin Surfaces
    PROVE  Spec => NoOverdueDispatch
  <1>1. TypeOK /\ [Next]_vars =>
          [\A i \in Intents :
             tally'[i].dispatched > tally[i].dispatched => intents[i].passed = {}]_vars
    BY LetOutInTime
  <1> QED
    BY <1>1, TypeCorrect, PTL DEF Spec, NoOverdueDispatch

\* A token is burned only while it is the one stored with its intent.
THEOREM SupersededDead == Spec => SupersededTokenIsDead
  <1>1. TypeOK /\ [Next]_vars =>
          [\A t \in Tokens :
             tokens[t].status = "ACTIVE" /\ tokens'[t].status = "USED" =>
                 intents[tokens[t].intent].token = t]_vars
    BY BurnIsOfStored, TokenSteps DEF vars
  <1> QED
    BY <1>1, TypeCorrect, PTL DEF Spec, SupersededTokenIsDead

\* The token store of the pipeline implements SingleUseToken.
THEOREM PromiseKept == Spec => KeepsTokenPromise
  <1>1. Init => Promise!Init
    BY DEF Init, TokenInit, Unissued, LifeOf, Promise!Init
  <1>2. TypeOK /\ [Next]_vars =>
          [Promise!Next]_<<[t \in Tokens |-> LifeOf(t)], [t \in Tokens |-> tokens[t].intent]>>
    BY StepKeepsPromise, TokenSteps
  <1> QED
    BY <1>1, <1>2, TypeCorrect, PTL DEF Spec, KeepsTokenPromise, Promise!Spec

\* "No replay of executed actions" (SYSTEM_RUNTIME_MAP.md) fails only through a vote of
\* POST /approvals that is recorded after the intent has left "governed": without such
\* a vote an intent is let out at most once, by either execution route.
THEOREM LateVotesAlone == Spec /\ [][Rechecked]_vars => []AtMostOneDispatch
  <1>1. Init => GrantedOnce
    <2> SUFFICES ASSUME Init, NEW i \in Intents
                 PROVE  tally[i].granted <= 1 /\ tally[i].granted = 0
      BY DEF GrantedOnce
    <2>1. tally[i].granted = 0
      BY DEF Init, NothingCounted
    <2> QED
      BY <2>1
  <1>2. TypeOK /\ GrantedOnce /\ [Next]_vars /\ [Rechecked]_vars => GrantedOnce'
    BY GrantedOnceStep
  <1>3. TypeOK /\ GrantedOnce /\ EachDispatchGranted => AtMostOneDispatch
    <2> SUFFICES ASSUME TypeOK, GrantedOnce, EachDispatchGranted, NEW i \in Intents
                 PROVE  tally[i].dispatched <= 1
      BY DEF AtMostOneDispatch
    <2>1. tally[i].granted \in Nat /\ tally[i].dispatched \in Nat
      BY DEF TypeOK, Tally
    <2> QED
      BY <2>1 DEF GrantedOnce, EachDispatchGranted, Holds
  <1> QED
    BY <1>1, <1>2, <1>3, TypeCorrect, DispatchesGranted, PTL DEF Spec
=============================================================================
