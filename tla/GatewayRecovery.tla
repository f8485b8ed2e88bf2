-------------------------- MODULE GatewayRecovery --------------------------
(***************************************************************************)
(* The intents table behind the intent cache                               *)
(* (gateway/governance/intents.mjs).  Every change of a cached intent      *)
(* sends an INSERT or an UPDATE to the connection pool and does not wait   *)
(* for it: the statements of one intent may be committed in any order, or  *)
(* fail, and those of a process that is gone may still be committed.  A    *)
(* new process serves the intents as the table has them when it starts.    *)
(***************************************************************************)
EXTENDS IntentPipeline, Sequences

CONSTANT MaxPending     \* bound: statements under way when a request is taken

ASSUME RecoveryAssumption == MaxPending \in Nat \ {0}

VARIABLES
    table,      \* the row of each intent, or Absent
    written,    \* the row of every statement sent, in the order sent
    pending     \* which of them are neither committed nor lost

recoveryVars == <<vars, table, written, pending>>

\* Mutant: the principal that submitted the intent is not stored.
ForgetfulRow(r) ==
    [r EXCEPT !.token = NoToken, !.passed = {}, !.principal_id = NoPrincipal]

\* What the statements carry of an intent: there is no column for the token, and
\* the time is not stored.
Row(r) == [r EXCEPT !.token = NoToken, !.passed = {}]
Rows == {r \in IntentRecord : r.token = NoToken /\ r.passed = {}}

RecoveryTypeOK ==
    /\ TypeOK
    /\ table \in [Intents -> Rows]
    /\ written \in [Intents -> Seq(Rows)]
    /\ pending \in [Intents -> SUBSET Nat]
    /\ \A i \in Intents : pending[i] \subseteq DOMAIN written[i]

RecoveryInit ==
    /\ Init
    /\ table = [i \in Intents |-> Absent]
    /\ written = [i \in Intents |-> <<>>]
    /\ pending = [i \in Intents |-> {}]

-----------------------------------------------------------------------------
\* The rows a step writes.  The continuation of POST /execute-action updates the
\* intent when it has executed it, again when the receipt is made, and a third time
\* to name the ledger entry on the receipt, which no column here shows.
ExecutedRow(i) == [Row(intents[i]) EXCEPT !.status = "executed", !.execution = "done"]

RowsWritten(i) ==
    IF tally'[i].executed > tally[i].executed /\ tally'[i].receipted > tally[i].receipted
    THEN <<ExecutedRow(i), Row(intents'[i]), Row(intents'[i])>>
    ELSE IF Row(intents'[i]) # Row(intents[i])
    THEN <<Row(intents'[i])>>
    ELSE <<>>

\* The id of an intent is a fresh UUID: one that was ever written is not given again.
FreshIds ==
    \A i \in Intents :
        intents[i].status = "absent" /\ intents'[i].status # "absent" => written[i] = <<>>

\* A handler runs, and the statements it sends are on their way.
Work ==
    /\ \A i \in Intents : Cardinality(pending[i]) < MaxPending
    /\ Serve
    /\ FreshIds
    /\ written' = [i \in Intents |-> written[i] \o RowsWritten(i)]
    /\ pending' = [i \in Intents |->
                     pending[i] \cup (Len(written[i]) + 1)..Len(written'[i])]
    /\ UNCHANGED table

\* Mutant: an UPDATE writes the status and leaves the JSON columns.
PartialCommitted(i, n) ==
    IF n = 1 THEN written[i][n]
    ELSE IF table[i] # Absent THEN [table[i] EXCEPT !.status = written[i][n].status]
    ELSE Absent

\* The n-th statement of an intent, as the database executes it: the first is the
\* INSERT, an UPDATE that finds no row changes nothing.
Committed(i, n) ==
    IF n = 1 \/ table[i] # Absent THEN written[i][n] ELSE Absent

\* Mutant: the committed row is read back into the cache (RETURNING *).
ReadBackCommit(i, n) ==
    /\ n \in pending[i]
    /\ table' = [table EXCEPT ![i] = Committed(i, n)]
    /\ intents' = [intents EXCEPT ![i] = Committed(i, n)]
    /\ pending' = [pending EXCEPT ![i] = @ \ {n}]
    /\ UNCHANGED <<tokens, votes, calls, restarts, tally, written>>

\* The n-th statement of an intent is committed.
Commit(i, n) ==
    /\ n \in pending[i]
    /\ table' = [table EXCEPT ![i] = Committed(i, n)]
    /\ pending' = [pending EXCEPT ![i] = @ \ {n}]
    /\ UNCHANGED <<vars, written>>

\* The statement fails, or dies with the process: the error is logged.
Lose(i, n) ==
    /\ n \in pending[i]
    /\ pending' = [pending EXCEPT ![i] = @ \ {n}]
    /\ UNCHANGED <<vars, table, written>>

\* What a new process makes of a row.  A deadline of the authorization that was in
\* force has passed for the new process too; one of an older authorization passes
\* in a step of its own (ApprovalClock).
Reloaded(i) ==
    [table[i] EXCEPT !.passed =
        IF table[i].authorization = intents[i].authorization THEN intents[i].passed ELSE {}]

\* The process restarts and loads the table as it is.
Recover ==
    /\ restarts < MaxRestarts
    /\ restarts' = restarts + 1
    /\ LoseTokens
    /\ intents' = [i \in Intents |-> Reloaded(i)]
    /\ calls' = [c \in Calls |-> IdleCall]
    /\ UNCHANGED <<votes, tally, table, written, pending>>

RecoveryNext ==
    \/ Work
    \/ \E i \in Intents : \E n \in pending[i] : Commit(i, n) \/ Lose(i, n)
    \/ Recover

RecoverySpec == RecoveryInit /\ [][RecoveryNext]_recoveryVars

-----------------------------------------------------------------------------
\* A restart can bring an intent back to "authorized" after it was let out, because
\* the UPDATEs that say so were lost or overtaken.  It does so once per restart:
\* however the statements are reordered, an approval is used at most once, and once
\* more for every restart.
RepeatsBounded ==
    \A i \in Intents :
        tally[i].dispatched + Holds(i, "authorized") <= tally[i].granted + restarts

\* The same for receipts of executions: at most one per execution recorded, and one
\* more for each restart that brings an intent back to "executed".  (Receipts of no
\* execution are not counted here; see EachReceiptExecuted.)
ReceiptRepeatsBounded ==
    \A i \in Intents :
        tally[i].receipted + Holds(i, "executed") <= tally[i].executed + restarts

\* The store reloads what an intent once was, with the columns of one statement
\* together: it implements RecordStore.
Versions == INSTANCE RecordStore WITH
    Ids <- Intents, NoRecord <- Absent,
    record <- [i \in Intents |-> Row(intents[i])],
    had <- [i \in Intents |-> {written[i][n] : n \in DOMAIN written[i]}]

KeepsRecordHistory == Versions!Spec
=============================================================================
