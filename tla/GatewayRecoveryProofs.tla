----------------------- MODULE GatewayRecoveryProofs -----------------------
(***************************************************************************)
(* Theorems about the gateway with its lagging table, for every value of   *)
(* the constants.  A step of a running process is a step of IntentPipeline *)
(* (Serve), so the step lemmas of IntentPipelineProofs apply to it.        *)
(***************************************************************************)
EXTENDS GatewayRecovery, IntentPipelineProofs, SequenceTheorems

(***************************************************************************)
(* Type correctness.                                                       *)
(***************************************************************************)
LEMMA RowTyped == \A r \in IntentRecord : Row(r) \in Rows
  <1> TAKE r \in IntentRecord
  <1>1. Row(r) \in IntentRecord
    BY DEF Row, IntentRecord
  <1>2. Row(r).token = NoToken /\ Row(r).passed = {}
    BY DEF Row, IntentRecord
  <1> QED
    BY <1>1, <1>2 DEF Rows

LEMMA RowOfRow ==
    ASSUME NEW r \in Rows, NEW P \in SUBSET Deadlines
    PROVE  Row([r EXCEPT !.passed = P]) = r
  <1>1. r \in IntentRecord /\ r.token = NoToken /\ r.passed = {}
    BY DEF Rows
  <1> QED
    BY <1>1 DEF Row, IntentRecord

LEMMA AbsentRow == Absent \in Rows
  BY AbsentTyped DEF Absent, Rows

LEMMA WrittenTyped ==
    ASSUME TypeOK, TypeOK', NEW i \in Intents
    PROVE  /\ RowsWritten(i) \in Seq(Rows)
           /\ RowsWritten(i) = <<>> => Row(intents'[i]) = Row(intents[i])
           /\ RowsWritten(i) # <<>> =>
                 \E n \in 1..Len(RowsWritten(i)) : RowsWritten(i)[n] = Row(intents'[i])
           /\ intents'[i] = intents[i] /\ tally'[i] = tally[i] => RowsWritten(i) = <<>>
  <1>1. intents[i] \in IntentRecord /\ intents'[i] \in IntentRecord
    BY DEF TypeOK
  <1>2. Row(intents[i]) \in Rows /\ Row(intents'[i]) \in Rows
    BY <1>1, RowTyped
  <1>3. ExecutedRow(i) \in Rows
    <2>1. Row(intents[i]) \in IntentRecord
      BY <1>2 DEF Rows
    <2>2. ExecutedRow(i) \in IntentRecord
      BY <2>1, RecordUpdates DEF ExecutedRow, Statuses
    <2>3. ExecutedRow(i).token = Row(intents[i]).token /\ ExecutedRow(i).passed = Row(intents[i]).passed
      BY <2>1 DEF ExecutedRow, IntentRecord
    <2> QED
      BY <1>2, <2>2, <2>3 DEF Rows
  <1> DEFINE x == ExecutedRow(i)  y == Row(intents'[i])
  <1>4. <<y>> \in Seq(Rows) /\ Len(<<y>>) = 1 /\ <<y>>[1] = y /\ <<y>> # <<>>
    BY <1>2
  <1>5. /\ <<x, y, y>> \in Seq(Rows) /\ Len(<<x, y, y>>) = 3
        /\ <<x, y, y>>[3] = y /\ <<x, y, y>> # <<>>
    BY <1>2, <1>3
  <1>6. <<>> \in Seq(Rows)
    OBVIOUS
  <1>7. RowsWritten(i) \in {<<>>, <<y>>, <<x, y, y>>}
    BY DEF RowsWritten
  <1>8. RowsWritten(i) = <<>> => Row(intents'[i]) = Row(intents[i])
    BY <1>4, <1>5 DEF RowsWritten
  <1>10. intents'[i] = intents[i] /\ tally'[i] = tally[i] => RowsWritten(i) = <<>>
    BY DEF RowsWritten, TypeOK, Tally
  <1>9. ASSUME RowsWritten(i) # <<>>
        PROVE  \E n \in 1..Len(RowsWritten(i)) : RowsWritten(i)[n] = y
    <2>1. CASE RowsWritten(i) = <<y>>
      BY <2>1, <1>4
    <2>2. CASE RowsWritten(i) = <<x, y, y>>
      BY <2>2, <1>5
    <2> QED
      BY <1>7, <1>9, <2>1, <2>2
  <1> QED
    BY <1>4, <1>5, <1>6, <1>7, <1>8, <1>9, <1>10

LEMMA RecoveryInitTyped == RecoveryInit => RecoveryTypeOK
  BY InitTyped, AbsentRow DEF RecoveryInit, RecoveryTypeOK

\* The reloaded intents.
LEMMA ReloadedTyped ==
    ASSUME RecoveryTypeOK, NEW i \in Intents
    PROVE  Reloaded(i) \in IntentRecord /\ Row(Reloaded(i)) = table[i]
  <1>1. table[i] \in Rows /\ intents[i] \in IntentRecord
    BY DEF RecoveryTypeOK, TypeOK
  <1>2. intents[i].passed \in SUBSET Deadlines /\ {} \in SUBSET Deadlines
    BY <1>1 DEF IntentRecord
  <1>3. PICK P \in SUBSET Deadlines : Reloaded(i) = [table[i] EXCEPT !.passed = P]
    BY <1>2 DEF Reloaded
  <1> QED
    BY <1>1, <1>3, RowOfRow DEF Rows, IntentRecord

LEMMA RecoverTyped == RecoveryTypeOK /\ Recover => TypeOK'
  <1> SUFFICES ASSUME RecoveryTypeOK, Recover PROVE TypeOK'
    OBVIOUS
  <1>1. TokenTypeOK'
    BY TokenStepTyped DEF RecoveryTypeOK, TypeOK, Recover
  <1>2. intents' \in [Intents -> IntentRecord]
    BY ReloadedTyped DEF Recover
  <1>3. calls' \in [Calls -> CallRecord]
    BY DEF Recover, CallRecord
  <1>4. restarts' \in 0..MaxRestarts
    BY PipelineAssumption DEF RecoveryTypeOK, TypeOK, Recover
  <1> QED
    BY <1>1, <1>2, <1>3, <1>4 DEF RecoveryTypeOK, TypeOK, Recover

\* A running process takes a step of IntentPipeline.
LEMMA WorkIsNext == Work => [Next]_vars
  BY DEF Work, Next

LEMMA WorkAppends ==
    ASSUME RecoveryTypeOK, Work, NEW i \in Intents
    PROVE  /\ written'[i] \in Seq(Rows)
           /\ Len(written[i]) \in Nat /\ Len(written'[i]) \in Nat
           /\ Len(written[i]) <= Len(written'[i])
           /\ DOMAIN written[i] = 1..Len(written[i])
           /\ DOMAIN written'[i] = 1..Len(written'[i])
           /\ \A n \in DOMAIN written[i] : written'[i][n] = written[i][n]
           /\ \/ \E n \in DOMAIN written'[i] : written'[i][n] = Row(intents'[i])
              \/ Row(intents'[i]) = Row(intents[i]) /\ written'[i] = written[i]
           /\ intents'[i] = intents[i] /\ tally'[i] = tally[i] => written'[i] = written[i]
  <1>1. TypeOK /\ TypeOK'
    BY WorkIsNext, NextTyped DEF RecoveryTypeOK
  <1> DEFINE a == written[i]  b == RowsWritten(i)
  <1>2. a \in Seq(Rows) /\ b \in Seq(Rows)
    BY <1>1, WrittenTyped DEF RecoveryTypeOK
  <1>3. written'[i] = a \o b
    BY DEF Work
  <1>4. /\ a \o b \in Seq(Rows) /\ Len(a \o b) = Len(a) + Len(b)
        /\ Len(a) \in Nat /\ Len(b) \in Nat
        /\ \A n \in 1..Len(a) : (a \o b)[n] = a[n]
        /\ \A n \in 1..Len(b) : (a \o b)[Len(a) + n] = b[n]
    <2> HIDE DEF a, b
    <2> QED
      BY <1>2, ConcatProperties
  <1>5. b = <<>> => a \o b = a
    <2> HIDE DEF a, b
    <2> QED
      BY <1>2, ConcatEmptySeq
  <1>6. /\ b = <<>> => Row(intents'[i]) = Row(intents[i])
        /\ b # <<>> => \E n \in 1..Len(b) : b[n] = Row(intents'[i])
        /\ intents'[i] = intents[i] /\ tally'[i] = tally[i] => b = <<>>
    BY <1>1, WrittenTyped
  <1>7. DOMAIN a = 1..Len(a) /\ DOMAIN (a \o b) = 1..Len(a \o b)
    <2> HIDE DEF a, b
    <2> QED
      BY <1>2, <1>4
  <1>8. ASSUME b # <<>>
        PROVE  \E n \in DOMAIN (a \o b) : (a \o b)[n] = Row(intents'[i])
    <2>1. PICK n \in 1..Len(b) : b[n] = Row(intents'[i])
      BY <1>6, <1>8
    <2> HIDE DEF a, b
    <2>2. Len(a) + n \in 1..Len(a \o b)
      BY <1>4
    <2> QED
      BY <1>4, <1>7, <2>1, <2>2
  <1> HIDE DEF b
  <1> QED
    BY <1>3, <1>4, <1>5, <1>6, <1>7, <1>8

LEMMA RecoveryNextTyped == RecoveryTypeOK /\ [RecoveryNext]_recoveryVars => RecoveryTypeOK'
  <1> SUFFICES ASSUME RecoveryTypeOK, [RecoveryNext]_recoveryVars PROVE RecoveryTypeOK'
    OBVIOUS
  <1>1. CASE Work
    <2>1. TypeOK'
      BY <1>1, WorkIsNext, NextTyped DEF RecoveryTypeOK
    <2>2. written' \in [Intents -> Seq(Rows)]
      BY <1>1, WorkAppends DEF Work
    <2>3. \A i \in Intents : pending'[i] \in SUBSET Nat /\ pending'[i] \subseteq DOMAIN written'[i]
      <3> TAKE i \in Intents
      <3>1. pending'[i] = pending[i] \cup (Len(written[i]) + 1)..Len(written'[i])
        BY <1>1 DEF Work
      <3>2. pending[i] \subseteq 1..Len(written[i])
        BY <1>1, WorkAppends DEF RecoveryTypeOK
      <3> QED
        BY <1>1, <3>1, <3>2, WorkAppends
    <2>4. pending' \in [Intents -> SUBSET Nat]
      BY <1>1, <2>3 DEF Work
    <2> QED
      BY <1>1, <2>1, <2>2, <2>3, <2>4 DEF Work, RecoveryTypeOK
  <1>2. ASSUME NEW i \in Intents, NEW n \in pending[i], Commit(i, n)
        PROVE  RecoveryTypeOK'
    <2>1. written[i][n] \in Rows /\ Committed(i, n) \in Rows
      BY AbsentRow DEF RecoveryTypeOK, Committed
    <2>2. TypeOK'
      BY <1>2 DEF Commit, RecoveryTypeOK, TypeOK, TokenTypeOK, vars
    <2> QED
      BY <1>2, <2>1, <2>2 DEF Commit, RecoveryTypeOK
  <1>3. ASSUME NEW i \in Intents, NEW n \in pending[i], Lose(i, n)
        PROVE  RecoveryTypeOK'
    <2>1. TypeOK'
      BY <1>3 DEF Lose, RecoveryTypeOK, TypeOK, TokenTypeOK, vars
    <2> QED
      BY <1>3, <2>1 DEF Lose, RecoveryTypeOK
  <1>4. CASE Recover
    BY <1>4, RecoverTyped DEF Recover, RecoveryTypeOK
  <1>5. CASE UNCHANGED recoveryVars
    BY <1>5 DEF recoveryVars, vars, RecoveryTypeOK, TypeOK, TokenTypeOK
  <1> QED
    BY <1>1, <1>2, <1>3, <1>4, <1>5 DEF RecoveryNext

(***************************************************************************)
(* What a restart can repeat.                                              *)
(***************************************************************************)
LEMMA ServeKeepsRestarts == Serve => UNCHANGED restarts
  <1>1. ASSUME NEW i \in Intents, Request(i)
        PROVE  UNCHANGED restarts
    BY <1>1
    DEF Request, Submit, Announce, Govern, Authorize, ApprovalBegin, ExpireAuthorization,
        Execute, ExecuteConfirm, ExecuteConfirmExpired, GenerateReceipt, ExecuteAction
  <1>2. ASSUME NEW c \in Calls, Resume(c)
        PROVE  UNCHANGED restarts
    BY <1>2
    DEF Resume, ApprovalLookup, ApprovalInsert, ApprovalRecord, ApprovalAbandoned,
        SendCompletes, SendFails
  <1> QED
    BY <1>1, <1>2 DEF Serve, ApprovalClock, TokenStoreStep

\* The statements themselves change nothing a process works with.
LEMMA StatementsKeepVars ==
    ASSUME [RecoveryNext]_recoveryVars, ~Work, ~Recover
    PROVE  UNCHANGED vars
  BY DEF RecoveryNext, Commit, Lose, recoveryVars

LEMMA RepeatsStep ==
    RecoveryTypeOK /\ RepeatsBounded /\ [RecoveryNext]_recoveryVars => RepeatsBounded'
  <1> SUFFICES ASSUME RecoveryTypeOK, RepeatsBounded, [RecoveryNext]_recoveryVars
               PROVE  RepeatsBounded'
    OBVIOUS
  <1>t. TypeOK /\ restarts \in Nat
    BY PipelineAssumption DEF RecoveryTypeOK, TypeOK
  <1>1. CASE Work
    <2>1. restarts' = restarts
      BY <1>1, ServeKeepsRestarts DEF Work
    <2>2. \A k \in Nat : GrantedBut(k) => GrantedBut(k)'
      BY <1>1, <1>t, WorkIsNext, GrantStep
    <2> QED
      BY <1>t, <2>1, <2>2 DEF RepeatsBounded, GrantedBut
  <1>2. CASE Recover
    <2> SUFFICES ASSUME NEW i \in Intents
                 PROVE  tally'[i].dispatched + Holds(i, "authorized")' <= tally'[i].granted + restarts'
      BY DEF RepeatsBounded
    <2>1. tally[i] \in Tally /\ tally' = tally /\ restarts' = restarts + 1
      BY <1>2, <1>t DEF Recover, TypeOK
    <2>2. Holds(i, "authorized") \in {0, 1} /\ Holds(i, "authorized")' \in {0, 1}
      BY DEF Holds
    <2>3. tally[i].dispatched + Holds(i, "authorized") <= tally[i].granted + restarts
      BY DEF RepeatsBounded
    <2> QED
      BY <1>t, <2>1, <2>2, <2>3 DEF Tally
  <1>3. CASE ~Work /\ ~Recover
    BY <1>3, StatementsKeepVars DEF vars, RepeatsBounded, Holds
  <1> QED
    BY <1>1, <1>2, <1>3

LEMMA ReceiptRepeatsStep ==
    RecoveryTypeOK /\ ReceiptRepeatsBounded /\ [RecoveryNext]_recoveryVars
        => ReceiptRepeatsBounded'
  <1> SUFFICES ASSUME RecoveryTypeOK, ReceiptRepeatsBounded, [RecoveryNext]_recoveryVars
               PROVE  ReceiptRepeatsBounded'
    OBVIOUS
  <1>t. TypeOK /\ restarts \in Nat
    BY PipelineAssumption DEF RecoveryTypeOK, TypeOK
  <1>1. CASE Work
    <2>1. restarts' = restarts
      BY <1>1, ServeKeepsRestarts DEF Work
    <2>2. \A k \in Nat : ReceiptedBut(k) => ReceiptedBut(k)'
      BY <1>1, <1>t, WorkIsNext, ReceiptStep
    <2> QED
      BY <1>t, <2>1, <2>2 DEF ReceiptRepeatsBounded, ReceiptedBut
  <1>2. CASE Recover
    <2> SUFFICES ASSUME NEW i \in Intents
                 PROVE  tally'[i].receipted + Holds(i, "executed")' <= tally'[i].executed + restarts'
      BY DEF ReceiptRepeatsBounded
    <2>1. tally[i] \in Tally /\ tally' = tally /\ restarts' = restarts + 1
      BY <1>2, <1>t DEF Recover, TypeOK
    <2>2. Holds(i, "executed") \in {0, 1} /\ Holds(i, "executed")' \in {0, 1}
      BY DEF Holds
    <2>3. tally[i].receipted + Holds(i, "executed") <= tally[i].executed + restarts
      BY DEF ReceiptRepeatsBounded
    <2> QED
      BY <1>t, <2>1, <2>2, <2>3 DEF Tally
  <1>3. CASE ~Work /\ ~Recover
    BY <1>3, StatementsKeepVars DEF vars, ReceiptRepeatsBounded, Holds
  <1> QED
    BY <1>1, <1>2, <1>3

LEMMA RecoveryInFlightStep ==
    RecoveryTypeOK /\ InFlightAccounted /\ [RecoveryNext]_recoveryVars => InFlightAccounted'
  <1> SUFFICES ASSUME RecoveryTypeOK, InFlightAccounted, [RecoveryNext]_recoveryVars
               PROVE  InFlightAccounted'
    OBVIOUS
  <1>t. TypeOK
    BY DEF RecoveryTypeOK
  <1>1. CASE Work
    BY <1>1, <1>t, WorkIsNext, InFlightStep
  <1>2. CASE Recover
    <2>1. \A i \in Intents : LiveTokens(i)' \subseteq LiveTokens(i)
      BY <1>2, <1>t DEF Recover, LoseTokens, Removed, LiveTokens, TypeOK, TokenTypeOK, TokenRecord
    <2>2. \A i \in Intents : OpenSends(i)' \subseteq OpenSends(i)
      BY <1>2 DEF Recover, OpenSends, IdleCall
    <2> QED
      BY <1>2, <1>t, <2>1, <2>2, NothingLetOut DEF Recover, InFlightAccounted
  <1>3. CASE ~Work /\ ~Recover
    BY <1>3, <1>t, StatementsKeepVars, InFlightStep DEF vars
  <1> QED
    BY <1>1, <1>2, <1>3

(***************************************************************************)
(* The store of the intents implements RecordStore.                        *)
(***************************************************************************)
Had(i) == {written[i][n] : n \in DOMAIN written[i]}

\* The table holds versions the intent has had.
TableHad == \A i \in Intents : table[i] \in Had(i) \cup {Absent}

LEMMA HadGrows ==
    ASSUME RecoveryTypeOK, Work, NEW i \in Intents
    PROVE  /\ Had(i) \subseteq Had(i)'
           /\ \/ Row(intents'[i]) \in Had(i)'
              \/ Row(intents'[i]) = Row(intents[i]) /\ Had(i)' = Had(i)
           /\ intents'[i] = intents[i] /\ tally'[i] = tally[i] =>
                 Row(intents'[i]) = Row(intents[i]) /\ Had(i)' = Had(i)
  <1>1. DOMAIN written[i] \subseteq DOMAIN written'[i]
    BY WorkAppends
  <1> QED
    BY <1>1, WorkAppends DEF Had

LEMMA TableStep ==
    RecoveryTypeOK /\ TableHad /\ [RecoveryNext]_recoveryVars => TableHad'
  <1> SUFFICES ASSUME RecoveryTypeOK, TableHad, [RecoveryNext]_recoveryVars,
                      NEW i \in Intents
               PROVE  table'[i] \in Had(i)' \cup {Absent}
    BY DEF TableHad
  <1>1. CASE Work
    BY <1>1, HadGrows DEF Work, TableHad
  <1>2. ASSUME NEW j \in Intents, NEW n \in pending[j], Commit(j, n)
        PROVE  table'[i] \in Had(i)' \cup {Absent}
    <2>1. written' = written /\ n \in DOMAIN written[j]
      BY <1>2 DEF Commit, RecoveryTypeOK
    <2>2. Had(i)' = Had(i)
      BY <2>1 DEF Had
    <2>3. Committed(j, n) \in Had(j) \cup {Absent}
      BY <2>1 DEF Committed, Had
    <2>4. table'[i] = IF i = j THEN Committed(j, n) ELSE table[i]
      BY <1>2 DEF Commit, RecoveryTypeOK
    <2> QED
      BY <2>2, <2>3, <2>4 DEF TableHad
  <1>3. CASE UNCHANGED <<table, written>>
    BY <1>3 DEF TableHad, Had
  <1> QED
    BY <1>1, <1>2, <1>3 DEF RecoveryNext, Lose, Recover, recoveryVars

\* A handler changes one intent, and what is counted of it.
Untouched(j) == intents'[j] = intents[j] /\ tally'[j] = tally[j]

LEMMA OneIntent ==
    ASSUME TypeOK, Serve
    PROVE  \/ \A j \in Intents : Untouched(j)
           \/ \E i \in Intents : \A j \in Intents : j # i => Untouched(j)
  <1> USE DEF Untouched
  <1>1. ASSUME NEW i \in Intents, NEW new, UpdateIntent(i, new),
               \/ tally' = tally
               \/ \E t : tally' = [tally EXCEPT ![i] = t]
        PROVE  \A j \in Intents : j # i => Untouched(j)
    BY <1>1 DEF UpdateIntent, TypeOK
  <1>2. ASSUME NEW i \in Intents, Request(i)
        PROVE  \/ \A j \in Intents : Untouched(j)
               \/ \A j \in Intents : j # i => Untouched(j)
    BY <1>1, <1>2 DEF Request, Submit, Announce, Govern, Authorize, RefuseSelfApproval,
                RecordAuthorization, ApprovalBegin, ExpireAuthorization, Execute, ExecuteConfirm,
                ExecuteConfirmExpired, GenerateReceipt, ExecuteAction
  <1>3. ASSUME NEW c \in Calls, Resume(c)
        PROVE  \/ \A j \in Intents : Untouched(j)
               \/ \E i \in Intents : \A j \in Intents : j # i => Untouched(j)
    <2>1. calls[c].at \in {"record", "sending"} => calls[c].intent \in Intents
      BY CallsKnow
    <2> QED
      BY <1>1, <1>3, <2>1 DEF Resume, ApprovalLookup, ApprovalInsert, ApprovalRecord,
                 RecordAuthorization, ApprovalAbandoned, SendCompletes, SendFails
  <1>4. ASSUME NEW i \in Intents, NEW d \in Deadlines, ApprovalClock(i, d)
        PROVE  \A j \in Intents : j # i => Untouched(j)
    BY <1>1, <1>4 DEF ApprovalClock
  <1>5. CASE TokenStoreStep
    BY <1>5 DEF TokenStoreStep
  <1> QED
    BY <1>2, <1>3, <1>4, <1>5 DEF Serve

LEMMA StepKeepsHistory ==
    ASSUME RecoveryTypeOK, TableHad, [RecoveryNext]_recoveryVars
    PROVE  [Versions!Next]_<<[i \in Intents |-> Row(intents[i])],
                             [i \in Intents |-> {written[i][n] : n \in DOMAIN written[i]}]>>
  <1> DEFINE record == [i \in Intents |-> Row(intents[i])]
             had == [i \in Intents |-> {written[i][n] : n \in DOMAIN written[i]}]
  <1>h. /\ \A i \in Intents : had[i] = Had(i) /\ had'[i] = Had(i)'
        /\ \A i \in Intents : record[i] = Row(intents[i]) /\ record'[i] = Row(intents'[i])
    BY DEF Had
  <1>1. CASE Work
    <2>0. ASSUME NEW j \in Intents, Untouched(j)
          PROVE  record'[j] = record[j] /\ had'[j] = had[j]
      BY <1>1, <1>h, <2>0, HadGrows DEF Untouched
    <2>1. CASE \A j \in Intents : Untouched(j)
      <3>1. record' = record /\ had' = had
        BY <2>0, <2>1
      <3> QED
        BY <3>1
    <2>2. ASSUME NEW i \in Intents, \A j \in Intents : j # i => Untouched(j)
          PROVE  Versions!Write(i) \/ (record' = record /\ had' = had)
      <3>1. \A j \in Intents : j # i => record'[j] = record[j] /\ had'[j] = had[j]
        BY <2>0, <2>2
      <3>2. /\ had[i] \subseteq had'[i]
            /\ \/ record'[i] \in had'[i]
               \/ record'[i] = record[i] /\ had'[i] = had[i]
        BY <1>1, <1>h, HadGrows
      <3>3. /\ record' = [record EXCEPT ![i] = record'[i]]
            /\ had' = [had EXCEPT ![i] = had'[i]]
        <4>1. /\ record = [j \in Intents |-> record[j]] /\ record' = [j \in Intents |-> record'[j]]
              /\ had = [j \in Intents |-> had[j]] /\ had' = [j \in Intents |-> had'[j]]
          OBVIOUS
        <4> HIDE DEF record, had
        <4>2. record' = [record EXCEPT ![i] = record'[i]]
          BY <3>1, <4>1
        <4>3. had' = [had EXCEPT ![i] = had'[i]]
          BY <3>1, <4>1
        <4> QED
          BY <4>2, <4>3
      <3>4. CASE record'[i] \in had'[i]
        BY <3>2, <3>3, <3>4 DEF Versions!Write
      <3>5. CASE record'[i] = record[i] /\ had'[i] = had[i]
        BY <3>1, <3>5
      <3> QED
        BY <3>2, <3>4, <3>5
    <2> QED
      BY <1>1, <2>1, <2>2, OneIntent DEF Work, RecoveryTypeOK, Versions!Next
  <1>2. CASE Recover
    <2>1. \A i \in Intents : record'[i] = table[i]
      BY <1>2, <1>h, ReloadedTyped DEF Recover
    <2>2. had' = had
      BY <1>2 DEF Recover
    <2>3. \A i \in Intents : record'[i] \in had[i] \cup {Absent}
      BY <1>h, <2>1 DEF TableHad
    <2>4. Versions!Reload
      BY <2>2, <2>3 DEF Versions!Reload
    <2> QED
      BY <2>4 DEF Versions!Next
  <1>3. CASE UNCHANGED <<vars, written>>
    BY <1>3 DEF vars
  <1> QED
    BY <1>1, <1>2, <1>3 DEF RecoveryNext, Commit, Lose, recoveryVars

(***************************************************************************)
(* Who decided, and who proposed, in every version of an intent.  A restart *)
(* brings back a version as it was written, and a statement under way may   *)
(* bring back one that was superseded; so what these properties rest on must*)
(* hold of each row by itself, and not of the history of the intent.        *)
(***************************************************************************)
LetOutRecord(r) == r.governance \in {"AUTO_APPROVE", "REVIEW"} /\ r.status # "governed"

\* A person has decided exactly when the intent was sent to review and has left
\* "governed"; a receipt carries no decision exactly when the engine approved.
ExplainedRecord(r) ==
    /\ r.governance = "none" <=> r.status \in {"absent", "submitted"}
    /\ r.status = "governed" => r.governance = "REVIEW"
    /\ r.governance = "AUTO_DENY" => r.status = "blocked"
    /\ r.authorization.decision = "none" <=> (r.governance # "REVIEW" \/ r.status = "governed")
    /\ r.receipt # "none" =>
          LetOutRecord(r) /\ (r.receipt = "unknown" <=> r.governance = "AUTO_APPROVE")

ExplainedCall(c) ==
    /\ calls[c].at \in {"lookup", "insert", "record"} =>
          intents[calls[c].intent].governance = "REVIEW"
    /\ calls[c].at = "sending" => LetOutRecord(intents[calls[c].intent])

Explained ==
    (\A i \in Intents : ExplainedRecord(intents[i])) /\ (\A c \in Calls : ExplainedCall(c))

\* What a step leaves alone when it disturbs no waiting request.
KeepsExplained(j) ==
    /\ intents[j].governance = "REVIEW" => intents'[j].governance = "REVIEW"
    /\ LetOutRecord(intents[j]) => LetOutRecord(intents'[j])

LEMMA ExplainedCalls ==
    ASSUME TypeOK, Explained, \A j \in Intents : KeepsExplained(j),
           calls' = calls \/ \E c \in Calls : calls' = [calls EXCEPT ![c] = IdleCall]
    PROVE  \A x \in Calls : ExplainedCall(x)'
  <1>1. \A x \in Calls : calls'[x] = calls[x] \/ calls'[x].at = "idle"
    BY DEF TypeOK, IdleCall
  <1> QED
    BY <1>1, CallsKnow DEF Explained, ExplainedCall, KeepsExplained

LEMMA ExplainedRecorded ==
    ASSUME TypeOK, Explained, NEW i \in Intents, NEW d \in Decisions, NEW p,
           Recorded(i, d, p), intents[i].governance = "REVIEW",
           calls' = calls \/ \E c \in Calls : calls' = [calls EXCEPT ![c] = IdleCall]
    PROVE  Explained'
  <1>1. \A j \in Intents : intents[j] \in IntentRecord /\ ExplainedRecord(intents[j])
    BY DEF TypeOK, Explained
  <1>2. \A j \in Intents : ExplainedRecord(intents[j])'
    BY <1>1 DEF Recorded, Decisions, ExplainedRecord, LetOutRecord
  <1>3. \A j \in Intents : KeepsExplained(j)
    BY <1>1 DEF Recorded, Decisions, KeepsExplained, LetOutRecord
  <1> QED
    BY <1>2, <1>3, ExplainedCalls DEF Explained

LEMMA ExplainedStep == TypeOK /\ Explained /\ [Next]_vars => Explained'
  <1> SUFFICES ASSUME TypeOK, Explained, [Next]_vars PROVE Explained'
    OBVIOUS
  <1>a. \A i \in Intents : intents[i] \in IntentRecord /\ tally[i] \in Tally
    BY DEF TypeOK
  <1>b. /\ \A i \in Intents : ExplainedRecord(intents[i])
        /\ \A c \in Calls : ExplainedCall(c)
    BY DEF Explained
  <1> USE <1>a, <1>b DEF TypeOK, ExplainedRecord, LetOutRecord, UpdateIntent, IntentRecord
  <1>1. ASSUME NEW i \in Intents, NEW s \in Surfaces, NEW p \in Principals,
               NEW agent \in Principals, Submit(s, i, p, agent)
        PROVE  Explained'
    <2>1. \A j \in Intents : ExplainedRecord(intents[j])'
      BY <1>1 DEF Submit, Absent, NoAuthorization
    <2>2. \A j \in Intents : KeepsExplained(j)
      BY <1>1 DEF Submit, KeepsExplained, Absent, NoAuthorization
    <2>3. calls' = calls
      BY <1>1 DEF Submit
    <2> QED
      BY <2>1, <2>2, <2>3, ExplainedCalls DEF Explained
  <1>2. ASSUME NEW i \in Intents, NEW v \in {"AUTO_APPROVE", "AUTO_DENY", "REVIEW"},
               Govern(i, v)
        PROVE  Explained'
    <2>1. \A j \in Intents : ExplainedRecord(intents[j])'
      BY <1>2 DEF Govern
    <2>2. \A j \in Intents : KeepsExplained(j)
      BY <1>2 DEF Govern, KeepsExplained
    <2>3. calls' = calls
      BY <1>2 DEF Govern
    <2> QED
      BY <2>1, <2>2, <2>3, ExplainedCalls DEF Explained
  <1>5. ASSUME NEW i \in Intents, NEW s \in Surfaces, ExpireAuthorization(s, i)
        PROVE  Explained'
    <2>1. \A j \in Intents : ExplainedRecord(intents[j])'
      BY <1>5 DEF ExpireAuthorization
    <2>2. \A j \in Intents : KeepsExplained(j)
      BY <1>5 DEF ExpireAuthorization, KeepsExplained
    <2>3. calls' = calls
      BY <1>5 DEF ExpireAuthorization
    <2> QED
      BY <2>1, <2>2, <2>3, ExplainedCalls DEF Explained
  <1>6. ASSUME NEW i \in Intents, NEW s \in Surfaces, NEW t \in Tokens, Execute(s, i, t)
        PROVE  Explained'
    <2>1. \A j \in Intents : ExplainedRecord(intents[j])'
      BY <1>6 DEF Execute
    <2>2. \A j \in Intents : KeepsExplained(j)
      BY <1>6 DEF Execute, KeepsExplained
    <2>3. calls' = calls
      BY <1>6 DEF Execute
    <2> QED
      BY <2>1, <2>2, <2>3, ExplainedCalls DEF Explained
  <1>7. ASSUME NEW i \in Intents, NEW t \in Tokens \cup {NoToken}, ExecuteConfirm(i, t)
        PROVE  Explained'
    <2>1. \A j \in Intents : ExplainedRecord(intents[j])'
      BY <1>7 DEF ExecuteConfirm
    <2>2. \A j \in Intents : KeepsExplained(j)
      BY <1>7 DEF ExecuteConfirm, KeepsExplained
    <2>3. calls' = calls
      BY <1>7 DEF ExecuteConfirm
    <2> QED
      BY <2>1, <2>2, <2>3, ExplainedCalls DEF Explained
  <1>8. ASSUME NEW i \in Intents, NEW t \in Tokens \cup {NoToken}, ExecuteConfirmExpired(i, t)
        PROVE  Explained'
    <2>1. \A j \in Intents : ExplainedRecord(intents[j])'
      BY <1>8 DEF ExecuteConfirmExpired
    <2>2. \A j \in Intents : KeepsExplained(j)
      BY <1>8 DEF ExecuteConfirmExpired, KeepsExplained
    <2>3. calls' = calls
      BY <1>8 DEF ExecuteConfirmExpired
    <2> QED
      BY <2>1, <2>2, <2>3, ExplainedCalls DEF Explained
  <1>9. ASSUME NEW i \in Intents, GenerateReceipt(i)
        PROVE  Explained'
    <2>0. /\ \A j \in Intents : j # i => intents'[j] = intents[j]
          /\ intents[i].status = "executed" /\ intents'[i].status = "receipted"
          /\ intents'[i].governance = intents[i].governance
          /\ intents'[i].authorization = intents[i].authorization
          /\ intents'[i].receipt = DecisionInForce(i)
      BY <1>9 DEF GenerateReceipt
    <2>a. intents[i].authorization.decision \in {"none"} \cup Decisions
      BY DEF Authorizations
    <2>1. \A j \in Intents : ExplainedRecord(intents[j])'
      BY <2>0, <2>a DEF DecisionInForce, Decisions
    <2>2. \A j \in Intents : KeepsExplained(j)
      BY <2>0 DEF KeepsExplained
    <2>3. calls' = calls
      BY <1>9 DEF GenerateReceipt
    <2> QED
      BY <2>1, <2>2, <2>3, ExplainedCalls DEF Explained
  <1>17. ASSUME NEW i \in Intents, NEW d \in Deadlines, ApprovalClock(i, d)
        PROVE  Explained'
    <2>1. \A j \in Intents : ExplainedRecord(intents[j])'
      BY <1>17 DEF ApprovalClock
    <2>2. \A j \in Intents : KeepsExplained(j)
      BY <1>17 DEF ApprovalClock, KeepsExplained
    <2>3. calls' = calls
      BY <1>17 DEF ApprovalClock
    <2> QED
      BY <2>1, <2>2, <2>3, ExplainedCalls DEF Explained
  <1>18. CASE TokenStoreStep
    <2>1. \A j \in Intents : ExplainedRecord(intents[j])'
      BY <1>18 DEF TokenStoreStep
    <2>2. \A j \in Intents : KeepsExplained(j)
      BY <1>18 DEF TokenStoreStep, KeepsExplained
    <2>3. calls' = calls
      BY <1>18 DEF TokenStoreStep
    <2> QED
      BY <2>1, <2>2, <2>3, ExplainedCalls DEF Explained
  <1>21. ASSUME NEW i \in Intents, NEW p \in Principals \cup {NoPrincipal}, Announce(i, p)
        PROVE  Explained'
    <2>1. \A j \in Intents : ExplainedRecord(intents[j])'
      BY <1>21 DEF Announce, Absent, NoAuthorization
    <2>2. \A j \in Intents : KeepsExplained(j)
      BY <1>21 DEF Announce, KeepsExplained, Absent, NoAuthorization
    <2>3. calls' = calls
      BY <1>21 DEF Announce
    <2> QED
      BY <2>1, <2>2, <2>3, ExplainedCalls DEF Explained
  <1>3. ASSUME NEW i \in Intents, NEW s \in Surfaces, NEW p \in Principals,
               NEW d \in Decisions, NEW exp \in Expiring, Authorize(s, i, p, d, exp)
        PROVE  Explained'
    <2>1. PICK x \in Decisions, q \in Principals \cup {NoPrincipal} : Recorded(i, x, q)
      BY <1>3, AuthorizeEffect
    <2> QED
      BY <1>3, <2>1, ExplainedRecorded DEF Authorize
  <1>4. ASSUME NEW i \in Intents, NEW c \in Calls, NEW p \in Principals,
               NEW d \in Decisions, ApprovalBegin(c, i, p, d)
        PROVE  Explained'
    BY <1>4 DEF ApprovalBegin, Explained, ExplainedCall
  <1>10. ASSUME NEW i \in Intents, NEW c \in Calls, NEW t \in Tokens, ExecuteAction(c, i, t)
        PROVE  Explained'
    <2>1. \A j \in Intents : ExplainedRecord(intents[j])'
      BY <1>10 DEF ExecuteAction
    <2>2. \A j \in Intents : KeepsExplained(j)
      BY <1>10 DEF ExecuteAction, KeepsExplained
    <2>3. \A x \in Calls : x # c => calls'[x] = calls[x]
      BY <1>10 DEF ExecuteAction
    <2>4. calls'[c].intent = i /\ calls'[c].at = "sending"
      BY <1>10 DEF ExecuteAction, IdleCall
    <2>5. ExplainedCall(c)'
      BY <1>10, <2>4 DEF ExecuteAction, ExplainedCall
    <2>6. \A x \in Calls : x # c => ExplainedCall(x)'
      BY <2>2, <2>3, CallsKnow DEF KeepsExplained, ExplainedCall
    <2> QED
      BY <2>1, <2>5, <2>6 DEF Explained
  <1>11. ASSUME NEW c \in Calls, ApprovalLookup(c)
        PROVE  Explained'
    BY <1>11 DEF ApprovalLookup, Explained, ExplainedCall
  <1>12. ASSUME NEW c \in Calls, ApprovalInsert(c)
        PROVE  Explained'
    BY <1>12 DEF ApprovalInsert, Explained, ExplainedCall
  <1>13. ASSUME NEW c \in Calls, ApprovalAbandoned(c)
        PROVE  Explained'
    BY <1>13, CallsKnow DEF ApprovalAbandoned, IdleCall, Explained, ExplainedCall
  <1>14. ASSUME NEW c \in Calls, ApprovalRecord(c)
        PROVE  Explained'
    <2>1. intents[calls[c].intent].governance = "REVIEW"
      BY <1>14 DEF ApprovalRecord, ExplainedCall
    <2> QED
      BY <1>14, <2>1, VoteEffect, ExplainedRecorded
  <1>15. ASSUME NEW c \in Calls, SendCompletes(c)
        PROVE  Explained'
    <2> DEFINE i == calls[c].intent
    <2>1. i \in Intents /\ LetOutRecord(intents[i])
      BY <1>15, CallsKnow DEF SendCompletes, ExplainedCall
    <2>2. DecisionInForce(i) = "unknown" <=> intents[i].governance = "AUTO_APPROVE"
      BY <2>1 DEF DecisionInForce, Authorizations, Decisions
    <2>3. \A j \in Intents : ExplainedRecord(intents[j])'
      BY <1>15, <2>1, <2>2 DEF SendCompletes
    <2>4. \A j \in Intents : KeepsExplained(j)
      BY <1>15, <2>1 DEF SendCompletes, KeepsExplained
    <2>5. calls' = [calls EXCEPT ![c] = IdleCall]
      BY <1>15 DEF SendCompletes
    <2> QED
      BY <2>3, <2>4, <2>5, ExplainedCalls DEF Explained
  <1>16. ASSUME NEW c \in Calls, SendFails(c)
        PROVE  Explained'
    <2> DEFINE i == calls[c].intent
    <2>1. i \in Intents /\ LetOutRecord(intents[i])
      BY <1>16, CallsKnow DEF SendFails, ExplainedCall
    <2>3. \A j \in Intents : ExplainedRecord(intents[j])'
      BY <1>16, <2>1 DEF SendFails
    <2>4. \A j \in Intents : KeepsExplained(j)
      BY <1>16, <2>1 DEF SendFails, KeepsExplained
    <2>5. calls' = [calls EXCEPT ![c] = IdleCall]
      BY <1>16 DEF SendFails
    <2> QED
      BY <2>3, <2>4, <2>5, ExplainedCalls DEF Explained
  <1>19. CASE Restart
    <2>1. \A j \in Intents : ExplainedRecord(intents[j])'
      BY <1>19 DEF Restart
    <2>2. \A x \in Calls : calls'[x].at = "idle"
      BY <1>19 DEF Restart, IdleCall
    <2> QED
      BY <2>1, <2>2 DEF Explained, ExplainedCall
  <1>20. CASE UNCHANGED vars
    BY <1>20 DEF vars, Explained, ExplainedCall
  <1> HIDE <1>a, <1>b
  <1> QED
    BY <1>1, <1>2, <1>3, <1>4, <1>5, <1>6, <1>7, <1>8, <1>9, <1>10, <1>11, <1>12,
       <1>13, <1>14, <1>15, <1>16, <1>17, <1>18, <1>19, <1>20, <1>21 DEF Next, Serve, Request, Resume

\* Only an intent that was let out is recorded as executed.
LEMMA ExecutedWasLetOut ==
    ASSUME TypeOK, Explained, Serve, NEW i \in Intents,
           tally'[i].executed > tally[i].executed
    PROVE  LetOutRecord(intents[i])
  <1>a. tally[i] \in Tally /\ intents[i] \in IntentRecord /\ ExplainedRecord(intents[i])
    BY DEF TypeOK, Explained
  <1>n. ~(tally[i].executed > tally[i].executed)
    BY <1>a DEF Tally
  <1>o. /\ [tally[i] EXCEPT !.granted = @ + 1].executed = tally[i].executed
        /\ [tally[i] EXCEPT !.dispatched = @ + 1].executed = tally[i].executed
        /\ [tally[i] EXCEPT !.receipted = @ + 1].executed = tally[i].executed
        /\ [tally[i] EXCEPT !.unexecuted = @ + 1].executed = tally[i].executed
    BY <1>a DEF Tally
  <1>1. ASSUME NEW j \in Intents, NEW t \in Tokens \cup {NoToken}, ExecuteConfirm(j, t)
        PROVE  LetOutRecord(intents[i])
    BY <1>1, <1>a, <1>n DEF ExecuteConfirm, TypeOK, ExplainedRecord, LetOutRecord, IntentRecord
  <1>2. ASSUME NEW c \in Calls, SendCompletes(c)
        PROVE  LetOutRecord(intents[i])
    BY <1>2, <1>n, CallsKnow DEF SendCompletes, TypeOK, Explained, ExplainedCall
  <1>3. ASSUME \/ tally' = tally
               \/ \E j \in Intents : \/ tally' = [tally EXCEPT ![j].granted = @ + 1]
                                    \/ tally' = [tally EXCEPT ![j].dispatched = @ + 1]
                                    \/ tally' = [tally EXCEPT ![j].receipted = @ + 1]
                                    \/ tally' = [tally EXCEPT ![j].unexecuted = @ + 1]
        PROVE  FALSE
    BY <1>3, <1>n, <1>o DEF TypeOK
  <1>4. ASSUME NEW j \in Intents, Request(j)
        PROVE  LetOutRecord(intents[i])
    BY <1>1, <1>3, <1>4 DEF Request, Submit, Announce, Govern, Authorize, RefuseSelfApproval,
       RecordAuthorization, ApprovalBegin, ExpireAuthorization, Execute, ExecuteConfirmExpired,
       GenerateReceipt, ExecuteAction
  <1>5. ASSUME NEW c \in Calls, Resume(c)
        PROVE  LetOutRecord(intents[i])
    BY <1>2, <1>3, <1>5, CallsKnow DEF Resume, ApprovalLookup, ApprovalInsert, ApprovalRecord,
       RecordAuthorization, ApprovalAbandoned, SendFails
  <1>6. CASE \E j \in Intents, d \in Deadlines : ApprovalClock(j, d)
    BY <1>3, <1>6 DEF ApprovalClock
  <1>7. CASE TokenStoreStep
    BY <1>3, <1>7 DEF TokenStoreStep
  <1> QED
    BY <1>4, <1>5, <1>6, <1>7 DEF Serve

\* The rows a handler writes.
LEMMA AppendedRows ==
    ASSUME RecoveryTypeOK, Work, NEW i \in Intents, NEW r \in Had(i)'
    PROVE  \/ r \in Had(i)
           \/ r = Row(intents'[i])
           \/ r = ExecutedRow(i) /\ tally'[i].executed > tally[i].executed
  <1>1. TypeOK /\ TypeOK'
    BY WorkIsNext, NextTyped DEF RecoveryTypeOK
  <1> DEFINE a == written[i]  b == RowsWritten(i)
  <1>2. a \in Seq(Rows) /\ b \in Seq(Rows)
    BY <1>1, WrittenTyped DEF RecoveryTypeOK
  <1>3. written'[i] = a \o b
    BY DEF Work
  <1>4. /\ a \o b \in Seq(Rows) /\ Len(a \o b) = Len(a) + Len(b)
        /\ Len(a) \in Nat /\ Len(b) \in Nat
        /\ \A n \in 1..Len(a) : (a \o b)[n] = a[n]
        /\ \A n \in 1..Len(b) : (a \o b)[Len(a) + n] = b[n]
    <2> HIDE DEF a, b
    <2> QED
      BY <1>2, ConcatProperties
  <1>5. PICK n \in DOMAIN (a \o b) : r = (a \o b)[n]
    BY <1>3 DEF Had
  <1>6. CASE n \in 1..Len(a)
    BY <1>2, <1>4, <1>5, <1>6 DEF Had
  <1>7. CASE n \notin 1..Len(a)
    <2>1. n \in 1..Len(a \o b)
      <3> HIDE DEF a, b
      <3> QED
        BY <1>4, <1>5
    <2>2. PICK m \in 1..Len(b) : r = b[m]
      <3> HIDE DEF a, b
      <3>1. n - Len(a) \in 1..Len(b)
        BY <1>4, <1>7, <2>1
      <3>2. Len(a) + (n - Len(a)) = n
        BY <1>4, <2>1
      <3> QED
        BY <1>4, <1>5, <3>1, <3>2
    <2> DEFINE x == ExecutedRow(i)  y == Row(intents'[i])
    <2>3. /\ Len(<<>>) = 0
          /\ Len(<<y>>) = 1 /\ <<y>>[1] = y
          /\ Len(<<x, y, y>>) = 3
          /\ <<x, y, y>>[1] = x /\ <<x, y, y>>[2] = y /\ <<x, y, y>>[3] = y
      OBVIOUS
    <2>4. \/ b = <<>>
          \/ b = <<y>>
          \/ b = <<x, y, y>> /\ tally'[i].executed > tally[i].executed
      BY DEF RowsWritten
    <2> HIDE DEF b, x, y
    <2>5. r = y \/ (r = x /\ tally'[i].executed > tally[i].executed)
      BY <2>2, <2>3, <2>4
    <2> QED
      BY <2>5 DEF x, y
  <1> QED
    BY <1>6, <1>7

LEMMA RowExplained ==
    ASSUME NEW r \in IntentRecord, ExplainedRecord(r)
    PROVE  ExplainedRecord(Row(r))
  BY DEF Row, IntentRecord, ExplainedRecord, LetOutRecord

LEMMA ExecutedRowExplained ==
    ASSUME TypeOK, NEW i \in Intents, ExplainedRecord(intents[i]), LetOutRecord(intents[i])
    PROVE  ExplainedRecord(ExecutedRow(i))
  <1>1. intents[i] \in IntentRecord /\ Row(intents[i]) \in IntentRecord
    BY RowTyped DEF TypeOK, Rows
  <1>2. ExplainedRecord(Row(intents[i])) /\ LetOutRecord(Row(intents[i]))
    BY <1>1, RowExplained DEF Row, IntentRecord, LetOutRecord
  <1>3. /\ ExecutedRow(i).status = "executed"
        /\ ExecutedRow(i).governance = Row(intents[i]).governance
        /\ ExecutedRow(i).authorization = Row(intents[i]).authorization
        /\ ExecutedRow(i).receipt = Row(intents[i]).receipt
    BY <1>1 DEF ExecutedRow, IntentRecord
  <1> QED
    BY <1>1, <1>2, <1>3 DEF ExplainedRecord, LetOutRecord, IntentRecord

\* Every row ever written explains itself.
WrittenExplained == \A i \in Intents : \A r \in Had(i) : ExplainedRecord(r)

LEMMA RecoveryExplainedStep ==
    ASSUME RecoveryTypeOK, TableHad, Explained, WrittenExplained, [RecoveryNext]_recoveryVars
    PROVE  Explained' /\ WrittenExplained'
  <1>t. TypeOK
    BY DEF RecoveryTypeOK
  <1>1. CASE Work
    <2>1. TypeOK' /\ Explained'
      BY <1>1, <1>t, WorkIsNext, NextTyped, ExplainedStep
    <2>2. ASSUME NEW i \in Intents, NEW r \in Had(i)'
          PROVE  ExplainedRecord(r)
      <3>1. CASE r \in Had(i)
        BY <3>1 DEF WrittenExplained
      <3>2. CASE r = Row(intents'[i])
        BY <2>1, <3>2, RowExplained DEF Explained, TypeOK
      <3>3. CASE r = ExecutedRow(i) /\ tally'[i].executed > tally[i].executed
        <4>1. LetOutRecord(intents[i])
          BY <1>1, <1>t, <3>3, ExecutedWasLetOut DEF Work
        <4> QED
          BY <1>t, <3>3, <4>1, ExecutedRowExplained DEF Explained
      <3> QED
        BY <1>1, <3>1, <3>2, <3>3, AppendedRows
    <2> QED
      BY <2>1, <2>2 DEF WrittenExplained
  <1>2. CASE Recover
    <2>1. \A i \in Intents : Had(i)' = Had(i)
      BY <1>2 DEF Recover, Had
    <2>2. ASSUME NEW i \in Intents PROVE ExplainedRecord(intents'[i])
      <3>1. ExplainedRecord(table[i])
        BY DEF TableHad, WrittenExplained, Absent, NoAuthorization, ExplainedRecord
      <3>2. table[i] \in IntentRecord /\ intents'[i] = Reloaded(i)
        BY <1>2 DEF Recover, RecoveryTypeOK, Rows
      <3> QED
        BY <3>1, <3>2 DEF Reloaded, IntentRecord, ExplainedRecord, LetOutRecord
    <2>3. \A c \in Calls : ExplainedCall(c)'
      BY <1>2 DEF Recover, ExplainedCall, IdleCall
    <2> QED
      BY <2>1, <2>2, <2>3 DEF Explained, WrittenExplained
  <1>3. CASE UNCHANGED <<vars, written>>
    BY <1>3 DEF vars, Explained, ExplainedCall, WrittenExplained, Had
  <1> QED
    BY <1>1, <1>2, <1>3 DEF RecoveryNext, Commit, Lose, recoveryVars

(***************************************************************************)
(* The same of the proposer.                                               *)
(***************************************************************************)
ProposedRecord(r) ==
    /\ r.principal_id = r.submitter
    /\ r.status = "absent" => r.authorization.decision = "none"
    /\ r.submitter # NoPrincipal /\ r.authorization.decision = "approved"
          => r.authorization.by # r.submitter

WrittenProposed == \A i \in Intents : \A r \in Had(i) : ProposedRecord(r)

LEMMA RecoveryProposerStep ==
    ASSUME RecoveryTypeOK, TableHad, ProposerKept, WrittenProposed,
           [RecoveryNext]_recoveryVars
    PROVE  ProposerKept' /\ WrittenProposed'
  <1>t. TypeOK
    BY DEF RecoveryTypeOK
  <1>r. \A i \in Intents : ProposerOfIntent(i) <=> ProposedRecord(intents[i])
    BY DEF ProposerOfIntent, ProposedRecord
  <1>1. CASE Work
    <2>1. TypeOK' /\ ProposerKept'
      BY <1>1, <1>t, WorkIsNext, NextTyped, ProposerStep
    <2>2. ASSUME NEW i \in Intents, NEW r \in Had(i)'
          PROVE  ProposedRecord(r)
      <3>1. CASE r \in Had(i)
        BY <3>1 DEF WrittenProposed
      <3>2. CASE r = Row(intents'[i])
        <4>1. intents'[i] \in IntentRecord /\ ProposerOfIntent(i)'
          BY <2>1 DEF TypeOK, ProposerKept
        <4>2. ProposedRecord(intents'[i])
          BY <4>1 DEF ProposerOfIntent, ProposedRecord
        <4> QED
          BY <3>2, <4>1, <4>2 DEF Row, IntentRecord, ProposedRecord
      <3>3. CASE r = ExecutedRow(i) /\ tally'[i].executed > tally[i].executed
        <4>1. intents[i] \in IntentRecord
          BY <1>t DEF TypeOK
        <4>2. ProposedRecord(intents[i])
          BY <1>r DEF ProposerKept
        <4>3. Row(intents[i]) \in IntentRecord
          BY <4>1, RowTyped DEF Rows
        <4>4. /\ r.status = "executed"
              /\ r.authorization = Row(intents[i]).authorization
              /\ r.principal_id = Row(intents[i]).principal_id
              /\ r.submitter = Row(intents[i]).submitter
          BY <3>3, <4>3 DEF ExecutedRow, IntentRecord
        <4>5. /\ Row(intents[i]).authorization = intents[i].authorization
              /\ Row(intents[i]).principal_id = intents[i].principal_id
              /\ Row(intents[i]).submitter = intents[i].submitter
          BY <4>1 DEF Row, IntentRecord
        <4> QED
          BY <4>1, <4>2, <4>4, <4>5 DEF ProposedRecord
      <3> QED
        BY <1>1, <3>1, <3>2, <3>3, AppendedRows
    <2> QED
      BY <2>1, <2>2 DEF WrittenProposed
  <1>2. CASE Recover
    <2>1. \A i \in Intents : Had(i)' = Had(i)
      BY <1>2 DEF Recover, Had
    <2>2. ASSUME NEW i \in Intents PROVE ProposerOfIntent(i)'
      <3>1. ProposedRecord(table[i])
        BY DEF TableHad, WrittenProposed, Absent, NoAuthorization, ProposedRecord
      <3>2. table[i] \in IntentRecord /\ intents'[i] = Reloaded(i)
        BY <1>2 DEF Recover, RecoveryTypeOK, Rows
      <3>3. ProposedRecord(intents'[i])
        BY <3>1, <3>2 DEF Reloaded, IntentRecord, ProposedRecord
      <3> QED
        BY <3>3 DEF ProposerOfIntent, ProposedRecord
    <2>3. \A c \in Calls : NotProposersCall(c)'
      BY <1>2 DEF Recover, NotProposersCall, IdleCall
    <2> QED
      BY <2>1, <2>2, <2>3 DEF ProposerKept, WrittenProposed
  <1>3. CASE UNCHANGED <<vars, written>>
    BY <1>3 DEF vars, ProposerKept, ProposerOfIntent, NotProposersCall, WrittenProposed, Had
  <1> QED
    BY <1>1, <1>2, <1>3 DEF RecoveryNext, Commit, Lose, recoveryVars

(***************************************************************************)
(* The theorems.                                                           *)
(***************************************************************************)

\* Type correctness of the gateway with its table.
THEOREM RecoveryTypeCorrect == RecoverySpec => []RecoveryTypeOK
  BY RecoveryInitTyped, RecoveryNextTyped, PTL DEF RecoverySpec

\* However the statements are lost, delayed and reordered, each restart brings back
\* at most one approval of an intent that was used before.
THEOREM RestartRepeatsOnce == RecoverySpec => []RepeatsBounded
  <1>1. RecoveryInit => RepeatsBounded
    <2> SUFFICES ASSUME RecoveryInit, NEW i \in Intents
                 PROVE  tally[i].dispatched + Holds(i, "authorized") <= tally[i].granted + restarts
      BY DEF RepeatsBounded
    <2>1. Holds(i, "authorized") = 0
      BY DEF RecoveryInit, Init, Absent, Holds
    <2>2. tally[i].dispatched = 0 /\ tally[i].granted = 0 /\ restarts = 0
      BY DEF RecoveryInit, Init, NothingCounted
    <2> QED
      BY <2>1, <2>2
  <1> QED
    BY <1>1, RepeatsStep, RecoveryTypeCorrect, PTL DEF RecoverySpec

\* The same for receipts of recorded executions.
THEOREM RestartReceiptsOnce == RecoverySpec => []ReceiptRepeatsBounded
  <1>1. RecoveryInit => ReceiptRepeatsBounded
    <2> SUFFICES ASSUME RecoveryInit, NEW i \in Intents
                 PROVE  tally[i].receipted + Holds(i, "executed") <= tally[i].executed + restarts
      BY DEF ReceiptRepeatsBounded
    <2>1. Holds(i, "executed") = 0
      BY DEF RecoveryInit, Init, Absent, Holds
    <2>2. tally[i].receipted = 0 /\ tally[i].executed = 0 /\ restarts = 0
      BY DEF RecoveryInit, Init, NothingCounted
    <2> QED
      BY <2>1, <2>2
  <1> QED
    BY <1>1, ReceiptRepeatsStep, RecoveryTypeCorrect, PTL DEF RecoverySpec

\* A restart on a stale table never lets an execution be recorded that was not let
\* out: the tokens and the requests that could record it died with the process.
THEOREM RecoveryFlightAccounted == RecoverySpec => []InFlightAccounted
  <1>1. RecoveryInit => InFlightAccounted
    <2> SUFFICES ASSUME RecoveryInit, NEW i \in Intents PROVE Accounted(i)
      BY DEF InFlightAccounted
    <2>1. LiveTokens(i) = {} /\ OpenSends(i) = {}
      BY DEF RecoveryInit, Init, TokenInit, Unissued, IdleCall, LiveTokens, OpenSends
    <2>2. tally[i].executed = 0 /\ tally[i].dispatched = 0
      BY DEF RecoveryInit, Init, NothingCounted
    <2> QED
      BY <2>1, <2>2, FS_EmptySet DEF Accounted
  <1> QED
    BY <1>1, RecoveryInFlightStep, RecoveryTypeCorrect, PTL DEF RecoverySpec

\* What is reloaded is a version the intent had, with all its columns of that time.
THEOREM HistoryKept == RecoverySpec => KeepsRecordHistory
  <1>1. RecoveryInit => TableHad /\ Versions!Init
    <2> SUFFICES ASSUME RecoveryInit PROVE TableHad /\ Versions!Init
      OBVIOUS
    <2>1. Row(Absent) = Absent
      <3>1. Row([Absent EXCEPT !.passed = {}]) = Absent
        BY AbsentRow, RowOfRow
      <3>2. Absent \in IntentRecord /\ Absent.passed = {}
        BY AbsentRow DEF Rows
      <3> QED
        BY <3>1, <3>2 DEF IntentRecord
    <2>2. \A i \in Intents : {written[i][n] : n \in DOMAIN written[i]} = {}
      <3>1. DOMAIN <<>> = {}
        OBVIOUS
      <3> QED
        BY <3>1 DEF RecoveryInit
    <2> QED
      BY <2>1, <2>2 DEF RecoveryInit, Init, TableHad, Versions!Init
  <1>2. RecoveryTypeOK /\ TableHad /\ [RecoveryNext]_recoveryVars =>
          [Versions!Next]_<<[i \in Intents |-> Row(intents[i])],
                            [i \in Intents |-> {written[i][n] : n \in DOMAIN written[i]}]>>
    BY StepKeepsHistory
  <1> QED
    BY <1>1, <1>2, TableStep, RecoveryTypeCorrect, PTL
       DEF RecoverySpec, KeepsRecordHistory, Versions!Spec

LEMMA NothingHad == RecoveryInit => \A i \in Intents : Had(i) = {}
  <1>1. DOMAIN <<>> = {}
    OBVIOUS
  <1> QED
    BY <1>1 DEF RecoveryInit, Had

\* Every version of an intent tells who decided (receipts of POST /receipt and of POST
\* /execute-action, intents table of intents.mjs).
THEOREM VersionsExplained == RecoverySpec => [](Explained /\ WrittenExplained)
  <1>1. RecoveryInit => TableHad /\ Explained /\ WrittenExplained
    <2> SUFFICES ASSUME RecoveryInit PROVE TableHad /\ Explained /\ WrittenExplained
      OBVIOUS
    <2>1. \A i \in Intents : intents[i] = Absent /\ table[i] = Absent /\ Had(i) = {}
      BY NothingHad DEF RecoveryInit, Init
    <2>2. \A c \in Calls : calls[c].at = "idle"
      BY DEF RecoveryInit, Init, IdleCall
    <2>3. ExplainedRecord(Absent)
      BY DEF Absent, NoAuthorization, ExplainedRecord
    <2> QED
      BY <2>1, <2>2, <2>3 DEF TableHad, WrittenExplained, Explained, ExplainedCall
  <1>2. /\ RecoveryTypeOK /\ TableHad /\ Explained /\ WrittenExplained
        /\ [RecoveryNext]_recoveryVars
        => TableHad' /\ Explained' /\ WrittenExplained'
    BY TableStep, RecoveryExplainedStep
  <1> QED
    BY <1>1, <1>2, RecoveryTypeCorrect, PTL DEF RecoverySpec

\* A receipt carries no decision exactly when the policy engine decided alone, even if
\* the verdict or the decision it was generated from was brought back by a restart.
THEOREM RecoveryDeciderNamed == RecoverySpec => []ReceiptNamesDecider
  <1>1. Explained => ReceiptNamesDecider
    BY DEF Explained, ExplainedRecord, ReceiptNamesDecider
  <1> QED
    BY <1>1, VersionsExplained, PTL

\* No restart puts in force the approval of an intent by the principal it records as its
\* proposer (POST /authorize, POST /approvals, loadIntents of intents.mjs).
THEOREM RecoveryProposersNeverApprove == RecoverySpec => []NoSelfApproval
  <1>1. RecoveryInit => TableHad /\ ProposerKept /\ WrittenProposed
    <2> SUFFICES ASSUME RecoveryInit PROVE TableHad /\ ProposerKept /\ WrittenProposed
      OBVIOUS
    <2>1. \A i \in Intents : intents[i] = Absent /\ table[i] = Absent /\ Had(i) = {}
      BY NothingHad DEF RecoveryInit, Init
    <2>2. \A c \in Calls : calls[c].at = "idle"
      BY DEF RecoveryInit, Init, IdleCall
    <2>3. /\ Absent.principal_id = NoPrincipal /\ Absent.submitter = NoPrincipal
          /\ Absent.authorization.decision = "none"
      BY DEF Absent, NoAuthorization
    <2> QED
      BY <2>1, <2>2, <2>3 DEF TableHad, WrittenProposed, ProposerKept, ProposerOfIntent,
                              NotProposersCall
  <1>2. /\ RecoveryTypeOK /\ TableHad /\ ProposerKept /\ WrittenProposed
        /\ [RecoveryNext]_recoveryVars
        => TableHad' /\ ProposerKept' /\ WrittenProposed'
    BY TableStep, RecoveryProposerStep
  <1>3. ProposerKept => NoSelfApproval
    BY DEF ProposerKept, ProposerOfIntent, NoSelfApproval
  <1> QED
    BY <1>1, <1>2, <1>3, RecoveryTypeCorrect, PTL DEF RecoverySpec

\* However stale the table, no execution is recorded that was not let out.
THEOREM RecoveryExecutionsDispatched == RecoverySpec => []EachExecutionDispatched
  <1>1. TypeOK /\ InFlightAccounted => EachExecutionDispatched
    BY FlightBoundsExecuted
  <1>2. RecoveryTypeOK => TypeOK
    BY DEF RecoveryTypeOK
  <1> QED
    BY <1>1, <1>2, RecoveryTypeCorrect, RecoveryFlightAccounted, PTL

\* What a step of the gateway with its table does to the tokens.
LEMMA RecoveryTokenMoves == [RecoveryNext]_recoveryVars => TokenMoves
  BY TokenSteps, WorkIsNext, StatementsKeepVars DEF Recover, TokenMoves, vars

\* A reloaded intent holds no token, and no token that was issued before the restart is
\* ever burned for it.
THEOREM RecoverySupersededDead == RecoverySpec => SupersededTokenIsDead
  <1>1. RecoveryTypeOK /\ [RecoveryNext]_recoveryVars =>
          [\A t \in Tokens :
             tokens[t].status = "ACTIVE" /\ tokens'[t].status = "USED" =>
                 intents[tokens[t].intent].token = t]_vars
    BY BurnIsOfStored, RecoveryTokenMoves DEF RecoveryTypeOK
  <1> QED
    BY <1>1, RecoveryTypeCorrect, PTL DEF RecoverySpec, SupersededTokenIsDead

\* The tokens keep their promise through restarts on a lagging table.
THEOREM RecoveryPromiseKept == RecoverySpec => KeepsTokenPromise
  <1>1. RecoveryInit => Promise!Init
    BY DEF RecoveryInit, Init, TokenInit, Unissued, LifeOf, Promise!Init
  <1>2. RecoveryTypeOK /\ [RecoveryNext]_recoveryVars =>
          [Promise!Next]_<<[t \in Tokens |-> LifeOf(t)], [t \in Tokens |-> tokens[t].intent]>>
    BY StepKeepsPromise, RecoveryTokenMoves DEF RecoveryTypeOK
  <1> QED
    BY <1>1, <1>2, RecoveryTypeCorrect, PTL DEF RecoverySpec, KeepsTokenPromise, Promise!Spec

(***************************************************************************)
(* IntentPipeline takes the table to be up to date when the gateway starts. *)
(* That is exact where the statements of an intent are committed in the     *)
(* order in which they were sent, none is lost, and a restart finds none    *)
(* under way: then the gateway with its table implements IntentPipeline.    *)
(***************************************************************************)
StatementsSettle ==
    /\ \A i \in Intents : \A n \in pending[i] :
          Commit(i, n) \/ Lose(i, n) => Commit(i, n) /\ \A k \in pending[i] : n <= k
    /\ Recover => \A i \in Intents : pending[i] = {}

\* The first m statements are committed, and the table has the row of the m-th.
CommittedUpTo(i, m) ==
    /\ pending[i] = (m + 1)..Len(written[i])
    /\ table[i] = IF m = 0 THEN Absent ELSE written[i][m]

LastWritten(i) == IF written[i] = <<>> THEN Absent ELSE written[i][Len(written[i])]

TableFollows ==
    \A i \in Intents :
        /\ \E m \in 0..Len(written[i]) : CommittedUpTo(i, m)
        /\ Row(intents[i]) = LastWritten(i)
        /\ \A n \in DOMAIN written[i] : written[i][n].status # "absent"

\* Nothing is executed, or recorded as executed, that is not there.
LEMMA ExecutedIsThere ==
    ASSUME TypeOK, Explained, NEW i \in Intents, LetOutRecord(intents[i])
    PROVE  intents[i].status # "absent"
  BY DEF TypeOK, Explained, ExplainedRecord, LetOutRecord, IntentRecord

\* No handler makes an intent absent.
LEMMA NoneVanishes ==
    ASSUME TypeOK, Serve, NEW i \in Intents
    PROVE  intents'[i] = intents[i] \/ intents'[i].status # "absent"
  <1>1. ASSUME NEW j \in Intents, NEW new, UpdateIntent(j, new), new.status # "absent"
        PROVE  intents'[i] = intents[i] \/ intents'[i].status # "absent"
    BY <1>1 DEF UpdateIntent, TypeOK
  <1>r. \A j \in Intents : intents[j] \in IntentRecord
    BY DEF TypeOK
  <1>a. ASSUME NEW j \in Intents, NEW d, NEW p, NEW x, RecordAuthorization(j, d, p, x)
        PROVE  intents'[i] = intents[i] \/ intents'[i].status # "absent"
    <2> DEFINE new == [intents[j] EXCEPT
                         !.status = IF d = "approved" THEN "authorized" ELSE "denied",
                         !.authorization = [decision |-> d, by |-> p, expires |-> x],
                         !.passed = {}]
    <2>1. UpdateIntent(j, new)
      BY <1>a DEF RecordAuthorization
    <2>2. new.status # "absent"
      BY <1>r DEF IntentRecord
    <2> QED
      BY <1>1, <2>1, <2>2
  <1>2. ASSUME NEW j \in Intents, Request(j)
        PROVE  intents'[i] = intents[i] \/ intents'[i].status # "absent"
    <2>1. CASE \E v \in {"AUTO_APPROVE", "AUTO_DENY", "REVIEW"} : Govern(j, v)
      BY <1>1, <1>r, <2>1 DEF Govern, IntentRecord
    <2>2. CASE \/ \E s \in Surfaces, p, agent \in Principals : Submit(s, j, p, agent)
               \/ \E p \in Principals \cup {NoPrincipal} : Announce(j, p)
      BY <1>1, <2>2 DEF Submit, Announce, Absent
    <2>3. CASE \E s \in Surfaces, p \in Principals, d \in Decisions, exp \in Expiring :
                  Authorize(s, j, p, d, exp)
      <3>1. ASSUME NEW p, RefuseSelfApproval(j, p)
            PROVE  intents'[i] = intents[i] \/ intents'[i].status # "absent"
        BY <1>r, <3>1 DEF RefuseSelfApproval, UpdateIntent, TypeOK, IntentRecord
      <3> QED
        BY <1>a, <2>3, <3>1 DEF Authorize
    <2>4. CASE \E c \in Calls, p \in Principals, d \in Decisions : ApprovalBegin(c, j, p, d)
      BY <2>4 DEF ApprovalBegin
    <2>5. CASE \/ \E s \in Surfaces : ExpireAuthorization(s, j)
               \/ \E s \in Surfaces, t \in Tokens : Execute(s, j, t)
               \/ GenerateReceipt(j)
      BY <1>1, <1>r, <2>5 DEF ExpireAuthorization, Execute, GenerateReceipt, IntentRecord
    <2>6. CASE \/ \E t \in Tokens \cup {NoToken} : ExecuteConfirm(j, t)
               \/ \E t \in Tokens \cup {NoToken} : ExecuteConfirmExpired(j, t)
      BY <1>1, <1>r, <2>6 DEF ExecuteConfirm, ExecuteConfirmExpired, IntentRecord
    <2>7. CASE \E c \in Calls, t \in Tokens : ExecuteAction(c, j, t)
      BY <1>1, <1>r, <2>7 DEF ExecuteAction, IntentRecord
    <2> QED
      BY <1>2, <2>1, <2>2, <2>3, <2>4, <2>5, <2>6, <2>7 DEF Request
  <1>3. ASSUME NEW c \in Calls, Resume(c)
        PROVE  intents'[i] = intents[i] \/ intents'[i].status # "absent"
    <2>1. calls[c].at \in {"record", "sending"} => calls[c].intent \in Intents
      BY CallsKnow
    <2>2. CASE ApprovalRecord(c)
      BY <1>a, <2>1, <2>2 DEF ApprovalRecord
    <2> DEFINE j == calls[c].intent
               done == [intents[j] EXCEPT !.status = "receipted", !.execution = "done",
                                          !.receipt = DecisionInForce(j)]
               failed == [intents[j] EXCEPT !.status = "blocked", !.execution = "failed"]
    <2>3. CASE SendCompletes(c)
      <3>1. j \in Intents /\ UpdateIntent(j, done)
        BY <2>1, <2>3 DEF SendCompletes
      <3>2. done.status # "absent"
        BY <1>r, <3>1 DEF IntentRecord
      <3> HIDE DEF j, done
      <3> QED
        BY <1>1, <3>1, <3>2
    <2>4. CASE SendFails(c)
      <3>1. j \in Intents /\ UpdateIntent(j, failed)
        BY <2>1, <2>4 DEF SendFails
      <3>2. failed.status # "absent"
        BY <1>r, <3>1 DEF IntentRecord
      <3> HIDE DEF j, failed
      <3> QED
        BY <1>1, <3>1, <3>2
    <2> QED
      BY <1>3, <2>2, <2>3, <2>4 DEF Resume, ApprovalLookup, ApprovalInsert, ApprovalAbandoned
  <1>4. ASSUME NEW j \in Intents, NEW d \in Deadlines, ApprovalClock(j, d)
        PROVE  intents'[i] = intents[i] \/ intents'[i].status # "absent"
    <2>1. [intents[j] EXCEPT !.passed = intents[j].passed \cup {d}].status = "authorized"
      BY <1>r, <1>4 DEF ApprovalClock, IntentRecord
    <2> QED
      BY <1>1, <1>4, <2>1 DEF ApprovalClock
  <1> QED
    BY <1>2, <1>3, <1>4 DEF Serve, TokenStoreStep

\* The rows a handler sends: the last is the intent as the handler leaves it.
LEMMA LastRowSent ==
    ASSUME TypeOK, TypeOK', Explained, Serve, NEW i \in Intents, RowsWritten(i) # <<>>
    PROVE  /\ RowsWritten(i)[Len(RowsWritten(i))] = Row(intents'[i])
           /\ \A n \in 1..Len(RowsWritten(i)) : RowsWritten(i)[n].status # "absent"
  <1> DEFINE x == ExecutedRow(i)  y == Row(intents'[i])
  <1>1. intents[i] \in IntentRecord /\ intents'[i] \in IntentRecord
    BY DEF TypeOK
  <1>2. x.status = "executed"
    BY <1>1, RowTyped DEF ExecutedRow, Rows, IntentRecord
  <1>3. intents'[i] # intents[i] \/ tally'[i] # tally[i]
    BY WrittenTyped
  <1>4. intents'[i].status # "absent"
    <2>1. CASE intents'[i] # intents[i]
      BY <2>1, NoneVanishes
    <2>2. CASE intents'[i] = intents[i]
      <3>1. tally'[i].executed > tally[i].executed
        BY <2>2 DEF RowsWritten
      <3> QED
        BY <2>2, <3>1, ExecutedWasLetOut, ExecutedIsThere
    <2> QED
      BY <2>1, <2>2
  <1>5. y.status = intents'[i].status
    BY <1>1 DEF Row, IntentRecord
  <1>6. RowsWritten(i) = <<y>> \/ RowsWritten(i) = <<x, y, y>>
    BY DEF RowsWritten
  <1> HIDE DEF x, y
  <1>7. CASE RowsWritten(i) = <<y>>
    BY <1>4, <1>5, <1>7 DEF y
  <1>8. CASE RowsWritten(i) = <<x, y, y>>
    BY <1>2, <1>4, <1>5, <1>8 DEF y
  <1> QED
    BY <1>6, <1>7, <1>8

LEMMA WorkFollows ==
    ASSUME RecoveryTypeOK, Explained, TableFollows, Work
    PROVE  TableFollows'
  <1>1. TypeOK /\ TypeOK'
    BY WorkIsNext, NextTyped DEF RecoveryTypeOK
  <1> SUFFICES ASSUME NEW i \in Intents
               PROVE  /\ \E m \in 0..Len(written'[i]) : CommittedUpTo(i, m)'
                      /\ Row(intents'[i]) = LastWritten(i)'
                      /\ \A n \in DOMAIN written'[i] : written'[i][n].status # "absent"
    BY DEF TableFollows
  <1> DEFINE a == written[i]  b == RowsWritten(i)
  <1>2. a \in Seq(Rows) /\ b \in Seq(Rows)
    BY <1>1, WrittenTyped DEF RecoveryTypeOK
  <1>3. /\ written'[i] = a \o b /\ table'[i] = table[i]
        /\ pending'[i] = pending[i] \cup (Len(a) + 1)..Len(written'[i])
    BY DEF Work
  <1>4. PICK m \in 0..Len(a) : CommittedUpTo(i, m)
    BY DEF TableFollows
  <1>5. pending[i] = (m + 1)..Len(a) /\ table[i] = IF m = 0 THEN Absent ELSE a[m]
    BY <1>4 DEF CommittedUpTo
  <1>6. /\ Row(intents[i]) = IF a = <<>> THEN Absent ELSE a[Len(a)]
        /\ \A n \in DOMAIN a : a[n].status # "absent"
    BY DEF TableFollows, LastWritten
  <1>7. /\ b = <<>> => Row(intents'[i]) = Row(intents[i])
        /\ b # <<>> => /\ b[Len(b)] = Row(intents'[i])
                       /\ \A n \in 1..Len(b) : b[n].status # "absent"
    BY <1>1, WrittenTyped, LastRowSent DEF Work
  <1> HIDE DEF a, b
  <1>8. /\ Len(a \o b) = Len(a) + Len(b)
        /\ Len(a) \in Nat /\ Len(b) \in Nat
        /\ DOMAIN a = 1..Len(a) /\ DOMAIN (a \o b) = 1..Len(a \o b)
        /\ \A n \in 1..Len(a) : (a \o b)[n] = a[n]
        /\ \A n \in 1..Len(b) : (a \o b)[Len(a) + n] = b[n]
    BY <1>2, ConcatProperties
  <1>9. m \in 0..Len(a \o b) /\ CommittedUpTo(i, m)'
    <2>1. m \in 0..Len(a \o b) /\ (m # 0 => (a \o b)[m] = a[m])
      BY <1>8
    <2>2. pending'[i] = (m + 1)..Len(a \o b)
      BY <1>3, <1>5, <1>8
    <2> QED
      BY <1>3, <1>5, <2>1, <2>2 DEF CommittedUpTo
  <1>10. CASE b = <<>>
    <2>1. a \o b = a
      BY <1>2, <1>10, ConcatEmptySeq
    <2> QED
      BY <1>3, <1>6, <1>7, <1>9, <1>10, <2>1 DEF LastWritten
  <1>11. CASE b # <<>>
    <2>1. Len(b) \in 1..Len(b) /\ a \o b # <<>>
      BY <1>2, <1>8, <1>11
    <2>2. (a \o b)[Len(a \o b)] = Row(intents'[i])
      BY <1>7, <1>8, <1>11, <2>1
    <2>3. ASSUME NEW n \in DOMAIN (a \o b)
          PROVE  (a \o b)[n].status # "absent"
      <3>1. CASE n \in 1..Len(a)
        BY <1>6, <1>8, <3>1
      <3>2. CASE n \notin 1..Len(a)
        <4>1. n - Len(a) \in 1..Len(b) /\ Len(a) + (n - Len(a)) = n
          BY <1>8, <2>3, <3>2
        <4>2. (a \o b)[n] = b[n - Len(a)]
          BY <1>8, <4>1
        <4> QED
          BY <1>7, <1>11, <4>1, <4>2
      <3> QED
        BY <3>1, <3>2
    <2> QED
      BY <1>3, <1>9, <2>1, <2>2, <2>3 DEF LastWritten
  <1> QED
    BY <1>10, <1>11

LEMMA CommitFollows ==
    ASSUME RecoveryTypeOK, TableFollows, NEW j \in Intents, NEW n \in pending[j],
           Commit(j, n), \A k \in pending[j] : n <= k
    PROVE  TableFollows'
  <1> SUFFICES ASSUME NEW i \in Intents
               PROVE  \E m \in 0..Len(written[i]) : CommittedUpTo(i, m)'
    BY DEF TableFollows, Commit, vars, LastWritten
  <1>1. written' = written
    BY DEF Commit
  <1>2. PICK m \in 0..Len(written[i]) : CommittedUpTo(i, m)
    BY DEF TableFollows
  <1>3. CASE i # j
    <2>1. table'[i] = table[i] /\ pending'[i] = pending[i]
      BY <1>3 DEF Commit
    <2> QED
      BY <1>1, <1>2, <2>1 DEF CommittedUpTo
  <1>4. CASE i = j
    <2> DEFINE w == written[i]
    <2>1. /\ pending[i] = (m + 1)..Len(w) /\ table[i] = IF m = 0 THEN Absent ELSE w[m]
          /\ Len(w) \in Nat /\ DOMAIN w = 1..Len(w) /\ m \in 0..Len(w)
      BY <1>2 DEF CommittedUpTo, RecoveryTypeOK
    <2>2. \A k \in DOMAIN w : w[k].status # "absent"
      BY DEF TableFollows
    <2>3. /\ table'[i] = IF n = 1 \/ table[i] # Absent THEN w[n] ELSE Absent
          /\ pending'[i] = pending[i] \ {n}
      BY <1>4 DEF Commit, Committed, RecoveryTypeOK
    <2> HIDE DEF w
    <2>4. n = m + 1
      <3>1. n \in (m + 1)..Len(w)
        BY <1>4, <2>1
      <3>2. m + 1 \in pending[j]
        BY <1>4, <2>1, <3>1
      <3> QED
        BY <2>1, <3>1, <3>2
    <2>5. n \in 0..Len(w) /\ n # 0 /\ pending'[i] = (n + 1)..Len(w)
      BY <1>4, <2>1, <2>3, <2>4
    <2>6. n = 1 \/ table[i] # Absent
      <3>1. CASE m = 0
        BY <2>4, <3>1
      <3>2. CASE m # 0
        <4>1. m \in 1..Len(w)
          BY <2>1, <3>2
        <4>2. table[i].status # "absent"
          BY <2>1, <2>2, <3>2, <4>1
        <4> QED
          BY <4>2 DEF Absent
      <3> QED
        BY <3>1, <3>2
    <2>7. table'[i] = w[n]
      BY <2>3, <2>6
    <2> QED
      BY <1>1, <2>5, <2>7 DEF CommittedUpTo, w
  <1> QED
    BY <1>3, <1>4

\* A restart that finds nothing under way finds every intent as it is.
LEMMA RecoverFollows ==
    ASSUME RecoveryTypeOK, TableFollows, Recover, \A i \in Intents : pending[i] = {}
    PROVE  TableFollows' /\ Restart
  <1>1. ASSUME NEW i \in Intents
        PROVE  table[i] = Row(intents[i])
    <2>1. PICK m \in 0..Len(written[i]) : CommittedUpTo(i, m)
      BY DEF TableFollows
    <2>2. Len(written[i]) \in Nat /\ written[i] \in Seq(Rows)
      BY DEF RecoveryTypeOK
    <2>3. m = Len(written[i])
      <3>1. (m + 1)..Len(written[i]) = {}
        BY <2>1 DEF CommittedUpTo
      <3>2. ~(m + 1 <= Len(written[i]))
        BY <2>2, <3>1
      <3> QED
        BY <2>2, <3>2
    <2>4. m = 0 <=> written[i] = <<>>
      BY <2>2, <2>3, EmptySeq
    <2> QED
      BY <2>1, <2>3, <2>4 DEF CommittedUpTo, LastWritten, TableFollows
  <1>2. UNCHANGED <<table, written, pending>> /\ \A i \in Intents : intents'[i] = Reloaded(i)
    BY DEF Recover
  <1>3. ASSUME NEW i \in Intents
        PROVE  Reloaded(i) = [intents[i] EXCEPT !.token = NoToken]
               /\ Row(Reloaded(i)) = Row(intents[i])
    <2>1. intents[i] \in IntentRecord
      BY DEF RecoveryTypeOK, TypeOK
    <2>2. table[i] = Row(intents[i]) /\ Row(intents[i]).authorization = intents[i].authorization
      BY <1>1, <2>1 DEF Row, IntentRecord
    <2>3. Reloaded(i) = [Row(intents[i]) EXCEPT !.passed = intents[i].passed]
      BY <2>2 DEF Reloaded
    <2>4. Reloaded(i) = [intents[i] EXCEPT !.token = NoToken]
      BY <2>1, <2>3 DEF Row, IntentRecord
    <2> QED
      BY <1>1, <2>4, ReloadedTyped
  <1>4. TableFollows'
    BY <1>2, <1>3 DEF TableFollows, CommittedUpTo, LastWritten
  <1>5. Restart
    BY <1>3 DEF Recover, Restart
  <1> QED
    BY <1>4, <1>5

LEMMA FollowsStep ==
    ASSUME RecoveryTypeOK, Explained, TableFollows, [RecoveryNext]_recoveryVars,
           [StatementsSettle]_recoveryVars
    PROVE  TableFollows' /\ [Next]_vars
  <1>1. CASE UNCHANGED recoveryVars
    BY <1>1 DEF recoveryVars, vars, TableFollows, CommittedUpTo, LastWritten
  <1>2. CASE Work
    BY <1>2, WorkFollows, WorkIsNext
  <1>3. ASSUME StatementsSettle, NEW j \in Intents, NEW n \in pending[j],
               Commit(j, n) \/ Lose(j, n)
        PROVE  TableFollows' /\ [Next]_vars
    <2>1. Commit(j, n) /\ \A k \in pending[j] : n <= k
      BY <1>3 DEF StatementsSettle
    <2>2. UNCHANGED vars
      BY <2>1 DEF Commit
    <2> QED
      BY <2>1, <2>2, CommitFollows
  <1>4. CASE StatementsSettle /\ Recover
    BY <1>4, RecoverFollows DEF StatementsSettle, Next
  <1> QED
    BY <1>1, <1>2, <1>3, <1>4 DEF RecoveryNext

LEMMA NothingWritten == RecoveryInit => TableFollows
  <1> SUFFICES ASSUME RecoveryInit, NEW i \in Intents
               PROVE  /\ \E m \in 0..Len(written[i]) : CommittedUpTo(i, m)
                      /\ Row(intents[i]) = LastWritten(i)
                      /\ \A n \in DOMAIN written[i] : written[i][n].status # "absent"
    BY DEF TableFollows
  <1>1. written[i] = <<>> /\ pending[i] = {} /\ table[i] = Absent /\ intents[i] = Absent
    BY DEF RecoveryInit, Init
  <1>2. Row(Absent) = Absent
    BY AbsentRow DEF Rows, Row, IntentRecord
  <1>3. Len(<<>>) = 0 /\ (0 + 1)..0 = {} /\ DOMAIN <<>> = {}
    OBVIOUS
  <1>4. 0 \in 0..Len(written[i]) /\ CommittedUpTo(i, 0)
    BY <1>1, <1>3 DEF CommittedUpTo
  <1> QED
    BY <1>1, <1>2, <1>3, <1>4 DEF LastWritten

\* The gateway with its table implements IntentPipeline, restarts included, as long as
\* the pool commits what updateIntent sends in order and without loss and a restart
\* waits for it (storeIntent, updateIntent and loadIntents of intents.mjs).
THEOREM SettledTableRefines ==
    RecoverySpec /\ [][StatementsSettle]_recoveryVars => Spec
  <1>1. RecoveryInit => Init
    BY DEF RecoveryInit
  <1>2. /\ RecoveryTypeOK /\ Explained /\ TableFollows
        /\ [RecoveryNext]_recoveryVars /\ [StatementsSettle]_recoveryVars
        => TableFollows' /\ [Next]_vars
    BY FollowsStep
  <1> QED
    BY <1>1, <1>2, NothingWritten, RecoveryTypeCorrect, VersionsExplained, PTL
       DEF RecoverySpec, Spec

\* Then no restart repeats an execution: a second one of an intent takes a vote that
\* came late.
THEOREM SettledRestartsRepeatNothing ==
    /\ RecoverySpec
    /\ [][StatementsSettle]_recoveryVars
    /\ [][Rechecked]_vars
    => []AtMostOneDispatch
  BY SettledTableRefines, LateVotesAlone, PTL
=============================================================================
