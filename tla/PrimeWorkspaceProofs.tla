------------------------ MODULE PrimeWorkspaceProofs ------------------------
(***************************************************************************)
(* Theorems about the Prime workspace.  What concerns one state file holds *)
(* for every value of the constants; what needs the lock holds for sharing *)
(* processes without faults, for a single process with any number of them  *)
(* (OrderlyUse), and for sharing processes with faults where no lock file  *)
(* is unlinked that was not judged (ReclaimsJudged).                       *)
(***************************************************************************)
EXTENDS PrimeWorkspace, TLAPS

(***************************************************************************)
(* Type correctness.                                                       *)
(***************************************************************************)
LEMMA NoFileIsNoState == NoFile \notin State
  BY DEF NoFile, State

LEMMA EmptyTyped == EmptyState \in State
  BY DEF EmptyState, State, Cell, RollbackRecord

LEMMA AttachTyped ==
    ASSUME NEW s \in State, NEW id \in Ids
    PROVE  AttachProof(s, id) \in State
  <1> DEFINE n == s.revision + 1
             f == [s.proofs EXCEPT ![id] = n]
  <1>1. n \in Nat
    BY DEF State
  <1>2. f \in [Ids -> Nat]
    BY <1>1 DEF State
  <1>3. AttachProof(s, id) = [s EXCEPT !.proofs = f, !.revision = n, !.latest = id]
    BY DEF AttachProof
  <1> HIDE DEF f, n
  <1> QED
    BY <1>1, <1>2, <1>3 DEF State

\* What a rollback record holds once it is not NoRollback.
LEMMA RecordOfToken ==
    ASSUME NEW b \in RollbackRecord, b # NoRollback
    PROVE  b \in [key: Keys, old: Cell, new: Values, used: BOOLEAN]
  BY DEF RollbackRecord

LEMMA SetTyped ==
    ASSUME NEW s \in State, NEW r \in SetRequest
    PROVE  AfterSet(s, r) \in State
  <1> DEFINE b == [key |-> r.key, old |-> s.values[r.key], new |-> r.value, used |-> FALSE]
             u == [s EXCEPT !.values = [s.values EXCEPT ![r.key] = r.value],
                            !.rollbacks = [s.rollbacks EXCEPT ![r.id] = b]]
  <1>1. r.id \in Ids /\ r.key \in Keys /\ r.value \in Values
    BY DEF SetRequest
  <1>2. b \in RollbackRecord
    BY <1>1 DEF RollbackRecord, State
  <1>3. [s.values EXCEPT ![r.key] = r.value] \in [Keys -> Cell]
    BY <1>1 DEF State, Cell
  <1>4. [s.rollbacks EXCEPT ![r.id] = b] \in [Ids -> RollbackRecord]
    BY <1>2 DEF State
  <1> HIDE DEF b
  <1>5. u \in State
    BY <1>3, <1>4 DEF State
  <1>6. AfterSet(s, r) = AttachProof(u, r.id)
    BY DEF AfterSet, b
  <1> HIDE DEF u
  <1> QED
    BY <1>1, <1>5, <1>6, AttachTyped

LEMMA RollbackTyped ==
    ASSUME NEW s \in State, NEW r \in RollbackRequest, Revocable(s, r.token)
    PROVE  AfterRollback(s, r) \in State
  <1> DEFINE b == s.rollbacks[r.token]
             u == [s EXCEPT !.values = [s.values EXCEPT ![b.key] = b.old],
                            !.rollbacks = [s.rollbacks EXCEPT ![r.token] = Burned(b)]]
  <1>1. r.id \in Ids /\ r.token \in Ids
    BY DEF RollbackRequest
  <1>2. b \in RollbackRecord /\ b # NoRollback
    BY <1>1 DEF State, Revocable
  <1>3. b \in [key: Keys, old: Cell, new: Values, used: BOOLEAN]
    BY <1>2, RecordOfToken
  <1> HIDE DEF b
  <1>4. Burned(b) \in RollbackRecord
    BY <1>3 DEF Burned, RollbackRecord
  <1>5. [s.values EXCEPT ![b.key] = b.old] \in [Keys -> Cell]
    BY <1>3 DEF State
  <1>6. [s.rollbacks EXCEPT ![r.token] = Burned(b)] \in [Ids -> RollbackRecord]
    BY <1>4 DEF State
  <1>7. u \in State
    BY <1>5, <1>6 DEF State
  <1>8. AfterRollback(s, r) = AttachProof(u, r.id)
    BY DEF AfterRollback, b
  <1> HIDE DEF u
  <1> QED
    BY <1>1, <1>7, <1>8, AttachTyped

LEMMA SeamTyped ==
    ASSUME NEW s \in State, NEW r \in SeamRequest
    PROVE  AfterSeam(s, r) \in State
  <1>1. [s.values EXCEPT ![r.key] = r.value] \in [Keys -> Cell]
    BY DEF State, SeamRequest, Cell
  <1> QED
    BY <1>1 DEF AfterSeam, State

\* The kind of a request says which it is.
LEMMA KindOfRequest ==
    ASSUME NEW r \in Request
    PROVE  /\ r.kind = "none" => r = NoRequest
           /\ r.kind = "recover" => r = Recovery
           /\ r.kind = "set" => r \in SetRequest
           /\ r.kind = "rollback" => r \in RollbackRequest
           /\ r.kind = "seam" => r \in SeamRequest
           /\ r.kind \in {"none", "recover", "set", "rollback", "seam"}
           /\ r.kind \in {"set", "rollback"} => r.id \in Ids
  BY DEF Request, NoRequest, Recovery, SetRequest, RollbackRequest, SeamRequest

LEMMA AppliedTyped ==
    ASSUME NEW s \in State, NEW r \in Request, Applicable(s, r)
    PROVE  Applied(s, r) \in State
  <1>1. CASE r.kind = "set"
    BY <1>1, KindOfRequest, SetTyped DEF Applied
  <1>2. CASE r.kind = "rollback"
    BY <1>2, KindOfRequest, RollbackTyped DEF Applied, Applicable
  <1>3. CASE r.kind = "seam"
    BY <1>3, KindOfRequest, SeamTyped DEF Applied
  <1> QED
    BY <1>1, <1>2, <1>3 DEF Applicable

LEMMA StepTyped == TypeOK /\ [Next]_vars => TypeOK'
  <1> SUFFICES ASSUME TypeOK, [Next]_vars
               PROVE  TypeOK'
    OBVIOUS
  <1> USE DEF TypeOK
  <1>1. CASE UNCHANGED vars
    BY <1>1 DEF vars
  <1>2. ASSUME NEW p \in Procs, Open(p)
        PROVE  TypeOK'
    BY <1>2 DEF Open, Locations, Request
  <1>3. ASSUME NEW p \in Procs,
               NEW r \in SetRequest \cup RollbackRequest \cup SeamRequest, Ask(p, r)
        PROVE  TypeOK'
    <2>1. r \in Request
      BY DEF Request
    <2>2. issued' \subseteq Ids
      <3>1. r.kind # "seam" => r.id \in Ids
        BY DEF SetRequest, RollbackRequest, SeamRequest
      <3> QED
        BY <1>3, <3>1 DEF Ask
    <2> QED
      BY <1>3, <2>1, <2>2 DEF Ask, Locations
  <1>4. ASSUME NEW p \in Procs, CreateLock(p)
        PROVE  TypeOK'
    BY <1>4 DEF CreateLock, Locations, LockFile
  <1>5. ASSUME NEW p \in Procs, JudgeLock(p)
        PROVE  TypeOK'
    BY <1>5 DEF JudgeLock, Locations
  <1>6. ASSUME NEW p \in Procs, ReclaimLock(p)
        PROVE  TypeOK'
    BY <1>6 DEF ReclaimLock, Locations
  <1>7. ASSUME NEW p \in Procs, GiveUp(p)
        PROVE  TypeOK'
    BY <1>7 DEF GiveUp, Rest, Locations, Request
  <1>8. ASSUME NEW p \in Procs, StampLock(p)
        PROVE  TypeOK'
    BY <1>8 DEF StampLock, Stamped, Locations, LockFile
  <1>9. ASSUME NEW p \in Procs, Recover(p)
        PROVE  TypeOK'
    BY <1>9, EmptyTyped DEF Recover, Locations
  <1>10. ASSUME NEW p \in Procs, Load(p)
         PROVE  TypeOK'
    <2>1. CASE file # NoFile /\ ValidState(file) /\ Applicable(file, req[p])
      <3>1. Applied(file, req[p]) \in State
        BY <2>1, AppliedTyped
      <3> QED
        BY <1>10, <2>1, <3>1 DEF Load, Locations
    <2>2. CASE ~(file # NoFile /\ ValidState(file) /\ Applicable(file, req[p]))
      BY <1>10, <2>2 DEF Load, Locations
    <2> QED
      BY <2>1, <2>2
  <1>11. ASSUME NEW p \in Procs, WriteTemp(p)
         PROVE  TypeOK'
    BY <1>11 DEF WriteTemp, Locations
  <1>12. ASSUME NEW p \in Procs, Commit(p)
         PROVE  TypeOK'
    BY <1>12 DEF Commit, Locations
  <1>13. ASSUME NEW p \in Procs, ReleaseLock(p)
         PROVE  TypeOK'
    <2>1. acked' \subseteq Ids
      BY <1>13, KindOfRequest DEF ReleaseLock
    <2> QED
      BY <1>13, <2>1, EmptyTyped DEF ReleaseLock, Rest, Locations, Request
  <1>14. ASSUME NEW p \in Procs
         PROVE  /\ Orphaned(lock, p) \in LockFile \cup {NoLock}
                /\ Stamped(lock, p) \in LockFile \cup {NoLock}
    BY DEF Orphaned, Stamped, LockFile
  <1>15. ASSUME NEW p \in Procs, Crash(p)
         PROVE  TypeOK'
    BY <1>14, <1>15, EmptyTyped, WorkspaceAssumption
       DEF Crash, OrphanedTemps, Locations, Request
  <1>16. ASSUME NEW p \in Procs, StampFails(p)
         PROVE  TypeOK'
    BY <1>14, <1>16, WorkspaceAssumption DEF StampFails, Rest, Locations, Request
  <1>17. ASSUME NEW p \in Procs, WriteFails(p)
         PROVE  TypeOK'
    BY <1>17, WorkspaceAssumption DEF WriteFails, Locations
  <1> QED
    BY <1>1, <1>2, <1>3, <1>4, <1>5, <1>6, <1>7, <1>8, <1>9, <1>10, <1>11, <1>12,
       <1>13, <1>15, <1>16, <1>17 DEF Next

\* Every reachable state is well typed, for any processes, keys, values, ids
\* and any number of faults.
THEOREM WorkspaceTyped == Spec => []TypeOK
  <1>1. Init => TypeOK
    BY EmptyTyped, WorkspaceAssumption DEF Init, TypeOK, Locations, Request
  <1> QED
    BY <1>1, StepTyped, PTL DEF Spec

(***************************************************************************)
(* What a transaction makes of the state it reads.                         *)
(***************************************************************************)
LEMMA SetFields ==
    ASSUME NEW s \in State, NEW r \in SetRequest
    PROVE  /\ AfterSet(s, r).revision = s.revision + 1
           /\ AfterSet(s, r).latest = r.id
           /\ AfterSet(s, r).proofs = [s.proofs EXCEPT ![r.id] = s.revision + 1]
           /\ AfterSet(s, r).values = [s.values EXCEPT ![r.key] = r.value]
           /\ AfterSet(s, r).rollbacks = [s.rollbacks EXCEPT ![r.id] =
                     [key |-> r.key, old |-> s.values[r.key], new |-> r.value,
                      used |-> FALSE]]
  BY DEF AfterSet, AttachProof, State

LEMMA RollbackFields ==
    ASSUME NEW s \in State, NEW r \in RollbackRequest
    PROVE  /\ AfterRollback(s, r).revision = s.revision + 1
           /\ AfterRollback(s, r).latest = r.id
           /\ AfterRollback(s, r).proofs = [s.proofs EXCEPT ![r.id] = s.revision + 1]
           /\ AfterRollback(s, r).values = [s.values EXCEPT ![s.rollbacks[r.token].key] = s.rollbacks[r.token].old]
           /\ AfterRollback(s, r).rollbacks = [s.rollbacks EXCEPT ![r.token] = Burned(s.rollbacks[r.token])]
  BY DEF AfterRollback, AttachProof, State

LEMMA SeamFields ==
    ASSUME NEW s \in State, NEW r \in SeamRequest
    PROVE  /\ AfterSeam(s, r).revision = s.revision
           /\ AfterSeam(s, r).latest = s.latest
           /\ AfterSeam(s, r).proofs = s.proofs
           /\ AfterSeam(s, r).values = [s.values EXCEPT ![r.key] = r.value]
           /\ AfterSeam(s, r).rollbacks = s.rollbacks
  BY DEF AfterSeam, State

(***************************************************************************)
(* One proof per revision.  The strengthening says where an id in flight   *)
(* can already be: in no state file, and in no other process's work.       *)
(***************************************************************************)
Known(s) == {id \in Ids : s.proofs[id] # 0}

Receipted(p) == req[p].kind \in {"set", "rollback"}

Pending(p) == Receipted(p) /\ at[p] \in {"acquire", "reclaim", "stamp", "load"}

FileProven == file # NoFile => Proven(file) /\ Known(file) \subseteq issued
WorkProven == \A p \in Procs : Proven(work[p]) /\ Known(work[p]) \subseteq issued
IdsIssued == \A p \in Procs : Receipted(p) => req[p].id \in issued
IdsApart ==
    \A p, q \in Procs : Receipted(p) /\ Receipted(q) /\ req[p].id = req[q].id => p = q
PendingUnknown ==
    \A p \in Procs : Pending(p) =>
        /\ file # NoFile => req[p].id \notin Known(file)
        /\ \A q \in Procs \ {p} : req[p].id \notin Known(work[q])

ProofInv == FileProven /\ WorkProven /\ IdsIssued /\ IdsApart /\ PendingUnknown

LEMMA EmptyProven == Proven(EmptyState) /\ Known(EmptyState) = {}
  <1>1. EmptyState.revision = 0 /\ EmptyState.latest = NoId
    BY DEF EmptyState
  <1>2. \A id \in Ids : EmptyState.proofs[id] = 0 /\ EmptyState.rollbacks[id] = NoRollback
    BY DEF EmptyState
  <1> QED
    BY <1>1, <1>2 DEF Proven, ValidState, Known

\* A state with one more proof, bound to the next revision, is proven.
LEMMA ExtendedProven ==
    ASSUME NEW s \in State, Proven(s),
           NEW id \in Ids, s.proofs[id] = 0,
           NEW t \in State,
           t.revision = s.revision + 1, t.latest = id,
           t.proofs[id] = s.revision + 1,
           \A x \in Ids \ {id} : t.proofs[x] = s.proofs[x],
           \A x \in Ids : t.rollbacks[x] # NoRollback =>
                              x = id \/ s.rollbacks[x] # NoRollback
    PROVE  Proven(t) /\ Known(t) = Known(s) \cup {id}
  <1>1. s.revision \in Nat /\ s.proofs \in [Ids -> Nat]
    BY DEF State
  <1>2. t.proofs[id] = s.revision + 1 /\ \A x \in Ids \ {id} : t.proofs[x] = s.proofs[x]
    OBVIOUS
  <1>3. ValidState(t)
    BY <1>1, <1>2 DEF ValidState
  <1>4. \A x \in Ids : t.proofs[x] <= t.revision
    BY <1>1, <1>2 DEF Proven
  <1>5. ASSUME NEW r \in 1..t.revision
        PROVE  \E x \in Ids : t.proofs[x] = r
    <2>1. CASE r = s.revision + 1
      BY <1>2, <2>1
    <2>2. CASE r # s.revision + 1
      <3>1. r \in 1..s.revision
        BY <1>1, <2>2
      <3>2. PICK x \in Ids : s.proofs[x] = r
        BY <3>1 DEF Proven
      <3>3. x # id
        BY <3>1, <3>2
      <3> QED
        BY <1>2, <3>2, <3>3
    <2> QED
      BY <2>1, <2>2
  <1>6. ASSUME NEW i \in Ids, NEW j \in Ids, t.proofs[i] = t.proofs[j], t.proofs[i] # 0
        PROVE  i = j
    <2>1. \A x \in Ids : s.proofs[x] # s.revision + 1
      BY <1>1 DEF Proven
    <2>2. CASE i # id /\ j # id
      BY <1>2, <1>6, <2>2 DEF Proven
    <2>3. CASE i = id \/ j = id
      BY <1>2, <1>6, <2>1, <2>3
    <2> QED
      BY <2>2, <2>3
  <1>7. \A x \in Ids : t.rollbacks[x] # NoRollback => t.proofs[x] # 0
    BY <1>1, <1>2 DEF Proven
  <1>8. Proven(t)
    BY <1>3, <1>4, <1>5, <1>6, <1>7 DEF Proven
  <1>9. Known(t) = Known(s) \cup {id}
    BY <1>1, <1>2 DEF Known
  <1> QED
    BY <1>8, <1>9

\* A transaction adds its own proof and nothing else.
LEMMA AppliedProven ==
    ASSUME NEW s \in State, Proven(s), NEW r \in Request, Applicable(s, r),
           r.kind \in {"set", "rollback"} => r.id \notin Known(s)
    PROVE  /\ Proven(Applied(s, r))
           /\ Known(Applied(s, r)) =
                 IF r.kind = "seam" THEN Known(s) ELSE Known(s) \cup {r.id}
  <1> DEFINE t == Applied(s, r)
  <1>1. t \in State
    BY AppliedTyped
  <1>2. CASE r.kind = "set"
    <2>1. r \in SetRequest /\ t = AfterSet(s, r) /\ r.id \in Ids
      BY <1>2, KindOfRequest DEF Applied
    <2> HIDE DEF t
    <2>2. /\ t.revision = s.revision + 1 /\ t.latest = r.id
          /\ t.proofs = [s.proofs EXCEPT ![r.id] = s.revision + 1]
          /\ t.rollbacks = [s.rollbacks EXCEPT ![r.id] =
                 [key |-> r.key, old |-> s.values[r.key], new |-> r.value, used |-> FALSE]]
      BY <2>1, SetFields
    <2>3. \A x \in Ids : t.rollbacks[x] # NoRollback => x = r.id \/ s.rollbacks[x] # NoRollback
      BY <2>2 DEF State
    <2>4. s.proofs[r.id] = 0
      BY <1>2, <2>1 DEF Known
    <2>5. t.proofs[r.id] = s.revision + 1 /\ \A x \in Ids \ {r.id} : t.proofs[x] = s.proofs[x]
      BY <2>1, <2>2 DEF State
    <2>6. r.id \in Ids /\ t.revision = s.revision + 1 /\ t.latest = r.id
      BY <2>1, <2>2
    <2>7. Proven(t) /\ Known(t) = Known(s) \cup {r.id}
      BY <1>1, <2>3, <2>4, <2>5, <2>6, ExtendedProven
    <2> QED
      BY <1>2, <2>7 DEF t
  <1>3. CASE r.kind = "rollback"
    <2>1. r \in RollbackRequest /\ t = AfterRollback(s, r) /\ r.id \in Ids /\ r.token \in Ids
      BY <1>3, KindOfRequest DEF Applied, RollbackRequest
    <2> HIDE DEF t
    <2>2. s.rollbacks[r.token] # NoRollback
      BY <1>3 DEF Applicable, Revocable
    <2>3. /\ t.revision = s.revision + 1 /\ t.latest = r.id
          /\ t.proofs = [s.proofs EXCEPT ![r.id] = s.revision + 1]
          /\ t.rollbacks = [s.rollbacks EXCEPT ![r.token] = Burned(s.rollbacks[r.token])]
      BY <2>1, RollbackFields
    <2>4. \A x \in Ids : t.rollbacks[x] # NoRollback => x = r.id \/ s.rollbacks[x] # NoRollback
      BY <2>2, <2>3 DEF State
    <2>5. s.proofs[r.id] = 0
      BY <1>3, <2>1 DEF Known
    <2>6. t.proofs[r.id] = s.revision + 1 /\ \A x \in Ids \ {r.id} : t.proofs[x] = s.proofs[x]
      BY <2>1, <2>3 DEF State
    <2>7. r.id \in Ids /\ t.revision = s.revision + 1 /\ t.latest = r.id
      BY <2>1, <2>3
    <2>8. Proven(t) /\ Known(t) = Known(s) \cup {r.id}
      BY <1>1, <2>4, <2>5, <2>6, <2>7, ExtendedProven
    <2> QED
      BY <1>3, <2>8 DEF t
  <1>4. CASE r.kind = "seam"
    <2>1. r \in SeamRequest /\ t = AfterSeam(s, r)
      BY <1>4, KindOfRequest DEF Applied
    <2> HIDE DEF t
    <2>2. /\ t.revision = s.revision /\ t.latest = s.latest
          /\ t.proofs = s.proofs /\ t.rollbacks = s.rollbacks
      BY <2>1, SeamFields
    <2> QED
      BY <1>4, <2>2 DEF Proven, ValidState, Known, t
  <1> QED
    BY <1>2, <1>3, <1>4 DEF Applicable

\* Steps that write no state file, read none and make no id.
LEMMA QuietProofs ==
    ASSUME ProofInv,
           file' = file, issued' = issued,
           \A p \in Procs : work'[p] = work[p] \/ work'[p] = EmptyState,
           \A p \in Procs : Receipted(p)' => Receipted(p) /\ req'[p] = req[p],
           \A p \in Procs : Pending(p)' => Pending(p)
    PROVE  ProofInv'
  <1>1. FileProven'
    BY DEF ProofInv, FileProven
  <1>2. WorkProven'
    <2> SUFFICES ASSUME NEW p \in Procs
                 PROVE  (Proven(work[p]) /\ Known(work[p]) \subseteq issued)'
      BY DEF WorkProven
    <2>1. CASE work'[p] = work[p]
      BY <2>1 DEF ProofInv, WorkProven
    <2>2. CASE work'[p] = EmptyState
      BY <2>2, EmptyProven
    <2> QED
      BY <2>1, <2>2
  <1>3. IdsIssued'
    BY DEF ProofInv, IdsIssued
  <1>4. IdsApart'
    BY DEF ProofInv, IdsApart
  <1>5. PendingUnknown'
    <2> SUFFICES ASSUME NEW p \in Procs, Pending(p)'
                 PROVE  /\ file' # NoFile => req'[p].id \notin Known(file')
                        /\ \A q \in Procs \ {p} : req'[p].id \notin Known(work'[q])
      BY DEF PendingUnknown
    <2>1. Pending(p) /\ req'[p] = req[p]
      BY DEF Pending
    <2>2. file # NoFile => req[p].id \notin Known(file)
      BY <2>1 DEF ProofInv, PendingUnknown
    <2>3. \A q \in Procs \ {p} : req[p].id \notin Known(work[q])
      BY <2>1 DEF ProofInv, PendingUnknown
    <2>4. ASSUME NEW q \in Procs \ {p}
          PROVE  req'[p].id \notin Known(work'[q])
      BY <2>1, <2>3, <2>4, EmptyProven
    <2> QED
      BY <2>1, <2>2, <2>4
  <1> QED
    BY <1>1, <1>2, <1>3, <1>4, <1>5 DEF ProofInv

\* A new request: its id is in no state, for every id in a state is issued.
LEMMA AskProofs ==
    ASSUME TypeOK, ProofInv, NEW p \in Procs,
           NEW r \in SetRequest \cup RollbackRequest \cup SeamRequest, Ask(p, r)
    PROVE  ProofInv'
  <1>1. /\ file' = file /\ work' = work
        /\ req' = [req EXCEPT ![p] = r]
        /\ r.kind \in {"set", "rollback"} => r.id \notin issued
        /\ issued' = IF r.kind = "seam" THEN issued ELSE issued \cup {r.id}
    BY DEF Ask
  <1>2. r.kind \in {"set", "rollback", "seam"}
    BY DEF SetRequest, RollbackRequest, SeamRequest
  <1>3. issued \subseteq issued'
    BY <1>1
  <1>4. req'[p] = r /\ \A q \in Procs \ {p} : req'[q] = req[q] /\ at'[q] = at[q]
    BY <1>1 DEF TypeOK, Ask
  <1>5. FileProven' /\ WorkProven'
    BY <1>1, <1>3 DEF ProofInv, FileProven, WorkProven
  <1>6. IdsIssued'
    BY <1>1, <1>2, <1>3, <1>4 DEF ProofInv, IdsIssued, Receipted
  <1>7. IdsApart'
    <2>1. \A q \in Procs \ {p} : Receipted(q) /\ Receipted(p)' => req[q].id # r.id
      BY <1>1, <1>4 DEF ProofInv, IdsIssued, Receipted
    <2> QED
      BY <1>4, <2>1 DEF ProofInv, IdsApart, Receipted
  <1>8. PendingUnknown'
    <2>1. ASSUME Pending(p)'
          PROVE  /\ file # NoFile => r.id \notin Known(file)
                 /\ \A q \in Procs : r.id \notin Known(work[q])
      BY <1>1, <1>4, <2>1 DEF Pending, Receipted, ProofInv, FileProven, WorkProven
    <2>2. \A q \in Procs \ {p} : Pending(q)' => Pending(q)
      BY <1>4 DEF Pending, Receipted
    <2> QED
      BY <1>1, <1>4, <2>1, <2>2 DEF ProofInv, PendingUnknown
  <1> QED
    BY <1>5, <1>6, <1>7, <1>8 DEF ProofInv

\* The transaction is applied to what was read.
LEMMA LoadProofs ==
    ASSUME TypeOK, ProofInv, NEW p \in Procs, Load(p)
    PROVE  ProofInv'
  <1>1. /\ file' = file /\ req' = req /\ issued' = issued
        /\ at[p] = "load" /\ at'[p] # "load"
        /\ ~Pending(p)'
        /\ \A q \in Procs \ {p} : at'[q] = at[q] /\ work'[q] = work[q]
    BY DEF Load, TypeOK, Pending
  <1>2. CASE work' = work
    BY <1>1, <1>2, QuietProofs DEF Pending, Receipted
  <1>3. CASE /\ file # NoFile /\ Applicable(file, req[p])
             /\ work'[p] = Applied(file, req[p])
    <2>1. file \in State /\ Proven(file) /\ Known(file) \subseteq issued
      BY <1>3 DEF TypeOK, ProofInv, FileProven
    <2>2. req[p] \in Request
      BY DEF TypeOK
    <2>3. Receipted(p) => req[p].id \notin Known(file) /\ req[p].id \in issued
      BY <1>1, <1>3 DEF ProofInv, PendingUnknown, Pending, IdsIssued
    <2>4. /\ Proven(work'[p])
          /\ Known(work'[p]) = IF req[p].kind = "seam" THEN Known(file)
                               ELSE Known(file) \cup {req[p].id}
      BY <1>3, <2>1, <2>2, <2>3, AppliedProven DEF Receipted
    <2>5. req[p].kind # "seam" => Receipted(p)
      BY <1>3, <2>2 DEF Applicable, Receipted
    <2>6. FileProven' /\ IdsIssued' /\ IdsApart'
      BY <1>1 DEF ProofInv, FileProven, IdsIssued, IdsApart, Receipted
    <2>7. WorkProven'
      BY <1>1, <2>1, <2>3, <2>4, <2>5 DEF ProofInv, WorkProven
    <2>8. PendingUnknown'
      <3> SUFFICES ASSUME NEW q \in Procs, Pending(q)'
                   PROVE  /\ file # NoFile => req[q].id \notin Known(file)
                          /\ \A x \in Procs \ {q} : req[q].id \notin Known(work'[x])
        BY <1>1 DEF PendingUnknown
      <3>1. q # p /\ Pending(q) /\ Receipted(q)
        BY <1>1 DEF Pending, Receipted
      <3>2. /\ req[q].id \notin Known(file)
            /\ \A x \in Procs \ {q} : req[q].id \notin Known(work[x])
        BY <1>3, <3>1 DEF ProofInv, PendingUnknown
      <3>3. Receipted(p) => req[q].id # req[p].id
        BY <3>1 DEF ProofInv, IdsApart
      <3>4. req[q].id \notin Known(work'[p])
        BY <2>4, <2>5, <3>2, <3>3
      <3> QED
        BY <1>1, <3>2, <3>4
    <2> QED
      BY <2>6, <2>7, <2>8 DEF ProofInv
  <1> QED
    BY <1>2, <1>3 DEF Load, TypeOK

\* The work of a process becomes the state file.
LEMMA CommitProofs ==
    ASSUME TypeOK, ProofInv, NEW p \in Procs, Commit(p)
    PROVE  ProofInv'
  <1>1. /\ work' = work /\ req' = req /\ issued' = issued
        /\ file' = work[p] \/ file' = file
        /\ ~Pending(p) /\ ~Pending(p)'
        /\ \A q \in Procs : Receipted(q)' <=> Receipted(q)
        /\ \A q \in Procs \ {p} : Pending(q)' => Pending(q)
    BY DEF Commit, TypeOK, Pending, Receipted
  <1>2. FileProven'
    BY <1>1 DEF ProofInv, FileProven, WorkProven
  <1>3. WorkProven' /\ IdsIssued' /\ IdsApart'
    BY <1>1 DEF ProofInv, WorkProven, IdsIssued, IdsApart
  <1>4. PendingUnknown'
    <2> SUFFICES ASSUME NEW q \in Procs, Pending(q)'
                 PROVE  /\ file' # NoFile => req[q].id \notin Known(file')
                        /\ \A x \in Procs \ {q} : req[q].id \notin Known(work[x])
      BY <1>1 DEF PendingUnknown
    <2>1. q # p /\ Pending(q)
      BY <1>1
    <2> QED
      BY <1>1, <2>1 DEF ProofInv, PendingUnknown
  <1> QED
    BY <1>2, <1>3, <1>4 DEF ProofInv

LEMMA ProofStep == TypeOK /\ ProofInv /\ [Next]_vars => ProofInv'
  <1> SUFFICES ASSUME TypeOK, ProofInv, [Next]_vars
               PROVE  ProofInv'
    OBVIOUS
  <1>1. CASE UNCHANGED vars
    BY <1>1, QuietProofs DEF vars, Pending, Receipted
  <1>2. ASSUME NEW p \in Procs, Open(p)
        PROVE  ProofInv'
    BY <1>2, QuietProofs DEF Open, TypeOK, Pending, Receipted, Recovery
  <1>3. ASSUME NEW p \in Procs,
               \/ CreateLock(p) \/ JudgeLock(p) \/ ReclaimLock(p) \/ StampLock(p)
               \/ WriteTemp(p) \/ WriteFails(p)
        PROVE  ProofInv'
    <2>1. /\ file' = file /\ issued' = issued /\ work' = work /\ req' = req
          /\ \A q \in Procs : at'[q] = at[q] \/ at[q] \in {"acquire", "reclaim", "stamp"}
                                            \/ at'[q] \in {"commit", "release"}
      BY <1>3 DEF CreateLock, JudgeLock, ReclaimLock, StampLock, WriteTemp, WriteFails, TypeOK
    <2> QED
      BY <2>1, QuietProofs DEF Pending, Receipted
  <1>4. ASSUME NEW p \in Procs, Recover(p)
        PROVE  ProofInv'
    BY <1>4, QuietProofs DEF Recover, TypeOK, Pending, Receipted, Recovery
  <1>5. ASSUME NEW p \in Procs,
               GiveUp(p) \/ ReleaseLock(p) \/ Crash(p) \/ StampFails(p)
        PROVE  ProofInv'
    <2>1. /\ file' = file /\ issued' = issued /\ req' = [req EXCEPT ![p] = NoRequest]
          /\ \A q \in Procs : work'[q] = work[q] \/ work'[q] = EmptyState
          /\ \A q \in Procs \ {p} : at'[q] = at[q]
      BY <1>5 DEF GiveUp, ReleaseLock, Crash, StampFails, TypeOK
    <2>2. req'[p] = NoRequest /\ \A q \in Procs \ {p} : req'[q] = req[q]
      BY <2>1 DEF TypeOK
    <2>3. \A q \in Procs : Receipted(q)' => q # p
      BY <2>2 DEF Receipted, NoRequest
    <2> QED
      BY <2>1, <2>2, <2>3, QuietProofs DEF Pending, Receipted
  <1> QED
    BY <1>1, <1>2, <1>3, <1>4, <1>5, AskProofs, LoadProofs, CommitProofs DEF Next

\* Whatever processes share the workspace, whatever fails and whoever believes
\* to have the lock, the state file binds each of its revisions to one proof.
THEOREM EveryRevisionProven == Spec => []RevisionsProven
  <1>1. Init => ProofInv
    BY EmptyProven DEF Init, NoRequest, ProofInv, FileProven, WorkProven, IdsIssued,
       IdsApart, PendingUnknown, Pending, Receipted
  <1>2. ProofInv => RevisionsProven
    BY DEF ProofInv, FileProven, RevisionsProven
  <1> QED
    BY <1>1, <1>2, ProofStep, WorkspaceTyped, PTL DEF Spec

(***************************************************************************)
(* The lock.  It excludes others when nobody ever has to take it from      *)
(* anybody: no crash or failed write, and nobody slow enough to look dead. *)
(* A process that is alone needs no lock.                                  *)
(***************************************************************************)
SoleProcess == \A p, q \in Procs : p = q

OrderlyUse == SoleProcess \/ (MaxFaults = 0 /\ ~SlowAcquire)

LockKept ==
    /\ lock # NoLock => lock.by \in Procs
    /\ \A p \in Procs : at[p] # "reclaim"
    /\ \A p \in Procs : Inside(p) => lock # NoLock /\ lock.by = p

LockInv == SoleProcess \/ LockKept

LEMMA LockStep ==
    ASSUME OrderlyUse, TypeOK, LockInv, [Next]_vars
    PROVE  LockInv'
  <1> SUFFICES ASSUME ~SoleProcess
               PROVE  LockKept'
    BY DEF LockInv, SoleProcess
  <1>1. MaxFaults = 0 /\ ~SlowAcquire /\ LockKept /\ faults = 0
    BY DEF OrderlyUse, LockInv, TypeOK
  <1>2. \A p \in Procs : ~Crash(p) /\ ~StampFails(p) /\ ~WriteFails(p)
    BY <1>1 DEF Crash, StampFails, WriteFails
  <1>3. ~LockCanBeReclaimed
    BY <1>1, WorkspaceAssumption DEF LockCanBeReclaimed, LockKept
  <1>4. \A p \in Procs : ~JudgeLock(p) /\ ~ReclaimLock(p)
    BY <1>1, <1>3 DEF JudgeLock, ReclaimLock, LockKept
  <1>5. CASE UNCHANGED vars
    BY <1>1, <1>5 DEF vars, LockKept, Inside
  <1>6. ASSUME NEW p \in Procs, Open(p) \/ GiveUp(p)
        PROVE  LockKept'
    <2>1. /\ lock' = lock /\ ~Inside(p)'
          /\ at'[p] # "reclaim" /\ \A q \in Procs \ {p} : at'[q] = at[q]
      BY <1>6 DEF Open, GiveUp, Rest, TypeOK, Inside
    <2> QED
      BY <1>1, <2>1 DEF LockKept, Inside
  <1>7. ASSUME NEW p \in Procs,
               NEW r \in SetRequest \cup RollbackRequest \cup SeamRequest, Ask(p, r)
        PROVE  LockKept'
    <2>1. /\ lock' = lock /\ ~Inside(p)'
          /\ at'[p] # "reclaim" /\ \A q \in Procs \ {p} : at'[q] = at[q]
      BY <1>7 DEF Ask, TypeOK, Inside
    <2> QED
      BY <1>1, <2>1 DEF LockKept, Inside
  <1>8. ASSUME NEW p \in Procs, CreateLock(p)
        PROVE  LockKept'
    <2>1. /\ lock' = [by |-> p, stamped |-> FALSE] /\ lock = NoLock
          /\ at'[p] = "stamp" /\ \A q \in Procs \ {p} : at'[q] = at[q]
      BY <1>8 DEF CreateLock, TypeOK
    <2>2. lock' # NoLock /\ lock'.by = p
      BY <2>1 DEF NoLock
    <2> QED
      BY <1>1, <2>1, <2>2 DEF LockKept, Inside
  <1>9. ASSUME NEW p \in Procs, StampLock(p)
        PROVE  LockKept'
    <2>1. lock # NoLock /\ lock.by = p
      BY <1>1, <1>9 DEF LockKept, StampLock, Inside
    <2>2. /\ lock' = [by |-> p, stamped |-> TRUE]
          /\ at'[p] = "load" /\ \A q \in Procs \ {p} : at'[q] = at[q]
      BY <1>9, <2>1 DEF StampLock, Stamped, TypeOK
    <2>3. lock' # NoLock /\ lock'.by = p
      BY <2>2 DEF NoLock
    <2> QED
      BY <1>1, <2>1, <2>2, <2>3 DEF LockKept, Inside
  <1>10. ASSUME NEW p \in Procs, Recover(p) \/ Load(p) \/ WriteTemp(p) \/ Commit(p)
         PROVE  LockKept'
    <2>1. /\ lock' = lock /\ Inside(p)
          /\ at'[p] # "reclaim" /\ \A q \in Procs \ {p} : at'[q] = at[q]
      BY <1>10 DEF Recover, Load, WriteTemp, Commit, TypeOK, Inside
    <2> QED
      BY <1>1, <2>1 DEF LockKept, Inside
  <1>11. ASSUME NEW p \in Procs, ReleaseLock(p)
         PROVE  LockKept'
    <2>1. /\ lock' = NoLock /\ Inside(p) /\ ~Inside(p)'
          /\ at'[p] # "reclaim" /\ \A q \in Procs \ {p} : at'[q] = at[q]
      BY <1>11 DEF ReleaseLock, Rest, TypeOK, Inside
    <2> QED
      BY <1>1, <2>1 DEF LockKept, Inside
  <1> QED
    BY <1>2, <1>4, <1>5, <1>6, <1>7, <1>8, <1>9, <1>10, <1>11 DEF Next

LEMMA LockExcludes ==
    ASSUME LockInv
    PROVE  Exclusive
  BY DEF LockInv, SoleProcess, LockKept, Exclusive

LEMMA LockAlways ==
    ASSUME OrderlyUse
    PROVE  Spec => []LockInv
  <1>1. Init => LockInv
    BY DEF Init, LockInv, LockKept, Inside
  <1>2. TypeOK /\ LockInv /\ [Next]_vars => LockInv'
    BY LockStep
  <1> QED
    BY <1>1, <1>2, WorkspaceTyped, PTL DEF Spec

\* In orderly use one process at a time is inside the lock.
THEOREM LockExclusive ==
    ASSUME OrderlyUse
    PROVE  Spec => []Exclusive
  BY LockAlways, LockExcludes, PTL

(***************************************************************************)
(* What a process is about to write is the transaction applied to the      *)
(* state file as it is, and what it committed is in it.                    *)
(***************************************************************************)
OpenHasFile ==
    \A p \in Procs :
        at[p] = "idle" \/ (at[p] # "down" /\ req[p] # Recovery) => file # NoFile

DoneReleases == \A p \in done : at[p] = "release" /\ file # NoFile

DoneProven == \A p \in done : Receipted(p) => file.proofs[req[p].id] # 0

AboutToWrite(p) == at[p] \in {"write", "commit"}

Based(p) ==
    IF req[p] = Recovery
    THEN file = NoFile /\ work[p] = EmptyState
    ELSE /\ file # NoFile
         /\ Applicable(file, req[p])
         /\ work[p] = Applied(file, req[p])
         /\ Receipted(p) => req[p].id \notin Known(file)

WorkBased == \A p \in Procs : AboutToWrite(p) => Based(p)

StoreInv == OpenHasFile /\ DoneReleases /\ DoneProven /\ WorkBased /\ AckedDurable

\* A commit puts the transaction of p into the state file, which keeps every
\* proof it had.
LEMMA CommitGrows ==
    ASSUME TypeOK, ProofInv, WorkBased, NEW p \in Procs, Commit(p)
    PROVE  /\ file # NoFile => file' # NoFile /\ Known(file) \subseteq Known(file')
           /\ p \in done' /\ p \notin done => file' # NoFile
           /\ p \in done' /\ p \notin done /\ Receipted(p) => req[p].id \in Known(file')
  <1>1. AboutToWrite(p) /\ Based(p)
    BY DEF Commit, AboutToWrite, WorkBased
  <1>2. CASE p \notin temps
    BY <1>2 DEF Commit
  <1>3. CASE p \in temps
    <2>1. file' = work[p] /\ file' # NoFile
      BY <1>3, NoFileIsNoState DEF Commit, TypeOK
    <2>2. CASE req[p] = Recovery
      BY <1>1, <2>1, <2>2 DEF Based, Receipted, Recovery
    <2>3. CASE req[p] # Recovery
      <3>1. /\ file \in State /\ Proven(file) /\ req[p] \in Request
            /\ Applicable(file, req[p]) /\ work[p] = Applied(file, req[p])
            /\ Receipted(p) => req[p].id \notin Known(file)
        BY <1>1, <2>3 DEF Based, TypeOK, ProofInv, FileProven
      <3>2. Known(work[p]) = IF req[p].kind = "seam" THEN Known(file)
                             ELSE Known(file) \cup {req[p].id}
        BY <3>1, AppliedProven DEF Receipted
      <3> QED
        BY <2>1, <3>2 DEF Receipted
    <2> QED
      BY <2>2, <2>3
  <1> QED
    BY <1>2, <1>3

\* Steps of p that leave the state file alone.
LEMMA QuietStore ==
    ASSUME TypeOK, StoreInv, NEW p \in Procs,
           file' = file,
           \A q \in Procs \ {p} : at'[q] = at[q] /\ req'[q] = req[q] /\ work'[q] = work[q],
           at'[p] = "idle" \/ (at'[p] # "down" /\ req'[p] # Recovery) => file # NoFile,
           done' \subseteq done \cup {p},
           p \in done' => /\ at'[p] = "release" /\ file # NoFile
                          /\ Receipted(p)' => file.proofs[req'[p].id] # 0,
           AboutToWrite(p)' => Based(p)',
           \A id \in acked' : id \in acked \/ (file # NoFile /\ file.proofs[id] # 0)
    PROVE  StoreInv'
  <1>1. OpenHasFile'
    BY DEF StoreInv, OpenHasFile
  <1>2. DoneReleases'
    BY DEF StoreInv, DoneReleases, TypeOK
  <1>3. DoneProven'
    BY DEF StoreInv, DoneProven, Receipted, TypeOK
  <1>4. WorkBased'
    BY DEF StoreInv, WorkBased, AboutToWrite, Based, Receipted
  <1>5. AckedDurable'
    BY DEF StoreInv, AckedDurable
  <1> QED
    BY <1>1, <1>2, <1>3, <1>4, <1>5 DEF StoreInv

LEMMA StoreStep ==
    ASSUME TypeOK, ProofInv, Exclusive, StoreInv, [Next]_vars
    PROVE  StoreInv'
  <1>1. CASE UNCHANGED vars
    BY <1>1 DEF vars, StoreInv, OpenHasFile, DoneReleases, DoneProven, WorkBased,
       AckedDurable, AboutToWrite, Based, Receipted
  <1>2. ASSUME NEW p \in Procs, Open(p)
        PROVE  StoreInv'
    <2>1. p \notin done
      BY <1>2 DEF Open, StoreInv, DoneReleases
    <2> QED
      BY <1>2, <2>1, QuietStore DEF Open, TypeOK, AboutToWrite
  <1>3. ASSUME NEW p \in Procs,
               NEW r \in SetRequest \cup RollbackRequest \cup SeamRequest, Ask(p, r)
        PROVE  StoreInv'
    <2>1. p \notin done /\ file # NoFile
      BY <1>3 DEF Ask, StoreInv, DoneReleases, OpenHasFile
    <2> QED
      BY <1>3, <2>1, QuietStore DEF Ask, TypeOK, AboutToWrite
  <1>4. ASSUME NEW p \in Procs,
               CreateLock(p) \/ JudgeLock(p) \/ ReclaimLock(p) \/ StampLock(p)
        PROVE  StoreInv'
    <2>1. p \notin done /\ (req[p] # Recovery => file # NoFile)
      BY <1>4 DEF CreateLock, JudgeLock, ReclaimLock, StampLock, StoreInv, DoneReleases,
         OpenHasFile
    <2>2. /\ file' = file /\ req' = req /\ work' = work /\ done' = done /\ acked' = acked
          /\ at'[p] \in {"stamp", "reclaim", "acquire", "load"}
          /\ \A q \in Procs \ {p} : at'[q] = at[q]
      BY <1>4 DEF CreateLock, JudgeLock, ReclaimLock, StampLock, TypeOK
    <2> QED
      BY <2>1, <2>2, QuietStore DEF AboutToWrite
  <1>5. ASSUME NEW p \in Procs, GiveUp(p) \/ StampFails(p)
        PROVE  StoreInv'
    <2>1. p \notin done /\ (req[p] # Recovery => file # NoFile)
      BY <1>5 DEF GiveUp, StampFails, StoreInv, DoneReleases, OpenHasFile
    <2>2. /\ file' = file /\ work' = work /\ done' = done /\ acked' = acked
          /\ at'[p] = Rest(p, FALSE) /\ req' = [req EXCEPT ![p] = NoRequest]
          /\ \A q \in Procs \ {p} : at'[q] = at[q]
      BY <1>5 DEF GiveUp, StampFails, TypeOK
    <2>3. \A q \in Procs \ {p} : req'[q] = req[q]
      BY <2>2 DEF TypeOK
    <2>4. at'[p] = IF req[p] = Recovery THEN "down" ELSE "idle"
      BY <2>2 DEF Rest
    <2> QED
      BY <2>1, <2>2, <2>3, <2>4, QuietStore DEF AboutToWrite
  <1>6. ASSUME NEW p \in Procs, Recover(p)
        PROVE  StoreInv'
    <2>1. p \notin done
      BY <1>6 DEF Recover, StoreInv, DoneReleases
    <2>2. /\ file' = file /\ req' = req /\ acked' = acked /\ req[p] = Recovery
          /\ \A q \in Procs \ {p} : at'[q] = at[q] /\ work'[q] = work[q]
          /\ ~Receipted(p)'
      BY <1>6 DEF Recover, TypeOK, Receipted, Recovery
    <2>3. CASE file = NoFile
      BY <1>6, <2>1, <2>2, <2>3, QuietStore DEF Recover, TypeOK, Based
    <2>4. CASE file # NoFile
      BY <1>6, <2>1, <2>2, <2>4, QuietStore DEF Recover, TypeOK, AboutToWrite
    <2> QED
      BY <2>3, <2>4
  <1>7. ASSUME NEW p \in Procs, Load(p)
        PROVE  StoreInv'
    <2>1. p \notin done /\ file # NoFile
      BY <1>7 DEF Load, StoreInv, DoneReleases, OpenHasFile
    <2>2. /\ file' = file /\ req' = req /\ acked' = acked /\ done' = done
          /\ req[p] # Recovery
          /\ \A q \in Procs \ {p} : at'[q] = at[q] /\ work'[q] = work[q]
      BY <1>7 DEF Load, TypeOK
    <2>3. Receipted(p) => req[p].id \notin Known(file)
      BY <1>7, <2>1 DEF Load, ProofInv, PendingUnknown, Pending
    <2>4. AboutToWrite(p)' => Based(p)'
      BY <1>7, <2>1, <2>2, <2>3 DEF Load, TypeOK, AboutToWrite, Based, Receipted
    <2> QED
      BY <2>1, <2>2, <2>4, QuietStore
  <1>8. ASSUME NEW p \in Procs, WriteTemp(p) \/ WriteFails(p)
        PROVE  StoreInv'
    <2>1. p \notin done /\ Based(p) /\ (req[p] # Recovery => file # NoFile)
      BY <1>8 DEF WriteTemp, WriteFails, StoreInv, DoneReleases, WorkBased, AboutToWrite,
         OpenHasFile
    <2>2. /\ file' = file /\ req' = req /\ acked' = acked /\ done' = done /\ work' = work
          /\ at'[p] \in {"commit", "release"}
          /\ \A q \in Procs \ {p} : at'[q] = at[q]
      BY <1>8 DEF WriteTemp, WriteFails, TypeOK
    <2>3. Based(p)'
      BY <2>1, <2>2 DEF Based, Receipted
    <2> QED
      BY <2>1, <2>2, <2>3, QuietStore
  <1>9. ASSUME NEW p \in Procs, Commit(p)
        PROVE  StoreInv'
    <2>1. /\ req' = req /\ work' = work /\ acked' = acked
          /\ at'[p] = "release" /\ at[p] = "commit"
          /\ done \subseteq done' /\ done' \subseteq done \cup {p}
          /\ \A q \in Procs \ {p} : at'[q] = at[q]
      BY <1>9 DEF Commit, TypeOK
    <2>2. /\ file # NoFile => file' # NoFile /\ Known(file) \subseteq Known(file')
          /\ p \in done' /\ p \notin done => file' # NoFile
          /\ p \in done' /\ p \notin done /\ Receipted(p) => req[p].id \in Known(file')
      BY <1>9, CommitGrows DEF StoreInv
    <2>3. p \notin done
      BY <2>1 DEF StoreInv, DoneReleases
    <2>4. OpenHasFile'
      BY <2>1, <2>2 DEF StoreInv, OpenHasFile
    <2>5. DoneReleases'
      BY <2>1, <2>2, <2>3 DEF StoreInv, DoneReleases, TypeOK
    <2>6. ASSUME NEW q \in done', Receipted(q)'
          PROVE  file'.proofs[req'[q].id] # 0
      <3>1. q \in Procs /\ req'[q].id \in Ids /\ Receipted(q)
        BY <2>1, <2>6, KindOfRequest DEF TypeOK, Receipted
      <3>2. CASE q = p
        BY <2>1, <2>2, <2>3, <2>6, <3>1, <3>2 DEF Known
      <3>3. CASE q # p
        BY <2>1, <2>2, <2>6, <3>1, <3>3 DEF StoreInv, DoneReleases, DoneProven, Known
      <3> QED
        BY <3>2, <3>3
    <2>7. WorkBased'
      <3> SUFFICES ASSUME NEW q \in Procs, AboutToWrite(q)'
                   PROVE  FALSE
        BY DEF WorkBased
      <3>1. q # p /\ Inside(q) /\ Inside(p)
        BY <2>1 DEF AboutToWrite, Inside
      <3> QED
        BY <3>1 DEF Exclusive
    <2>8. AckedDurable'
      BY <2>1, <2>2 DEF StoreInv, AckedDurable, Known, TypeOK
    <2> QED
      BY <2>4, <2>5, <2>6, <2>7, <2>8 DEF StoreInv, DoneProven
  <1>10. ASSUME NEW p \in Procs, ReleaseLock(p)
         PROVE  StoreInv'
    <2>1. /\ file' = file /\ done' = done \ {p}
          /\ req' = [req EXCEPT ![p] = NoRequest] /\ at'[p] = Rest(p, p \in done)
          /\ \A q \in Procs \ {p} : at'[q] = at[q] /\ work'[q] = work[q]
          /\ acked' = IF p \in done /\ Receipted(p) THEN acked \cup {req[p].id} ELSE acked
      BY <1>10 DEF ReleaseLock, TypeOK, Receipted
    <2>2. \A q \in Procs \ {p} : req'[q] = req[q]
      BY <2>1 DEF TypeOK
    <2>3. p \in done \/ req[p] # Recovery => file # NoFile
      BY <1>10 DEF ReleaseLock, StoreInv, DoneReleases, OpenHasFile
    <2>4. \A id \in acked' : id \in acked \/ (file # NoFile /\ file.proofs[id] # 0)
      BY <2>1, <2>3 DEF StoreInv, DoneProven
    <2>5. at'[p] = IF req[p] = Recovery /\ p \notin done THEN "down" ELSE "idle"
      BY <2>1 DEF Rest
    <2> QED
      BY <2>1, <2>2, <2>3, <2>4, <2>5, QuietStore DEF AboutToWrite
  <1>11. ASSUME NEW p \in Procs, Crash(p)
         PROVE  StoreInv'
    BY <1>11, QuietStore DEF Crash, TypeOK, AboutToWrite
  <1> QED
    BY <1>1, <1>2, <1>3, <1>4, <1>5, <1>6, <1>7, <1>8, <1>9, <1>10, <1>11 DEF Next

LEMMA StoreAlways ==
    ASSUME OrderlyUse
    PROVE  Spec => [](TypeOK /\ ProofInv /\ Exclusive /\ StoreInv)
  <1>1. Init => ProofInv /\ StoreInv
    BY EmptyProven
       DEF Init, NoRequest, ProofInv, FileProven, WorkProven, IdsIssued, IdsApart,
           PendingUnknown, Pending, Receipted, StoreInv, OpenHasFile, DoneReleases,
           DoneProven, WorkBased, AboutToWrite, AckedDurable
  <1>2. TypeOK /\ ProofInv /\ Exclusive /\ StoreInv /\ [Next]_vars => StoreInv'
    BY StoreStep
  <1> QED
    BY <1>1, <1>2, ProofStep, WorkspaceTyped, LockExclusive, PTL DEF Spec

\* In orderly use a transaction whose receipt was returned is never lost.
THEOREM AckedStay ==
    ASSUME OrderlyUse
    PROVE  Spec => []AckedDurable
  <1>1. StoreInv => AckedDurable
    BY DEF StoreInv
  <1> QED
    BY <1>1, StoreAlways, PTL

(***************************************************************************)
(* The refinement of WorkspaceLog.  Only a commit is visible there.        *)
(***************************************************************************)
LEMMA TrailAt ==
    ASSUME NEW s \in State, Proven(s), NEW r \in 1..s.revision
    PROVE  Trail(s)[r] \in Ids /\ s.proofs[Trail(s)[r]] = r
  <1>1. \E id \in Ids : s.proofs[id] = r
    BY DEF Proven
  <1>2. Trail(s)[r] = CHOOSE id \in Ids : s.proofs[id] = r
    BY DEF Trail
  <1> QED
    BY <1>1, <1>2

LEMMA TrailExtends ==
    ASSUME NEW s \in State, Proven(s), NEW t \in State, Proven(t),
           NEW id \in Ids, s.proofs[id] = 0,
           t.revision = s.revision + 1, t.proofs[id] = s.revision + 1,
           \A x \in Ids \ {id} : t.proofs[x] = s.proofs[x]
    PROVE  /\ \A r \in 1..s.revision : Trail(s)[r] # id
           /\ Trail(t) = [r \in 1..(s.revision + 1) |->
                             IF r = s.revision + 1 THEN id ELSE Trail(s)[r]]
  <1>1. s.revision \in Nat /\ s.proofs \in [Ids -> Nat] /\ t.proofs \in [Ids -> Nat]
    BY DEF State
  <1>2. ASSUME NEW r \in 1..s.revision
        PROVE  Trail(s)[r] # id /\ Trail(t)[r] = Trail(s)[r]
    <2>1. Trail(s)[r] \in Ids /\ s.proofs[Trail(s)[r]] = r
      BY TrailAt
    <2>2. r \in 1..t.revision /\ r # 0
      BY <1>1
    <2>3. Trail(t)[r] \in Ids /\ t.proofs[Trail(t)[r]] = r
      BY <2>2, TrailAt
    <2>4. Trail(s)[r] # id
      BY <2>1, <2>2
    <2>5. t.proofs[Trail(s)[r]] = r
      BY <2>1, <2>4
    <2> QED
      BY <2>1, <2>2, <2>3, <2>4, <2>5 DEF Proven
  <1>3. Trail(t)[s.revision + 1] = id
    <2>1. s.revision + 1 \in 1..t.revision /\ s.revision + 1 # 0
      BY <1>1
    <2>2. /\ Trail(t)[s.revision + 1] \in Ids
          /\ t.proofs[Trail(t)[s.revision + 1]] = s.revision + 1
      BY <2>1, TrailAt
    <2> QED
      BY <2>1, <2>2 DEF Proven
  <1>4. Trail(t) = [r \in 1..(s.revision + 1) |-> Trail(t)[r]]
    BY DEF Trail
  <1>5. \A r \in 1..(s.revision + 1) : r = s.revision + 1 \/ r \in 1..s.revision
    BY <1>1
  <1>6. \A r \in 1..(s.revision + 1) :
           Trail(t)[r] = IF r = s.revision + 1 THEN id ELSE Trail(s)[r]
    BY <1>2, <1>3, <1>5
  <1> QED
    BY <1>2, <1>4, <1>6

\* What the log makes of one state: its undo records.
Undos(s) == [id \in Ids |-> UndoOf(s.rollbacks[id])]

LEMMA SetRefines ==
    ASSUME NEW s \in State, Proven(s), NEW r \in SetRequest, s.proofs[r.id] = 0
    PROVE  LET t == AfterSet(s, r)
           IN /\ Undos(s)[r.id] = Log!NoUndo
              /\ Undos(t) = [Undos(s) EXCEPT ![r.id] =
                                Log!Ready(r.key, s.values[r.key], r.value)]
  <1> DEFINE b == [key |-> r.key, old |-> s.values[r.key], new |-> r.value, used |-> FALSE]
             t == AfterSet(s, r)
  <1>1. r.id \in Ids /\ r.value \in Values
    BY DEF SetRequest
  <1>2. t.rollbacks = [s.rollbacks EXCEPT ![r.id] = b]
    BY SetFields
  <1>3. b # NoRollback /\ ~b.used
    BY <1>1, WorkspaceAssumption DEF NoRollback
  <1>4. UndoOf(b) = Log!Ready(r.key, s.values[r.key], r.value)
    BY <1>3 DEF UndoOf, Log!Ready
  <1>5. s.rollbacks[r.id] = NoRollback
    BY <1>1 DEF Proven
  <1>6. Undos(s)[r.id] = Log!NoUndo
    BY <1>1, <1>5 DEF Undos, UndoOf, Log!NoUndo
  <1> HIDE DEF b, t
  <1>7. \A x \in Ids : t.rollbacks[x] = IF x = r.id THEN b ELSE s.rollbacks[x]
    BY <1>2 DEF State
  <1>8. Undos(t) = [Undos(s) EXCEPT ![r.id] = UndoOf(b)]
    BY <1>1, <1>7 DEF Undos
  <1> QED
    BY <1>4, <1>6, <1>8 DEF t

LEMMA RollbackRefines ==
    ASSUME NEW s \in State, NEW r \in RollbackRequest, Revocable(s, r.token)
    PROVE  LET t == AfterRollback(s, r)
               b == s.rollbacks[r.token]
           IN /\ b.key \in Keys /\ b.old \in Values \cup {Absent}
              /\ Undos(s)[r.token] = Log!Ready(b.key, b.old, s.values[b.key])
              /\ Undos(t) = [Undos(s) EXCEPT ![r.token] = Log!Taken]
  <1> DEFINE b == s.rollbacks[r.token]
             t == AfterRollback(s, r)
  <1>1. r.token \in Ids
    BY DEF RollbackRequest
  <1>2. /\ b \in [key: Keys, old: Cell, new: Values, used: BOOLEAN]
        /\ b # NoRollback /\ ~b.used /\ s.values[b.key] = b.new
    BY <1>1, RecordOfToken DEF State, Revocable
  <1>3. t.rollbacks = [s.rollbacks EXCEPT ![r.token] = Burned(b)]
    BY RollbackFields
  <1>4. Undos(s)[r.token] = UndoOf(b)
    BY <1>1 DEF Undos
  <1> HIDE DEF b, t
  <1>5. b.key \in Keys /\ b.old \in Values \cup {Absent}
    BY <1>2 DEF Cell
  <1>6. UndoOf(b) = Log!Ready(b.key, b.old, s.values[b.key])
    BY <1>2 DEF UndoOf, Log!Ready
  <1>7. UndoOf(Burned(b)) = Log!Taken
    BY DEF UndoOf, Burned, NoRollback, Log!Taken
  <1>8. \A x \in Ids : t.rollbacks[x] = IF x = r.token THEN Burned(b) ELSE s.rollbacks[x]
    BY <1>3 DEF State
  <1>9. Undos(t) = [Undos(s) EXCEPT ![r.token] = UndoOf(Burned(b))]
    BY <1>1, <1>8 DEF Undos
  <1> QED
    BY <1>4, <1>5, <1>6, <1>7, <1>9 DEF b, t

\* The three ways a commit changes the state file are the log's three actions.
LEMMA AppliedRefines ==
    ASSUME TypeOK, file # NoFile, Proven(file), NEW r \in Request,
           Applicable(file, r),
           r.kind \in {"set", "rollback"} => r.id \notin Known(file),
           file' = Applied(file, r), file' # NoFile
    PROVE  Log!Next
  <1> DEFINE s == file
             t == Applied(s, r)
  <1>1. s \in State /\ t \in State
    BY AppliedTyped DEF TypeOK
  <1>2. Contents = s /\ Contents' = t
    BY DEF Contents
  <1>3. ASSUME r.kind # "seam"
        PROVE  r.id \in Ids /\ s.proofs[r.id] = 0 /\ Proven(t)
    BY <1>1, <1>3, KindOfRequest, AppliedProven DEF Known, Applicable
  <1>4. CASE r.kind = "set"
    <2>1. r \in SetRequest /\ t = AfterSet(s, r) /\ r.key \in Keys /\ r.value \in Values
      BY <1>4, KindOfRequest DEF Applied, SetRequest
    <2>2. /\ r.id \in Ids /\ s.proofs[r.id] = 0 /\ Proven(t)
          /\ s.proofs \in [Ids -> Nat]
      BY <1>1, <1>3, <1>4 DEF State
    <2>3. /\ t.revision = s.revision + 1
          /\ t.proofs = [s.proofs EXCEPT ![r.id] = s.revision + 1]
          /\ t.values = [s.values EXCEPT ![r.key] = r.value]
      <3> HIDE DEF s, t
      <3> QED
        BY <1>1, <2>1, SetFields
    <2>4. /\ t.proofs[r.id] = s.revision + 1
          /\ \A x \in Ids \ {r.id} : t.proofs[x] = s.proofs[x]
      BY <2>2, <2>3
    <2>5. /\ \A n \in 1..s.revision : Trail(s)[n] # r.id
          /\ Trail(t) = [n \in 1..(s.revision + 1) |->
                            IF n = s.revision + 1 THEN r.id ELSE Trail(s)[n]]
      <3> HIDE DEF s, t
      <3>1. Proven(s)
        BY DEF s
      <3>2. t.revision = s.revision + 1
        BY <2>3
      <3> QED
        BY <1>1, <2>2, <2>4, <3>1, <3>2, TrailExtends
    <2>6. /\ Undos(s)[r.id] = Log!NoUndo
          /\ Undos(t) = [Undos(s) EXCEPT ![r.id] =
                            Log!Ready(r.key, s.values[r.key], r.value)]
      BY <1>1, <2>1, <2>2, SetRefines
    <2>7. Log!Set(r.id, r.key, r.value)
      BY <1>2, <2>3, <2>5, <2>6 DEF Log!Set, Log!Extend, Undos
    <2> QED
      BY <2>1, <2>2, <2>7 DEF Log!Next
  <1>5. CASE r.kind = "rollback"
    <2> DEFINE b == s.rollbacks[r.token]
    <2>1. /\ r \in RollbackRequest /\ t = AfterRollback(s, r) /\ r.token \in Ids
          /\ Revocable(s, r.token)
      BY <1>5, KindOfRequest DEF Applied, RollbackRequest, Applicable
    <2>2. /\ r.id \in Ids /\ s.proofs[r.id] = 0 /\ Proven(t)
          /\ s.proofs \in [Ids -> Nat]
      BY <1>1, <1>3, <1>5 DEF State
    <2>3. /\ t.revision = s.revision + 1
          /\ t.proofs = [s.proofs EXCEPT ![r.id] = s.revision + 1]
          /\ t.values = [s.values EXCEPT ![b.key] = b.old]
      <3> HIDE DEF s, t
      <3> QED
        BY <1>1, <2>1, RollbackFields
    <2>4. /\ t.proofs[r.id] = s.revision + 1
          /\ \A x \in Ids \ {r.id} : t.proofs[x] = s.proofs[x]
      BY <2>2, <2>3
    <2>5. /\ \A n \in 1..s.revision : Trail(s)[n] # r.id
          /\ Trail(t) = [n \in 1..(s.revision + 1) |->
                            IF n = s.revision + 1 THEN r.id ELSE Trail(s)[n]]
      <3> HIDE DEF s, t
      <3>1. Proven(s)
        BY DEF s
      <3>2. t.revision = s.revision + 1
        BY <2>3
      <3> QED
        BY <1>1, <2>2, <2>4, <3>1, <3>2, TrailExtends
    <2>6. /\ b.key \in Keys /\ b.old \in Values \cup {Absent}
          /\ Undos(s)[r.token] = Log!Ready(b.key, b.old, s.values[b.key])
          /\ Undos(t) = [Undos(s) EXCEPT ![r.token] = Log!Taken]
      BY <1>1, <2>1, RollbackRefines
    <2>7. Log!Rollback(r.id, r.token, b.key, b.old)
      BY <1>2, <2>3, <2>5, <2>6 DEF Log!Rollback, Log!Extend, Undos
    <2> QED
      BY <2>1, <2>2, <2>6, <2>7 DEF Log!Next
  <1>6. CASE r.kind = "seam"
    <2>1. r \in SeamRequest /\ t = AfterSeam(s, r) /\ r.key \in Keys /\ r.value \in Values
      BY <1>6, KindOfRequest DEF Applied, SeamRequest
    <2>2. /\ t.revision = s.revision /\ t.proofs = s.proofs
          /\ t.values = [s.values EXCEPT ![r.key] = r.value]
          /\ t.rollbacks = s.rollbacks
      BY <1>1, <2>1, SeamFields
    <2>3. Log!SetValue(r.key, r.value)
      BY <1>2, <2>2 DEF Log!SetValue, Trail
    <2> QED
      BY <2>1, <2>3 DEF Log!Next
  <1> QED
    BY <1>4, <1>5, <1>6 DEF Applicable

LEMMA StepKeepsLog ==
    ASSUME TypeOK, ProofInv, StoreInv, [Next]_vars
    PROVE  [Log!Next]_(Log!vars)
  <1>1. CASE file' = file
    BY <1>1 DEF Log!vars, Contents
  <1>2. ASSUME NEW p \in Procs, Commit(p), file' # file
        PROVE  [Log!Next]_(Log!vars)
    <2>1. file' = work[p] /\ file' # NoFile /\ Based(p)
      BY <1>2, NoFileIsNoState DEF Commit, TypeOK, StoreInv, WorkBased, AboutToWrite
    <2>2. CASE req[p] = Recovery
      <3>1. Contents = EmptyState /\ Contents' = EmptyState
        BY <2>1, <2>2 DEF Based, Contents
      <3> QED
        BY <3>1 DEF Log!vars
    <2>3. CASE req[p] # Recovery
      <3>1. /\ file # NoFile /\ Proven(file) /\ req[p] \in Request
            /\ Applicable(file, req[p]) /\ file' = Applied(file, req[p])
            /\ req[p].kind \in {"set", "rollback"} => req[p].id \notin Known(file)
        BY <2>1, <2>3 DEF Based, Receipted, TypeOK, ProofInv, FileProven
      <3> QED
        BY <2>1, <3>1, AppliedRefines
    <2> QED
      BY <2>2, <2>3
  <1>3. file' = file \/ \E p \in Procs : Commit(p)
    BY DEF Next, vars, Open, Ask, CreateLock, JudgeLock, ReclaimLock, GiveUp, StampLock,
       Recover, Load, WriteTemp, ReleaseLock, Crash, StampFails, WriteFails
  <1> QED
    BY <1>1, <1>2, <1>3

\* An empty workspace is an empty log.
LEMMA EmptyLog == Init => Log!Init
  <1> SUFFICES ASSUME Init
               PROVE  Log!Init
    OBVIOUS
  <1>1. Contents = EmptyState
    BY DEF Init, Contents
  <1>2. Trail(EmptyState) = [r \in 1..0 |-> Absent]
    BY DEF Trail, EmptyState
  <1>3. \A id \in Ids : UndoOf(EmptyState.rollbacks[id]) = Log!NoUndo
    BY DEF EmptyState, UndoOf, Log!NoUndo
  <1>4. /\ EmptyState.values = [k \in Keys |-> Absent]
        /\ EmptyState.revision = 0
    BY DEF EmptyState
  <1> QED
    BY <1>1, <1>2, <1>3, <1>4 DEF Log!Init

\* In orderly use the workspace implements WorkspaceLog: whole transactions,
\* one after the other, each way back taken at most once.
THEOREM WorkspaceLogKept ==
    ASSUME OrderlyUse
    PROVE  Spec => KeepsWorkspaceLog
  <1>1. Init => Log!Init
    BY EmptyLog
  <1>2. TypeOK /\ ProofInv /\ StoreInv /\ [Next]_vars => [Log!Next]_(Log!vars)
    BY StepKeepsLog
  <1> QED
    BY <1>1, <1>2, StoreAlways, PTL DEF Spec, KeepsWorkspaceLog, Log!Spec

(***************************************************************************)
(* Crashes and failed writes among any number of processes.  What the lock *)
(* cannot bear is that the file it unlinks is another one than it judged:  *)
(* #acquireLock reads the file, and unlinks by name afterwards.  Where no  *)
(* unlink comes late, and nobody is so slow that a live process looks      *)
(* dead, everything above holds again.                                     *)
(***************************************************************************)
LockHeld ==
    \A p \in Procs :
        /\ Inside(p) => lock # NoLock /\ lock.by = p
        /\ at[p] = "stamp" => ~lock.stamped

\* A step of p that leaves the lock file to those who are inside.
LEMMA LockLeft ==
    ASSUME LockHeld, NEW p \in Procs,
           \A q \in Procs \ {p} : at'[q] = at[q],
           \A q \in Procs \ {p} : Inside(q) => lock' = lock,
           Inside(p)' => lock' # NoLock /\ lock'.by = p,
           at'[p] = "stamp" => ~lock'.stamped
    PROVE  LockHeld'
  BY DEF LockHeld, Inside

LEMMA LockHeldStep ==
    ASSUME ~SlowAcquire, TypeOK, LockHeld, [Next]_vars, ReclaimsJudged
    PROVE  LockHeld'
  <1>1. CASE UNCHANGED vars
    BY <1>1 DEF vars, LockHeld, Inside
  <1>2. ASSUME NEW p \in Procs, Open(p) \/ GiveUp(p) \/ JudgeLock(p)
        PROVE  LockHeld'
    <2>1. /\ lock' = lock /\ ~Inside(p)' /\ at'[p] # "stamp"
          /\ \A q \in Procs \ {p} : at'[q] = at[q]
      BY <1>2 DEF Open, GiveUp, JudgeLock, Rest, TypeOK, Inside
    <2> QED
      BY <2>1, LockLeft
  <1>3. ASSUME NEW p \in Procs,
               NEW r \in SetRequest \cup RollbackRequest \cup SeamRequest, Ask(p, r)
        PROVE  LockHeld'
    <2>1. /\ lock' = lock /\ ~Inside(p)' /\ at'[p] # "stamp"
          /\ \A q \in Procs \ {p} : at'[q] = at[q]
      BY <1>3 DEF Ask, TypeOK, Inside
    <2> QED
      BY <2>1, LockLeft
  <1>4. ASSUME NEW p \in Procs, CreateLock(p)
        PROVE  LockHeld'
    <2>1. /\ lock' = [by |-> p, stamped |-> FALSE] /\ lock = NoLock
          /\ \A q \in Procs \ {p} : at'[q] = at[q]
      BY <1>4 DEF CreateLock, TypeOK
    <2>2. lock' # NoLock /\ lock'.by = p /\ ~lock'.stamped
      BY <2>1 DEF NoLock
    <2>3. \A q \in Procs : ~Inside(q)
      BY <2>1 DEF LockHeld
    <2> QED
      BY <2>1, <2>2, <2>3, LockLeft
  <1>5. ASSUME NEW p \in Procs, ReclaimLock(p)
        PROVE  LockHeld'
    <2>1. lock = NoLock \/ lock.by = Gone
      BY <1>5 DEF ReclaimsJudged, LockCanBeReclaimed
    <2>2. \A q \in Procs : ~Inside(q)
      BY <2>1, WorkspaceAssumption DEF LockHeld
    <2>3. ~Inside(p)' /\ at'[p] # "stamp" /\ \A q \in Procs \ {p} : at'[q] = at[q]
      BY <1>5 DEF ReclaimLock, TypeOK, Inside
    <2> QED
      BY <2>2, <2>3, LockLeft
  <1>6. ASSUME NEW p \in Procs, StampLock(p)
        PROVE  LockHeld'
    <2>1. lock # NoLock /\ lock.by = p
      BY <1>6 DEF LockHeld, StampLock, Inside
    <2>2. /\ lock' = [by |-> p, stamped |-> TRUE] /\ at'[p] = "load"
          /\ \A q \in Procs \ {p} : at'[q] = at[q]
      BY <1>6, <2>1 DEF StampLock, Stamped, TypeOK
    <2>3. lock' # NoLock /\ lock'.by = p
      BY <2>2 DEF NoLock
    <2>4. \A q \in Procs \ {p} : ~Inside(q)
      BY <2>1 DEF LockHeld
    <2> QED
      BY <2>2, <2>3, <2>4, LockLeft
  <1>7. ASSUME NEW p \in Procs,
               Recover(p) \/ Load(p) \/ WriteTemp(p) \/ Commit(p) \/ WriteFails(p)
        PROVE  LockHeld'
    <2>1. /\ lock' = lock /\ Inside(p) /\ at'[p] # "stamp"
          /\ \A q \in Procs \ {p} : at'[q] = at[q]
      BY <1>7 DEF Recover, Load, WriteTemp, Commit, WriteFails, TypeOK, Inside
    <2>2. lock # NoLock /\ lock.by = p
      BY <2>1 DEF LockHeld
    <2> QED
      BY <2>1, <2>2, LockLeft
  <1>8. ASSUME NEW p \in Procs, ReleaseLock(p)
        PROVE  LockHeld'
    <2>1. /\ Inside(p) /\ ~Inside(p)' /\ at'[p] # "stamp"
          /\ \A q \in Procs \ {p} : at'[q] = at[q]
      BY <1>8 DEF ReleaseLock, Rest, TypeOK, Inside
    <2>2. \A q \in Procs \ {p} : ~Inside(q)
      BY <2>1 DEF LockHeld
    <2> QED
      BY <2>1, <2>2, LockLeft
  <1>9. ASSUME NEW p \in Procs, Crash(p) \/ StampFails(p)
        PROVE  LockHeld'
    <2>1. /\ lock' \in {Orphaned(lock, p), Stamped(lock, p)}
          /\ ~Inside(p)' /\ at'[p] # "stamp"
          /\ \A q \in Procs \ {p} : at'[q] = at[q]
      BY <1>9 DEF Crash, StampFails, Rest, TypeOK, Inside
    <2>2. ASSUME NEW q \in Procs \ {p}, Inside(q)
          PROVE  lock' = lock
      BY <2>1, <2>2 DEF LockHeld, Orphaned, Stamped
    <2> QED
      BY <2>1, <2>2, LockLeft
  <1> QED
    BY <1>1, <1>2, <1>3, <1>4, <1>5, <1>6, <1>7, <1>8, <1>9 DEF Next

LEMMA HeldExcludes ==
    ASSUME LockHeld
    PROVE  Exclusive
  BY DEF LockHeld, Exclusive

\* The lock file that names a live process goes by the hand of that process only.
LEMMA ReclaimsLawfully ==
    ASSUME ~SlowAcquire, TypeOK, LockHeld, [Next]_vars, ReclaimsJudged,
           NEW p \in Procs, lock = [by |-> p, stamped |-> TRUE], lock' # lock
    PROVE  at[p] = "release" \/ at'[p] = "down"
  <1>1. lock # NoLock /\ lock.by = p /\ lock.stamped
    BY DEF NoLock
  <1>2. \A q \in Procs \ {p} : ~Inside(q)
    BY <1>1 DEF LockHeld
  <1>3. PICK q \in Procs : \/ CreateLock(q) \/ ReclaimLock(q) \/ StampLock(q)
                         \/ ReleaseLock(q) \/ Crash(q) \/ StampFails(q)
    BY DEF Next, vars, Open, Ask, JudgeLock, GiveUp, Recover, Load, WriteTemp, Commit,
       WriteFails
  <1>4. ~CreateLock(q)
    BY <1>1 DEF CreateLock
  <1>5. ~ReclaimLock(q)
    BY <1>1, WorkspaceAssumption DEF ReclaimsJudged, LockCanBeReclaimed
  <1>6. ~StampLock(q) /\ ~StampFails(q)
    BY <1>1 DEF LockHeld, StampLock, StampFails, Inside
  <1>7. CASE ReleaseLock(q)
    BY <1>2, <1>7 DEF ReleaseLock, Inside
  <1>8. CASE Crash(q)
    BY <1>1, <1>8 DEF Crash, Orphaned, TypeOK
  <1> QED
    BY <1>3, <1>4, <1>5, <1>6, <1>7, <1>8

LEMMA HeldAlways ==
    ASSUME ~SlowAcquire
    PROVE  Spec /\ [][ReclaimsJudged]_vars =>
              [](TypeOK /\ LockHeld /\ ProofInv /\ Exclusive /\ StoreInv)
  <1>1. Init => LockHeld /\ ProofInv /\ StoreInv
    BY EmptyProven
       DEF Init, NoRequest, ProofInv, FileProven, WorkProven, IdsIssued, IdsApart,
           PendingUnknown, Pending, Receipted, StoreInv, OpenHasFile, DoneReleases,
           DoneProven, WorkBased, AboutToWrite, AckedDurable, LockHeld, Inside
  <1>2. TypeOK /\ LockHeld /\ [Next]_vars /\ [ReclaimsJudged]_vars => LockHeld'
    <2>1. TypeOK /\ LockHeld /\ UNCHANGED vars => LockHeld'
      BY DEF vars, LockHeld, Inside
    <2> QED
      BY <2>1, LockHeldStep
  <1>3. LockHeld => Exclusive
    BY HeldExcludes
  <1>4. TypeOK /\ ProofInv /\ Exclusive /\ StoreInv /\ [Next]_vars => StoreInv'
    BY StoreStep
  <1> QED
    BY <1>1, <1>2, <1>3, <1>4, ProofStep, WorkspaceTyped, PTL DEF Spec

\* Only a late unlink breaks the lock: where the lock file that is unlinked is one that
\* can still be reclaimed, any number of processes and crashes keep each other out, and
\* the file of a live process is removed by that process only (CRASH_RECOVERY_V0_6.md).
THEOREM LateUnlinksAlone ==
    ASSUME ~SlowAcquire
    PROVE  Spec /\ [][ReclaimsJudged]_vars => []Exclusive /\ LawfulReclaim
  <1>1. TypeOK /\ LockHeld /\ [Next]_vars /\ [ReclaimsJudged]_vars =>
           [\A p \in Procs :
               lock = [by |-> p, stamped |-> TRUE] /\ lock' # lock =>
                   at[p] = "release" \/ at'[p] = "down"]_vars
    BY ReclaimsLawfully
  <1> QED
    BY <1>1, HeldAlways, PTL DEF Spec, LawfulReclaim

\* And then, whatever crashes, a transaction whose receipt was returned is never lost.
THEOREM AckedOutliveCrashes ==
    ASSUME ~SlowAcquire
    PROVE  Spec /\ [][ReclaimsJudged]_vars => []AckedDurable
  <1>1. StoreInv => AckedDurable
    BY DEF StoreInv
  <1> QED
    BY <1>1, HeldAlways, PTL

\* And the workspace stays a log of whole transactions, one after the other.
THEOREM LogOutlivesCrashes ==
    ASSUME ~SlowAcquire
    PROVE  Spec /\ [][ReclaimsJudged]_vars => KeepsWorkspaceLog
  <1>1. Init => Log!Init
    BY EmptyLog
  <1>2. TypeOK /\ ProofInv /\ StoreInv /\ [Next]_vars => [Log!Next]_(Log!vars)
    BY StepKeepsLog
  <1> QED
    BY <1>1, <1>2, HeldAlways, PTL DEF Spec, KeepsWorkspaceLog, Log!Spec
=============================================================================
