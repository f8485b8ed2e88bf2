--------------------------- MODULE PrimeWorkspace ---------------------------
(***************************************************************************)
(* The persistent workspace of the Prime sandbox                           *)
(* (gateway/prime/workspace-store.mjs): processes of one host share a      *)
(* directory with a state file, replaced by renaming a temporary file over *)
(* it, and a lock file created with O_EXCL.                                *)
(*                                                                         *)
(* The store is synchronous, so inside one process an operation is never   *)
(* interrupted by another; between processes every system call is a step.  *)
(* `at' is the call a process makes next.  A lock file records who made it *)
(* by the process or Gone once that process is dead: process ids are not   *)
(* reused.  A transaction's proof and the rollback token of a set are      *)
(* fresh UUIDs made by one call; one member of Ids stands for both.  The   *)
(* hash of a value stands for the value.                                   *)
(***************************************************************************)
EXTENDS Naturals, FiniteSets

CONSTANTS
    Procs,          \* processes that open a store on the directory
    Gone,           \* a dead process
    Keys, Values,   \* workspace keys and string values
    Absent,         \* the value of a key that has none
    Ids,            \* UUIDs of transactions (none is made twice)
    NoId,
    SlowAcquire,    \* may a live process need longer than staleLockMs to
                    \* write its name into the lock file it has created?
    MaxFaults       \* bound: crashes and failed writes

ASSUME WorkspaceAssumption ==
    /\ Gone \notin Procs
    /\ Absent \notin Values
    /\ NoId \notin Ids
    /\ SlowAcquire \in BOOLEAN
    /\ MaxFaults \in Nat

VARIABLES
    file,       \* prime-workspace-state.json
    lock,       \* prime-workspace-state.lock
    temps,      \* whose temporary files exist
    at, req,    \* per process: next call, transaction in progress
    work,       \* per process: the state transact() is about to write
    done,       \* processes whose transaction was committed, not yet returned
    issued,     \* history: ids made so far
    acked,      \* history: receipted transactions that returned to their caller
    faults      \* faults so far

vars == <<file, lock, temps, at, req, work, done, issued, acked, faults>>

Cell == Values \cup {Absent}
NoRollback == [key |-> Absent, old |-> Absent, new |-> Absent, used |-> FALSE]
RollbackRecord ==
    {NoRollback} \cup [key: Keys, old: Cell, new: Values, used: BOOLEAN]

\* Contents of the state file.  proofs[id] is the revision the proof is bound
\* to, 0 when there is no such proof.
State ==
    [revision: Nat, latest: Ids \cup {NoId}, values: [Keys -> Cell],
     rollbacks: [Ids -> RollbackRecord], proofs: [Ids -> Nat]]

\* emptyState()
EmptyState ==
    [revision |-> 0, latest |-> NoId, values |-> [k \in Keys |-> Absent],
     rollbacks |-> [id \in Ids |-> NoRollback], proofs |-> [id \in Ids |-> 0]]

\* There is no state file yet.
NoFile == [revision |-> 0]

NoLock == [by |-> "nobody"]
LockFile == [by: Procs \cup {Gone}, stamped: BOOLEAN]

NoRequest == [kind |-> "none"]
Recovery == [kind |-> "recover"]
SetRequest == [kind: {"set"}, id: Ids, key: Keys, value: Values]
RollbackRequest == [kind: {"rollback"}, id: Ids, token: Ids]
SeamRequest == [kind: {"seam"}, key: Keys, value: Values]
Request ==
    {NoRequest, Recovery} \cup SetRequest \cup RollbackRequest \cup SeamRequest

Locations == {"down", "idle", "acquire", "reclaim", "stamp", "load", "write",
              "commit", "release"}

TypeOK ==
    /\ file \in State \cup {NoFile}
    /\ lock \in LockFile \cup {NoLock}
    /\ temps \subseteq Procs \cup {Gone}
    /\ at \in [Procs -> Locations]
    /\ req \in [Procs -> Request]
    /\ work \in [Procs -> State]
    /\ done \subseteq Procs
    /\ issued \subseteq Ids
    /\ acked \subseteq Ids
    /\ faults \in 0..MaxFaults

Init ==
    /\ file = NoFile
    /\ lock = NoLock
    /\ temps = {}
    /\ at = [p \in Procs |-> "down"]
    /\ req = [p \in Procs |-> NoRequest]
    /\ work = [p \in Procs |-> EmptyState]
    /\ done = {}
    /\ issued = {}
    /\ acked = {}
    /\ faults = 0

-----------------------------------------------------------------------------
(* The transactions, as functions of the state they read.                  *)

\* Mutant: the proof is bound to the revision it was read at.
FaultyAttachProof(s, id) ==
    [s EXCEPT !.proofs = [s.proofs EXCEPT ![id] = s.revision],
              !.latest = id]

\* #attachProof: the next revision is bound to the proof.
AttachProof(s, id) ==
    [s EXCEPT !.proofs = [s.proofs EXCEPT ![id] = s.revision + 1],
              !.revision = s.revision + 1,
              !.latest = id]

\* atomicSetWithRollback
AfterSet(s, r) ==
    AttachProof([s EXCEPT
                   !.values = [s.values EXCEPT ![r.key] = r.value],
                   !.rollbacks = [s.rollbacks EXCEPT ![r.id] =
                       [key |-> r.key, old |-> s.values[r.key], new |-> r.value,
                        used |-> FALSE]]],
                r.id)

\* atomicRollback refuses an unknown or used token, or a value changed since.
Revocable(s, t) ==
    LET b == s.rollbacks[t]
    IN b # NoRollback /\ ~b.used /\ s.values[b.key] = b.new

Burned(b) == [key |-> b.key, old |-> b.old, new |-> b.new, used |-> TRUE]

AfterRollback(s, r) ==
    LET b == s.rollbacks[r.token]
    IN AttachProof([s EXCEPT
                      !.values = [s.values EXCEPT ![b.key] = b.old],
                      !.rollbacks = [s.rollbacks EXCEPT ![r.token] = Burned(b)]],
                   r.id)

\* setValue, the seam for tests
AfterSeam(s, r) == [s EXCEPT !.values = [s.values EXCEPT ![r.key] = r.value]]

\* validateState
ValidState(s) ==
    IF s.revision = 0
    THEN s.latest = NoId
    ELSE s.latest \in Ids /\ s.proofs[s.latest] = s.revision

\* The mutator does not throw.
Applicable(s, r) ==
    \/ r.kind \in {"set", "seam"}
    \/ r.kind = "rollback" /\ Revocable(s, r.token)

Applied(s, r) ==
    CASE r.kind = "set" -> AfterSet(s, r)
      [] r.kind = "rollback" -> AfterRollback(s, r)
      [] r.kind = "seam" -> AfterSeam(s, r)

-----------------------------------------------------------------------------
\* A process constructs its store: #recover runs first.
Open(p) ==
    /\ at[p] = "down"
    /\ at' = [at EXCEPT ![p] = "acquire"]
    /\ req' = [req EXCEPT ![p] = Recovery]
    /\ UNCHANGED <<file, lock, temps, work, done, issued, acked, faults>>

\* A caller asks for a transaction; set and rollback make a fresh id.
Ask(p, r) ==
    /\ at[p] = "idle"
    /\ r.kind \in {"set", "rollback"} => r.id \notin issued
    /\ issued' = IF r.kind = "seam" THEN issued ELSE issued \cup {r.id}
    /\ at' = [at EXCEPT ![p] = "acquire"]
    /\ req' = [req EXCEPT ![p] = r]
    /\ UNCHANGED <<file, lock, temps, work, done, acked, faults>>

\* Mutant: a location no operation starts from.
MisnamedRest(p, ok) == IF req[p] = Recovery /\ ~ok THEN "down" ELSE "free"

\* Where a store is after an operation, whether it succeeded or threw: a
\* constructor that threw leaves none.
Rest(p, ok) == IF req[p] = Recovery /\ ~ok THEN "down" ELSE "idle"

\* openSync(lockPath, "wx") succeeds: the file is empty as yet.
CreateLock(p) ==
    /\ at[p] = "acquire"
    /\ lock = NoLock
    /\ lock' = [by |-> p, stamped |-> FALSE]
    /\ at' = [at EXCEPT ![p] = "stamp"]
    /\ UNCHANGED <<file, temps, req, work, done, issued, acked, faults>>

\* Mutant: a readable lock file is taken for a stale one.
FaultyLockCanBeReclaimed == lock # NoLock /\ lock.stamped

\* #lockCanBeReclaimed: the process it names is dead, or it names none and is
\* older than staleLockMs.
LockCanBeReclaimed ==
    /\ lock # NoLock
    /\ \/ lock.by = Gone
       \/ ~lock.stamped /\ SlowAcquire

\* The lock exists and is found reclaimable; unlinkSync comes later.
JudgeLock(p) ==
    /\ at[p] = "acquire"
    /\ LockCanBeReclaimed
    /\ at' = [at EXCEPT ![p] = "reclaim"]
    /\ UNCHANGED <<file, lock, temps, req, work, done, issued, acked, faults>>

\* unlinkSync(lockPath): it removes whatever file has the name by then.
ReclaimLock(p) ==
    /\ at[p] = "reclaim"
    /\ lock' = NoLock
    /\ at' = [at EXCEPT ![p] = "acquire"]
    /\ UNCHANGED <<file, temps, req, work, done, issued, acked, faults>>

\* lockTimeoutMs passed: "Prime workspace is busy".
GiveUp(p) ==
    /\ at[p] = "acquire"
    /\ at' = [at EXCEPT ![p] = Rest(p, FALSE)]
    /\ req' = [req EXCEPT ![p] = NoRequest]
    /\ UNCHANGED <<file, lock, temps, work, done, issued, acked, faults>>

\* The process id is written through the descriptor: into the lock file, or
\* into nothing if the file has been unlinked meanwhile.
Stamped(l, p) ==
    IF l # NoLock /\ l.by = p THEN [by |-> p, stamped |-> TRUE] ELSE l

StampLock(p) ==
    /\ at[p] = "stamp"
    /\ lock' = Stamped(lock, p)
    /\ at' = [at EXCEPT ![p] = "load"]
    /\ UNCHANGED <<file, temps, req, work, done, issued, acked, faults>>

\* Mutant: the state file is taken to be missing.
FaultyRecover(p) ==
    /\ at[p] = "load"
    /\ req[p] = Recovery
    /\ temps' = {}
    /\ work' = [work EXCEPT ![p] = EmptyState]
    /\ at' = [at EXCEPT ![p] = "write"]
    /\ UNCHANGED <<file, lock, req, done, issued, acked, faults>>

\* #recover: temporary files go, and an empty state is written if there is none;
\* a state that is not valid makes the constructor throw.
Recover(p) ==
    /\ at[p] = "load"
    /\ req[p] = Recovery
    /\ temps' = {}
    /\ IF file = NoFile
       THEN /\ work' = [work EXCEPT ![p] = EmptyState]
            /\ at' = [at EXCEPT ![p] = "write"]
            /\ UNCHANGED done
       ELSE /\ done' = IF ValidState(file) THEN done \cup {p} ELSE done
            /\ at' = [at EXCEPT ![p] = "release"]
            /\ UNCHANGED work
    /\ UNCHANGED <<file, lock, req, issued, acked, faults>>

\* transact: the state is read and validated, and the mutator runs or throws.
Load(p) ==
    /\ at[p] = "load"
    /\ req[p] # Recovery
    /\ IF file # NoFile /\ ValidState(file) /\ Applicable(file, req[p])
       THEN /\ work' = [work EXCEPT ![p] = Applied(file, req[p])]
            /\ at' = [at EXCEPT ![p] = "write"]
       ELSE /\ at' = [at EXCEPT ![p] = "release"]
            /\ UNCHANGED work
    /\ UNCHANGED <<file, lock, temps, req, done, issued, acked, faults>>

\* #write: the temporary file is written and synchronized.
WriteTemp(p) ==
    /\ at[p] = "write"
    /\ temps' = temps \cup {p}
    /\ at' = [at EXCEPT ![p] = "commit"]
    /\ UNCHANGED <<file, lock, req, work, done, issued, acked, faults>>

\* renameSync, the commit point; it throws if the temporary file is gone.
Commit(p) ==
    /\ at[p] = "commit"
    /\ IF p \in temps
       THEN file' = work[p] /\ done' = done \cup {p}
       ELSE UNCHANGED <<file, done>>
    /\ temps' = temps \ {p}
    /\ at' = [at EXCEPT ![p] = "release"]
    /\ UNCHANGED <<lock, req, work, issued, acked, faults>>

\* #releaseLock unlinks the lock file, whoever made it; the call returns.
ReleaseLock(p) ==
    /\ at[p] = "release"
    /\ lock' = NoLock
    /\ at' = [at EXCEPT ![p] = Rest(p, p \in done)]
    /\ acked' = IF p \in done /\ req[p].kind \in {"set", "rollback"}
                THEN acked \cup {req[p].id}
                ELSE acked
    /\ req' = [req EXCEPT ![p] = NoRequest]
    /\ work' = [work EXCEPT ![p] = EmptyState]
    /\ done' = done \ {p}
    /\ UNCHANGED <<file, temps, issued, faults>>

-----------------------------------------------------------------------------
(* Faults.                                                                 *)

\* What a process leaves in the directory when it is no longer there.
Orphaned(l, p) == IF l # NoLock /\ l.by = p THEN [l EXCEPT !.by = Gone] ELSE l
OrphanedTemps(p) == IF p \in temps THEN (temps \ {p}) \cup {Gone} ELSE temps

Crash(p) ==
    /\ at[p] # "down"
    /\ faults < MaxFaults
    /\ faults' = faults + 1
    /\ lock' = Orphaned(lock, p)
    /\ temps' = OrphanedTemps(p)
    /\ at' = [at EXCEPT ![p] = "down"]
    /\ req' = [req EXCEPT ![p] = NoRequest]
    /\ work' = [work EXCEPT ![p] = EmptyState]
    /\ done' = done \ {p}
    /\ UNCHANGED <<file, issued, acked>>

\* Writing the lock file's contents fails, or only fsyncSync after it:
\* #acquireLock throws and the file stays, naming nobody or the process.  The
\* process lives on, unless it was constructing its store as it was loaded
\* (sandbox.mjs); while it lives, a file that names it is never reclaimed.
StampFails(p) ==
    /\ at[p] = "stamp"
    /\ faults < MaxFaults
    /\ faults' = faults + 1
    /\ \/ lock' = Orphaned(lock, p)
       \/ Rest(p, FALSE) = "idle" /\ lock' = Stamped(lock, p)
    /\ at' = [at EXCEPT ![p] = Rest(p, FALSE)]
    /\ req' = [req EXCEPT ![p] = NoRequest]
    /\ UNCHANGED <<file, temps, work, done, issued, acked>>

\* Writing the temporary file fails: transact throws, the file stays.
WriteFails(p) ==
    /\ at[p] = "write"
    /\ faults < MaxFaults
    /\ faults' = faults + 1
    /\ temps' = temps \cup {p}
    /\ at' = [at EXCEPT ![p] = "release"]
    /\ UNCHANGED <<file, lock, req, work, done, issued, acked>>

Next ==
    \E p \in Procs :
        \/ Open(p)
        \/ \E r \in SetRequest \cup RollbackRequest \cup SeamRequest : Ask(p, r)
        \/ CreateLock(p) \/ JudgeLock(p) \/ ReclaimLock(p) \/ GiveUp(p)
        \/ StampLock(p) \/ Recover(p) \/ Load(p) \/ WriteTemp(p) \/ Commit(p)
        \/ ReleaseLock(p)
        \/ Crash(p) \/ StampFails(p) \/ WriteFails(p)

Spec == Init /\ [][Next]_vars

-----------------------------------------------------------------------------
(* Properties.                                                             *)

\* A process that has the lock and has not let it go.
Inside(p) == at[p] \in {"stamp", "load", "write", "commit", "release"}

\* #acquireLock gives the workspace to one process at a time.
Exclusive == \A p, q \in Procs : Inside(p) /\ Inside(q) => p = q

\* Every revision up to the current one has one proof, every proof a revision,
\* and every rollback capability the proof of the set it undoes.
Proven(s) ==
    /\ ValidState(s)
    /\ \A r \in 1..s.revision : \E id \in Ids : s.proofs[id] = r
    /\ \A id \in Ids : s.proofs[id] <= s.revision
    /\ \A i, j \in Ids : s.proofs[i] = s.proofs[j] /\ s.proofs[i] # 0 => i = j
    /\ \A id \in Ids : s.rollbacks[id] # NoRollback => s.proofs[id] # 0

\* "canonical state without its declared durable proof fails closed"
\* (gateway/tests/prime-receipt-durability.test.mjs) never has to: no crash,
\* failed write or broken lock leaves a state file whose proofs do not match.
RevisionsProven == file # NoFile => Proven(file)

\* A set or rollback that returned its receipt stays part of the workspace,
\* whatever crashes afterwards (PERSISTENT_WORKSPACE_V0_4.md).
AckedDurable == \A id \in acked : file # NoFile /\ file.proofs[id] # 0

\* The lock file is removed by the process that made it, or once that process
\* is dead, or while nobody is named in it (CRASH_RECOVERY_V0_6.md).
LawfulReclaim ==
    [][\A p \in Procs :
          lock = [by |-> p, stamped |-> TRUE] /\ lock' # lock =>
              at[p] = "release" \/ at'[p] = "down"]_vars

\* No unlink comes late: a lock file that ReclaimLock removes is one that can be
\* reclaimed still, though perhaps not the one that was judged.
ReclaimsJudged ==
    \A p \in Procs : ReclaimLock(p) => lock = NoLock \/ LockCanBeReclaimed

\* The promise of WorkspaceLog, read off the state file: the proof of each
\* revision, and what became of each rollback capability.
Trail(s) == [r \in 1..s.revision |-> CHOOSE id \in Ids : s.proofs[id] = r]

Contents == IF file = NoFile THEN EmptyState ELSE file

UndoOf(b) ==
    CASE b = NoRollback -> [state |-> "none"]
      [] b # NoRollback /\ b.used -> [state |-> "taken"]
      [] OTHER -> [state |-> "ready", key |-> b.key, old |-> b.old, new |-> b.new]

Log == INSTANCE WorkspaceLog WITH
    values <- Contents.values,
    undo <- [id \in Ids |-> UndoOf(Contents.rollbacks[id])],
    length <- Contents.revision,
    trail <- Trail(Contents)

\* Processes that share the workspace see one log of whole transactions.
KeepsWorkspaceLog == Log!Spec
=============================================================================
