---------------------------- MODULE WorkspaceLog ----------------------------
(***************************************************************************)
(* What the Prime workspace promises to its callers                        *)
(* (gateway/prime/PERSISTENT_WORKSPACE_V0_4.md, CRASH_RECOVERY_V0_6.md):   *)
(* one workspace, changed by whole transactions, one after the other; each *)
(* set leaves a way back that can be taken once, and each receipted        *)
(* transaction takes the next place of one trail of proofs.                *)
(***************************************************************************)
EXTENDS Naturals

CONSTANTS Keys, Values, Absent, Ids

VARIABLES
    values,     \* the value of each key, or Absent
    undo,       \* per set transaction: its way back
    length,     \* the number of revisions
    trail       \* the proof of each revision, in order

vars == <<values, undo, length, trail>>

NoUndo == [state |-> "none"]
Ready(k, old, new) == [state |-> "ready", key |-> k, old |-> old, new |-> new]
Taken == [state |-> "taken"]

\* The trail takes one more proof, which it does not have yet.
Extend(id) ==
    /\ length' = length + 1
    /\ \A r \in 1..length : trail[r] # id
    /\ trail' = [r \in 1..(length + 1) |-> IF r = length + 1 THEN id ELSE trail[r]]

Init ==
    /\ values = [k \in Keys |-> Absent]
    /\ undo = [id \in Ids |-> NoUndo]
    /\ length = 0
    /\ trail = [r \in 1..0 |-> Absent]

\* A receipted set: its proof is new, and so is the way back.
Set(id, k, v) ==
    /\ Extend(id)
    /\ undo[id] = NoUndo
    /\ values' = [values EXCEPT ![k] = v]
    /\ undo' = [undo EXCEPT ![id] = Ready(k, values[k], v)]

\* A receipted rollback, possible while the value is the one that was set.
Rollback(id, t, k, old) ==
    /\ Extend(id)
    /\ undo[t] = Ready(k, old, values[k])
    /\ values' = [values EXCEPT ![k] = old]
    /\ undo' = [undo EXCEPT ![t] = Taken]

\* The seam for tests: a value changes without a proof.
SetValue(k, v) ==
    /\ values' = [values EXCEPT ![k] = v]
    /\ UNCHANGED <<undo, length, trail>>

Next ==
    \/ \E id \in Ids, k \in Keys, v \in Values : Set(id, k, v)
    \/ \E id, t \in Ids, k \in Keys, old \in Values \cup {Absent} :
          Rollback(id, t, k, old)
    \/ \E k \in Keys, v \in Values : SetValue(k, v)

Spec == Init /\ [][Next]_vars
=============================================================================
