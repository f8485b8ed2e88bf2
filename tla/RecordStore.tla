---------------------------- MODULE RecordStore ----------------------------
(***************************************************************************)
(* What a store of records that is reloaded after a crash promises: a      *)
(* record comes back as it once was, whole, or it does not come back.  It  *)
(* need not be the last version.                                           *)
(***************************************************************************)
CONSTANTS Ids, NoRecord

VARIABLES
    record,     \* the version in use, per id
    had         \* the versions each record has had

Init ==
    /\ record = [i \in Ids |-> NoRecord]
    /\ had = [i \in Ids |-> {}]

\* New versions of one record; a handler may write more than one.
Write(i) ==
    /\ record' = [record EXCEPT ![i] = record'[i]]
    /\ had' = [had EXCEPT ![i] = had'[i]]
    /\ had[i] \subseteq had'[i]
    /\ record'[i] \in had'[i]

\* A crash and a reload.
Reload ==
    /\ \A i \in Ids : record'[i] \in had[i] \cup {NoRecord}
    /\ UNCHANGED had

Next == (\E i \in Ids : Write(i)) \/ Reload

Spec == Init /\ [][Next]_<<record, had>>
=============================================================================
