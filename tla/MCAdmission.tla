---------------------------- MODULE MCAdmission ----------------------------
(* An instance of Admission for TLC.                                       *)
EXTENDS Admission, TLC

MCLimits == [b \in Buckets |-> 2]

\* The slots of the handlers are interchangeable.
Symmetry == Permutations(KeyCalls)
=============================================================================
