------------------------- MODULE MCEnforcementGate -------------------------
(* Instance of EnforcementGate for TLC: model values and their symmetry.   *)
EXTENDS EnforcementGate, TLC

\* Tokens, calls, traces and hashes are interchangeable.
Symmetry == Permutations(Tokens) \cup Permutations(Calls)
                \cup Permutations(Hashes) \cup Permutations(Traces)
=============================================================================
