-------------------------- MODULE MCPrimeWorkspace --------------------------
(* Instances of PrimeWorkspace for TLC: model values and their symmetry.   *)
EXTENDS PrimeWorkspace, TLC

\* Processes, ids and values are interchangeable.
Symmetry == Permutations(Procs) \cup Permutations(Ids) \cup Permutations(Values)
=============================================================================
