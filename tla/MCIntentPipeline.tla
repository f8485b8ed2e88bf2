-------------------------- MODULE MCIntentPipeline --------------------------
(* Instances of IntentPipeline for TLC: model values and their symmetry.   *)
EXTENDS IntentPipeline, TLC

\* Calls, tokens and, where every principal has every role, principals are
\* interchangeable: no definition of the specification tells two of them apart.
Symmetry == Permutations(Calls) \cup Permutations(Tokens) \cup Permutations(Principals)
=============================================================================
