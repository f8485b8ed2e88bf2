------------------------------ MODULE HashChain ------------------------------
(***************************************************************************)
(* What a hash-chained ledger promises to those who read it: entries are   *)
(* added at the end, each linked to the one before, and none is changed or *)
(* reordered.  A crash may cost entries at the end, and only there.        *)
(***************************************************************************)
EXTENDS Naturals, Sequences

CONSTANT Genesis    \* the link of a first entry

VARIABLE chain      \* entries, each with its hash and the link to the one before

Tip(c) == IF c = <<>> THEN Genesis ELSE c[Len(c)].hash

Init == chain = <<>>

\* c is the beginning of d.
Begins(c, d) == Len(c) <= Len(d) /\ \A i \in 1..Len(c) : c[i] = d[i]

Extend ==
    /\ Len(chain') = Len(chain) + 1
    /\ Begins(chain, chain')
    /\ chain'[Len(chain')].prev = Tip(chain)

LoseEnd == Begins(chain', chain)

Next == Extend \/ LoseEnd

Spec == Init /\ [][Next]_chain
=============================================================================
