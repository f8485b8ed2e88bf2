---------------------------- MODULE MCGovernance ----------------------------
(* Instances of Governance for TLC: policies that tell the rules apart.    *)
EXTENDS Governance, TLC

CONSTANTS read, send, agent, stranger, sys

Class(pattern, conditions, decision, risk) ==
    [pattern |-> pattern, conditions |-> conditions, decision |-> decision, risk |-> risk]

\* Overlapping classes, conditions and an unmatched action, as in config/rio/policy-v2.json.
MCPolicies ==
    {[agents |-> {agent}, systems |-> {sys}, delegation |-> TRUE, ceiling |-> 1,
      classes |-> <<Class({send}, {"recipient_not_in", "bounds"}, "AUTO_APPROVE", 2),
                    Class({send}, {}, "AUTO_DENY", 4)>>],
     [agents |-> {agent, stranger}, systems |-> {}, delegation |-> FALSE, ceiling |-> 1,
      classes |-> <<Class({read, send}, {"recipient_in"}, "AUTO_APPROVE", 0),
                    Class({read}, {}, "REQUIRE_QUORUM", 3)>>]}

\* Together: in scope, and out of it by the agent or the system; a class matched by what
\* the request has or lacks, refused for it, and none; confidence on either side of 80.
Asks(action, who, system, facts, confidence) ==
    [action |-> action, agent |-> who, system |-> system, facts |-> facts,
     confidence |-> confidence]

MCRequests ==
    {Asks(read, stranger, Local, {"recipient", "known"}, 79),
     Asks(send, agent, Local, {}, 80),
     Asks(send, agent, sys, {"recipient"}, 80)}

\* The slots of the handlers and the keys are interchangeable.
Symmetry == Permutations(SignerCalls) \cup Permutations(PublicKeys)
=============================================================================
