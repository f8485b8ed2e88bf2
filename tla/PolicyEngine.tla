---------------------------- MODULE PolicyEngine ----------------------------
(***************************************************************************)
(* The verdict of a policy on an intent (governance/policy-engine.mjs and  *)
(* governance/spgm-policy-bridge.mjs): pure functions of the intent, the   *)
(* active policy, the system mode, the principal and the SPG-M review.     *)
(* A pattern is the set of actions it matches.  Risk tiers are their       *)
(* severities, NONE = 0 to CRITICAL = 4.                                   *)
(***************************************************************************)
EXTENDS Integers, Sequences

CONSTANTS
    Actions,        \* action names
    Agents,         \* agent ids
    Systems,        \* target systems
    Local,          \* the target that is always in scope
    Confidences     \* confidence scores a request may carry

ASSUME PolicyAssumption == Confidences \subseteq Int

Risks == 0..4
MEDIUM == 2
HIGH == 3
CRITICAL == 4

Decisions ==
    {"AUTO_APPROVE", "AUTO_DENY", "REQUIRE_HUMAN", "REQUIRE_QUORUM", "REQUIRE_UNANIMOUS"}
Modes == {"NORMAL", "ELEVATED", "LOCKDOWN", "MAINTENANCE"}

\* What the conditions look at: whether there is a recipient, whether it is a known
\* contact, and whether the numeric bounds of the class are kept.
Facts == {"recipient", "known", "bounded"}
Conditions == {"recipient_in", "recipient_not_in", "bounds"}

Request ==
    [action: Actions, agent: Agents, system: Systems \cup {Local},
     facts: SUBSET Facts, confidence: Confidences]

ActionClass ==
    [pattern: SUBSET Actions, conditions: SUBSET Conditions,
     decision: Decisions, risk: Risks]

Policy ==
    [agents: SUBSET Agents, systems: SUBSET Systems, classes: Seq(ActionClass),
     delegation: BOOLEAN, ceiling: Risks]

Verdict ==
    [decision: Decisions \cup {"MAINTENANCE_PAUSED"}, risk: Risks, root_only: BOOLEAN]

-----------------------------------------------------------------------------
\* evaluateConditions.  Without a recipient, recipient_not_in answers for the whole
\* class: the conditions after it are not looked at.
EvaluateConditions(r, conditions) ==
    /\ "recipient_in" \in conditions => {"recipient", "known"} \subseteq r.facts
    /\ \/ "recipient_not_in" \in conditions /\ "recipient" \notin r.facts
       \/ /\ "recipient_not_in" \in conditions => "known" \notin r.facts
          /\ "bounds" \in conditions => "bounded" \in r.facts

Applies(r, class) ==
    r.action \in class.pattern /\ EvaluateConditions(r, class.conditions)

Applicable(r, p) == {n \in DOMAIN p.classes : Applies(r, p.classes[n])}

\* The first class that applies counts.
MatchedClass(r, p) ==
    CHOOSE n \in Applicable(r, p) : \A k \in Applicable(r, p) : n <= k

InScope(r, p) ==
    /\ r.agent \in p.agents
    /\ r.system \in p.systems \cup {Local}

\* Without a class the decision is REQUIRE_HUMAN.
ClassDecision(r, p) ==
    IF Applicable(r, p) = {} THEN "REQUIRE_HUMAN"
    ELSE p.classes[MatchedClass(r, p)].decision
ClassRisk(r, p) ==
    IF Applicable(r, p) = {} THEN HIGH ELSE p.classes[MatchedClass(r, p)].risk

\* Mutant: those modes ask for a human even where the class denies.
HumanInMode(d, mode) == IF mode \in {"ELEVATED", "LOCKDOWN"} THEN "REQUIRE_HUMAN" ELSE d

\* The modes that ask for a human whatever the class says.
ModeDecision(d, mode) ==
    IF mode \in {"ELEVATED", "LOCKDOWN"} /\ d # "AUTO_DENY" THEN "REQUIRE_HUMAN" ELSE d

\* Mutant: a delegate may go one tier above its ceiling.
LaxDoubtful(r, p, delegate) ==
    \/ r.confidence < 80
    \/ delegate /\ p.delegation /\ ClassRisk(r, p) > p.ceiling + 1

\* What takes AUTO_APPROVE away: low confidence, or a delegate above its ceiling.
Doubtful(r, p, delegate) ==
    \/ r.confidence < 80
    \/ delegate /\ p.delegation /\ ClassRisk(r, p) > p.ceiling

EngineDecision(r, p, mode, delegate) ==
    LET d == ModeDecision(ClassDecision(r, p), mode)
    IN  IF d = "AUTO_APPROVE" /\ Doubtful(r, p, delegate) THEN "REQUIRE_HUMAN" ELSE d

MaxRisk(a, b) == IF a < b THEN b ELSE a

\* applySpgmPolicyBridge.  `review' says that there is review metadata, that it is
\* valid, and that it asks for RIO review: it then turns AUTO_APPROVE into
\* REQUIRE_HUMAN, of at least MEDIUM risk.  Nothing else in it has an effect.
Escalates(d, review) == review /\ d = "AUTO_APPROVE"
BridgeDecision(d, review) == IF Escalates(d, review) THEN "REQUIRE_HUMAN" ELSE d
BridgeRisk(d, risk, review) == IF Escalates(d, review) THEN MaxRisk(risk, MEDIUM) ELSE risk

\* evaluatePolicy, of an active policy.
EvaluatePolicy(r, p, mode, delegate, review) ==
    LET d == EngineDecision(r, p, mode, delegate)
        final == BridgeDecision(d, review)
    IN  IF ~InScope(r, p)
        THEN [decision |-> "AUTO_DENY", risk |-> CRITICAL, root_only |-> FALSE]
        ELSE IF mode = "MAINTENANCE"
        THEN [decision |-> "MAINTENANCE_PAUSED", risk |-> ClassRisk(r, p),
              root_only |-> FALSE]
        ELSE [decision |-> final, risk |-> BridgeRisk(d, ClassRisk(r, p), review),
              root_only |-> mode = "LOCKDOWN" /\ final # "AUTO_DENY"]
=============================================================================
