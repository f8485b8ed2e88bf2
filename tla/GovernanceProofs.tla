------------------------- MODULE GovernanceProofs -------------------------
(***************************************************************************)
(* Theorems about the governance of an intent and the signers behind it,   *)
(* for every set of policies, requests, approvers and signers.             *)
(***************************************************************************)
EXTENDS Governance, WellFoundedInduction, TLAPS

(***************************************************************************)
(* The verdict.                                                            *)
(***************************************************************************)
LEMMA Least ==
    ASSUME NEW T \in SUBSET Nat, T # {}
    PROVE  \E n \in T : \A k \in T : n <= k
  <1> DEFINE R == OpToRel(<, Nat)
  <1>1. IsWellFoundedOn(R, Nat)
    BY NatLessThanWellFounded
  <1>2. \E n \in T : \A k \in T : <<k, n>> \notin R
    BY <1>1, WFMin
  <1>3. \A k, n \in Nat : k < n => <<k, n>> \in R
    BY DEF OpToRel
  <1> HIDE DEF R
  <1>4. \A k, n \in T : <<k, n>> \notin R => n <= k
    BY <1>3
  <1> QED
    BY <1>2, <1>4

LEMMA Matched ==
    ASSUME NEW r \in Requests, NEW p \in Policies, Applicable(r, p) # {}
    PROVE  /\ MatchedClass(r, p) \in DOMAIN p.classes
           /\ First(r, p, MatchedClass(r, p))
  <1>1. p.classes \in Seq(ActionClass)
    BY GovernanceAssumption DEF Policy
  <1>2. Applicable(r, p) \in SUBSET Nat
    BY <1>1 DEF Applicable
  <1>3. \E n \in Applicable(r, p) : \A k \in Applicable(r, p) : n <= k
    BY <1>2, Least
  <1> DEFINE n == MatchedClass(r, p)
  <1>4. n \in Applicable(r, p) /\ \A k \in Applicable(r, p) : n <= k
    BY <1>3 DEF MatchedClass
  <1>5. n \in DOMAIN p.classes /\ Applies(r, p.classes[n])
    BY <1>4 DEF Applicable
  <1>6. ASSUME NEW k \in 1..(n - 1) PROVE ~Applies(r, p.classes[k])
    <2>1. k \in DOMAIN p.classes /\ ~(n <= k)
      BY <1>1, <1>5
    <2> QED
      BY <2>1, <1>4 DEF Applicable
  <1> QED
    BY <1>5, <1>6 DEF First

LEMMA FirstIsMatched ==
    ASSUME NEW r \in Requests, NEW p \in Policies, NEW n \in DOMAIN p.classes,
           First(r, p, n)
    PROVE  Applicable(r, p) # {} /\ MatchedClass(r, p) = n
  <1>1. p.classes \in Seq(ActionClass)
    BY GovernanceAssumption DEF Policy
  <1>2. Applicable(r, p) # {}
    BY DEF First, Applicable
  <1> DEFINE m == MatchedClass(r, p)
  <1>3. m \in DOMAIN p.classes /\ First(r, p, m)
    BY <1>2, Matched
  <1>4. m \in Nat /\ n \in Nat /\ m >= 1 /\ n >= 1
    BY <1>1, <1>3
  <1>5. ~(m < n)
    BY <1>3, <1>4 DEF First
  <1>6. ~(n < m)
    BY <1>3, <1>4 DEF First
  <1> QED
    BY <1>2, <1>4, <1>5, <1>6

LEMMA ClassRisks ==
    ASSUME NEW p \in Policies, NEW n \in DOMAIN p.classes
    PROVE  p.classes[n].risk \in Int
  <1>1. p.classes \in Seq(ActionClass)
    BY GovernanceAssumption DEF Policy
  <1>2. p.classes[n] \in ActionClass
    BY <1>1
  <1>3. p.classes[n].risk \in Risks
    BY <1>2 DEF ActionClass
  <1> QED
    BY <1>3 DEF Risks

\* The bridge lowers no risk.
LEMMA BridgeRisks ==
    ASSUME NEW d, NEW k \in Int
    PROVE  BridgeRisk(d, k, FALSE) <= BridgeRisk(d, k, TRUE)
  BY DEF BridgeRisk, Escalates, MaxRisk, MEDIUM

LEMMA RequestTyped ==
    \A r \in Requests : r.confidence \in Int
  BY GovernanceAssumption, PolicyAssumption DEF Request

\* What evaluatePolicy approves by itself it approves on the grounds stated.
LEMMA ApprovedOnGrounds ==
    ASSUME NEW r \in Requests, NEW p \in Policies, NEW mode \in Modes,
           NEW delegate \in BOOLEAN, NEW review \in BOOLEAN,
           EvaluatePolicy(r, p, mode, delegate, review).decision = "AUTO_APPROVE"
    PROVE  Grounds(r, [policy |-> p, mode |-> mode, delegate |-> delegate,
                       review |-> review])
  <1> DEFINE d == EngineDecision(r, p, mode, delegate)
  <1>1. InScope(r, p) /\ mode # "MAINTENANCE" /\ BridgeDecision(d, review) = "AUTO_APPROVE"
    BY DEF EvaluatePolicy
  <1>2. d = "AUTO_APPROVE" /\ ~review
    BY <1>1 DEF BridgeDecision, Escalates
  <1>3. ModeDecision(ClassDecision(r, p), mode) = "AUTO_APPROVE" /\ ~Doubtful(r, p, delegate)
    BY <1>2 DEF EngineDecision
  <1>4. ClassDecision(r, p) = "AUTO_APPROVE" /\ mode = "NORMAL"
    BY <1>1, <1>3 DEF ModeDecision, Modes
  <1>5. Applicable(r, p) # {}
    BY <1>4 DEF ClassDecision
  <1> DEFINE n == MatchedClass(r, p)
  <1>6. n \in DOMAIN p.classes /\ First(r, p, n)
    BY <1>5, Matched
  <1>7. p.classes[n].decision = "AUTO_APPROVE" /\ ClassRisk(r, p) = p.classes[n].risk
    BY <1>4, <1>5 DEF ClassDecision, ClassRisk
  <1>8. p.classes \in Seq(ActionClass) /\ p.ceiling \in Risks
    BY GovernanceAssumption DEF Policy
  <1>9. p.classes[n].risk \in Int /\ p.ceiling \in Int
    BY <1>6, <1>8, ClassRisks DEF Risks
  <1>10. r.confidence >= 80 /\ (delegate /\ p.delegation => p.classes[n].risk <= p.ceiling)
    BY <1>3, <1>7, <1>9, RequestTyped DEF Doubtful
  <1> QED
    BY <1>1, <1>2, <1>4, <1>6, <1>7, <1>10 DEF Grounds

\* What is not denied is in scope, and not of a class that denies, unless paused.
LEMMA NotDenied ==
    ASSUME NEW r \in Requests, NEW p \in Policies, NEW mode \in Modes,
           NEW delegate \in BOOLEAN, NEW review \in BOOLEAN,
           EvaluatePolicy(r, p, mode, delegate, review).decision # "AUTO_DENY"
    PROVE  /\ InScope(r, p)
           /\ mode # "MAINTENANCE" =>
                \A n \in DOMAIN p.classes :
                    First(r, p, n) => p.classes[n].decision # "AUTO_DENY"
  <1>1. InScope(r, p)
    BY DEF EvaluatePolicy
  <1>2. ASSUME mode # "MAINTENANCE", NEW n \in DOMAIN p.classes, First(r, p, n),
               p.classes[n].decision = "AUTO_DENY"
        PROVE  FALSE
    <2>1. ClassDecision(r, p) = "AUTO_DENY"
      BY <1>2, FirstIsMatched DEF ClassDecision
    <2>2. EngineDecision(r, p, mode, delegate) = "AUTO_DENY"
      BY <2>1 DEF EngineDecision, ModeDecision
    <2> QED
      BY <1>1, <1>2, <2>2 DEF EvaluatePolicy, BridgeDecision, Escalates
  <1> QED
    BY <1>1, <1>2

\* The risk of the class that counts is a number.
LEMMA ClassRiskInt ==
    ASSUME NEW r \in Requests, NEW p \in Policies
    PROVE  ClassRisk(r, p) \in Int
  <1>1. CASE Applicable(r, p) = {}
    BY <1>1 DEF ClassRisk, HIGH
  <1>2. CASE Applicable(r, p) # {}
    BY <1>2, Matched, ClassRisks DEF ClassRisk
  <1> QED
    BY <1>1, <1>2

\* SPG-M review metadata can only make a verdict stricter (header of
\* spgm-policy-bridge.mjs): it turns AUTO_APPROVE into REQUIRE_HUMAN and lowers no risk.
THEOREM ReviewOnlyTightens ==
    ASSUME NEW r \in Requests, NEW p \in Policies, NEW mode \in Modes,
           NEW delegate \in BOOLEAN
    PROVE  LET without == EvaluatePolicy(r, p, mode, delegate, FALSE)
               reviewed == EvaluatePolicy(r, p, mode, delegate, TRUE)
           IN  /\ \/ reviewed.decision = without.decision
                  \/ /\ without.decision = "AUTO_APPROVE"
                     /\ reviewed.decision = "REQUIRE_HUMAN"
               /\ without.risk <= reviewed.risk
               /\ without.root_only => reviewed.root_only
  <1> DEFINE d == EngineDecision(r, p, mode, delegate)
  <1>1. BridgeDecision(d, FALSE) = d
    BY DEF BridgeDecision, Escalates
  <1>2. \/ BridgeDecision(d, TRUE) = d
        \/ d = "AUTO_APPROVE" /\ BridgeDecision(d, TRUE) = "REQUIRE_HUMAN"
    BY DEF BridgeDecision, Escalates
  <1> DEFINE k == ClassRisk(r, p)
  <1>3. k \in Int
    BY ClassRiskInt
  <1> HIDE DEF k
  <1>4. BridgeRisk(d, k, FALSE) <= BridgeRisk(d, k, TRUE)
    <2> HIDE DEF d
    <2> QED
      BY <1>3, BridgeRisks
  <1>8. k <= k
    BY <1>3
  <1> DEFINE w == EvaluatePolicy(r, p, mode, delegate, FALSE)
             v == EvaluatePolicy(r, p, mode, delegate, TRUE)
  <1> SUFFICES /\ \/ v.decision = w.decision
                  \/ w.decision = "AUTO_APPROVE" /\ v.decision = "REQUIRE_HUMAN"
               /\ w.risk <= v.risk
               /\ w.root_only => v.root_only
    OBVIOUS
  <1>5. CASE ~InScope(r, p)
    <2>1. w = v /\ w.risk = CRITICAL
      BY <1>5 DEF EvaluatePolicy
    <2>2. w.risk <= v.risk
      <3> HIDE DEF w, v
      <3> QED
        BY <2>1 DEF CRITICAL
    <2> HIDE DEF w, v
    <2> QED
      BY <2>1, <2>2
  <1>6. CASE InScope(r, p) /\ mode = "MAINTENANCE"
    <2>1. w = v /\ w.risk = k
      BY <1>6 DEF EvaluatePolicy, k
    <2> HIDE DEF w, v
    <2> QED
      BY <2>1, <1>8
  <1>7. CASE InScope(r, p) /\ mode # "MAINTENANCE"
    <2>1. /\ w.decision = d /\ v.decision = BridgeDecision(d, TRUE)
          /\ w.root_only = (mode = "LOCKDOWN" /\ d # "AUTO_DENY")
          /\ v.root_only = (mode = "LOCKDOWN" /\ BridgeDecision(d, TRUE) # "AUTO_DENY")
      BY <1>7, <1>1 DEF EvaluatePolicy
    <2>2. w.risk = BridgeRisk(d, k, FALSE) /\ v.risk = BridgeRisk(d, k, TRUE)
      BY <1>7 DEF EvaluatePolicy, k
    <2> HIDE DEF w, v, d
    <2>3. w.risk <= v.risk
      BY <2>2, <1>4
    <2> QED
      BY <2>1, <2>3, <1>2
  <1> QED
    BY <1>5, <1>6, <1>7

\* What the engine decides in any mode, for anybody, against what it decides in
\* NORMAL mode for a principal who is not a delegate.
LEMMA EngineTightens ==
    ASSUME NEW r, NEW p, NEW mode, NEW delegate
    PROVE  LET plain == EngineDecision(r, p, "NORMAL", FALSE)
               d == EngineDecision(r, p, mode, delegate)
           IN  /\ d = "AUTO_APPROVE" =>
                    plain = "AUTO_APPROVE" /\ mode \notin {"ELEVATED", "LOCKDOWN"}
               /\ d = "AUTO_DENY" <=> plain = "AUTO_DENY"
               /\ mode \in {"ELEVATED", "LOCKDOWN"} => d \in {"AUTO_DENY", "REQUIRE_HUMAN"}
  <1> DEFINE c == ClassDecision(r, p)
             low == r.confidence < 80
             above == delegate /\ p.delegation /\ ClassRisk(r, p) > p.ceiling
  <1>1. EngineDecision(r, p, "NORMAL", FALSE) =
           IF c = "AUTO_APPROVE" /\ low THEN "REQUIRE_HUMAN" ELSE c
    BY DEF EngineDecision, ModeDecision, Doubtful
  <1>2. EngineDecision(r, p, mode, delegate) =
           LET m == IF mode \in {"ELEVATED", "LOCKDOWN"} /\ c # "AUTO_DENY"
                    THEN "REQUIRE_HUMAN" ELSE c
           IN  IF m = "AUTO_APPROVE" /\ (low \/ above) THEN "REQUIRE_HUMAN" ELSE m
    BY DEF EngineDecision, ModeDecision, Doubtful
  <1> HIDE DEF c, low, above
  <1> QED
    BY <1>1, <1>2

\* Nothing that evaluatePolicy looks at beyond the class loosens what it says: neither
\* the system mode, nor the delegate's ceiling, nor the review turns a verdict into
\* AUTO_APPROVE or lowers its risk; in the modes that govern at all they take no denial
\* away; only NORMAL mode approves unattended, and ELEVATED and LOCKDOWN leave nothing
\* but a denial or one human.  (steps 6 to 8 of evaluatePolicy, the bridge after it.)
THEOREM ModesOnlyTighten ==
    ASSUME NEW r \in Requests, NEW p \in Policies, NEW mode \in Modes,
           NEW delegate \in BOOLEAN, NEW review \in BOOLEAN
    PROVE  LET plain == EvaluatePolicy(r, p, "NORMAL", FALSE, FALSE)
               verdict == EvaluatePolicy(r, p, mode, delegate, review)
           IN  /\ verdict.decision = "AUTO_APPROVE" =>
                    plain.decision = "AUTO_APPROVE" /\ mode = "NORMAL"
               /\ verdict.decision = "AUTO_DENY" => plain.decision = "AUTO_DENY"
               /\ plain.decision = "AUTO_DENY" /\ mode # "MAINTENANCE" =>
                    verdict.decision = "AUTO_DENY"
               /\ mode \in {"ELEVATED", "LOCKDOWN"} =>
                    verdict.decision \in {"AUTO_DENY", "REQUIRE_HUMAN"}
               /\ plain.risk <= verdict.risk
  <1> DEFINE e == EngineDecision(r, p, "NORMAL", FALSE)
             d == EngineDecision(r, p, mode, delegate)
             k == ClassRisk(r, p)
             w == EvaluatePolicy(r, p, "NORMAL", FALSE, FALSE)
             v == EvaluatePolicy(r, p, mode, delegate, review)
  <1>1. /\ d = "AUTO_APPROVE" => e = "AUTO_APPROVE" /\ mode \notin {"ELEVATED", "LOCKDOWN"}
        /\ d = "AUTO_DENY" <=> e = "AUTO_DENY"
        /\ mode \in {"ELEVATED", "LOCKDOWN"} => d \in {"AUTO_DENY", "REQUIRE_HUMAN"}
    BY EngineTightens
  <1>2. k \in Int
    BY ClassRiskInt
  <1>3. k <= BridgeRisk(d, k, review)
    <2> HIDE DEF d, k
    <2> QED
      BY <1>2 DEF BridgeRisk, MaxRisk, MEDIUM
  <1> SUFFICES /\ v.decision = "AUTO_APPROVE" => w.decision = "AUTO_APPROVE" /\ mode = "NORMAL"
               /\ v.decision = "AUTO_DENY" => w.decision = "AUTO_DENY"
               /\ w.decision = "AUTO_DENY" /\ mode # "MAINTENANCE" =>
                    v.decision = "AUTO_DENY"
               /\ mode \in {"ELEVATED", "LOCKDOWN"} =>
                    v.decision \in {"AUTO_DENY", "REQUIRE_HUMAN"}
               /\ w.risk <= v.risk
    OBVIOUS
  <1>4. CASE ~InScope(r, p)
    <2>1. /\ w = [decision |-> "AUTO_DENY", risk |-> CRITICAL, root_only |-> FALSE]
          /\ v = w
      BY <1>4 DEF EvaluatePolicy
    <2>2. w.decision = "AUTO_DENY" /\ w.risk = 4 /\ v.decision = "AUTO_DENY" /\ v.risk = 4
      <3> HIDE DEF w, v
      <3> QED
        BY <2>1 DEF CRITICAL
    <2> HIDE DEF w, v
    <2> QED
      BY <2>2
  <1>5. CASE InScope(r, p)
    <2>1. w.decision = e /\ w.risk = k
      BY <1>5 DEF EvaluatePolicy, BridgeDecision, BridgeRisk, Escalates
    <2>2. CASE mode = "MAINTENANCE"
      <3>1. v.decision = "MAINTENANCE_PAUSED" /\ v.risk = k
        BY <1>5, <2>2 DEF EvaluatePolicy
      <3> HIDE DEF w, v, e, k
      <3> QED
        BY <2>1, <2>2, <3>1, <1>2
    <2>3. CASE mode # "MAINTENANCE"
      <3>1. v.decision = BridgeDecision(d, review) /\ v.risk = BridgeRisk(d, k, review)
        BY <1>5, <2>3 DEF EvaluatePolicy
      <3>2. BridgeDecision(d, review) \in {d, "REQUIRE_HUMAN"}
            /\ (d = "AUTO_DENY" => BridgeDecision(d, review) = d)
        BY DEF BridgeDecision, Escalates
      <3>3. mode \in {"NORMAL", "ELEVATED", "LOCKDOWN"}
        BY <2>3 DEF Modes
      <3> HIDE DEF w, v, e, d, k
      <3> QED
        BY <1>1, <1>3, <2>1, <3>1, <3>2, <3>3
    <2> QED
      BY <2>2, <2>3
  <1> QED
    BY <1>4, <1>5

(***************************************************************************)
(* The signer store.                                                       *)
(***************************************************************************)
\* What the calls whose statement was executed have left in the table.
StatementsHeld ==
    \A c \in SignerCalls :
        LET call == signerCalls[c] IN
        /\ call.stage # "idle" => call.signer \in SignerIds
        /\ call.op = "register" => call.key \in PublicKeys
        /\ call.op = "revoke" => call.key = NoPublicKey
        /\ call.stage = "done" /\ call.op = "register" =>
              /\ call.key \in stored[call.signer]
              /\ call.signer \notin deleted => authorized_signers[call.signer] = call.key
        /\ call.stage = "done" /\ call.op = "revoke" => call.signer \in deleted

\* What the table and the cache hold was stored.
HeldIsStored ==
    \A s \in SignerIds :
        /\ authorized_signers[s] # NoPublicKey => authorized_signers[s] \in stored[s]
        /\ signerCache[s] # NoPublicKey => signerCache[s] \in stored[s]

SignerInv == SignerTypeOK /\ StatementsHeld /\ HeldIsStored /\ RegistrationWins

LEMMA SignerInitInv == SignerInit => SignerInv
  BY SignerAssumption
  DEF SignerInit, SignerInv, SignerTypeOK, StatementsHeld, HeldIsStored, RegistrationWins,
      IdleSignerCall, SignerCall, MaybeKey

LEMMA SendStep ==
    ASSUME SignerInv, NEW c \in SignerCalls, NEW s \in SignerIds,
           NEW k \in MaybeKey, NEW op \in {"register", "revoke"},
           op = "register" => k \in PublicKeys,
           op = "revoke" => k = NoPublicKey,
           Send(c, op, s, k)
    PROVE  SignerInv' /\ stored' = stored
  <1> DEFINE new == [op |-> op, signer |-> s, key |-> k, stage |-> "sent"]
  <1>1. new \in SignerCall
    BY DEF SignerCall
  <1>2. /\ signerCalls' = [signerCalls EXCEPT ![c] = new]
        /\ UNCHANGED <<authorized_signers, signerCache, stored, deleted>>
    BY DEF Send
  <1>3. signerCalls \in [SignerCalls -> SignerCall]
    BY DEF SignerInv, SignerTypeOK
  <1>4. SignerTypeOK'
    BY <1>1, <1>2, <1>3 DEF SignerInv, SignerTypeOK
  <1>5. \A e \in SignerCalls : signerCalls'[e] = new \/ signerCalls'[e] = signerCalls[e]
    BY <1>2, <1>3
  <1>6. StatementsHeld'
    BY <1>2, <1>5 DEF SignerInv, StatementsHeld
  <1> QED
    BY <1>2, <1>4, <1>6 DEF SignerInv, HeldIsStored, RegistrationWins

LEMMA ExecuteStep ==
    ASSUME SignerInv, NEW c \in SignerCalls, ExecuteSigner(c)
    PROVE  SignerInv' /\ \A s \in SignerIds : stored[s] \subseteq stored'[s]
  <1> DEFINE call == signerCalls[c]
             t == call.signer
             new == IF call.stage = "orphaned" THEN IdleSignerCall
                    ELSE [call EXCEPT !.stage = IF Touches(c) THEN "done" ELSE "missed"]
  <1>1. signerCalls \in [SignerCalls -> SignerCall]
    BY DEF SignerInv, SignerTypeOK
  <1>2. call \in SignerCall /\ t \in SignerIds /\ call.stage \in {"sent", "orphaned"}
    BY <1>1 DEF ExecuteSigner, SignerInv, StatementsHeld
  <1>3. /\ call.op \in {"register", "revoke"} /\ call.key \in MaybeKey
        /\ call.op = "register" => call.key \in PublicKeys
        /\ call.op = "revoke" => call.key = NoPublicKey
    BY <1>2 DEF SignerInv, StatementsHeld, SignerCall
  <1>4. new \in SignerCall
    BY <1>2 DEF SignerCall, IdleSignerCall, MaybeKey
  <1>5. signerCalls' = [signerCalls EXCEPT ![c] = new] /\ signerCache' = signerCache
    BY DEF ExecuteSigner
  <1>6. signerCalls'[c] = new /\ \A e \in SignerCalls \ {c} : signerCalls'[e] = signerCalls[e]
    BY <1>1, <1>5
  <1>7. CASE Touches(c) /\ call.op = "register"
    <2>1. /\ authorized_signers' = [authorized_signers EXCEPT ![t] = call.key]
          /\ stored' = [stored EXCEPT ![t] = @ \cup {call.key}]
          /\ deleted' = deleted
          /\ authorized_signers[t] = NoPublicKey
      BY <1>7 DEF ExecuteSigner, Touches
    <2>2. SignerTypeOK'
      BY <1>1, <1>2, <1>3, <1>4, <1>5, <1>7, <2>1 DEF SignerInv, SignerTypeOK
    <2>3. \A s \in SignerIds : stored[s] \subseteq stored'[s]
      BY <2>1 DEF SignerInv, SignerTypeOK
    <2>4. call.key \in stored'[t] /\ authorized_signers'[t] = call.key
      BY <1>2, <2>1 DEF SignerInv, SignerTypeOK
    <2>5. \A s \in SignerIds \ {t} : authorized_signers'[s] = authorized_signers[s]
      BY <2>1 DEF SignerInv, SignerTypeOK
    <2>6. \A e \in SignerCalls \ {c} :
             signerCalls[e].stage = "done" /\ signerCalls[e].op = "register"
                 => signerCalls[e].signer # t \/ t \in deleted
      BY <2>1, SignerAssumption DEF SignerInv, StatementsHeld
    <2>7. new = IdleSignerCall \/ new = [call EXCEPT !.stage = "done"]
      BY <1>7
    <2>8. new.stage # "idle" =>
             /\ new.signer = t /\ new.key = call.key /\ new.op = call.op
             /\ new.stage = "done"
      BY <1>2, <2>7 DEF SignerCall, IdleSignerCall
    <2>9. \A e \in SignerCalls \ {c} :
             LET held == signerCalls[e] IN
             /\ held.stage # "idle" => held.signer \in SignerIds
             /\ held.op = "register" => held.key \in PublicKeys
             /\ held.op = "revoke" => held.key = NoPublicKey
             /\ held.stage = "done" /\ held.op = "register" =>
                  /\ held.key \in stored'[held.signer]
                  /\ held.signer \notin deleted' =>
                        authorized_signers'[held.signer] = held.key
             /\ held.stage = "done" /\ held.op = "revoke" => held.signer \in deleted'
      BY <2>1, <2>3, <2>5, <2>6 DEF SignerInv, StatementsHeld
    <2>10. /\ new.stage # "idle" => new.signer \in SignerIds
           /\ new.op = "register" => new.key \in PublicKeys
           /\ new.op = "revoke" => new.key = NoPublicKey
           /\ new.stage = "done" /\ new.op = "register" =>
                /\ new.key \in stored'[new.signer]
                /\ new.signer \notin deleted' => authorized_signers'[new.signer] = new.key
           /\ new.stage = "done" /\ new.op = "revoke" => new.signer \in deleted'
      BY <1>2, <1>3, <1>7, <2>4, <2>7, <2>8 DEF IdleSignerCall
    <2>11. StatementsHeld'
      <3> HIDE DEF new
      <3> QED
        BY <1>6, <2>9, <2>10 DEF StatementsHeld
    <2>12. HeldIsStored'
      BY <1>5, <2>3, <2>4, <2>5 DEF SignerInv, HeldIsStored
    <2>13. RegistrationWins'
      BY <1>5, <2>1, <2>4, <2>5 DEF SignerInv, RegistrationWins
    <2> QED
      BY <2>2, <2>3, <2>11, <2>12, <2>13 DEF SignerInv
  <1>8. CASE Touches(c) /\ call.op = "revoke"
    <2>1. /\ authorized_signers' = [authorized_signers EXCEPT ![t] = call.key]
          /\ stored' = stored
          /\ deleted' = deleted \cup {t}
          /\ call.key = NoPublicKey
      BY <1>3, <1>8 DEF ExecuteSigner
    <2>2. SignerTypeOK'
      BY <1>1, <1>2, <1>3, <1>4, <1>5, <2>1 DEF SignerInv, SignerTypeOK
    <2>3. authorized_signers'[t] = NoPublicKey
      BY <1>2, <2>1 DEF SignerInv, SignerTypeOK
    <2>4. \A s \in SignerIds \ {t} : authorized_signers'[s] = authorized_signers[s]
      BY <2>1 DEF SignerInv, SignerTypeOK
    <2>5. /\ new.stage # "idle" => new.signer \in SignerIds
          /\ new.op = "register" => new.key \in PublicKeys
          /\ new.op = "revoke" => new.key = NoPublicKey
          /\ new.op = "revoke"
          /\ new.stage = "done" => new.signer \in deleted'
      BY <1>2, <1>3, <1>8, <2>1 DEF IdleSignerCall, SignerCall
    <2>6. \A e \in SignerCalls \ {c} :
             LET held == signerCalls[e] IN
             /\ held.stage # "idle" => held.signer \in SignerIds
             /\ held.op = "register" => held.key \in PublicKeys
             /\ held.op = "revoke" => held.key = NoPublicKey
             /\ held.stage = "done" /\ held.op = "register" =>
                  /\ held.key \in stored'[held.signer]
                  /\ held.signer \notin deleted' =>
                        authorized_signers'[held.signer] = held.key
             /\ held.stage = "done" /\ held.op = "revoke" => held.signer \in deleted'
      BY <2>1, <2>4 DEF SignerInv, StatementsHeld
    <2>7. StatementsHeld'
      <3> HIDE DEF new
      <3> QED
        BY <1>6, <2>5, <2>6 DEF StatementsHeld
    <2> QED
      BY <1>5, <2>1, <2>2, <2>3, <2>4, <2>7 DEF SignerInv, HeldIsStored, RegistrationWins
  <1>9. CASE ~Touches(c)
    <2>1. UNCHANGED <<authorized_signers, stored, deleted>>
      BY <1>9 DEF ExecuteSigner
    <2>2. SignerTypeOK'
      BY <1>1, <1>4, <1>5, <2>1 DEF SignerInv, SignerTypeOK
    <2>3. /\ new.stage # "idle" => new.signer \in SignerIds
          /\ new.op = "register" => new.key \in PublicKeys
          /\ new.op = "revoke" => new.key = NoPublicKey
          /\ new.stage # "done"
      BY <1>2, <1>3, <1>9 DEF IdleSignerCall, SignerCall
    <2>4. StatementsHeld'
      <3> HIDE DEF new
      <3> QED
        BY <1>6, <2>1, <2>3 DEF SignerInv, StatementsHeld
    <2> QED
      BY <1>5, <2>1, <2>2, <2>4 DEF SignerInv, HeldIsStored, RegistrationWins
  <1> QED
    BY <1>3, <1>7, <1>8, <1>9

LEMMA FailStep ==
    ASSUME SignerInv, NEW c \in SignerCalls, SignerFails(c)
    PROVE  SignerInv' /\ stored' = stored
  <1>1. signerCalls \in [SignerCalls -> SignerCall]
    BY DEF SignerInv, SignerTypeOK
  <1>2. UNCHANGED <<authorized_signers, signerCache, stored, deleted>>
    BY DEF SignerFails
  <1>3. PICK new \in {IdleSignerCall, [signerCalls[c] EXCEPT !.stage = "orphaned"]} :
          /\ signerCalls' = [signerCalls EXCEPT ![c] = new]
          /\ signerCalls[c].stage # "idle"
    BY <1>1 DEF SignerFails
  <1>4. new \in SignerCall
    BY <1>1, <1>3 DEF SignerCall, IdleSignerCall, MaybeKey
  <1>5. SignerTypeOK'
    BY <1>1, <1>2, <1>3, <1>4 DEF SignerInv, SignerTypeOK
  <1>6. signerCalls'[c] = new /\ \A e \in SignerCalls \ {c} : signerCalls'[e] = signerCalls[e]
    BY <1>1, <1>3
  <1>7. /\ new.stage # "idle" => new.signer \in SignerIds
        /\ new.op = "register" => new.key \in PublicKeys
        /\ new.op = "revoke" => new.key = NoPublicKey
        /\ new.stage # "done"
    BY <1>1, <1>3 DEF SignerInv, StatementsHeld, IdleSignerCall, SignerCall
  <1>8. StatementsHeld'
    BY <1>2, <1>6, <1>7 DEF SignerInv, StatementsHeld
  <1> QED
    BY <1>2, <1>5, <1>8 DEF SignerInv, HeldIsStored, RegistrationWins

LEMMA DoneStep ==
    ASSUME SignerInv, NEW c \in SignerCalls, SignerDone(c)
    PROVE  SignerInv' /\ stored' = stored
  <1> DEFINE call == signerCalls[c]
  <1>1. signerCalls \in [SignerCalls -> SignerCall] /\ call.signer \in SignerIds
    BY DEF SignerInv, SignerTypeOK, SignerDone, StatementsHeld
  <1>2. /\ UNCHANGED <<authorized_signers, stored, deleted>>
        /\ signerCalls' = [signerCalls EXCEPT ![c] = IdleSignerCall]
    BY DEF SignerDone
  <1>3. IdleSignerCall \in SignerCall /\ call \in SignerCall
    BY <1>1 DEF SignerCall, IdleSignerCall, MaybeKey
  <1>4. /\ signerCalls'[c] = IdleSignerCall
        /\ \A e \in SignerCalls \ {c} : signerCalls'[e] = signerCalls[e]
    BY <1>1, <1>2
  <1>5. StatementsHeld'
    BY <1>2, <1>4 DEF SignerInv, StatementsHeld, IdleSignerCall
  <1>6. CASE call.stage = "done"
    <2>1. signerCache' = [signerCache EXCEPT ![call.signer] = call.key]
      BY <1>6 DEF SignerDone
    <2>2. SignerTypeOK'
      BY <1>1, <1>2, <1>3, <2>1 DEF SignerInv, SignerTypeOK, SignerCall
    <2>3. /\ signerCache'[call.signer] = call.key
          /\ \A s \in SignerIds \ {call.signer} : signerCache'[s] = signerCache[s]
      BY <1>1, <2>1 DEF SignerInv, SignerTypeOK
    <2>4. call.op = "register" \/ call.op = "revoke"
      BY <1>3 DEF SignerCall
    <2>5. call.key = NoPublicKey \/
             /\ call.key \in stored[call.signer]
             /\ call.signer \notin deleted => authorized_signers[call.signer] = call.key
      BY <1>6, <2>4 DEF SignerInv, StatementsHeld
    <2>6. HeldIsStored'
      BY <1>2, <2>3, <2>5 DEF SignerInv, HeldIsStored
    <2>7. RegistrationWins'
      BY <1>2, <2>3, <2>5 DEF SignerInv, RegistrationWins
    <2> QED
      BY <1>2, <1>5, <2>2, <2>6, <2>7 DEF SignerInv
  <1>7. CASE call.stage # "done"
    <2>1. signerCache' = signerCache
      BY <1>7 DEF SignerDone
    <2> QED
      BY <1>1, <1>2, <1>3, <1>5, <2>1
      DEF SignerInv, SignerTypeOK, HeldIsStored, RegistrationWins
  <1> QED
    BY <1>6, <1>7

LEMMA LoadStep ==
    ASSUME SignerInv, LoadSigners
    PROVE  SignerInv' /\ stored' = stored
  <1> DEFINE kept(c) == signerCalls[c].stage \in {"sent", "orphaned"}
             lost(c) == [signerCalls[c] EXCEPT !.stage = "orphaned"]
  <1>1. signerCalls \in [SignerCalls -> SignerCall]
    BY DEF SignerInv, SignerTypeOK
  <1>2. /\ UNCHANGED <<authorized_signers, stored, deleted>>
        /\ signerCache' = authorized_signers
        /\ signerCalls' = [c \in SignerCalls |-> IF kept(c) THEN lost(c) ELSE IdleSignerCall]
    BY DEF LoadSigners
  <1>3. ASSUME NEW c \in SignerCalls
        PROVE  /\ lost(c) \in SignerCall /\ IdleSignerCall \in SignerCall
               /\ lost(c).op = signerCalls[c].op /\ lost(c).signer = signerCalls[c].signer
               /\ lost(c).key = signerCalls[c].key /\ lost(c).stage = "orphaned"
    BY <1>1 DEF SignerCall, IdleSignerCall, MaybeKey
  <1>4. SignerTypeOK'
    BY <1>2, <1>3 DEF SignerInv, SignerTypeOK
  <1>5. StatementsHeld'
    <2> SUFFICES ASSUME NEW c \in SignerCalls
                 PROVE  /\ signerCalls'[c].stage # "idle" => signerCalls'[c].signer \in SignerIds
                        /\ signerCalls'[c].op = "register" => signerCalls'[c].key \in PublicKeys
                        /\ signerCalls'[c].op = "revoke" => signerCalls'[c].key = NoPublicKey
                        /\ signerCalls'[c].stage # "done"
      BY DEF StatementsHeld
    <2>1. CASE kept(c)
      BY <1>2, <1>3, <2>1 DEF SignerInv, StatementsHeld
    <2>2. CASE ~kept(c)
      BY <1>2, <2>2 DEF IdleSignerCall
    <2> QED
      BY <2>1, <2>2
  <1> QED
    BY <1>2, <1>4, <1>5 DEF SignerInv, HeldIsStored, RegistrationWins

LEMMA SignerStepInv ==
    ASSUME SignerInv, SignerStep
    PROVE  SignerInv' /\ \A s \in SignerIds : stored[s] \subseteq stored'[s]
  <1> PICK c \in SignerCalls :
        \/ \E s \in SignerIds, k \in PublicKeys : RegisterSigner(c, s, k)
        \/ \E s \in SignerIds : RevokeSigner(c, s)
        \/ ExecuteSigner(c) \/ SignerFails(c) \/ SignerDone(c)
    BY DEF SignerStep
  <1>1. ASSUME NEW s \in SignerIds, NEW k \in PublicKeys, RegisterSigner(c, s, k)
        PROVE  SignerInv' /\ stored' = stored
    <2>1. Send(c, "register", s, k) /\ k \in MaybeKey
      BY <1>1 DEF RegisterSigner, MaybeKey
    <2> QED
      BY <2>1, SendStep
  <1>2. ASSUME NEW s \in SignerIds, RevokeSigner(c, s)
        PROVE  SignerInv' /\ stored' = stored
    <2>1. Send(c, "revoke", s, NoPublicKey) /\ NoPublicKey \in MaybeKey
      BY <1>2 DEF RevokeSigner, MaybeKey
    <2> QED
      BY <2>1, SendStep
  <1> QED
    BY <1>1, <1>2, ExecuteStep, FailStep, DoneStep

(***************************************************************************)
(* The intents.                                                            *)
(***************************************************************************)
LEMMA VerdictTyped ==
    ASSUME NEW r \in Requests, NEW p \in Policies, NEW mode \in Modes,
           NEW delegate \in BOOLEAN, NEW review \in BOOLEAN
    PROVE  EvaluatePolicy(r, p, mode, delegate, review) \in Verdict
  <1> DEFINE d == EngineDecision(r, p, mode, delegate)
             k == ClassRisk(r, p)
  <1>1. ClassDecision(r, p) \in Decisions /\ k \in Risks
    <2>1. CASE Applicable(r, p) = {}
      BY <2>1 DEF ClassDecision, ClassRisk, Decisions, Risks, HIGH
    <2>2. CASE Applicable(r, p) # {}
      <3>1. MatchedClass(r, p) \in DOMAIN p.classes
        BY <2>2, Matched
      <3>2. p.classes \in Seq(ActionClass)
        BY GovernanceAssumption DEF Policy
      <3>3. p.classes[MatchedClass(r, p)] \in ActionClass
        BY <3>1, <3>2
      <3> QED
        BY <2>2, <3>3 DEF ClassDecision, ClassRisk, ActionClass
    <2> QED
      BY <2>1, <2>2
  <1>2. d \in Decisions
    BY <1>1 DEF EngineDecision, ModeDecision, Decisions
  <1> HIDE DEF d, k
  <1>3. BridgeDecision(d, review) \in Decisions
    BY <1>2 DEF BridgeDecision, Decisions
  <1>4. BridgeRisk(d, k, review) \in Risks
    BY <1>1 DEF BridgeRisk, MaxRisk, MEDIUM, Risks
  <1>5. CRITICAL \in Risks /\ "AUTO_DENY" \in Decisions
    BY DEF CRITICAL, Risks, Decisions
  <1>6. CASE ~InScope(r, p)
    BY <1>5, <1>6 DEF EvaluatePolicy, Verdict
  <1>7. CASE InScope(r, p) /\ mode = "MAINTENANCE"
    BY <1>1, <1>7 DEF EvaluatePolicy, Verdict, k
  <1>8. CASE InScope(r, p) /\ mode # "MAINTENANCE"
    BY <1>3, <1>4, <1>8 DEF EvaluatePolicy, Verdict, d, k
  <1> QED
    BY <1>6, <1>7, <1>8

\* A decision is signed by an approver, under a key its signer's row has held.
Genuine(g) ==
    g.approver \in Approvers /\ g.signer \in SignerIds /\ g.key \in stored[g.signer]

Settleable == {"governed", "authorized", "denied"}

\* A vote under way is on an intent that was governed, and genuine once it is verified.
VotesGenuine ==
    \A w \in voting :
        /\ w.intent \in Intents
        /\ intents[w.intent].status \in Settleable
        /\ w.signed.approver \in Approvers /\ w.signed.signer \in SignerIds
        /\ w.signed.key # NoPublicKey => Genuine(w.signed)

\* A decision nobody signed: the proposer's own approval, refused.
Refused(r) ==
    /\ r.status = "denied"
    /\ r.decided.signer = NoSigner
    /\ r.decided.approver = IF r.principal_id # NoPrincipal THEN r.principal_id
                            ELSE r.request.agent

DecisionsGenuine ==
    \A i \in Intents :
        intents[i].decided # NoSignature => Genuine(intents[i].decided) \/ Refused(intents[i])

Requested ==
    \A i \in Intents : intents[i].status # "absent" => intents[i].request \in Requests

GovernanceInv ==
    /\ TypeOK
    /\ SignerInv
    /\ VotesGenuine
    /\ DecisionsGenuine
    /\ Requested
    /\ UnattendedOnGrounds
    /\ DeniedStaysDenied

LEMMA InitGovernanceInv == Init => GovernanceInv
  <1> SUFFICES ASSUME Init PROVE GovernanceInv
    OBVIOUS
  <1>1. SignerInv /\ SignerTypeOK
    BY SignerInitInv DEF Init, SignerInv
  <1>2. NoVerdict \in Verdict /\ NoGround \in Ground /\ NoSignature \in Signature
    BY DEF NoVerdict, Verdict, Decisions, Risks, NoGround, Ground, Modes, NoSignature,
           Signature, MaybeKey
  <1> DEFINE none == [status |-> "absent", request |-> NoRequest,
                      principal_id |-> NoPrincipal, verdict |-> NoVerdict,
                      ground |-> NoGround, decided |-> NoSignature]
  <1>3. none \in IntentRecord
    BY <1>2 DEF IntentRecord, Status
  <1>4. /\ intents = [i \in Intents |-> none] /\ voting = {} /\ restarts = 0
    BY DEF Init
  <1>5. TypeOK
    <2> HIDE DEF none
    <2> QED
      BY <1>1, <1>3, <1>4, GovernanceAssumption DEF TypeOK
  <1>6. \A i \in Intents : intents[i].status = "absent" /\ intents[i].decided = NoSignature
    BY <1>4
  <1> QED
    BY <1>1, <1>4, <1>5, <1>6
    DEF GovernanceInv, VotesGenuine, DecisionsGenuine, Requested, UnattendedOnGrounds,
        DeniedStaysDenied

\* A genuine signature is typed, is one, and stays genuine while keys are only added.
LEMMA GenuineSignature ==
    ASSUME SignerTypeOK, NEW a \in Approvers, NEW s \in SignerIds, NEW k \in stored[s]
    PROVE  LET g == [approver |-> a, signer |-> s, key |-> k]
           IN  g \in Signature /\ g # NoSignature /\ Genuine(g)
  BY GovernanceAssumption DEF SignerTypeOK, Signature, NoSignature, Genuine, MaybeKey

\* What the handlers do to the intents: one of them becomes what the handler stores.
LEMMA StoresIntent ==
    ASSUME GovernanceInv, NEW i \in Intents, NEW new \in IntentRecord,
           intents' = [intents EXCEPT ![i] = new],
           UNCHANGED <<signerVars, restarts>>,
           voting' \subseteq voting,
           new.status # "absent" => new.request \in Requests,
           new.decided # NoSignature => Genuine(new.decided) \/ Refused(new),
           new.status = "authorized" /\ new.decided = NoSignature =>
               Grounds(new.request, new.ground),
           new.status \in Settleable =>
               /\ InScope(new.request, new.ground.policy)
               /\ new.ground.mode # "MAINTENANCE" =>
                    \A n \in DOMAIN new.ground.policy.classes :
                        First(new.request, new.ground.policy, n) =>
                            new.ground.policy.classes[n].decision # "AUTO_DENY",
           intents[i].status \in Settleable => new.status \in Settleable
    PROVE  GovernanceInv'
  <1>1. intents \in [Intents -> IntentRecord]
    BY DEF GovernanceInv, TypeOK
  <1>2. intents'[i] = new /\ \A j \in Intents \ {i} : intents'[j] = intents[j]
    BY <1>1
  <1>3. /\ SignerInv' /\ SignerTypeOK' /\ stored' = stored
        /\ \A g : Genuine(g)' <=> Genuine(g)
    BY DEF GovernanceInv, TypeOK, SignerInv, SignerTypeOK, StatementsHeld, HeldIsStored,
           RegistrationWins, signerVars, Genuine
  <1>4. TypeOK'
    BY <1>1, <1>3 DEF GovernanceInv, TypeOK
  <1>5. VotesGenuine'
    BY <1>2, <1>3 DEF GovernanceInv, VotesGenuine, Genuine
  <1>6. DecisionsGenuine'
    BY <1>2, <1>3 DEF GovernanceInv, DecisionsGenuine
  <1>7. Requested'
    BY <1>2 DEF GovernanceInv, Requested
  <1>8. UnattendedOnGrounds'
    BY <1>2 DEF GovernanceInv, UnattendedOnGrounds
  <1>9. DeniedStaysDenied'
    BY <1>2 DEF GovernanceInv, DeniedStaysDenied, Settleable
  <1> QED
    BY <1>3, <1>4, <1>5, <1>6, <1>7, <1>8, <1>9 DEF GovernanceInv

\* What a vote on a governed intent stores.
LEMMA VoteStored ==
    ASSUME GovernanceInv, NEW i \in Intents, intents[i].status \in Settleable,
           NEW vote \in {"approved", "denied"}, NEW g \in Signature, Genuine(g),
           intents' = [intents EXCEPT ![i].status = Outcome(vote), ![i].decided = g],
           UNCHANGED <<signerVars, restarts>>,
           voting' \subseteq voting
    PROVE  GovernanceInv'
  <1> DEFINE old == intents[i]
             new == [old EXCEPT !.status = Outcome(vote), !.decided = g]
  <1>1. old \in IntentRecord
    BY DEF GovernanceInv, TypeOK
  <1>2. Outcome(vote) \in {"authorized", "denied"}
    BY DEF Outcome
  <1>3. new \in IntentRecord
    BY <1>1, <1>2 DEF IntentRecord, Status
  <1>4. /\ new.status = Outcome(vote) /\ new.decided = g
        /\ new.request = old.request /\ new.ground = old.ground
    BY <1>1 DEF IntentRecord
  <1>5. g # NoSignature
    BY GovernanceAssumption DEF Genuine, NoSignature
  <1>6. old.request \in Requests
    BY DEF GovernanceInv, Requested, Settleable
  <1>7. /\ InScope(old.request, old.ground.policy)
        /\ old.ground.mode # "MAINTENANCE" =>
             \A n \in DOMAIN old.ground.policy.classes :
                 First(old.request, old.ground.policy, n) =>
                     old.ground.policy.classes[n].decision # "AUTO_DENY"
    BY DEF GovernanceInv, DeniedStaysDenied, Settleable
  <1>8. intents' = [intents EXCEPT ![i] = new]
    BY DEF GovernanceInv, TypeOK
  <1>9. new.status \in Settleable
    BY <1>2, <1>4 DEF Settleable
  <1> HIDE DEF new
  <1>10. /\ InScope(new.request, new.ground.policy)
         /\ new.ground.mode # "MAINTENANCE" =>
              \A n \in DOMAIN new.ground.policy.classes :
                  First(new.request, new.ground.policy, n) =>
                      new.ground.policy.classes[n].decision # "AUTO_DENY"
    BY <1>4, <1>7
  <1>11. new.request \in Requests /\ new.decided # NoSignature /\ Genuine(new.decided)
    BY <1>4, <1>5, <1>6
  <1> QED
    BY <1>3, <1>8, <1>9, <1>10, <1>11, StoresIntent

LEMMA SubmitStep ==
    ASSUME GovernanceInv, NEW i \in Intents, NEW r \in Requests,
           NEW p \in Proposers \cup {NoPrincipal}, Submit(i, r, p)
    PROVE  GovernanceInv'
  <1> DEFINE old == intents[i]
             new == [old EXCEPT !.status = "submitted", !.request = r, !.principal_id = p]
  <1>1. old \in IntentRecord /\ old.status = "absent"
    BY DEF GovernanceInv, TypeOK, Submit
  <1>2. new \in IntentRecord
    BY <1>1 DEF IntentRecord, Status
  <1>3. new.status = "submitted" /\ new.request = r /\ new.decided = old.decided
    BY <1>1 DEF IntentRecord
  <1>4. /\ intents' = [intents EXCEPT ![i] = new]
        /\ UNCHANGED <<signerVars, restarts>> /\ voting' \subseteq voting
    BY DEF GovernanceInv, TypeOK, Submit
  <1>5. old.decided # NoSignature => Genuine(old.decided)
    BY <1>1 DEF GovernanceInv, DecisionsGenuine, Refused
  <1>6. ~("absent" \in Settleable) /\ ~("submitted" \in Settleable)
    BY DEF Settleable
  <1> HIDE DEF new
  <1>7. /\ new.status = "submitted" /\ new.request \in Requests
        /\ new.decided # NoSignature => Genuine(new.decided)
    BY <1>3, <1>5
  <1> QED
    BY <1>1, <1>2, <1>4, <1>6, <1>7, StoresIntent

LEMMA GovernStep ==
    ASSUME GovernanceInv, NEW i \in Intents, NEW p \in Policies, NEW mode \in Modes,
           NEW delegate \in BOOLEAN, NEW review \in BOOLEAN,
           Govern(i, p, mode, delegate, review)
    PROVE  GovernanceInv'
  <1> DEFINE old == intents[i]
             r == old.request
             v == EvaluatePolicy(r, p, mode, delegate, review)
             g == [policy |-> p, mode |-> mode, delegate |-> delegate, review |-> review]
             new == [old EXCEPT !.status = StatusAfter(v.decision), !.verdict = v,
                                !.ground = g]
  <1>1. old \in IntentRecord /\ old.status = "submitted" /\ r \in Requests
    BY DEF GovernanceInv, TypeOK, Govern, Requested
  <1>2. v \in Verdict /\ g \in Ground
    BY <1>1, VerdictTyped DEF Ground
  <1>3. StatusAfter(v.decision) \in {"blocked", "authorized", "governed"}
    BY DEF StatusAfter
  <1>4. /\ intents' = [intents EXCEPT ![i] = new]
        /\ UNCHANGED <<signerVars, restarts>> /\ voting' \subseteq voting
    BY DEF GovernanceInv, TypeOK, Govern
  <1>5. StatusAfter(v.decision) = "authorized" => Grounds(r, g)
    BY <1>1, ApprovedOnGrounds DEF StatusAfter
  <1>6. StatusAfter(v.decision) \in Settleable =>
           /\ InScope(r, p)
           /\ mode # "MAINTENANCE" =>
                \A n \in DOMAIN p.classes :
                    First(r, p, n) => p.classes[n].decision # "AUTO_DENY"
    BY <1>1, NotDenied DEF StatusAfter, Settleable
  <1> HIDE DEF v
  <1>7. new \in IntentRecord
    BY <1>1, <1>2, <1>3 DEF IntentRecord, Status
  <1>8. /\ new.status = StatusAfter(v.decision) /\ new.request = r
        /\ new.ground = g /\ new.decided = old.decided
    BY <1>1 DEF IntentRecord
  <1>9. old.decided # NoSignature => Genuine(old.decided)
    BY <1>1 DEF GovernanceInv, DecisionsGenuine, Refused
  <1>10. g.policy = p /\ g.mode = mode
    OBVIOUS
  <1> HIDE DEF new, g
  <1>11. new.status \in Settleable =>
           /\ InScope(new.request, new.ground.policy)
           /\ new.ground.mode # "MAINTENANCE" =>
                \A n \in DOMAIN new.ground.policy.classes :
                    First(new.request, new.ground.policy, n) =>
                        new.ground.policy.classes[n].decision # "AUTO_DENY"
    BY <1>6, <1>8, <1>10
  <1>12. /\ new.status # "absent" => new.request \in Requests
         /\ new.decided # NoSignature => Genuine(new.decided)
         /\ new.status = "authorized" /\ new.decided = NoSignature =>
              Grounds(new.request, new.ground)
    BY <1>1, <1>5, <1>8, <1>9
  <1>13. ~(old.status \in Settleable)
    BY <1>1 DEF Settleable
  <1> QED
    BY <1>4, <1>7, <1>11, <1>12, <1>13, StoresIntent

\* A key the cache has for a signer is one its row has held.
LEMMA VerifiedGenuine ==
    ASSUME GovernanceInv, NEW a \in Approvers, NEW s \in SignerIds, Verified(s)
    PROVE  Genuine(Signed(a, s)) /\ Signed(a, s) \in Signature
  <1>1. signerCache[s] \in stored[s]
    BY DEF GovernanceInv, SignerInv, HeldIsStored, Verified
  <1>2. SignerTypeOK
    BY DEF GovernanceInv, TypeOK
  <1> QED
    BY <1>1, <1>2, GenuineSignature DEF Signed

LEMMA AuthorizeStep ==
    ASSUME GovernanceInv, NEW i \in Intents, NEW a \in Approvers, NEW s \in SignerIds,
           NEW vote \in {"approved", "denied"}, Authorize(i, a, s, vote)
    PROVE  GovernanceInv'
  <1>1. Genuine(Signed(a, s)) /\ Signed(a, s) \in Signature
    BY VerifiedGenuine DEF Authorize
  <1>2. intents[i].status \in Settleable
    BY DEF Authorize, Settleable
  <1> QED
    BY <1>1, <1>2, VoteStored DEF Authorize

\* What the refusal of the proposer's approval stores.
LEMMA RefuseStep ==
    ASSUME GovernanceInv, NEW i \in Intents, NEW a \in Approvers, RefuseSelfApproval(i, a)
    PROVE  GovernanceInv'
  <1> DEFINE old == intents[i]
             g == [approver |-> a, signer |-> NoSigner, key |-> NoPublicKey]
             new == [old EXCEPT !.status = "denied", !.decided = g]
  <1>1. old \in IntentRecord /\ old.status \in Settleable
    BY DEF GovernanceInv, TypeOK, RefuseSelfApproval, Settleable
  <1>2. g \in Signature /\ g.signer = NoSigner /\ g.approver = a
    BY DEF Signature, MaybeKey
  <1>3. new \in IntentRecord
    <2> HIDE DEF g
    <2> QED
      BY <1>1, <1>2 DEF IntentRecord, Status
  <1>4. /\ new.status = "denied" /\ new.decided = g
        /\ new.request = old.request /\ new.ground = old.ground
        /\ new.principal_id = old.principal_id
    BY <1>1 DEF IntentRecord
  <1>5. a = IF old.principal_id # NoPrincipal THEN old.principal_id ELSE old.request.agent
    BY DEF RefuseSelfApproval, ProposerOf
  <1>6. old.request \in Requests
    BY <1>1 DEF GovernanceInv, Requested, Settleable
  <1>7. /\ InScope(old.request, old.ground.policy)
        /\ old.ground.mode # "MAINTENANCE" =>
             \A n \in DOMAIN old.ground.policy.classes :
                 First(old.request, old.ground.policy, n) =>
                     old.ground.policy.classes[n].decision # "AUTO_DENY"
    BY <1>1 DEF GovernanceInv, DeniedStaysDenied, Settleable
  <1>8. /\ intents' = [intents EXCEPT ![i] = new]
        /\ UNCHANGED <<signerVars, restarts>> /\ voting' \subseteq voting
    BY DEF GovernanceInv, TypeOK, RefuseSelfApproval
  <1>9. Refused(new)
    <2> HIDE DEF new, g
    <2> QED
      BY <1>2, <1>4, <1>5 DEF Refused
  <1> HIDE DEF new
  <1>10. new.status \in Settleable /\ new.status # "authorized"
    BY <1>4 DEF Settleable
  <1>11. /\ InScope(new.request, new.ground.policy)
         /\ new.ground.mode # "MAINTENANCE" =>
              \A n \in DOMAIN new.ground.policy.classes :
                  First(new.request, new.ground.policy, n) =>
                      new.ground.policy.classes[n].decision # "AUTO_DENY"
    BY <1>4, <1>7
  <1>12. new.request \in Requests
    BY <1>4, <1>6
  <1> QED
    BY <1>3, <1>8, <1>9, <1>10, <1>11, <1>12, StoresIntent

\* A step that changes only the votes under way.
LEMMA VotesChanged ==
    ASSUME GovernanceInv, UNCHANGED <<signerVars, intents, restarts>>, VotesGenuine',
           voting' \subseteq [intent: Intents, vote: {"approved", "denied"},
                              signed: Signature]
    PROVE  GovernanceInv'
  <1>1. SignerInv' /\ SignerTypeOK' /\ stored' = stored
    BY DEF GovernanceInv, SignerInv, SignerTypeOK, StatementsHeld, HeldIsStored,
           RegistrationWins, signerVars
  <1>2. TypeOK'
    BY <1>1 DEF GovernanceInv, TypeOK
  <1> QED
    BY <1>1, <1>2
    DEF GovernanceInv, DecisionsGenuine, Genuine, Requested, UnattendedOnGrounds,
        DeniedStaysDenied

LEMMA BeginStep ==
    ASSUME GovernanceInv, NEW i \in Intents, NEW a \in Approvers, NEW s \in SignerIds,
           NEW vote \in {"approved", "denied"}, BeginApproval(i, a, s, vote)
    PROVE  GovernanceInv'
  <1> DEFINE g == [approver |-> a, signer |-> s, key |-> NoPublicKey]
  <1>1. g \in Signature /\ g.approver = a /\ g.signer = s /\ g.key = NoPublicKey
    BY DEF Signature, MaybeKey
  <1>2. intents[i].status \in Settleable
    BY DEF BeginApproval, Settleable
  <1>3. /\ voting' = {[intent |-> i, vote |-> vote, signed |-> g]}
        /\ UNCHANGED <<signerVars, intents, restarts>>
    BY DEF BeginApproval
  <1> HIDE DEF g
  <1>4. VotesGenuine'
    BY <1>1, <1>2, <1>3 DEF VotesGenuine
  <1> QED
    BY <1>1, <1>3, <1>4, VotesChanged

LEMMA VerifyStep ==
    ASSUME GovernanceInv, NEW w \in voting, VerifyVote(w)
    PROVE  GovernanceInv'
  <1> DEFINE g == Signed(w.signed.approver, w.signed.signer)
  <1>1. /\ w.intent \in Intents /\ intents[w.intent].status \in Settleable
        /\ w.signed.approver \in Approvers /\ w.signed.signer \in SignerIds
    BY DEF GovernanceInv, VotesGenuine
  <1>2. w \in [intent: Intents, vote: {"approved", "denied"}, signed: Signature]
    BY DEF GovernanceInv, TypeOK
  <1>3. Genuine(g) /\ g \in Signature
    BY <1>1, VerifiedGenuine DEF VerifyVote
  <1>4. g.approver \in Approvers /\ g.signer \in SignerIds
    BY <1>1 DEF Signed
  <1>5. /\ voting' = (voting \ {w}) \cup {[w EXCEPT !.signed = g]}
        /\ UNCHANGED <<signerVars, intents, restarts>>
    BY DEF VerifyVote
  <1> HIDE DEF g
  <1>6. [w EXCEPT !.signed = g] = [intent |-> w.intent, vote |-> w.vote, signed |-> g]
    BY <1>2
  <1>7. VotesGenuine'
    BY <1>1, <1>3, <1>4, <1>5, <1>6 DEF GovernanceInv, VotesGenuine, Genuine, signerVars
  <1>8. voting' \subseteq [intent: Intents, vote: {"approved", "denied"},
                           signed: Signature]
    BY <1>2, <1>3, <1>5, <1>6 DEF GovernanceInv, TypeOK
  <1> QED
    BY <1>5, <1>7, <1>8, VotesChanged

LEMMA EndStep ==
    ASSUME GovernanceInv, NEW w \in voting, EndApproval(w)
    PROVE  GovernanceInv'
  <1>1. /\ w.intent \in Intents /\ intents[w.intent].status \in Settleable
        /\ Genuine(w.signed)
    BY DEF GovernanceInv, VotesGenuine, EndApproval
  <1>2. w.vote \in {"approved", "denied"} /\ w.signed \in Signature
    BY DEF GovernanceInv, TypeOK
  <1>3. voting' \subseteq voting /\ UNCHANGED <<signerVars, restarts>>
    BY DEF EndApproval
  <1>4. intents' = [intents EXCEPT ![w.intent].status = Outcome(w.vote),
                                   ![w.intent].decided = w.signed]
    BY DEF EndApproval
  <1> QED
    BY <1>1, <1>2, <1>3, <1>4, VoteStored

LEMMA AbandonStep ==
    ASSUME GovernanceInv, NEW w \in voting, AbandonVote(w)
    PROVE  GovernanceInv'
  <1>1. voting' \subseteq voting /\ UNCHANGED <<signerVars, intents, restarts>>
    BY DEF AbandonVote
  <1>2. VotesGenuine'
    BY <1>1 DEF GovernanceInv, VotesGenuine, Genuine, signerVars
  <1> QED
    BY <1>1, <1>2, VotesChanged DEF GovernanceInv, TypeOK

\* What the signer store does leaves the intents and the votes genuine.
LEMMA KeysAdded ==
    ASSUME GovernanceInv, SignerInv', UNCHANGED intents, voting' \subseteq voting,
           restarts' \in 0..MaxRestarts,
           \A s \in SignerIds : stored[s] \subseteq stored'[s]
    PROVE  GovernanceInv'
  <1>1. \A g : Genuine(g) => Genuine(g)'
    BY DEF Genuine
  <1>2. TypeOK'
    BY DEF GovernanceInv, TypeOK, SignerInv
  <1>3. VotesGenuine'
    BY <1>1 DEF GovernanceInv, VotesGenuine, Genuine
  <1>4. DecisionsGenuine'
    BY <1>1 DEF GovernanceInv, DecisionsGenuine, Genuine
  <1> QED
    BY <1>2, <1>3, <1>4
    DEF GovernanceInv, Requested, UnattendedOnGrounds, DeniedStaysDenied

LEMMA NextGovernanceInv == GovernanceInv /\ [Next]_vars => GovernanceInv'
  <1> SUFFICES ASSUME GovernanceInv, [Next]_vars PROVE GovernanceInv'
    OBVIOUS
  <1>1. CASE UNCHANGED vars
    BY <1>1
    DEF vars, GovernanceInv, TypeOK, VotesGenuine, DecisionsGenuine, Genuine, Requested,
        UnattendedOnGrounds, DeniedStaysDenied, SignerInv, SignerTypeOK, StatementsHeld,
        HeldIsStored, RegistrationWins, signerVars
  <1>2. CASE SignerHandlers
    <2>1. SignerInv' /\ \A s \in SignerIds : stored[s] \subseteq stored'[s]
      BY <1>2, SignerStepInv DEF GovernanceInv, SignerHandlers
    <2>2. restarts' \in 0..MaxRestarts /\ voting' \subseteq voting /\ UNCHANGED intents
      BY <1>2 DEF GovernanceInv, TypeOK, SignerHandlers
    <2> QED
      BY <2>1, <2>2, KeysAdded
  <1>3. CASE Restart
    <2>1. SignerInv' /\ stored' = stored
      BY <1>3, LoadStep DEF GovernanceInv, Restart
    <2>2. restarts' \in 0..MaxRestarts /\ voting' \subseteq voting /\ UNCHANGED intents
      BY <1>3, GovernanceAssumption DEF GovernanceInv, TypeOK, Restart
    <2> QED
      BY <2>1, <2>2, KeysAdded
  <1>4. CASE Next /\ ~SignerHandlers /\ ~Restart
    BY <1>4, SubmitStep, GovernStep, RefuseStep, AuthorizeStep, BeginStep, VerifyStep,
       EndStep, AbandonStep DEF Next
  <1> QED
    BY <1>1, <1>2, <1>3, <1>4

\* The variables of the governance of an intent stay in their types.
THEOREM GovernanceTypeCorrect == Spec => []TypeOK
  <1>1. GovernanceInv => TypeOK
    BY DEF GovernanceInv
  <1> QED
    BY <1>1, InitGovernanceInv, NextGovernanceInv, PTL DEF Spec

\* No policy, mode or review lets an intent through without a human but on the grounds
\* stated (evaluatePolicy and applySpgmPolicyBridge together).
THEOREM UnattendedOnlyOnGrounds == Spec => []UnattendedOnGrounds
  <1>1. GovernanceInv => UnattendedOnGrounds
    BY DEF GovernanceInv
  <1> QED
    BY <1>1, InitGovernanceInv, NextGovernanceInv, PTL DEF Spec

\* A denied verdict is final: no approval, however late, opens the intent again.
THEOREM DenialIsFinal == Spec => []DeniedStaysDenied
  <1>1. GovernanceInv => DeniedStaysDenied
    BY DEF GovernanceInv
  <1> QED
    BY <1>1, InitGovernanceInv, NextGovernanceInv, PTL DEF Spec

\* A decision rests on a signature under a key its signer's row has held, whatever the
\* signer store did in between, or is the denial recorded, unsigned, when the approver is
\* the proposer (POST /authorize); no unsigned decision opens an intent.
THEOREM DecisionsSigned == Spec => []SignedWithStoredKey
  <1>1. GovernanceInv => SignedWithStoredKey
    BY SignerAssumption
    DEF GovernanceInv, DecisionsGenuine, Genuine, Refused, ProposerOf, SignedWithStoredKey
  <1> QED
    BY <1>1, InitGovernanceInv, NextGovernanceInv, PTL DEF Spec

\* Concurrent registrations of a signer leave one key, in the table and in the cache.
THEOREM OneRegistrationWins == Spec => []RegistrationWins
  <1>1. GovernanceInv => RegistrationWins
    BY DEF GovernanceInv, SignerInv
  <1> QED
    BY <1>1, InitGovernanceInv, NextGovernanceInv, PTL DEF Spec

=============================================================================
