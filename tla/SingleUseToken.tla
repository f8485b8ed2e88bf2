--------------------------- MODULE SingleUseToken ---------------------------
(***************************************************************************)
(* What the token stores promise: the gateway's (header of                 *)
(* gateway/security/token-manager.mjs: each token is used exactly once,    *)
(* for exactly one intent) and the enforcement core's (header of           *)
(* enforcement-core/dtt.mjs: single-use, bound to a trace and a payload).  *)
(* A token id has one life, is bound to one intent when it is born, and    *)
(* never comes back.                                                       *)
(***************************************************************************)
CONSTANTS Intents, Tokens, NoIntent

VARIABLES
    life,   \* "unborn", "live" or "dead"
    bound   \* the intent a token was born for

Init ==
    /\ life = [t \in Tokens |-> "unborn"]
    /\ bound = [t \in Tokens |-> NoIntent]

\* A token is born for an intent, live, or already spent by its issuer.
Birth(t, i, l) ==
    /\ life[t] = "unborn"
    /\ life' = [life EXCEPT ![t] = l]
    /\ bound' = [bound EXCEPT ![t] = i]

\* Live tokens die: one is burned, or several expire or are lost together.
Death(S) ==
    /\ \A t \in S : life[t] = "live"
    /\ life' = [t \in Tokens |-> IF t \in S THEN "dead" ELSE life[t]]
    /\ UNCHANGED bound

Next ==
    \/ \E t \in Tokens, i \in Intents, l \in {"live", "dead"} : Birth(t, i, l)
    \/ \E S \in SUBSET Tokens : Death(S)

Spec == Init /\ [][Next]_<<life, bound>>
=============================================================================
