---------------------------- MODULE TokenManager ----------------------------
(***************************************************************************)
(* The execution-token store of the gateway                                *)
(* (gateway/security/token-manager.mjs): a Map in memory from a token id   *)
(* to its bindings and its life-cycle state.                               *)
(*                                                                         *)
(* Every function of the module runs to completion on the one JavaScript   *)
(* thread, so each is one atomic step.  The clock is abstracted to the two *)
(* facts the code reads from it: `pastExpiry' (now > expires_at) and       *)
(* `pastRetention' (now - burned_at > 1 hour).  Either may become true at  *)
(* any instant.  Tool, argument and environment bindings are functions of  *)
(* the intent (its action and parameters never change after creation), so  *)
(* the intent binding stands for all of them.  A signature is identified   *)
(* with the token it was issued for.                                       *)
(***************************************************************************)

CONSTANTS
    Intents,    \* intent ids a token may be bound to
    Tokens,     \* token ids (random UUIDs: none is issued twice)
    NoToken,    \* "no token" / "no signature" in a request or an intent
    NoIntent    \* the binding of an id that was not issued yet

ASSUME TokenAssumption == NoToken \notin Tokens /\ NoIntent \notin Intents

VARIABLE tokens     \* tokenStore

\* "unissued" and "removed" are the ids tokenStore has no entry for.
TokenStatus == {"unissued", "ACTIVE", "EXPIRED", "USED", "removed"}

TokenRecord ==
    [status: TokenStatus, intent: Intents \cup {NoIntent},
     pastExpiry: BOOLEAN, pastRetention: BOOLEAN]

Unissued ==
    [status |-> "unissued", intent |-> NoIntent,
     pastExpiry |-> FALSE, pastRetention |-> FALSE]

TokenTypeOK == tokens \in [Tokens -> TokenRecord]

TokenInit == tokens = [t \in Tokens |-> Unissued]

-----------------------------------------------------------------------------
\* What a token entry looks like once issued for intent i.
Issued(i, status) ==
    [status |-> status, intent |-> i, pastExpiry |-> FALSE, pastRetention |-> FALSE]

\* Mutant: the id of a removed entry is handed out again.
FaultyIssueExecutionToken(t, i) ==
    /\ tokens[t].status \in {"unissued", "removed"}
    /\ tokens' = [tokens EXCEPT ![t] = Issued(i, "ACTIVE")]

\* issueExecutionToken: a fresh id bound to the intent, ACTIVE.
IssueExecutionToken(t, i) ==
    /\ tokens[t].status = "unissued"
    /\ tokens' = [tokens EXCEPT ![t] = Issued(i, "ACTIVE")]

\* issueExecutionToken followed, in the same synchronous step, by a
\* validateAndBurnToken that passes the very token and signature issued.
IssueAndBurnToken(t, i) ==
    /\ tokens[t].status = "unissued"
    /\ tokens' = [tokens EXCEPT ![t] = Issued(i, "USED")]

\* The point-of-use inputs are present and the entry exists and is unused.
Usable(t, sig) ==
    /\ t \in Tokens
    /\ sig # NoToken
    /\ tokens[t].status = "ACTIVE"

\* Mutant: the signature check is skipped.
FaultyAccepts(t, i, sig) ==
    Usable(t, sig) /\ ~tokens[t].pastExpiry /\ tokens[t].intent = i

\* Every check of validateAndBurnToken passes for intent i.
Accepts(t, i, sig) ==
    /\ Usable(t, sig)
    /\ ~tokens[t].pastExpiry
    /\ tokens[t].intent = i
    /\ sig = t

\* Mutant: the token is validated and not burned.
FaultyBurnToken(t, i, sig) == Accepts(t, i, sig) /\ UNCHANGED tokens

\* validateAndBurnToken, all checks pass: the token is USED.
BurnToken(t, i, sig) ==
    /\ Accepts(t, i, sig)
    /\ tokens' = [tokens EXCEPT ![t].status = "USED"]

\* validateAndBurnToken on an ACTIVE token past its TTL: refused, and the
\* entry is marked.  (A call refused for any other reason changes nothing.)
MarkExpired(t, sig) ==
    /\ Usable(t, sig)
    /\ tokens[t].pastExpiry
    /\ tokens' = [tokens EXCEPT ![t].status = "EXPIRED"]

\* cleanupTokens removes an ACTIVE token past its TTL in the pass that marks
\* it, an EXPIRED one, and a USED one after its retention.
Removable(r) ==
    \/ r.status \in {"ACTIVE", "EXPIRED"} /\ r.pastExpiry
    \/ r.status = "USED" /\ r.pastRetention

\* The entry is gone; only what the id was bound to is remembered.
Removed(r) == [r EXCEPT !.status = "removed", !.pastExpiry = FALSE, !.pastRetention = FALSE]

CleanupTokens ==
    /\ \E t \in Tokens : Removable(tokens[t])
    /\ tokens' = [t \in Tokens |->
                    IF Removable(tokens[t])
                    THEN Removed(tokens[t])
                    ELSE tokens[t]]

\* A restart of the process loses the whole Map.
LoseTokens ==
    tokens' = [t \in Tokens |->
                 IF tokens[t].status = "unissued"
                 THEN tokens[t]
                 ELSE Removed(tokens[t])]

\* The clock passes expires_at, or the retention after the burn.
TokenClock ==
    \E t \in Tokens :
        \/ /\ tokens[t].status = "ACTIVE" /\ ~tokens[t].pastExpiry
           /\ tokens' = [tokens EXCEPT ![t].pastExpiry = TRUE]
        \/ /\ tokens[t].status = "USED" /\ ~tokens[t].pastRetention
           /\ tokens' = [tokens EXCEPT ![t].pastRetention = TRUE]
=============================================================================
