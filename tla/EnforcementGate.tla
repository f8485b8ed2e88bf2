--------------------------- MODULE EnforcementGate ---------------------------
(***************************************************************************)
(* The enforcement core: delegated trust tokens (enforcement-core/dtt.mjs),*)
(* the execution gate (gate.mjs) and its receipts (ledger.mjs).            *)
(*                                                                         *)
(* executeGate is synchronous up to the call of executeFn: checks, token   *)
(* consumption and PENDING receipt are one step.  Then it waits, and the   *)
(* final receipt is a second step.  The hash of an intent with its payload *)
(* stands for both; a receipt also names the token, which the code leaves  *)
(* out, so that properties can count by token.  The outcomes of the lineage*)
(* and scope checks, which read only the request, are inputs.  The clock   *)
(* is the fact `now > expires_at', which a clock set back makes false.     *)
(***************************************************************************)
EXTENDS Naturals, Sequences, FiniteSets

CONSTANTS
    Tokens,         \* token ids (UUIDs: none is issued twice)
    NoToken,        \* a request without a token
    Calls,          \* concurrent calls of executeGate
    Traces, Hashes, \* trace ids, and hashes of an intent with its payload
    ClockSetBack,   \* may the wall clock be set back?
    MaxReceipts     \* bound: length of the ledger when a call starts

ASSUME GateAssumption ==
    /\ NoToken \notin Tokens
    /\ ClockSetBack \in BOOLEAN
    /\ MaxReceipts \in Nat

VARIABLES
    store,      \* token store of dtt.mjs
    calls,      \* calls waiting for executeFn, or idle
    entries     \* ledger of receipts

vars == <<store, calls, entries>>

Bindings == [trace: Traces, hash: Hashes]
Unissued == [status |-> "unissued"]
Issued ==
    [status: {"ACTIVE", "EXPIRED", "CONSUMED"}, bound: Bindings, past: BOOLEAN]

Idle == [at |-> "idle"]
Running == [at: {"running"}, token: Tokens, bound: Bindings]

\* A receipt is written for every outcome of the gate.
Decisions == {"DENY", "BLOCK", "PENDING", "EXECUTE", "FAILURE"}
Receipts == [decision: Decisions, token: Tokens \cup {NoToken}, bound: Bindings]

TypeOK ==
    /\ store \in [Tokens -> Issued \cup {Unissued}]
    /\ calls \in [Calls -> Running \cup {Idle}]
    /\ entries \in Seq(Receipts)

Init ==
    /\ store = [t \in Tokens |-> Unissued]
    /\ calls = [c \in Calls |-> Idle]
    /\ entries = <<>>

-----------------------------------------------------------------------------
\* Mutant: the decision is looked up in gate.mjs's enum, which lacks two.
FaultyWriteReceipt(d, t, b) ==
    entries' = Append(entries,
        [decision |-> IF d \in {"EXECUTE", "DENY", "BLOCK"} THEN d ELSE "undefined",
         token |-> t, bound |-> b])

\* ledger.mjs, writeReceipt: the entry goes at the end of the chain.
WriteReceipt(d, t, b) ==
    entries' = Append(entries, [decision |-> d, token |-> t, bound |-> b])

\* Mutant: the id of a token marked expired is given out again.
FaultyIssueToken(t, b) ==
    /\ store[t] # Unissued => store[t].status = "EXPIRED"
    /\ store' = [store EXCEPT ![t] = [status |-> "ACTIVE", bound |-> b, past |-> FALSE]]
    /\ UNCHANGED <<calls, entries>>

\* issueToken
IssueToken(t, b) ==
    /\ store[t] = Unissued
    /\ store' = [store EXCEPT ![t] = [status |-> "ACTIVE", bound |-> b, past |-> FALSE]]
    /\ UNCHANGED <<calls, entries>>

\* Mutant: the binding to the payload is not compared.
FaultyValid(t, b) ==
    /\ t \in Tokens /\ store[t] # Unissued
    /\ store[t].status # "CONSUMED"
    /\ ~store[t].past
    /\ store[t].bound.trace = b.trace

\* validateToken accepts: it looks for CONSUMED and for the age, and never for
\* the status EXPIRED it sets itself.
Valid(t, b) ==
    /\ t \in Tokens /\ store[t] # Unissued
    /\ store[t].status # "CONSUMED"
    /\ ~store[t].past
    /\ store[t].bound = b

\* validateToken marks the token it refuses for its age.
Marks(t) ==
    /\ t \in Tokens /\ store[t] # Unissued
    /\ store[t].status # "CONSUMED"
    /\ store[t].past

Mark(t) == store' = [store EXCEPT ![t].status = "EXPIRED"]

\* Mutant: a token is consumed whatever it is.
FaultyConsumable(t) == store[t] # Unissued

\* consumeToken succeeds.
Consumable(t) == store[t] # Unissued /\ store[t].status = "ACTIVE"

\* Mutant: the token is left as it is.
FaultyConsume(t) == UNCHANGED store

Consume(t) == store' = [store EXCEPT ![t].status = "CONSUMED"]

\* Checks 1 to 4 fail: no token, or one that validateToken refuses.
DenyToken(t, b) ==
    /\ Len(entries) < MaxReceipts
    /\ ~Valid(t, b)
    /\ IF Marks(t) THEN Mark(t) ELSE UNCHANGED store
    /\ WriteReceipt("DENY", t, b)
    /\ UNCHANGED calls

\* Checks 5 and 6: an unresolved dependency, or a payload out of scope.
RefuseRequest(t, b, d) ==
    /\ Len(entries) < MaxReceipts
    /\ Valid(t, b)
    /\ WriteReceipt(d, t, b)
    /\ UNCHANGED <<store, calls>>

\* All checks pass and consumeToken refuses: "race".
DenyConsume(t, b) ==
    /\ Len(entries) < MaxReceipts
    /\ Valid(t, b)
    /\ ~Consumable(t)
    /\ WriteReceipt("DENY", t, b)
    /\ UNCHANGED <<store, calls>>

\* All checks pass: the token is consumed, PENDING written, executeFn called.
Execute(c, t, b) ==
    /\ Len(entries) < MaxReceipts
    /\ calls[c] = Idle
    /\ Valid(t, b)
    /\ Consumable(t)
    /\ Consume(t)
    /\ WriteReceipt("PENDING", t, b)
    /\ calls' = [calls EXCEPT ![c] = [at |-> "running", token |-> t, bound |-> b]]

\* executeFn throws null or undefined: reading err.message throws in turn, and
\* executeGate rejects without a final receipt.
Reject(c) ==
    /\ calls[c] # Idle
    /\ calls' = [calls EXCEPT ![c] = Idle]
    /\ UNCHANGED <<store, entries>>

\* Mutant: a failure keeps the call open, as a retry would.
FaultyFinish(c, d) ==
    /\ calls[c] # Idle
    /\ WriteReceipt(d, calls[c].token, calls[c].bound)
    /\ calls' = IF d = "FAILURE" THEN calls ELSE [calls EXCEPT ![c] = Idle]
    /\ UNCHANGED store

\* executeFn returns or throws; the final receipt is written.
Finish(c, d) ==
    /\ calls[c] # Idle
    /\ WriteReceipt(d, calls[c].token, calls[c].bound)
    /\ calls' = [calls EXCEPT ![c] = Idle]
    /\ UNCHANGED store

\* The clock passes a token's expires_at, or is set back before it.
Clock(t) ==
    /\ store[t] # Unissued
    /\ store[t].past => ClockSetBack
    /\ store' = [store EXCEPT ![t].past = ~store[t].past]
    /\ UNCHANGED <<calls, entries>>

Next ==
    \/ \E t \in Tokens :
          \/ \E b \in Bindings : IssueToken(t, b)
          \/ Clock(t)
    \/ \E t \in Tokens \cup {NoToken}, b \in Bindings :
          \/ DenyToken(t, b)
          \/ \E d \in {"BLOCK", "DENY"} : RefuseRequest(t, b, d)
          \/ DenyConsume(t, b)
          \/ \E c \in Calls : Execute(c, t, b)
    \/ \E c \in Calls :
          \/ \E d \in {"EXECUTE", "FAILURE"} : Finish(c, d)
          \/ Reject(c)

Spec == Init /\ [][Next]_vars

-----------------------------------------------------------------------------
(* Properties.                                                             *)

Places(D, t) == {n \in DOMAIN entries : entries[n].decision \in D /\ entries[n].token = t}
OpenCalls(t) == {c \in Calls : calls[c] # Idle /\ calls[c].token = t}

\* Single use (header of dtt.mjs): a token lets at most one execution begin,
\* and only a consumed token has let one begin.
TokenExecutesOnce ==
    \A t \in Tokens :
        /\ Cardinality(Places({"PENDING"}, t)) <= 1
        /\ Places({"PENDING"}, t) # {} => store[t] # Unissued /\ store[t].status = "CONSUMED"

\* The receipts of a token tell what became of it: an execution that began gets
\* one final receipt at most, and none other does; a call that waits for
\* executeFn still has its own to come.
PendingSettledOnce ==
    \A t \in Tokens :
        Cardinality(Places({"EXECUTE", "FAILURE"}, t)) + Cardinality(OpenCalls(t))
            <= Cardinality(Places({"PENDING"}, t))

\* The whole payload is bound (header of dtt.mjs): what was executed, and what
\* its receipts say, is what the token was issued for.
BoundToPayload ==
    \A n \in DOMAIN entries :
        entries[n].decision \in {"PENDING", "EXECUTE", "FAILURE"} =>
            /\ store[entries[n].token] # Unissued
            /\ store[entries[n].token].bound = entries[n].bound

\* A token once seen expired executes nothing, whatever the clock does then.
ExpiredNeverExecutes ==
    [][\A t \in Tokens :
          store[t] # Unissued /\ store[t].status = "EXPIRED" =>
              store'[t].status = "EXPIRED"]_vars

\* The tokens keep the promise of the gateway's: "ACTIVE -> CONSUMED | EXPIRED", once,
\* for one trace and payload, however often an old token is presented, marked or
\* reached by a clock set back (see SingleUseToken).
LifeOf(t) ==
    CASE store[t] = Unissued -> "unborn"
      [] store[t] # Unissued /\ store[t].status = "ACTIVE" -> "live"
      [] OTHER -> "dead"

BindingOf(t) == IF store[t] = Unissued THEN Unissued ELSE store[t].bound

Promise == INSTANCE SingleUseToken WITH
    Intents <- Bindings, NoIntent <- Unissued,
    life <- [t \in Tokens |-> LifeOf(t)],
    bound <- [t \in Tokens |-> BindingOf(t)]

KeepsTokenPromise == Promise!Spec
=============================================================================
