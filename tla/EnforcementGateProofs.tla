----------------------- MODULE EnforcementGateProofs -----------------------
(***************************************************************************)
(* Theorems about the enforcement gate, for any number of tokens, calls,   *)
(* traces and hashes, and for a clock that may be set back.                *)
(***************************************************************************)
EXTENDS EnforcementGate, FiniteSetTheorems, TLAPS

(***************************************************************************)
(* Type correctness.                                                       *)
(***************************************************************************)
LEMMA IssuedTyped ==
    ASSUME TypeOK, NEW t \in Tokens, store[t] # Unissued
    PROVE  store[t] \in Issued
  BY DEF TypeOK

LEMMA IssuedIsNotUnissued ==
    ASSUME NEW s \in Issued
    PROVE  s # Unissued
  <1>1. s.status # "unissued"
    BY DEF Issued
  <1> QED
    BY <1>1 DEF Unissued

LEMMA CallTyped ==
    ASSUME TypeOK, NEW c \in Calls, calls[c] # Idle
    PROVE  /\ calls[c] \in Running
           /\ calls[c].token \in Tokens
           /\ calls[c].bound \in Bindings
  BY DEF TypeOK, Running

\* A status or a clock update leaves an issued token issued.
LEMMA StatusTyped ==
    ASSUME NEW s \in Issued, NEW x \in {"ACTIVE", "EXPIRED", "CONSUMED"}
    PROVE  [s EXCEPT !.status = x] \in Issued
  BY DEF Issued

LEMMA AgeTyped ==
    ASSUME NEW s \in Issued
    PROVE  [s EXCEPT !.past = ~s.past] \in Issued
  <1>1. (~s.past) \in BOOLEAN
    OBVIOUS
  <1> QED
    BY <1>1 DEF Issued

\* What Mark, Consume and the clock do to the store.
LEMMA MarkTyped ==
    ASSUME TypeOK, NEW t \in Tokens, store[t] # Unissued, Mark(t)
    PROVE  store' \in [Tokens -> Issued \cup {Unissued}]
  <1> DEFINE u == [store[t] EXCEPT !.status = "EXPIRED"]
  <1>1. u \in Issued
    BY IssuedTyped, StatusTyped
  <1>2. store' = [store EXCEPT ![t] = u]
    BY DEF Mark
  <1> HIDE DEF u
  <1> QED
    BY <1>1, <1>2 DEF TypeOK

LEMMA ConsumeTyped ==
    ASSUME TypeOK, NEW t \in Tokens, store[t] # Unissued, Consume(t)
    PROVE  store' \in [Tokens -> Issued \cup {Unissued}]
  <1> DEFINE u == [store[t] EXCEPT !.status = "CONSUMED"]
  <1>1. u \in Issued
    BY IssuedTyped, StatusTyped
  <1>2. store' = [store EXCEPT ![t] = u]
    BY DEF Consume
  <1> HIDE DEF u
  <1> QED
    BY <1>1, <1>2 DEF TypeOK

LEMMA ReceiptTyped ==
    ASSUME TypeOK, NEW d \in Decisions, NEW t \in Tokens \cup {NoToken},
           NEW b \in Bindings, WriteReceipt(d, t, b)
    PROVE  entries' \in Seq(Receipts)
  <1> DEFINE e == [decision |-> d, token |-> t, bound |-> b]
  <1>1. e \in Receipts
    BY DEF Receipts
  <1>2. entries' = Append(entries, e)
    BY DEF WriteReceipt
  <1> HIDE DEF e
  <1> QED
    BY <1>1, <1>2 DEF TypeOK

LEMMA StepTyped == TypeOK /\ [Next]_vars => TypeOK'
  <1> SUFFICES ASSUME TypeOK, [Next]_vars
               PROVE  TypeOK'
    OBVIOUS
  <1> USE DEF Decisions
  <1>1. CASE UNCHANGED vars
    BY <1>1 DEF vars, TypeOK
  <1>2. ASSUME NEW t \in Tokens, NEW b \in Bindings, IssueToken(t, b)
        PROVE  TypeOK'
    <2> DEFINE u == [status |-> "ACTIVE", bound |-> b, past |-> FALSE]
    <2>1. u \in Issued
      BY DEF Issued
    <2>2. store' = [store EXCEPT ![t] = u] /\ UNCHANGED <<calls, entries>>
      BY <1>2 DEF IssueToken
    <2> HIDE DEF u
    <2> QED
      BY <2>1, <2>2 DEF TypeOK
  <1>3. ASSUME NEW t \in Tokens, Clock(t)
        PROVE  TypeOK'
    <2> DEFINE u == [store[t] EXCEPT !.past = ~store[t].past]
    <2>1. u \in Issued
      BY <1>3, IssuedTyped, AgeTyped DEF Clock
    <2>2. store' = [store EXCEPT ![t] = u] /\ UNCHANGED <<calls, entries>>
      BY <1>3 DEF Clock
    <2> HIDE DEF u
    <2> QED
      BY <2>1, <2>2 DEF TypeOK
  <1>4. ASSUME NEW t \in Tokens \cup {NoToken}, NEW b \in Bindings, DenyToken(t, b)
        PROVE  TypeOK'
    <2>1. entries' \in Seq(Receipts)
      BY <1>4, ReceiptTyped DEF DenyToken
    <2>2. store' \in [Tokens -> Issued \cup {Unissued}]
      BY <1>4, MarkTyped DEF DenyToken, Marks, TypeOK
    <2> QED
      BY <1>4, <2>1, <2>2 DEF DenyToken, TypeOK
  <1>5. ASSUME NEW t \in Tokens \cup {NoToken}, NEW b \in Bindings,
               NEW d \in {"BLOCK", "DENY"}, RefuseRequest(t, b, d)
        PROVE  TypeOK'
    <2>1. entries' \in Seq(Receipts)
      BY <1>5, ReceiptTyped DEF RefuseRequest
    <2> QED
      BY <1>5, <2>1 DEF RefuseRequest, TypeOK
  <1>6. ASSUME NEW t \in Tokens \cup {NoToken}, NEW b \in Bindings, DenyConsume(t, b)
        PROVE  TypeOK'
    <2>1. entries' \in Seq(Receipts)
      BY <1>6, ReceiptTyped DEF DenyConsume
    <2> QED
      BY <1>6, <2>1 DEF DenyConsume, TypeOK
  <1>7. ASSUME NEW t \in Tokens \cup {NoToken}, NEW b \in Bindings,
               NEW c \in Calls, Execute(c, t, b)
        PROVE  TypeOK'
    <2> DEFINE u == [at |-> "running", token |-> t, bound |-> b]
    <2>1. t \in Tokens /\ store[t] # Unissued
      BY <1>7 DEF Execute, Valid
    <2>2. entries' \in Seq(Receipts)
      BY <1>7, ReceiptTyped DEF Execute
    <2>3. store' \in [Tokens -> Issued \cup {Unissued}]
      BY <1>7, <2>1, ConsumeTyped DEF Execute
    <2>4. u \in Running
      BY <2>1 DEF Running
    <2>5. calls' = [calls EXCEPT ![c] = u]
      BY <1>7 DEF Execute
    <2> HIDE DEF u
    <2> QED
      BY <2>2, <2>3, <2>4, <2>5 DEF TypeOK
  <1>8. ASSUME NEW c \in Calls, NEW d \in {"EXECUTE", "FAILURE"}, Finish(c, d)
        PROVE  TypeOK'
    <2>1. entries' \in Seq(Receipts)
      BY <1>8, CallTyped, ReceiptTyped DEF Finish
    <2> QED
      BY <1>8, <2>1 DEF Finish, TypeOK
  <1>9. ASSUME NEW c \in Calls, Reject(c)
        PROVE  TypeOK'
    BY <1>9 DEF Reject, TypeOK
  <1> QED
    BY <1>1, <1>2, <1>3, <1>4, <1>5, <1>6, <1>7, <1>8, <1>9 DEF Next

LEMMA InitTyped == Init => TypeOK
  BY DEF Init, TypeOK

\* Every reachable state is well typed: the gate never stores a status or
\* writes a decision the code does not know (dtt.mjs, ledger.mjs).
THEOREM GateTyped == Spec => []TypeOK
  BY InitTyped, StepTyped, PTL DEF Spec

(***************************************************************************)
(* The inductive invariant.  What a consumed token let begin, and what the *)
(* waiting calls remember, agrees with the store.                          *)
(***************************************************************************)
Begun == {"PENDING", "EXECUTE", "FAILURE"}

\* The bound values of receipts and of waiting calls are their tokens'.
ReceiptsBound ==
    \A n \in DOMAIN entries :
        entries[n].decision \in Begun =>
            /\ entries[n].token \in Tokens
            /\ store[entries[n].token] # Unissued
            /\ store[entries[n].token].bound = entries[n].bound

CallsBound ==
    \A c \in Calls :
        calls[c] # Idle =>
            /\ store[calls[c].token] # Unissued
            /\ store[calls[c].token].bound = calls[c].bound

\* A token with a PENDING receipt is consumed, and has no other.
PendingConsumed ==
    \A n \in DOMAIN entries :
        entries[n].decision = "PENDING" =>
            /\ entries[n].token \in Tokens
            /\ store[entries[n].token] # Unissued
            /\ store[entries[n].token].status = "CONSUMED"

PendingOnce ==
    \A m, n \in DOMAIN entries :
        /\ entries[m].decision = "PENDING"
        /\ entries[n].decision = "PENDING"
        /\ entries[m].token = entries[n].token
        => m = n

GateInv ==
    /\ TypeOK
    /\ ReceiptsBound
    /\ CallsBound
    /\ PendingConsumed
    /\ PendingOnce

\* No step takes an issued token back, binds it to something else, or makes a
\* consumed one usable.
Kept(t) ==
    /\ store'[t] # Unissued
    /\ store'[t].bound = store[t].bound
    /\ store[t].status = "CONSUMED" => store'[t].status = "CONSUMED"

StoreKept == \A t \in Tokens : store[t] # Unissued => Kept(t)

LEMMA UpdatedKept ==
    ASSUME TypeOK, NEW t \in Tokens, store[t] # Unissued, NEW u \in Issued,
           store' = [store EXCEPT ![t] = u], u.bound = store[t].bound,
           store[t].status = "CONSUMED" => u.status = "CONSUMED"
    PROVE  StoreKept
  <1>1. u # Unissued
    BY IssuedIsNotUnissued
  <1> SUFFICES ASSUME NEW x \in Tokens, store[x] # Unissued
               PROVE  Kept(x)
    BY DEF StoreKept
  <1>2. CASE x = t
    BY <1>1, <1>2 DEF Kept, TypeOK
  <1>3. CASE x # t
    BY <1>3 DEF Kept, TypeOK
  <1> QED
    BY <1>2, <1>3

LEMMA MarkKept ==
    ASSUME TypeOK, NEW t \in Tokens, Marks(t), Mark(t)
    PROVE  StoreKept
  <1> DEFINE u == [store[t] EXCEPT !.status = "EXPIRED"]
  <1>1. store[t] # Unissued /\ store[t].status # "CONSUMED"
    BY DEF Marks
  <1>2. store[t] \in Issued
    BY <1>1, IssuedTyped
  <1>3. u \in Issued /\ u.bound = store[t].bound
    BY <1>2, StatusTyped DEF Issued
  <1>4. store' = [store EXCEPT ![t] = u]
    BY DEF Mark
  <1> HIDE DEF u
  <1> QED
    BY <1>1, <1>3, <1>4, UpdatedKept

LEMMA ConsumeKept ==
    ASSUME TypeOK, NEW t \in Tokens, Consumable(t), Consume(t)
    PROVE  /\ StoreKept
           /\ store'[t].status = "CONSUMED"
  <1> DEFINE u == [store[t] EXCEPT !.status = "CONSUMED"]
  <1>1. store[t] # Unissued /\ store[t].status = "ACTIVE"
    BY DEF Consumable
  <1>2. store[t] \in Issued
    BY <1>1, IssuedTyped
  <1>3. u \in Issued /\ u.bound = store[t].bound /\ u.status = "CONSUMED"
    BY <1>2, StatusTyped DEF Issued
  <1>4. store' = [store EXCEPT ![t] = u]
    BY DEF Consume
  <1> HIDE DEF u
  <1> QED
    BY <1>1, <1>3, <1>4, UpdatedKept DEF TypeOK

LEMMA ClockKept ==
    ASSUME TypeOK, NEW t \in Tokens, Clock(t)
    PROVE  StoreKept
  <1> DEFINE u == [store[t] EXCEPT !.past = ~store[t].past]
  <1>1. store[t] # Unissued
    BY DEF Clock
  <1>2. store[t] \in Issued
    BY <1>1, IssuedTyped
  <1>3. u \in Issued /\ u.bound = store[t].bound /\ u.status = store[t].status
    BY <1>2, AgeTyped DEF Issued
  <1>4. store' = [store EXCEPT ![t] = u]
    BY DEF Clock
  <1> HIDE DEF u
  <1> QED
    BY <1>1, <1>3, <1>4, UpdatedKept

LEMMA StepKeepsStore == TypeOK /\ [Next]_vars => StoreKept
  <1> SUFFICES ASSUME TypeOK, [Next]_vars
               PROVE  StoreKept
    OBVIOUS
  <1>1. CASE UNCHANGED store
    BY <1>1 DEF StoreKept, Kept
  <1>2. ASSUME NEW t \in Tokens, NEW b \in Bindings, IssueToken(t, b)
        PROVE  StoreKept
    BY <1>2 DEF IssueToken, StoreKept, Kept, TypeOK
  <1>3. ASSUME NEW t \in Tokens, Clock(t)
        PROVE  StoreKept
    BY <1>3, ClockKept
  <1>4. ASSUME NEW t \in Tokens \cup {NoToken}, NEW b \in Bindings, DenyToken(t, b)
        PROVE  StoreKept
    <2>1. CASE Marks(t)
      BY <1>4, <2>1, MarkKept DEF DenyToken, Marks
    <2>2. CASE ~Marks(t)
      BY <1>1, <1>4, <2>2 DEF DenyToken
    <2> QED
      BY <2>1, <2>2
  <1>5. ASSUME NEW t \in Tokens \cup {NoToken}, NEW b \in Bindings,
               NEW c \in Calls, Execute(c, t, b)
        PROVE  StoreKept
    BY <1>5, ConsumeKept DEF Execute, Valid
  <1> QED
    BY <1>1, <1>2, <1>3, <1>4, <1>5
    DEF Next, RefuseRequest, DenyConsume, Finish, Reject, vars

(***************************************************************************)
(* Every step preserves the invariant.  A step writes at most one receipt, *)
(* at the end of the chain.                                                *)
(***************************************************************************)
LEMMA Written ==
    ASSUME TypeOK, NEW d \in Decisions, NEW t \in Tokens \cup {NoToken},
           NEW b \in Bindings, WriteReceipt(d, t, b)
    PROVE  /\ Len(entries) \in Nat
           /\ DOMAIN entries = 1 .. Len(entries)
           /\ DOMAIN entries' = 1 .. (Len(entries) + 1)
           /\ \A n \in DOMAIN entries : entries'[n] = entries[n]
           /\ entries'[Len(entries) + 1].decision = d
           /\ entries'[Len(entries) + 1].token = t
           /\ entries'[Len(entries) + 1].bound = b
  <1> DEFINE e == [decision |-> d, token |-> t, bound |-> b]
  <1>1. e \in Receipts
    BY DEF Receipts
  <1>2. entries' = Append(entries, e)
    BY DEF WriteReceipt
  <1>3. e.decision = d /\ e.token = t /\ e.bound = b
    OBVIOUS
  <1> HIDE DEF e
  <1> QED
    BY <1>1, <1>2, <1>3 DEF TypeOK

\* What the invariant needs to know of the receipt a step writes.
LEMMA ReceiptKept ==
    ASSUME GateInv, StoreKept,
           NEW d \in Decisions, NEW t \in Tokens \cup {NoToken}, NEW b \in Bindings,
           WriteReceipt(d, t, b),
           d \in Begun =>
               t \in Tokens /\ store[t] # Unissued /\ store[t].bound = b,
           d = "PENDING" =>
               store[t].status # "CONSUMED" /\ store'[t].status = "CONSUMED"
    PROVE  ReceiptsBound' /\ PendingConsumed' /\ PendingOnce'
  <1> DEFINE last == Len(entries) + 1
  <1>1. /\ Len(entries) \in Nat
        /\ DOMAIN entries = 1 .. Len(entries)
        /\ DOMAIN entries' = 1 .. last
        /\ \A n \in DOMAIN entries : entries'[n] = entries[n]
        /\ entries'[last].decision = d
        /\ entries'[last].token = t
        /\ entries'[last].bound = b
    BY Written DEF GateInv
  <1>2. last \in DOMAIN entries' /\ last \notin DOMAIN entries
    BY <1>1
  <1>3. \A n \in DOMAIN entries' : n # last => n \in DOMAIN entries
    BY <1>1
  <1> HIDE DEF last
  <1>4. ReceiptsBound'
    <2> SUFFICES ASSUME NEW n \in DOMAIN entries', entries'[n].decision \in Begun
                 PROVE  /\ entries'[n].token \in Tokens
                        /\ store'[entries'[n].token] # Unissued
                        /\ store'[entries'[n].token].bound = entries'[n].bound
      BY DEF ReceiptsBound
    <2>1. CASE n = last
      BY <1>1, <2>1 DEF StoreKept, Kept
    <2>2. CASE n # last
      BY <1>1, <1>3, <2>2 DEF GateInv, ReceiptsBound, StoreKept, Kept
    <2> QED
      BY <2>1, <2>2
  <1>5. PendingConsumed'
    <2> SUFFICES ASSUME NEW n \in DOMAIN entries', entries'[n].decision = "PENDING"
                 PROVE  /\ entries'[n].token \in Tokens
                        /\ store'[entries'[n].token] # Unissued
                        /\ store'[entries'[n].token].status = "CONSUMED"
      BY DEF PendingConsumed
    <2>1. CASE n = last
      BY <1>1, <2>1 DEF StoreKept, Kept, Begun
    <2>2. CASE n # last
      BY <1>1, <1>3, <2>2 DEF GateInv, PendingConsumed, StoreKept, Kept
    <2> QED
      BY <2>1, <2>2
  <1>6. PendingOnce'
    <2> SUFFICES ASSUME NEW m \in DOMAIN entries', NEW n \in DOMAIN entries',
                        entries'[m].decision = "PENDING",
                        entries'[n].decision = "PENDING",
                        entries'[m].token = entries'[n].token
                 PROVE  m = n
      BY DEF PendingOnce
    <2>1. CASE m # last /\ n # last
      BY <1>1, <1>3, <2>1 DEF GateInv, PendingOnce
    <2>2. CASE m = last /\ n # last
      BY <1>1, <1>3, <2>2 DEF GateInv, PendingConsumed
    <2>3. CASE m # last /\ n = last
      BY <1>1, <1>3, <2>3 DEF GateInv, PendingConsumed
    <2> QED
      BY <2>1, <2>2, <2>3
  <1> QED
    BY <1>4, <1>5, <1>6

\* Steps that leave the receipts, or the calls, alone.
LEMMA NoReceiptKept ==
    ASSUME GateInv, StoreKept, UNCHANGED entries
    PROVE  ReceiptsBound' /\ PendingConsumed' /\ PendingOnce'
  BY DEF GateInv, ReceiptsBound, PendingConsumed, PendingOnce, StoreKept, Kept

LEMMA CallsKept ==
    ASSUME GateInv, StoreKept, UNCHANGED calls
    PROVE  CallsBound'
  <1> SUFFICES ASSUME NEW c \in Calls, calls[c] # Idle
               PROVE  /\ store'[calls[c].token] # Unissued
                      /\ store'[calls[c].token].bound = calls[c].bound
    BY DEF CallsBound
  <1>1. calls[c].token \in Tokens
    BY CallTyped DEF GateInv
  <1> QED
    BY <1>1 DEF GateInv, CallsBound, StoreKept, Kept

LEMMA StepInv == GateInv /\ [Next]_vars => GateInv'
  <1> SUFFICES ASSUME GateInv, [Next]_vars
               PROVE  GateInv'
    OBVIOUS
  <1>1. TypeOK /\ TypeOK' /\ StoreKept
    BY StepTyped, StepKeepsStore DEF GateInv
  <1>2. CASE UNCHANGED <<calls, entries>>
    BY <1>1, <1>2, NoReceiptKept, CallsKept DEF GateInv
  <1>3. ASSUME NEW t \in Tokens \cup {NoToken}, NEW b \in Bindings,
               NEW d \in {"BLOCK", "DENY"}, WriteReceipt(d, t, b), UNCHANGED calls
        PROVE  GateInv'
    <2>1. ReceiptsBound' /\ PendingConsumed' /\ PendingOnce'
      BY <1>1, <1>3, ReceiptKept DEF Decisions, Begun
    <2> QED
      BY <1>1, <1>3, <2>1, CallsKept DEF GateInv
  <1>4. ASSUME NEW t \in Tokens \cup {NoToken}, NEW b \in Bindings,
               NEW c \in Calls, Execute(c, t, b)
        PROVE  GateInv'
    <2>1. /\ t \in Tokens /\ store[t] # Unissued /\ store[t].bound = b
          /\ store[t].status # "CONSUMED" /\ store'[t].status = "CONSUMED"
      BY <1>1, <1>4, ConsumeKept DEF Execute, Valid
    <2>2. ReceiptsBound' /\ PendingConsumed' /\ PendingOnce'
      BY <1>1, <1>4, <2>1, ReceiptKept DEF Execute, Decisions
    <2>3. CallsBound'
      <3> DEFINE u == [at |-> "running", token |-> t, bound |-> b]
      <3> SUFFICES ASSUME NEW x \in Calls, calls'[x] # Idle
                   PROVE  /\ store'[calls'[x].token] # Unissued
                          /\ store'[calls'[x].token].bound = calls'[x].bound
        BY DEF CallsBound
      <3>1. calls' = [calls EXCEPT ![c] = u] /\ u.token = t /\ u.bound = b
        BY <1>4 DEF Execute
      <3> HIDE DEF u
      <3>2. CASE x = c
        BY <1>1, <2>1, <3>1, <3>2 DEF StoreKept, Kept, TypeOK
      <3>3. CASE x # c
        <4>1. calls'[x] = calls[x] /\ calls[x].token \in Tokens
          BY <1>1, <3>1, <3>3, CallTyped DEF TypeOK
        <4> QED
          BY <1>1, <4>1 DEF GateInv, CallsBound, StoreKept, Kept
      <3> QED
        BY <3>2, <3>3
    <2> QED
      BY <1>1, <2>2, <2>3 DEF GateInv
  <1>5. ASSUME NEW c \in Calls, NEW d \in {"EXECUTE", "FAILURE"}, Finish(c, d)
        PROVE  GateInv'
    <2> DEFINE t == calls[c].token
               b == calls[c].bound
    <2>1. t \in Tokens /\ b \in Bindings
      BY <1>1, <1>5, CallTyped DEF Finish
    <2>2. store[t] # Unissued /\ store[t].bound = b
      BY <1>5 DEF Finish, GateInv, CallsBound
    <2>3. WriteReceipt(d, t, b) /\ UNCHANGED store
      BY <1>5 DEF Finish
    <2>4. calls' = [calls EXCEPT ![c] = Idle]
      BY <1>5 DEF Finish
    <2> HIDE DEF t, b
    <2>5. ReceiptsBound' /\ PendingConsumed' /\ PendingOnce'
      BY <1>1, <2>1, <2>2, <2>3, ReceiptKept DEF Decisions
    <2>6. CallsBound'
      BY <1>1, <2>3, <2>4 DEF GateInv, CallsBound, TypeOK
    <2> QED
      BY <1>1, <2>5, <2>6 DEF GateInv
  <1>6. ASSUME NEW c \in Calls, Reject(c)
        PROVE  GateInv'
    <2>1. ReceiptsBound' /\ PendingConsumed' /\ PendingOnce'
      BY <1>1, <1>6, NoReceiptKept DEF Reject
    <2>2. CallsBound'
      BY <1>1, <1>6 DEF Reject, GateInv, CallsBound, TypeOK
    <2> QED
      BY <1>1, <2>1, <2>2 DEF GateInv
  <1> QED
    BY <1>2, <1>3, <1>4, <1>5, <1>6
    DEF Next, IssueToken, Clock, DenyToken, RefuseRequest, DenyConsume, vars

LEMMA InitInv == Init => GateInv
  BY InitTyped
  DEF Init, GateInv, ReceiptsBound, CallsBound, PendingConsumed, PendingOnce

THEOREM GateInvariant == Spec => []GateInv
  BY InitInv, StepInv, PTL DEF Spec

(***************************************************************************)
(* The properties.                                                         *)
(***************************************************************************)
LEMMA BoundFromInv == GateInv => BoundToPayload
  BY DEF GateInv, ReceiptsBound, BoundToPayload, Begun

\* What is executed, and what the receipts of an execution say, is what the
\* token was issued for (ACT_BINDING_MISMATCH and TRACE_MISMATCH of dtt.mjs).
THEOREM PayloadsBound == Spec => []BoundToPayload
  BY GateInvariant, BoundFromInv, PTL

LEMMA OnceFromInv == GateInv => TokenExecutesOnce
  <1> SUFFICES ASSUME GateInv, NEW t \in Tokens
               PROVE  /\ Cardinality(Places({"PENDING"}, t)) <= 1
                      /\ Places({"PENDING"}, t) # {} =>
                             store[t] # Unissued /\ store[t].status = "CONSUMED"
    BY DEF TokenExecutesOnce
  <1> DEFINE P == Places({"PENDING"}, t)
  <1>1. \A m, n \in P : m = n
    BY DEF GateInv, PendingOnce, Places
  <1>2. P # {} => store[t] # Unissued /\ store[t].status = "CONSUMED"
    BY DEF GateInv, PendingConsumed, Places
  <1>3. Cardinality(P) <= 1
    <2> HIDE DEF P
    <2>1. CASE P = {}
      BY <2>1, FS_EmptySet
    <2>2. CASE P # {}
      <3>1. PICK n \in P : TRUE
        BY <2>2
      <3>2. P = {n}
        BY <1>1, <3>1
      <3> QED
        BY <3>2, FS_Singleton
    <2> QED
      BY <2>1, <2>2
  <1> QED
    BY <1>2, <1>3

\* A token lets at most one execution begin, and that consumed it, however the
\* calls interleave with executions that are waiting (gate.mjs, dtt.mjs).
THEOREM TokensSingleUse == Spec => []TokenExecutesOnce
  BY GateInvariant, OnceFromInv, PTL

\* A step that finds a token expired leaves it so.
StaysExpired(t) ==
    store[t] # Unissued /\ store[t].status = "EXPIRED" => store'[t].status = "EXPIRED"

LEMMA OtherStaysExpired ==
    ASSUME TypeOK, NEW t \in Tokens, NEW x, store' = [store EXCEPT ![t] = x],
           store[t] # Unissued /\ store[t].status = "EXPIRED" => x.status = "EXPIRED"
    PROVE  \A y \in Tokens : StaysExpired(y)
  BY DEF TypeOK, StaysExpired

LEMMA StepExpired == TypeOK /\ [Next]_vars => \A t \in Tokens : StaysExpired(t)
  <1> SUFFICES ASSUME TypeOK, [Next]_vars
               PROVE  \A t \in Tokens : StaysExpired(t)
    OBVIOUS
  <1>1. CASE UNCHANGED store
    BY <1>1 DEF StaysExpired
  <1>2. ASSUME NEW t \in Tokens, NEW b \in Bindings, IssueToken(t, b)
        PROVE  \A y \in Tokens : StaysExpired(y)
    BY <1>2, OtherStaysExpired DEF IssueToken
  <1>3. ASSUME NEW t \in Tokens, Clock(t)
        PROVE  \A y \in Tokens : StaysExpired(y)
    <2> DEFINE u == [store[t] EXCEPT !.past = ~store[t].past]
    <2>1. store[t] \in Issued /\ u.status = store[t].status
      BY <1>3, IssuedTyped DEF Clock, Issued
    <2>2. store' = [store EXCEPT ![t] = u]
      BY <1>3 DEF Clock
    <2> HIDE DEF u
    <2> QED
      BY <2>1, <2>2, OtherStaysExpired
  <1>4. ASSUME NEW t \in Tokens, Marks(t), Mark(t)
        PROVE  \A y \in Tokens : StaysExpired(y)
    <2> DEFINE u == [store[t] EXCEPT !.status = "EXPIRED"]
    <2>1. store[t] \in Issued /\ u.status = "EXPIRED"
      BY <1>4, IssuedTyped DEF Marks, Issued
    <2>2. store' = [store EXCEPT ![t] = u]
      BY <1>4 DEF Mark
    <2> HIDE DEF u
    <2> QED
      BY <2>1, <2>2, OtherStaysExpired
  <1>5. ASSUME NEW t \in Tokens, Consumable(t), Consume(t)
        PROVE  \A y \in Tokens : StaysExpired(y)
    <2> DEFINE u == [store[t] EXCEPT !.status = "CONSUMED"]
    <2>1. store[t].status # "EXPIRED"
      BY <1>5 DEF Consumable
    <2>2. store' = [store EXCEPT ![t] = u]
      BY <1>5 DEF Consume
    <2> HIDE DEF u
    <2> QED
      BY <2>1, <2>2, OtherStaysExpired
  <1> QED
    BY <1>1, <1>2, <1>3, <1>4, <1>5
    DEF Next, DenyToken, RefuseRequest, DenyConsume, Execute, Finish, Reject,
        Marks, Valid, vars

\* A token once seen expired executes nothing: it never becomes ACTIVE again,
\* not even when the clock is set back before its expiry (dtt.mjs).
THEOREM ExpiredStaysExpired == Spec => ExpiredNeverExecutes
  <1>1. TypeOK /\ [Next]_vars =>
            [\A t \in Tokens :
                store[t] # Unissued /\ store[t].status = "EXPIRED" =>
                    store'[t].status = "EXPIRED"]_vars
    BY StepExpired DEF StaysExpired
  <1> QED
    BY <1>1, GateTyped, PTL DEF Spec, ExpiredNeverExecutes

(***************************************************************************)
(* The tokens keep the promise of SingleUseToken.                          *)
(***************************************************************************)
\* An issued token changes its status only from ACTIVE, and never its binding.
Moves(t, u) ==
    /\ store[t] # Unissued
    /\ u \in Issued
    /\ u.bound = store[t].bound
    /\ u.status # store[t].status => store[t].status = "ACTIVE"
    /\ store' = [store EXCEPT ![t] = u]

LEMMA StoreMoves ==
    ASSUME TypeOK, [Next]_vars
    PROVE  \/ UNCHANGED store
           \/ \E t \in Tokens, b \in Bindings : IssueToken(t, b)
           \/ \E t \in Tokens : \E u : Moves(t, u)
  <1>1. ASSUME NEW t \in Tokens, Clock(t)
        PROVE  \E u : Moves(t, u)
    <2> DEFINE u == [store[t] EXCEPT !.past = ~store[t].past]
    <2>1. store[t] # Unissued /\ store[t] \in Issued /\ store' = [store EXCEPT ![t] = u]
      BY <1>1, IssuedTyped DEF Clock
    <2>2. u \in Issued /\ u.bound = store[t].bound /\ u.status = store[t].status
      BY <2>1, AgeTyped DEF Issued
    <2> HIDE DEF u
    <2> QED
      BY <2>1, <2>2 DEF Moves
  <1>2. ASSUME NEW t \in Tokens, Marks(t), Mark(t)
        PROVE  \E u : Moves(t, u)
    <2> DEFINE u == [store[t] EXCEPT !.status = "EXPIRED"]
    <2>1. store[t] # Unissued /\ store[t] \in Issued /\ store' = [store EXCEPT ![t] = u]
      BY <1>2, IssuedTyped DEF Marks, Mark
    <2>2. u \in Issued /\ u.bound = store[t].bound /\ u.status = "EXPIRED"
      BY <2>1, StatusTyped DEF Issued
    <2>3. store[t].status \in {"ACTIVE", "EXPIRED"}
      BY <1>2, <2>1 DEF Marks, Issued
    <2> HIDE DEF u
    <2> QED
      BY <2>1, <2>2, <2>3 DEF Moves
  <1>3. ASSUME NEW t \in Tokens, Consumable(t), Consume(t)
        PROVE  \E u : Moves(t, u)
    <2> DEFINE u == [store[t] EXCEPT !.status = "CONSUMED"]
    <2>1. store[t] # Unissued /\ store[t] \in Issued /\ store' = [store EXCEPT ![t] = u]
      BY <1>3, IssuedTyped DEF Consumable, Consume
    <2>2. u \in Issued /\ u.bound = store[t].bound
      BY <2>1, StatusTyped DEF Issued
    <2> HIDE DEF u
    <2> QED
      BY <1>3, <2>1, <2>2 DEF Moves, Consumable
  <1> QED
    BY <1>1, <1>2, <1>3
    DEF Next, DenyToken, RefuseRequest, DenyConsume, Execute, Finish, Reject,
        Marks, Valid, vars

\* Each step is a birth, a death or a stutter of SingleUseToken.
LEMMA StepKeepsPromise ==
    ASSUME TypeOK, [Next]_vars
    PROVE  [Promise!Next]_<<[t \in Tokens |-> LifeOf(t)], [t \in Tokens |-> BindingOf(t)]>>
  <1> DEFINE life == [t \in Tokens |-> LifeOf(t)]
             bound == [t \in Tokens |-> BindingOf(t)]
  <1>1. CASE UNCHANGED store
    BY <1>1 DEF LifeOf, BindingOf
  <1>2. ASSUME NEW t \in Tokens, NEW b \in Bindings, IssueToken(t, b)
        PROVE  Promise!Next
    <2> DEFINE u == [status |-> "ACTIVE", bound |-> b, past |-> FALSE]
    <2>1. u \in Issued
      BY DEF Issued
    <2>2. u # Unissued /\ u.status = "ACTIVE" /\ u.bound = b
      BY <2>1, IssuedIsNotUnissued
    <2>3. store[t] = Unissued /\ store' = [store EXCEPT ![t] = u]
      BY <1>2 DEF IssueToken
    <2> HIDE DEF u
    <2>4. LifeOf(t) = "unborn" /\ LifeOf(t)' = "live" /\ BindingOf(t)' = b
      BY <2>2, <2>3 DEF TypeOK, LifeOf, BindingOf
    <2>5. \A x \in Tokens : x # t => LifeOf(x)' = LifeOf(x) /\ BindingOf(x)' = BindingOf(x)
      BY <2>3 DEF TypeOK, LifeOf, BindingOf
    <2>6. life' = [life EXCEPT ![t] = "live"] /\ bound' = [bound EXCEPT ![t] = b]
      BY <2>4, <2>5
    <2>7. Promise!Birth(t, b, "live")
      BY <2>4, <2>6 DEF Promise!Birth
    <2> QED
      BY <2>7 DEF Promise!Next
  <1>3. ASSUME NEW t \in Tokens, NEW u, Moves(t, u)
        PROVE  Promise!Next \/ (life' = life /\ bound' = bound)
    <2>1. u # Unissued
      BY <1>3, IssuedIsNotUnissued DEF Moves
    <2>2. \A x \in Tokens : x # t => LifeOf(x)' = LifeOf(x)
      BY <1>3 DEF TypeOK, Moves, LifeOf
    <2>3. \A x \in Tokens : BindingOf(x)' = BindingOf(x)
      BY <1>3, <2>1 DEF TypeOK, Moves, BindingOf
    <2>4. bound' = bound
      BY <2>3
    <2>5. CASE u.status = store[t].status
      <3>1. LifeOf(t)' = LifeOf(t)
        BY <1>3, <2>1, <2>5 DEF TypeOK, Moves, LifeOf
      <3> QED
        BY <2>2, <2>4, <3>1
    <2>6. CASE u.status # store[t].status
      <3>1. LifeOf(t) = "live" /\ LifeOf(t)' = "dead"
        BY <1>3, <2>1, <2>6 DEF TypeOK, Moves, LifeOf
      <3>2. life' = [x \in Tokens |-> IF x \in {t} THEN "dead" ELSE life[x]]
        BY <2>2, <3>1
      <3>3. \A x \in {t} : life[x] = "live"
        BY <3>1
      <3>4. Promise!Death({t})
        BY <2>4, <3>2, <3>3 DEF Promise!Death
      <3> QED
        BY <3>4 DEF Promise!Next
    <2> QED
      BY <2>5, <2>6
  <1> QED
    BY <1>1, <1>2, <1>3, StoreMoves

\* The delegated trust tokens implement SingleUseToken, as the tokens of the gateway do
\* (issueToken, validateToken and consumeToken of dtt.mjs).
THEOREM GateTokensKeepPromise == Spec => KeepsTokenPromise
  <1>1. Init => Promise!Init
    BY DEF Init, LifeOf, BindingOf, Promise!Init
  <1>2. TypeOK /\ [Next]_vars =>
          [Promise!Next]_<<[t \in Tokens |-> LifeOf(t)], [t \in Tokens |-> BindingOf(t)]>>
    BY StepKeepsPromise
  <1> QED
    BY <1>1, <1>2, GateTyped, PTL DEF Spec, KeepsTokenPromise, Promise!Spec

(***************************************************************************)
(* The final receipts.                                                     *)
(***************************************************************************)
SettledOnce(t) ==
    /\ IsFiniteSet(OpenCalls(t))
    /\ Cardinality(Places({"EXECUTE", "FAILURE"}, t)) + Cardinality(OpenCalls(t))
          <= Cardinality(Places({"PENDING"}, t))

LEMMA PlacesFinite ==
    ASSUME TypeOK, NEW D, NEW t
    PROVE  IsFiniteSet(Places(D, t)) /\ Cardinality(Places(D, t)) \in Nat
  <1>1. Len(entries) \in Nat /\ DOMAIN entries = 1..Len(entries)
    BY DEF TypeOK
  <1>2. IsFiniteSet(1..Len(entries))
    BY <1>1, FS_Interval
  <1>3. Places(D, t) \in SUBSET (1..Len(entries))
    BY <1>1 DEF Places
  <1> QED
    BY <1>2, <1>3, FS_Subset, FS_CardinalityType

\* A receipt is one more of those it counts among.
LEMMA PlacesGrow ==
    ASSUME TypeOK, TypeOK', NEW d \in Decisions, NEW u \in Tokens \cup {NoToken},
           NEW b \in Bindings, WriteReceipt(d, u, b), NEW D, NEW t
    PROVE  Cardinality(Places(D, t)') =
               Cardinality(Places(D, t)) + (IF d \in D /\ u = t THEN 1 ELSE 0)
  <1> DEFINE last == Len(entries) + 1
  <1>1. /\ Len(entries) \in Nat
        /\ DOMAIN entries = 1..Len(entries)
        /\ DOMAIN entries' = 1..last
        /\ \A n \in DOMAIN entries : entries'[n] = entries[n]
        /\ entries'[last].decision = d
        /\ entries'[last].token = u
    BY Written
  <1>2. IsFiniteSet(Places(D, t)) /\ Cardinality(Places(D, t)) \in Nat
    BY PlacesFinite
  <1>3. last \notin DOMAIN entries /\ DOMAIN entries' = DOMAIN entries \cup {last}
    BY <1>1
  <1> HIDE DEF last
  <1>4. last \notin Places(D, t)
    BY <1>3 DEF Places
  <1>5. CASE d \in D /\ u = t
    <2>1. Places(D, t)' = Places(D, t) \cup {last}
      BY <1>1, <1>3, <1>5 DEF Places
    <2> QED
      BY <1>2, <1>4, <1>5, <2>1, FS_AddElement
  <1>6. CASE ~(d \in D /\ u = t)
    <2>1. Places(D, t)' = Places(D, t)
      BY <1>1, <1>3, <1>6 DEF Places
    <2> QED
      BY <1>2, <1>6, <2>1
  <1> QED
    BY <1>5, <1>6

\* Fewer open calls, and no receipt of an execution: still settled at most once.
LEMMA FewerOpen ==
    ASSUME TypeOK, TypeOK', NEW t \in Tokens, SettledOnce(t),
           OpenCalls(t)' \subseteq OpenCalls(t),
           \A D \in {{"EXECUTE", "FAILURE"}, {"PENDING"}} :
               Cardinality(Places(D, t)') = Cardinality(Places(D, t))
    PROVE  SettledOnce(t)'
  <1> DEFINE F == Cardinality(Places({"EXECUTE", "FAILURE"}, t))
             P == Cardinality(Places({"PENDING"}, t))
             O == Cardinality(OpenCalls(t))
             O2 == Cardinality(OpenCalls(t)')
  <1>1. IsFiniteSet(OpenCalls(t)) /\ F + O <= P
    BY DEF SettledOnce
  <1>2. IsFiniteSet(OpenCalls(t)') /\ O2 <= O
    BY <1>1, FS_Subset
  <1>3. F \in Nat /\ P \in Nat /\ O \in Nat /\ O2 \in Nat
    BY <1>1, <1>2, PlacesFinite, FS_CardinalityType
  <1> HIDE DEF F, P, O, O2
  <1>4. F + O2 <= P
    BY <1>1, <1>2, <1>3
  <1> QED
    BY <1>2, <1>4 DEF SettledOnce, F, P, O2

LEMMA RefusalSettled ==
    ASSUME TypeOK, TypeOK', NEW t \in Tokens, SettledOnce(t), UNCHANGED calls,
           NEW u \in Tokens \cup {NoToken}, NEW b \in Bindings,
           NEW d \in {"DENY", "BLOCK"}, WriteReceipt(d, u, b)
    PROVE  SettledOnce(t)'
  <1>1. OpenCalls(t)' \subseteq OpenCalls(t)
    BY DEF OpenCalls
  <1>2. d \in Decisions
    BY DEF Decisions
  <1>3. ASSUME NEW D \in {{"EXECUTE", "FAILURE"}, {"PENDING"}}
        PROVE  Cardinality(Places(D, t)') = Cardinality(Places(D, t))
    <2>1. d \notin D /\ Cardinality(Places(D, t)) \in Nat
      BY PlacesFinite
    <2> QED
      BY <1>2, <2>1, PlacesGrow
  <1> QED
    BY <1>1, <1>3, FewerOpen

LEMMA BeginningSettled ==
    ASSUME TypeOK, TypeOK', NEW t \in Tokens, SettledOnce(t),
           NEW c \in Calls, NEW u \in Tokens \cup {NoToken}, NEW b \in Bindings,
           Execute(c, u, b)
    PROVE  SettledOnce(t)'
  <1>1. /\ WriteReceipt("PENDING", u, b) /\ "PENDING" \in Decisions
        /\ calls' = [calls EXCEPT ![c] = [at |-> "running", token |-> u, bound |-> b]]
    BY DEF Execute, Decisions
  <1> DEFINE F == Cardinality(Places({"EXECUTE", "FAILURE"}, t))
             F2 == Cardinality(Places({"EXECUTE", "FAILURE"}, t)')
             P == Cardinality(Places({"PENDING"}, t))
             P2 == Cardinality(Places({"PENDING"}, t)')
             O == Cardinality(OpenCalls(t))
             O2 == Cardinality(OpenCalls(t)')
  <1>2. F \in Nat /\ P \in Nat
    BY PlacesFinite
  <1>3. F2 = F
    <2>1. "PENDING" \notin {"EXECUTE", "FAILURE"}
      OBVIOUS
    <2>2. F2 = F + (IF "PENDING" \in {"EXECUTE", "FAILURE"} /\ u = t THEN 1 ELSE 0)
      BY <1>1, PlacesGrow
    <2> QED
      BY <1>2, <2>1, <2>2
  <1>4. P2 = P + (IF u = t THEN 1 ELSE 0)
    <2>1. P2 = P + (IF "PENDING" \in {"PENDING"} /\ u = t THEN 1 ELSE 0)
      BY <1>1, PlacesGrow
    <2> QED
      BY <2>1
  <1>5. IsFiniteSet(OpenCalls(t)) /\ F + O <= P
    BY DEF SettledOnce
  <1>6. OpenCalls(t)' \subseteq OpenCalls(t) \cup (IF u = t THEN {c} ELSE {})
    BY <1>1 DEF OpenCalls, TypeOK
  <1>7. IsFiniteSet(OpenCalls(t)') /\ O2 <= O + (IF u = t THEN 1 ELSE 0) /\ O \in Nat /\ O2 \in Nat
    <2>0. O \in Nat
      BY <1>5, FS_CardinalityType
    <2>1. CASE u = t
      <3>1. /\ IsFiniteSet(OpenCalls(t) \cup {c})
            /\ Cardinality(OpenCalls(t) \cup {c}) \in {O, O + 1}
        BY <1>5, FS_AddElement
      <3>2. OpenCalls(t)' \in SUBSET (OpenCalls(t) \cup {c})
        BY <1>6, <2>1
      <3>3. IsFiniteSet(OpenCalls(t)') /\ O2 <= Cardinality(OpenCalls(t) \cup {c})
        BY <3>1, <3>2, FS_Subset
      <3>4. O2 \in Nat
        BY <3>3, FS_CardinalityType
      <3> HIDE DEF O, O2
      <3> QED
        BY <2>0, <2>1, <3>1, <3>3, <3>4
    <2>2. CASE u # t
      <3>1. OpenCalls(t)' \in SUBSET OpenCalls(t)
        BY <1>6, <2>2
      <3>2. IsFiniteSet(OpenCalls(t)') /\ O2 <= O
        BY <1>5, <3>1, FS_Subset
      <3>3. O2 \in Nat
        BY <3>2, FS_CardinalityType
      <3> HIDE DEF O, O2
      <3> QED
        BY <2>0, <2>2, <3>2, <3>3
    <2> QED
      BY <2>1, <2>2
  <1>8. F2 + O2 <= P2
    <2> HIDE DEF F, F2, P, P2, O, O2
    <2> QED
      BY <1>2, <1>3, <1>4, <1>5, <1>7
  <1> QED
    BY <1>7, <1>8 DEF SettledOnce

LEMMA FinalSettled ==
    ASSUME TypeOK, TypeOK', NEW t \in Tokens, SettledOnce(t),
           NEW c \in Calls, NEW d \in {"EXECUTE", "FAILURE"}, Finish(c, d)
    PROVE  SettledOnce(t)'
  <1> DEFINE u == calls[c].token
             b == calls[c].bound
  <1>1. /\ WriteReceipt(d, u, b) /\ d \in Decisions /\ calls[c] # Idle
        /\ calls' = [calls EXCEPT ![c] = Idle]
    BY DEF Finish, Decisions
  <1>2. u \in Tokens /\ b \in Bindings
    BY <1>1, CallTyped
  <1> HIDE DEF b
  <1> DEFINE F == Cardinality(Places({"EXECUTE", "FAILURE"}, t))
             F2 == Cardinality(Places({"EXECUTE", "FAILURE"}, t)')
             P == Cardinality(Places({"PENDING"}, t))
             P2 == Cardinality(Places({"PENDING"}, t)')
             O == Cardinality(OpenCalls(t))
             O2 == Cardinality(OpenCalls(t)')
  <1>3. F \in Nat /\ P \in Nat
    BY PlacesFinite
  <1>4. P2 = P
    <2>1. d \notin {"PENDING"}
      OBVIOUS
    <2>2. P2 = P + (IF d \in {"PENDING"} /\ u = t THEN 1 ELSE 0)
      BY <1>1, <1>2, PlacesGrow
    <2> QED
      BY <1>3, <2>1, <2>2
  <1>5. F2 = F + (IF u = t THEN 1 ELSE 0)
    <2>1. F2 = F + (IF d \in {"EXECUTE", "FAILURE"} /\ u = t THEN 1 ELSE 0)
      BY <1>1, <1>2, PlacesGrow
    <2> QED
      BY <2>1
  <1>6. IsFiniteSet(OpenCalls(t)) /\ F + O <= P
    BY DEF SettledOnce
  <1>7. OpenCalls(t)' = OpenCalls(t) \ {c} /\ (u = t => c \in OpenCalls(t))
    BY <1>1 DEF OpenCalls, TypeOK
  <1>8. /\ IsFiniteSet(OpenCalls(t)')
        /\ O2 = IF c \in OpenCalls(t) THEN O - 1 ELSE O
    BY <1>6, <1>7, FS_RemoveElement
  <1>9. O \in Nat /\ O2 \in Nat
    BY <1>6, <1>8, FS_CardinalityType
  <1>10. F2 + O2 <= P2
    <2> HIDE DEF F, F2, P, P2, O, O2
    <2> QED
      BY <1>3, <1>4, <1>5, <1>6, <1>7, <1>8, <1>9
  <1> QED
    BY <1>8, <1>10 DEF SettledOnce

LEMMA QuietSettled ==
    ASSUME TypeOK, TypeOK', NEW t \in Tokens, SettledOnce(t), UNCHANGED entries,
           calls' = calls \/ \E c \in Calls : calls' = [calls EXCEPT ![c] = Idle]
    PROVE  SettledOnce(t)'
  <1>1. OpenCalls(t)' \subseteq OpenCalls(t)
    BY DEF OpenCalls, TypeOK
  <1>2. \A D : Places(D, t)' = Places(D, t)
    BY DEF Places
  <1> QED
    BY <1>1, <1>2, FewerOpen

LEMMA SettledStep ==
    ASSUME TypeOK, \A t \in Tokens : SettledOnce(t), [Next]_vars
    PROVE  \A t \in Tokens : SettledOnce(t)'
  <1> TAKE t \in Tokens
  <1>1. TypeOK' /\ SettledOnce(t)
    BY StepTyped
  <1>2. ASSUME NEW u \in Tokens \cup {NoToken}, NEW b \in Bindings, DenyToken(u, b)
        PROVE  SettledOnce(t)'
    BY <1>1, <1>2, RefusalSettled DEF DenyToken
  <1>3. ASSUME NEW u \in Tokens \cup {NoToken}, NEW b \in Bindings,
               NEW d \in {"BLOCK", "DENY"}, RefuseRequest(u, b, d)
        PROVE  SettledOnce(t)'
    BY <1>1, <1>3, RefusalSettled DEF RefuseRequest
  <1>4. ASSUME NEW u \in Tokens \cup {NoToken}, NEW b \in Bindings, DenyConsume(u, b)
        PROVE  SettledOnce(t)'
    BY <1>1, <1>4, RefusalSettled DEF DenyConsume
  <1>5. ASSUME NEW u \in Tokens \cup {NoToken}, NEW b \in Bindings, NEW c \in Calls,
               Execute(c, u, b)
        PROVE  SettledOnce(t)'
    BY <1>1, <1>5, BeginningSettled
  <1>6. ASSUME NEW c \in Calls, NEW d \in {"EXECUTE", "FAILURE"}, Finish(c, d)
        PROVE  SettledOnce(t)'
    BY <1>1, <1>6, FinalSettled
  <1>7. ASSUME NEW c \in Calls, Reject(c)
        PROVE  SettledOnce(t)'
    BY <1>1, <1>7, QuietSettled DEF Reject
  <1>8. ASSUME UNCHANGED <<calls, entries>>
        PROVE  SettledOnce(t)'
    BY <1>1, <1>8, QuietSettled
  <1> QED
    BY <1>2, <1>3, <1>4, <1>5, <1>6, <1>7, <1>8 DEF Next, IssueToken, Clock, vars

LEMMA InitSettled == Init => \A t \in Tokens : SettledOnce(t)
  <1> SUFFICES ASSUME Init, NEW t \in Tokens PROVE SettledOnce(t)
    OBVIOUS
  <1>1. OpenCalls(t) = {} /\ \A D : Places(D, t) = {}
    BY DEF Init, OpenCalls, Places
  <1> QED
    BY <1>1, FS_EmptySet DEF SettledOnce

\* Every execution that began gets one final receipt at most, and no final receipt is
\* of an execution that did not begin, whatever executeFn does (gate.mjs).
THEOREM PendingSettled == Spec => []PendingSettledOnce
  <1> DEFINE I == \A t \in Tokens : SettledOnce(t)
  <1>1. I => PendingSettledOnce
    BY DEF SettledOnce, PendingSettledOnce
  <1>2. TypeOK /\ I /\ [Next]_vars => I'
    BY SettledStep
  <1>3. Init => I
    BY InitSettled
  <1> HIDE DEF I
  <1> QED
    BY <1>1, <1>2, <1>3, GateTyped, PTL DEF Spec
=============================================================================
