-------------------------- MODULE LedgerStoreProofs --------------------------
(***************************************************************************)
(* Theorems about the ledger.  The first three hold however INSERTs fail,  *)
(* overtake each other or outlive their process; the others where they     *)
(* leave in order and commit, and a restart finds none under way           *)
(* (InsertsSettle).                                                        *)
(***************************************************************************)
EXTENDS LedgerStore, TLAPS

(***************************************************************************)
(* Type correctness.                                                       *)
(***************************************************************************)
LEMMA NewEntryTyped ==
    ASSUME TypeOK
    PROVE  /\ NewEntry \in Entry
           /\ NewEntry.hash = made + 1
           /\ NewEntry.prev = tip
  BY DEF TypeOK, NewEntry, Entry

LEMMA EntryHash ==
    ASSUME NEW e \in Entry
    PROVE  e.hash \in Nat /\ e.prev \in Nat
  BY DEF Entry

\* What the type says of a sequence of entries.
LEMMA EntrySeq ==
    ASSUME NEW c \in Seq(Entry)
    PROVE  /\ Len(c) \in Nat /\ DOMAIN c = 1..Len(c)
           /\ \A i \in DOMAIN c : c[i] \in Entry /\ c[i].hash \in Nat
  <1>1. Len(c) \in Nat /\ DOMAIN c = 1..Len(c)
    OBVIOUS
  <1>2. \A i \in DOMAIN c : c[i] \in Entry
    OBVIOUS
  <1> QED
    BY <1>1, <1>2, EntryHash

LEMMA TipTyped ==
    ASSUME NEW c \in Seq(Entry)
    PROVE  TipOf(c) \in Nat
  <1>1. CASE c = <<>>
    BY <1>1 DEF TipOf, GENESIS_HASH
  <1>2. CASE c # <<>>
    <2>1. c[Len(c)] \in Entry
      BY <1>2
    <2> QED
      BY <1>2, <2>1, EntryHash DEF TipOf
  <1> QED
    BY <1>1, <1>2

\* Appending an entry: the old ones stay where they are.
LEMMA Appended ==
    ASSUME NEW c \in Seq(Entry), NEW e \in Entry
    PROVE  /\ Append(c, e) \in Seq(Entry)
           /\ Len(Append(c, e)) = Len(c) + 1
           /\ Len(c) \in Nat
           /\ DOMAIN c = 1..Len(c)
           /\ DOMAIN Append(c, e) = 1..(Len(c) + 1)
           /\ \A i \in 1..Len(c) : Append(c, e)[i] = c[i]
           /\ Append(c, e)[Len(c) + 1] = e
           /\ TipOf(Append(c, e)) = e.hash
  BY DEF TipOf

LEMMA StepTyped == TypeOK /\ [Next]_vars => TypeOK'
  <1> SUFFICES ASSUME TypeOK, [Next]_vars
               PROVE  TypeOK'
    OBVIOUS
  <1>1. CASE UNCHANGED vars
    BY <1>1 DEF vars, TypeOK
  <1>2. CASE AppendEntry
    <2>1. /\ NewEntry \in Entry /\ NewEntry.hash \in Nat
          /\ cache' = Append(cache, NewEntry)
          /\ inserts' = inserts \cup {NewEntry}
          /\ tip' = NewEntry.hash
          /\ made' = made + 1 /\ made < MaxEntries
          /\ UNCHANGED <<table, loaded, failures, restarts>>
      BY <1>2, NewEntryTyped, EntryHash DEF AppendEntry
    <2>2. cache' \in Seq(Entry) /\ Len(cache') = Len(cache) + 1 /\ Len(cache) \in Nat
      BY <2>1, Appended DEF TypeOK
    <2>3. loaded \in 0..(Len(cache) + 1)
      BY <2>2 DEF TypeOK
    <2>4. made + 1 \in 0..MaxEntries
      BY <2>1, LedgerAssumption DEF TypeOK
    <2> QED
      BY <2>1, <2>2, <2>3, <2>4 DEF TypeOK
  <1>3. ASSUME NEW e \in inserts, Insert(e)
        PROVE  TypeOK'
    <2>1. e \in Entry
      BY DEF TypeOK
    <2>2. table' \in Seq(Entry)
      BY <1>3, <2>1, Appended DEF Insert, TypeOK
    <2> QED
      BY <1>3, <2>2 DEF Insert, TypeOK
  <1>4. ASSUME NEW e \in inserts, InsertFails(e)
        PROVE  TypeOK'
    BY <1>4, LedgerAssumption DEF InsertFails, TypeOK
  <1>5. ASSUME NEW kept \in SUBSET inserts, Restart(kept)
        PROVE  TypeOK'
    <2>1. tip' \in Nat
      BY <1>5, TipTyped DEF Restart, InitLedger, TypeOK
    <2>2. loaded' \in 0..Len(cache')
      BY <1>5 DEF Restart, InitLedger, TypeOK
    <2>3. restarts' \in 0..MaxRestarts
      BY <1>5, LedgerAssumption DEF Restart, TypeOK
    <2> QED
      BY <1>5, <2>1, <2>2, <2>3 DEF Restart, InitLedger, TypeOK
  <1> QED
    BY <1>1, <1>2, <1>3, <1>4, <1>5 DEF Next

LEMMA InitTyped == Init => TypeOK
  BY LedgerAssumption DEF Init, TypeOK, GENESIS_HASH

\* Every reachable state of the ledger is well typed (ledger-pg.mjs).
THEOREM LedgerTyped == Spec => []TypeOK
  BY InitTyped, StepTyped, PTL DEF Spec

(***************************************************************************)
(* Links of what a process appends itself.                                 *)
(***************************************************************************)
\* The entry at i is linked to the one before.
Linked(c, i) == c[i].prev = IF i = 1 THEN GENESIS_HASH ELSE c[i - 1].hash

LinkInv ==
    /\ TypeOK
    /\ tip = TipOf(cache)
    /\ \A i \in DOMAIN cache : i > loaded => Linked(cache, i)

\* An entry appended with the tip as its link is linked; the others are as
\* they were.
LEMMA AppendedLinked ==
    ASSUME NEW c \in Seq(Entry), NEW e \in Entry, e.prev = TipOf(c)
    PROVE  /\ Linked(Append(c, e), Len(c) + 1)
           /\ \A i \in 1..Len(c) : Linked(Append(c, e), i) <=> Linked(c, i)
  <1> DEFINE d == Append(c, e)
  <1>1. /\ Len(c) \in Nat
        /\ \A i \in 1..Len(c) : d[i] = c[i]
        /\ d[Len(c) + 1] = e
    BY Appended
  <1> HIDE DEF d
  <1>2. Linked(d, Len(c) + 1)
    <2>1. CASE c = <<>>
      BY <1>1, <2>1 DEF Linked, TipOf
    <2>2. CASE c # <<>>
      <3>1. Len(c) \in 1..Len(c) /\ Len(c) + 1 # 1 /\ (Len(c) + 1) - 1 = Len(c)
        BY <2>2, <1>1
      <3> QED
        BY <1>1, <2>2, <3>1 DEF Linked, TipOf
    <2> QED
      BY <2>1, <2>2
  <1>3. \A i \in 1..Len(c) : Linked(d, i) <=> Linked(c, i)
    BY <1>1 DEF Linked
  <1> QED
    BY <1>2, <1>3 DEF d

LEMMA StepLinked == LinkInv /\ [Next]_vars => LinkInv'
  <1> SUFFICES ASSUME LinkInv, [Next]_vars
               PROVE  LinkInv'
    OBVIOUS
  <1>1. TypeOK /\ TypeOK'
    BY StepTyped DEF LinkInv
  <1>2. CASE UNCHANGED <<cache, tip, loaded>>
    BY <1>1, <1>2 DEF LinkInv, Linked, TipOf
  <1>3. CASE AppendEntry
    <2> DEFINE e == NewEntry
    <2>1. e \in Entry /\ e.prev = TipOf(cache) /\ cache \in Seq(Entry)
      BY <1>1, NewEntryTyped DEF LinkInv, TypeOK
    <2>2. cache' = Append(cache, e) /\ tip' = e.hash /\ loaded' = loaded
      BY <1>3 DEF AppendEntry
    <2> HIDE DEF e
    <2>3. tip' = TipOf(cache')
      BY <2>1, <2>2, Appended
    <2>4. /\ DOMAIN cache' = 1..(Len(cache) + 1) /\ DOMAIN cache = 1..Len(cache)
          /\ Len(cache) \in Nat
      BY <2>1, <2>2, Appended
    <2>5. \A i \in DOMAIN cache' : i > loaded' => Linked(cache', i)
      BY <2>1, <2>2, <2>4, AppendedLinked DEF LinkInv
    <2> QED
      BY <1>1, <2>3, <2>5 DEF LinkInv
  <1>4. ASSUME NEW kept \in SUBSET inserts, Restart(kept)
        PROVE  LinkInv'
    <2>1. cache' = table /\ tip' = TipOf(table) /\ loaded' = Len(table)
      BY <1>4 DEF Restart, InitLedger
    <2>a. table \in Seq(Entry)
      BY <1>1 DEF TypeOK
    <2>2. \A i \in DOMAIN table : ~(i > Len(table))
      BY <2>a, EntrySeq
    <2> QED
      BY <1>1, <2>1, <2>2 DEF LinkInv
  <1> QED
    BY <1>2, <1>3, <1>4 DEF Next, Insert, InsertFails, vars

LEMMA InitLinked == Init => LinkInv
  BY InitTyped DEF Init, LinkInv, TipOf

LEMMA LinkGivesBreaks == LinkInv => BreaksOnlyLoaded
  <1> SUFFICES ASSUME LinkInv, NEW i \in LinkageBreaks(cache)
               PROVE  i <= loaded
    BY DEF BreaksOnlyLoaded, LinkInv
  <1>1. i \in DOMAIN cache /\ ~Linked(cache, i)
    BY DEF LinkageBreaks, Linked
  <1>2. ~(i > loaded)
    BY <1>1 DEF LinkInv
  <1> QED
    BY <1>1, <1>2 DEF LinkInv, TypeOK

\* What one process appends is one linked chain that ends in the tip, whatever
\* becomes of its INSERTs: breaks are only among entries it loaded
\* (appendEntry and initLedger of ledger-pg.mjs).
THEOREM OwnEntriesLinked == Spec => []BreaksOnlyLoaded
  BY InitLinked, StepLinked, LinkGivesBreaks, PTL DEF Spec

(***************************************************************************)
(* No entry is stored twice.                                               *)
(***************************************************************************)
StoreInv ==
    /\ TypeOK
    /\ \A e \in inserts : e.hash <= made
    /\ \A e, f \in inserts : e.hash = f.hash => e = f
    /\ \A i \in DOMAIN table :
          /\ table[i].hash <= made
          /\ \A e \in inserts : e.hash # table[i].hash
    /\ \A i, j \in DOMAIN table : table[i].hash = table[j].hash => i = j

LEMMA StepStored == StoreInv /\ [Next]_vars => StoreInv'
  <1> SUFFICES ASSUME StoreInv, [Next]_vars
               PROVE  StoreInv'
    OBVIOUS
  <1>1. TypeOK /\ TypeOK'
    BY StepTyped DEF StoreInv
  <1>2. CASE UNCHANGED vars
    BY <1>1, <1>2 DEF StoreInv, vars
  <1>3. CASE AppendEntry
    <2> DEFINE e == NewEntry
    <2>1. e.hash = made + 1
      BY <1>1, NewEntryTyped
    <2>2. inserts' = inserts \cup {e} /\ table' = table /\ made' = made + 1
      BY <1>3 DEF AppendEntry
    <2> HIDE DEF e
    <2>3. made \in Nat
      BY <1>1 DEF TypeOK
    <2>4. \A f \in inserts : f.hash \in Nat /\ f.hash <= made
      BY <1>1, EntryHash DEF StoreInv, TypeOK
    <2>a. table \in Seq(Entry)
      BY <1>1 DEF TypeOK
    <2>5. \A i \in DOMAIN table : table[i].hash \in Nat /\ table[i].hash <= made
      BY <2>a, EntrySeq DEF StoreInv
    <2>6. \A f \in inserts' : f.hash <= made'
      BY <2>1, <2>2, <2>3, <2>4
    <2>7. \A f, g \in inserts' : f.hash = g.hash => f = g
      BY <2>1, <2>2, <2>3, <2>4 DEF StoreInv
    <2>8. \A i \in DOMAIN table' :
             /\ table'[i].hash <= made'
             /\ \A f \in inserts' : f.hash # table'[i].hash
      BY <2>1, <2>2, <2>3, <2>5 DEF StoreInv
    <2> QED
      BY <1>1, <2>2, <2>6, <2>7, <2>8 DEF StoreInv
  <1>4. ASSUME NEW e \in inserts, Insert(e)
        PROVE  StoreInv'
    <2>1. /\ e \in Entry /\ table \in Seq(Entry)
          /\ table' = Append(table, e) /\ inserts' = inserts \ {e} /\ made' = made
      BY <1>1, <1>4 DEF Insert, TypeOK
    <2>2. /\ Len(table) \in Nat /\ DOMAIN table = 1..Len(table)
          /\ DOMAIN table' = 1..(Len(table) + 1)
          /\ \A i \in 1..Len(table) : table'[i] = table[i]
          /\ table'[Len(table) + 1] = e
      BY <2>1, Appended
    <2>3. \A i \in DOMAIN table' : i \in DOMAIN table \/ i = Len(table) + 1
      BY <2>2
    <2>4. \A i \in DOMAIN table' :
             /\ table'[i].hash <= made'
             /\ \A f \in inserts' : f.hash # table'[i].hash
      BY <2>1, <2>2, <2>3 DEF StoreInv
    <2>5. \A i, j \in DOMAIN table' : table'[i].hash = table'[j].hash => i = j
      BY <2>1, <2>2, <2>3 DEF StoreInv
    <2> QED
      BY <1>1, <2>1, <2>4, <2>5 DEF StoreInv
  <1>5. ASSUME NEW e \in inserts, InsertFails(e)
        PROVE  StoreInv'
    BY <1>1, <1>5 DEF InsertFails, StoreInv
  <1>6. ASSUME NEW kept \in SUBSET inserts, Restart(kept)
        PROVE  StoreInv'
    BY <1>1, <1>6 DEF Restart, StoreInv
  <1> QED
    BY <1>2, <1>3, <1>4, <1>5, <1>6 DEF Next

LEMMA InitStored == Init => StoreInv
  BY InitTyped DEF Init, StoreInv

LEMMA StoreGivesOnce == StoreInv => StoredOnce
  BY DEF StoreInv, StoredOnce

\* An entry is in the table once, and not while its INSERT is on its way, even
\* when INSERTs outlive the process that fired them.
THEOREM EntriesStoredOnce == Spec => []StoredOnce
  BY InitStored, StepStored, StoreGivesOnce, PTL DEF Spec

(***************************************************************************)
(* An orderly ledger: table and INSERTs are together the cache.            *)
(***************************************************************************)
\* Every INSERT that leaves is the oldest there is and commits, and none is there when
\* the gateway starts again.
InsertsSettle ==
    /\ \A e \in inserts :
          Insert(e) \/ InsertFails(e) => Insert(e) /\ \A f \in inserts : e.hash <= f.hash
    /\ restarts' # restarts => inserts' = {}

OrderInv ==
    /\ LinkInv
    /\ \A i \in DOMAIN cache : Linked(cache, i)
    /\ \A i \in DOMAIN cache : cache[i].hash <= made
    /\ \A i, j \in DOMAIN cache : i < j => cache[i].hash < cache[j].hash
    /\ Len(table) <= Len(cache)
    /\ \A i \in DOMAIN table : table[i] = cache[i]
    /\ \A e \in inserts : \E i \in DOMAIN cache : i > Len(table) /\ e = cache[i]
    /\ \A i \in DOMAIN cache : i > Len(table) => cache[i] \in inserts

LEMMA OrderAppend ==
    ASSUME OrderInv, TypeOK', LinkInv', AppendEntry
    PROVE  OrderInv'
  <1> DEFINE e == NewEntry
  <1>1. TypeOK /\ tip = TipOf(cache)
    BY DEF OrderInv, LinkInv
  <1>2. /\ e \in Entry /\ e.hash = made + 1 /\ e.prev = TipOf(cache)
        /\ cache \in Seq(Entry) /\ made \in Nat
    BY <1>1, NewEntryTyped DEF TypeOK
  <1>3. /\ cache' = Append(cache, e) /\ inserts' = inserts \cup {e}
        /\ made' = made + 1 /\ table' = table
    BY DEF AppendEntry
  <1> HIDE DEF e
  <1>4. /\ Len(cache) \in Nat /\ Len(cache') = Len(cache) + 1
        /\ DOMAIN cache = 1..Len(cache) /\ DOMAIN cache' = 1..(Len(cache) + 1)
        /\ \A i \in 1..Len(cache) : cache'[i] = cache[i]
        /\ cache'[Len(cache) + 1] = e
    BY <1>2, <1>3, Appended
  <1>5. \A i \in DOMAIN cache' : i \in DOMAIN cache \/ i = Len(cache) + 1
    BY <1>4
  <1>6. \A i \in DOMAIN cache : cache[i].hash \in Nat /\ cache[i].hash <= made
    BY <1>2, EntryHash DEF OrderInv
  <1>a. table \in Seq(Entry)
    BY <1>1 DEF TypeOK
  <1>7. Len(table) \in Nat /\ DOMAIN table = 1..Len(table) /\ Len(table) <= Len(cache)
    BY <1>a, EntrySeq DEF OrderInv
  <1>8. \A i \in DOMAIN cache' : Linked(cache', i)
    BY <1>2, <1>3, <1>4, <1>5, AppendedLinked DEF OrderInv
  <1>9. \A i \in DOMAIN cache' : cache'[i].hash <= made'
    BY <1>2, <1>3, <1>4, <1>5, <1>6
  <1>10. \A i, j \in DOMAIN cache' : i < j => cache'[i].hash < cache'[j].hash
    <2> SUFFICES ASSUME NEW i \in DOMAIN cache', NEW j \in DOMAIN cache', i < j
                 PROVE  cache'[i].hash < cache'[j].hash
      OBVIOUS
    <2>1. i \in DOMAIN cache
      BY <1>4
    <2>2. CASE j \in DOMAIN cache
      BY <1>4, <2>1, <2>2 DEF OrderInv
    <2>3. CASE j = Len(cache) + 1
      BY <1>2, <1>4, <1>6, <2>1, <2>3
    <2> QED
      BY <1>5, <2>2, <2>3
  <1>11. Len(table') <= Len(cache')
    BY <1>3, <1>4, <1>7
  <1>12. \A i \in DOMAIN table' : table'[i] = cache'[i]
    BY <1>3, <1>4, <1>7 DEF OrderInv
  <1>13. \A f \in inserts' : \E i \in DOMAIN cache' : i > Len(table') /\ f = cache'[i]
    <2> SUFFICES ASSUME NEW f \in inserts'
                 PROVE  \E i \in DOMAIN cache' : i > Len(table') /\ f = cache'[i]
      OBVIOUS
    <2>1. CASE f = e
      <3>1. Len(cache) + 1 \in DOMAIN cache' /\ Len(cache) + 1 > Len(table')
        BY <1>3, <1>4, <1>7
      <3> QED
        BY <1>4, <2>1, <3>1
    <2>2. CASE f \in inserts
      <3>1. PICK i \in DOMAIN cache : i > Len(table) /\ f = cache[i]
        BY <2>2 DEF OrderInv
      <3>2. i \in DOMAIN cache' /\ cache'[i] = cache[i]
        BY <1>4
      <3> QED
        BY <1>3, <3>1, <3>2
    <2> QED
      BY <1>3, <2>1, <2>2
  <1>14. \A i \in DOMAIN cache' : i > Len(table') => cache'[i] \in inserts'
    BY <1>3, <1>4, <1>5 DEF OrderInv
  <1> QED
    BY <1>8, <1>9, <1>10, <1>11, <1>12, <1>13, <1>14 DEF OrderInv

\* The INSERT that runs is that of the entry next to the table's last.
LEMMA NextInsert ==
    ASSUME OrderInv, NEW e \in inserts, \A f \in inserts : e.hash <= f.hash
    PROVE  /\ Len(table) + 1 \in DOMAIN cache
           /\ e = cache[Len(table) + 1]
  <1> DEFINE n == Len(table) + 1
  <1>1. TypeOK
    BY DEF OrderInv, LinkInv
  <1>2. Len(table) \in Nat /\ Len(cache) \in Nat /\ DOMAIN cache = 1..Len(cache)
    BY <1>1 DEF TypeOK
  <1>3. PICK i \in DOMAIN cache : i > Len(table) /\ e = cache[i]
    BY DEF OrderInv
  <1>4. n \in DOMAIN cache /\ n > Len(table) /\ n <= i
    BY <1>2, <1>3
  <1>5. cache[n] \in inserts
    BY <1>4 DEF OrderInv
  <1>6. e.hash <= cache[n].hash
    BY <1>5
  <1>7. cache[n].hash \in Nat /\ cache[i].hash \in Nat
    BY <1>1, <1>3, <1>4, EntryHash DEF TypeOK
  <1>8. ~(n < i)
    BY <1>3, <1>4, <1>6, <1>7 DEF OrderInv
  <1>9. n = i
    BY <1>2, <1>3, <1>4, <1>8
  <1> QED
    BY <1>3, <1>4, <1>9

LEMMA OrderInsert ==
    ASSUME OrderInv, TypeOK', LinkInv', NEW e \in inserts, Insert(e),
           \A f \in inserts : e.hash <= f.hash
    PROVE  OrderInv'
  <1> DEFINE n == Len(table) + 1
  <1>1. TypeOK
    BY DEF OrderInv, LinkInv
  <1>2. n \in DOMAIN cache /\ e = cache[n]
    BY NextInsert DEF Insert
  <1>3. /\ e \in Entry /\ table \in Seq(Entry)
        /\ table' = Append(table, e) /\ inserts' = inserts \ {e}
        /\ UNCHANGED <<cache, made>>
    BY <1>1 DEF Insert, TypeOK
  <1>4. /\ Len(table) \in Nat /\ Len(table') = n
        /\ DOMAIN table = 1..Len(table) /\ DOMAIN table' = 1..n
        /\ \A i \in 1..Len(table) : table'[i] = table[i]
        /\ table'[n] = e
    BY <1>3, Appended
  <1>5. Len(cache) \in Nat /\ DOMAIN cache = 1..Len(cache)
    BY <1>1 DEF TypeOK
  <1>6. n \in Nat /\ (\A i \in 1..n : i \in 1..Len(table) \/ i = n)
    BY <1>4
  <1>7. Len(table') <= Len(cache')
    BY <1>2, <1>3, <1>4, <1>5
  <1>8. \A i \in DOMAIN table' : table'[i] = cache'[i]
    BY <1>2, <1>3, <1>4, <1>6 DEF OrderInv
  <1>9. \A i \in DOMAIN cache : cache[i] = cache[n] => i = n
    <2> SUFFICES ASSUME NEW i \in DOMAIN cache, cache[i] = cache[n], i # n
                 PROVE  FALSE
      OBVIOUS
    <2>a. cache \in Seq(Entry)
      BY <1>1 DEF TypeOK
    <2>1. cache[i].hash \in Nat
      BY <2>a, EntrySeq
    <2>2. i < n \/ n < i
      BY <1>2, <1>5
    <2> QED
      BY <1>2, <2>1, <2>2 DEF OrderInv
  <1>10. \A f \in inserts' : \E i \in DOMAIN cache' : i > Len(table') /\ f = cache'[i]
    <2> SUFFICES ASSUME NEW f \in inserts'
                 PROVE  \E i \in DOMAIN cache : i > n /\ f = cache[i]
      BY <1>3, <1>4
    <2>1. f \in inserts /\ f # cache[n]
      BY <1>2, <1>3
    <2>2. PICK i \in DOMAIN cache : i > Len(table) /\ f = cache[i]
      BY <2>1 DEF OrderInv
    <2>3. i # n
      BY <2>1, <2>2
    <2>4. i > n
      BY <1>4, <1>5, <2>2, <2>3
    <2> QED
      BY <2>2, <2>4
  <1>11. \A i \in DOMAIN cache' : i > Len(table') => cache'[i] \in inserts'
    <2> SUFFICES ASSUME NEW i \in DOMAIN cache, i > n
                 PROVE  cache[i] \in inserts /\ cache[i] # e
      BY <1>3, <1>4
    <2>1. i > Len(table) /\ i # n
      BY <1>4, <1>5
    <2> QED
      BY <1>2, <1>9, <2>1 DEF OrderInv
  <1> QED
    BY <1>3, <1>7, <1>8, <1>10, <1>11 DEF OrderInv

LEMMA OrderRestart ==
    ASSUME OrderInv, TypeOK', LinkInv',
           NEW kept \in SUBSET inserts, Restart(kept), inserts' = {}
    PROVE  OrderInv'
  <1>1. TypeOK
    BY DEF OrderInv, LinkInv
  <1>2. /\ cache' = table /\ inserts' = {}
        /\ UNCHANGED <<table, made>>
    BY DEF Restart, InitLedger
  <1>3. /\ Len(table) \in Nat /\ Len(cache) \in Nat /\ Len(table) <= Len(cache)
        /\ DOMAIN cache = 1..Len(cache) /\ DOMAIN table = 1..Len(table)
    BY <1>1 DEF OrderInv, TypeOK
  <1>4. \A i \in DOMAIN table : i \in DOMAIN cache /\ table[i] = cache[i]
    BY <1>3 DEF OrderInv
  <1>5. \A i \in DOMAIN table : i # 1 => i - 1 \in DOMAIN table
    BY <1>3
  <1>6. \A i \in DOMAIN table : Linked(table, i)
    BY <1>4, <1>5 DEF OrderInv, Linked
  <1>7. \A i \in DOMAIN table : ~(i > Len(table))
    BY <1>3
  <1> QED
    BY <1>2, <1>3, <1>4, <1>6, <1>7 DEF OrderInv

LEMMA StepOrder ==
    ASSUME OrderInv, [Next]_vars, [InsertsSettle]_vars
    PROVE  OrderInv'
  <1>1. TypeOK' /\ LinkInv'
    BY StepTyped, StepLinked DEF OrderInv, LinkInv
  <1>2. CASE UNCHANGED vars
    BY <1>1, <1>2 DEF vars, OrderInv, Linked
  <1>3. CASE AppendEntry
    BY <1>1, <1>3, OrderAppend
  <1>4. ASSUME InsertsSettle, NEW e \in inserts, Insert(e) \/ InsertFails(e)
        PROVE  OrderInv'
    BY <1>1, <1>4, OrderInsert DEF InsertsSettle
  <1>5. ASSUME InsertsSettle, NEW kept \in SUBSET inserts, Restart(kept)
        PROVE  OrderInv'
    <2>1. restarts' # restarts
      BY <1>5 DEF Restart, OrderInv, LinkInv, TypeOK
    <2> QED
      BY <1>1, <1>5, <2>1, OrderRestart DEF InsertsSettle
  <1> QED
    BY <1>2, <1>3, <1>4, <1>5 DEF Next

LEMMA InitOrder == Init => OrderInv
  BY InitLinked DEF Init, OrderInv

LEMMA OrderUnbroken == OrderInv => ChainUnbroken
  BY DEF OrderInv, ChainUnbroken, LinkageBreaks, Linked

\* When INSERTs run in order, none fails and none outlives its process, no
\* restart breaks the chain (initLedger of ledger-pg.mjs), whatever the pool could do.
THEOREM SettledChain == Spec /\ [][InsertsSettle]_vars => []ChainUnbroken
  <1>1. OrderInv /\ [Next]_vars /\ [InsertsSettle]_vars => OrderInv'
    BY StepOrder
  <1> QED
    BY <1>1, InitOrder, OrderUnbroken, PTL DEF Spec

(***************************************************************************)
(* Such a ledger implements HashChain.                                     *)
(***************************************************************************)
LEMMA StepChain ==
    ASSUME OrderInv, [Next]_vars
    PROVE  [Chain!Next]_cache
  <1>1. TypeOK /\ tip = TipOf(cache)
    BY DEF OrderInv, LinkInv
  <1>2. CASE UNCHANGED cache
    BY <1>2
  <1>3. CASE AppendEntry
    <2> DEFINE e == NewEntry
    <2>1. e \in Entry /\ e.prev = tip /\ cache \in Seq(Entry) /\ cache' = Append(cache, e)
      BY <1>1, <1>3, NewEntryTyped DEF AppendEntry, TypeOK
    <2> HIDE DEF e
    <2>2. /\ Len(cache) \in Nat /\ Len(cache') = Len(cache) + 1
          /\ \A i \in 1..Len(cache) : cache'[i] = cache[i]
          /\ cache'[Len(cache) + 1] = e
      BY <2>1, Appended
    <2>3. Chain!Begins(cache, cache')
      BY <2>2 DEF Chain!Begins
    <2>4. cache'[Len(cache')].prev = Chain!Tip(cache)
      BY <1>1, <2>1, <2>2 DEF Chain!Tip, TipOf
    <2> QED
      BY <2>2, <2>3, <2>4 DEF Chain!Next, Chain!Extend
  <1>4. ASSUME NEW kept \in SUBSET inserts, Restart(kept)
        PROVE  [Chain!Next]_cache
    <2>1. cache' = table
      BY <1>4 DEF Restart, InitLedger
    <2>2. DOMAIN table = 1..Len(table)
      BY <1>1 DEF TypeOK
    <2>3. Chain!Begins(cache', cache)
      BY <2>1, <2>2 DEF OrderInv, Chain!Begins
    <2> QED
      BY <2>3 DEF Chain!Next, Chain!LoseEnd
  <1> QED
    BY <1>2, <1>3, <1>4 DEF Next, Insert, InsertFails, vars

LEMMA InitChain == Init => Chain!Init
  BY DEF Init, Chain!Init

\* Such a ledger is a hash chain that only grows, except that a restart may cost
\* entries at its end.
THEOREM SettledChainKept == Spec /\ [][InsertsSettle]_vars => KeepsHashChain
  <1>1. OrderInv /\ [Next]_vars /\ [InsertsSettle]_vars => OrderInv'
    BY StepOrder
  <1>2. OrderInv /\ [Next]_vars => [Chain!Next]_cache
    BY StepChain
  <1> QED
    BY <1>1, <1>2, InitOrder, InitChain, PTL DEF Spec, KeepsHashChain, Chain!Spec

=============================================================================
