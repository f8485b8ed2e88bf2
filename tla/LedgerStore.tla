----------------------------- MODULE LedgerStore -----------------------------
(***************************************************************************)
(* The gateway's ledger (gateway/ledger/ledger-pg.mjs).  appendEntry is    *)
(* synchronous: it links the entry to the tip kept in memory, moves the    *)
(* tip and fills the cache, and fires an INSERT nobody waits for.  The     *)
(* INSERTs run on the connections of a pool.  initLedger loads cache and   *)
(* tip from the table, ordered by serial id, whenever the gateway starts.  *)
(*                                                                         *)
(* An entry is its hash and the hash it is linked to.  SHA-256 is taken to *)
(* be injective, and entry ids are fresh UUIDs, so hashes are numbers in   *)
(* the order entries are made, 0 being GENESIS_HASH.  An INSERT takes its  *)
(* serial id and commits in one step.                                      *)
(***************************************************************************)
EXTENDS Naturals, Sequences, FiniteSets

CONSTANTS
    Pooled,         \* do INSERTs run side by side? (FALSE: one connection)
    LateInserts,    \* may an INSERT of a process that is gone still run?
    MaxEntries,     \* bound: entries made
    MaxFailures,    \* bound: INSERTs that fail
    MaxRestarts     \* bound: restarts of the gateway

ASSUME LedgerAssumption ==
    /\ Pooled \in BOOLEAN /\ LateInserts \in BOOLEAN
    /\ MaxEntries \in Nat /\ MaxFailures \in Nat /\ MaxRestarts \in Nat

VARIABLES
    cache,      \* _cache: what verifyChain and the routes read
    tip,        \* currentHash
    table,      \* ledger_entries ORDER BY id
    inserts,    \* entries whose INSERT has been fired and not yet run
    loaded,     \* history: how many entries the last start loaded
    made,       \* entries made so far
    failures, restarts

vars == <<cache, tip, table, inserts, loaded, made, failures, restarts>>

GENESIS_HASH == 0
Entry == [hash: Nat \ {0}, prev: Nat]

TypeOK ==
    /\ cache \in Seq(Entry)
    /\ tip \in Nat
    /\ table \in Seq(Entry)
    /\ inserts \subseteq Entry
    /\ loaded \in 0..Len(cache)
    /\ made \in 0..MaxEntries
    /\ failures \in 0..MaxFailures
    /\ restarts \in 0..MaxRestarts

Init ==
    /\ cache = <<>> /\ tip = GENESIS_HASH /\ table = <<>> /\ inserts = {}
    /\ loaded = 0 /\ made = 0 /\ failures = 0 /\ restarts = 0

\* The hash of the last entry.
TipOf(c) == IF c = <<>> THEN GENESIS_HASH ELSE c[Len(c)].hash

-----------------------------------------------------------------------------
\* Mutant: the two hashes are swapped.
FaultyNewEntry == [hash |-> tip, prev |-> made + 1]

\* The entry is linked to the tip.
NewEntry == [hash |-> made + 1, prev |-> tip]

\* Mutant: the tip moves only when the entry is stored.
FaultyAppendEntry ==
    /\ made < MaxEntries
    /\ made' = made + 1
    /\ cache' = Append(cache, NewEntry)
    /\ tip' = TipOf(table)
    /\ inserts' = inserts \cup {NewEntry}
    /\ UNCHANGED <<table, loaded, failures, restarts>>

AppendEntry ==
    /\ made < MaxEntries
    /\ made' = made + 1
    /\ cache' = Append(cache, NewEntry)
    /\ tip' = NewEntry.hash
    /\ inserts' = inserts \cup {NewEntry}
    /\ UNCHANGED <<table, loaded, failures, restarts>>

\* A single connection runs INSERTs in the order they were fired.
Runnable(e) == Pooled \/ \A f \in inserts : e.hash <= f.hash

\* Mutant: an INSERT that ran is run again, as a retry would.
FaultyInsert(e) ==
    /\ Runnable(e)
    /\ table' = Append(table, e)
    /\ UNCHANGED <<cache, tip, inserts, loaded, made, failures, restarts>>

Insert(e) ==
    /\ Runnable(e)
    /\ table' = Append(table, e)
    /\ inserts' = inserts \ {e}
    /\ UNCHANGED <<cache, tip, loaded, made, failures, restarts>>

\* The INSERT fails: it is logged and forgotten.
InsertFails(e) ==
    /\ Runnable(e)
    /\ failures < MaxFailures
    /\ failures' = failures + 1
    /\ inserts' = inserts \ {e}
    /\ UNCHANGED <<cache, tip, table, loaded, made, restarts>>

\* initLedger
InitLedger ==
    /\ cache' = table
    /\ tip' = TipOf(table)
    /\ loaded' = Len(table)

\* The gateway dies and starts again.  INSERTs that had not reached the
\* database die with it; the others may run after the new process has loaded.
Restart(kept) ==
    /\ restarts < MaxRestarts
    /\ restarts' = restarts + 1
    /\ LateInserts \/ kept = {}
    /\ inserts' = kept
    /\ InitLedger
    /\ UNCHANGED <<table, made, failures>>

Next ==
    \/ AppendEntry
    \/ \E e \in inserts : Insert(e) \/ InsertFails(e)
    \/ \E kept \in SUBSET inserts : Restart(kept)

Spec == Init /\ [][Next]_vars

-----------------------------------------------------------------------------
(* Properties.                                                             *)

\* verifyChain: where an entry is not linked to the one before.
LinkageBreaks(c) ==
    {i \in DOMAIN c :
        c[i].prev # IF i = 1 THEN GENESIS_HASH ELSE c[i - 1].hash}

\* Whatever is lost or reordered on the way to the database, what a process
\* itself appends stays linked: verifyChain finds breaks only between entries
\* the process loaded when it started, and the tip is the last entry's hash.
BreaksOnlyLoaded ==
    /\ \A i \in LinkageBreaks(cache) : i <= loaded
    /\ tip = TipOf(cache)

\* An entry is stored once, and never while its INSERT is still on its way:
\* late INSERTs of a dead process do not come twice.
StoredOnce ==
    /\ \A i, j \in DOMAIN table : table[i].hash = table[j].hash => i = j
    /\ \A i \in DOMAIN table : table[i] \notin inserts

\* "New entries correctly reference the previous hash. This prevents future
\* chain breaks from gateway restarts." (KNOWN_ISSUES.md)
ChainUnbroken == LinkageBreaks(cache) = {}

\* Readers of the ledger see one hash chain that only grows, except that a
\* restart may cost entries at its end.
Chain == INSTANCE HashChain WITH Genesis <- GENESIS_HASH, chain <- cache

KeepsHashChain == Chain!Spec
=============================================================================
