# RIO: models, checks and proofs

TLA+ models of the RIO system, the TLC configurations that check them on small
instances, and theorems about them whose proofs TLAPS checks. Paths below are
those of the repository.

- [The system](#the-system)
- [What is modelled](#what-is-modelled): module by module, with the code
- [Runs](#runs), [bounds](#bounds) and [fairness](#fairness)
- [What is proved](#what-is-proved)
- [Where code and documents disagree](#where-code-and-documents-disagree)
- [What is not modelled](#what-is-not-modelled) and [what could follow](#what-could-follow)

## The system

RIO puts a human decision between an AI agent's intent and its execution. Its
running program is the **gateway** (`gateway/`, an Express server over
PostgreSQL). Beside it stand the **Prime sandbox** (a persistent workspace on
the local disk, reached through the gateway or used alone), the **enforcement
core** (`enforcement-core/`, a self-contained gate with tokens and receipts),
and code around it: the governed packet engine (`src/`), the compliance suites,
a verifier and archives.

Node runs one handler at a time and changes over only at an `await`. Almost all
of the gateway's state is a cache in memory; the tables behind it are written by
queries nobody waits for. That is where its hard behaviour comes from: checks
that are stale after an `await`, tables that lag behind caches, and restarts
that reload the one and lose the other.

| Component | State it keeps | Operations | Interacts with | Correct when |
|---|---|---|---|---|
| Intent pipeline: `routes/index.mjs`, `routes/api-v1.mjs`, `routes/proxy.mjs`, `governance/intents.mjs` | cache of intents (status, governance, authorization, token, execution, receipt); tables `intents`, `approvals` | submit, onboard, kill, govern, authorize, vote, execute, confirm, execute-action, receipt; restart | tokens, ledger, policy engine, connectors, principals | an execution needs an approval of its own; a verdict binds; no recorded proposer approves; no execution past a deadline; receipts tell what happened |
| Execution tokens: `security/token-manager.mjs` | Map of tokens | issue, validate and burn, clean up | pipeline | one life, one intent, one use |
| Gateway ledger: `ledger/ledger-pg.mjs` | cache, chain tip; table `ledger_entries` | append, load, verify | every route | one hash chain, through failures and restarts |
| Prime workspace: `prime/workspace-store.mjs`, `prime/sandbox.mjs` | state file, lock file, temporary files | open and recover, set with rollback, rollback | other processes of the host | one writer at a time; acknowledged changes last; every revision has its proof |
| Enforcement core: `enforcement-core/` | Map of tokens, ledger of receipts | issue, validate, consume; gate; write receipt | executors passed in by callers | a token executes once, what it was issued for, and its receipts account for it |
| Policy engine, SPG-M bridge: `governance/policy-engine.mjs`, `spgm-policy-bridge.mjs` | none | evaluate | policy store, pipeline | review context only tightens a verdict; modes override it |
| Policy store: `governance/policy-store.mjs` | active policy, system mode; tables | load; its setters have no caller | policy engine | the policy loaded is the active one |
| Signers: `security/identity-binding.mjs` | cache over table `authorized_signers` | register, revoke, resolve a key; load | approving routes | an approval is signed under a key that was registered; of two registrations one wins |
| API keys: `security/api-keys.mjs` | cache over table `api_keys` | create, revoke, validate; load | `/api/v1` | a revoked key is refused, now and after a restart |
| Replay prevention: `security/replay-prevention.mjs` | Map of nonces | check and record, clean up | middleware of every POST | no message passes twice in one process |
| Rate limiter: `security/rate-limiter.mjs` | request times per bucket | check and count, clean up | `/api/v1`, twice | no more than the limit in any window |

The remaining components (authentication, receipts, connectors, monitoring,
principals, intake and office-integrity checks, key backup, sync, the packet
engine under `src/`, verifier, suites, Python packages, experiments, the archive
`legacy/`) keep no state of their own worth a
model, or are not part of the program; `PROJECT.json` lists each with the reason.
Its "hazards" list what is hard to test in this code, each at its line, with the
properties that would catch it.

## What is modelled

### Intent pipeline: `TokenManager`, `SingleUseToken`, `IntentPipeline`

`IntentPipeline` EXTENDS `TokenManager`; `MCIntentPipeline` adds symmetry sets.

`intents` is the cache of `intents.mjs`; a record keeps the fields that decide
anything. `governance` keeps the verdict, `authorization` the decision, who took
it and whether it has an `expires_at`; `passed` says which deadlines (that one,
or the policy's TTL) the clock has gone by. `principal_id` and `agent_id` are what
the create route stored; `submitter` is history, the caller of a create route that
records one. `votes` is the
`approvals` table. `tally` counts, per intent, approvals recorded, executions let
out ("dispatched": a token handed to an agent, or a connector called), executions
recorded, receipts of executions (`governed_action`) and receipts of no execution
(`unexecuted`: `governed_denial`, `onboard`, `kill_switch`); it is history, read only
by properties.

Handlers without an `await` are one action: `Submit`, `Announce` (`POST /api/onboard`
and `POST /api/kill`, which make an intent, give it a receipt at once and leave it
"submitted"), `Govern`, `Authorize`, `Execute`, `ExpireAuthorization`,
`ExecuteConfirm`, `ExecuteConfirmExpired` and `GenerateReceipt`. (What `/onboard` and
`/kill` await comes after their change of the intent, or registers a signer, which
is `Signers`.) The parameter `s` is the route family: the `/api/v1` handlers
are the same pipeline with fewer checks. `Authorize` on the gateway's route is a
`RefuseSelfApproval` when the caller is the proposer: a denial is recorded and a
receipt of it generated. The roles the routes ask for are the sets `Proposers`,
`Approvers` and `Authorities`, which may overlap. `POST /approvals` waits twice
(`ApprovalBegin`, `ApprovalLookup`, `ApprovalInsert`, `ApprovalRecord`, or
`ApprovalAbandoned`), `POST /execute-action` once, for its connector
(`ExecuteAction`, then `SendCompletes` or `SendFails`); each such request is an
element of `Calls` and remembers only what the handler keeps across the wait.
`Restart` loses tokens and waiting calls and keeps the intents without
`execution_token`, for which the table has no column: it is the restart of an
idle database. What a lagging table does is `GatewayRecovery`.
Who is recorded differs by route: `POST /intent` stores the caller in `principal_id`,
`/authorize` and `/approvals` store it in the authorization; the `/api/v1` routes
record no principal on either (`routes/api-v1.mjs:125` and `:363`), nor do `/onboard`
and `/kill` (`PrincipalOn`, `Announce`). `by` of an authorization is that principal,
and not the free-text `authorized_by`. `receipt` is the decision whose hash the
receipt carries; where there is none the code writes `authorized_by: "unknown"` and
an empty hash, and the model "unknown".

`TokenManager` is the Map. The clock is two facts per token: past its expiry,
past its retention after use. A signature is identified with the token it was
made for, and the intent binding stands for the tool, argument and environment
bindings, which are functions of the intent. `SingleUseToken` is what the header
of `token-manager.mjs` promises: a token is born once, for one intent, and dies
once. `KeepsTokenPromise` states that the pipeline's token store implements it; the
module of the enforcement core says the same of its own.

### The intents table: `GatewayRecovery`, `RecordStore`

`GatewayRecovery` EXTENDS `IntentPipeline` and puts the table of `intents.mjs`
under its cache. `Work` is any step of the pipeline but its restart (`Serve`);
the rows it writes (`RowsWritten`) go to the connection pool: `written` has every
statement of an intent in the order sent, `pending` those on their way. `Commit`
takes any of them (the first is the INSERT; an UPDATE that finds no row changes
nothing), `Lose` drops any, and both go on after the process that sent them is
gone. `Recover` replaces the restart of the pipeline: the intents are what the
table has. `SendCompletes` sends three UPDATEs, as the continuation of
`POST /execute-action` does (`:1354`, `:1435`, `:1464`; the third repeats the second in
the columns kept here). `RecordStore` is the promise that can be kept: a
record comes back as it once was, whole, or not at all.

### Admission: `Clock`, `ReplayPrevention`, `RateLimiter`, `ApiKeys`, `Admission`

What a request meets before its handler. `Clock` is `Date.now`, an integer that
does not run backwards. `ReplayPrevention` has the Map of nonces, the window with
its skew, and the timer that forgets. `RateLimiter` has the time stamps of a
bucket; a request under `/api/v1` goes by two mounts of the limiter in one tick
(`PassBoth`), or is answered by the first router (`PassFirst`), or refused by the
one or the other mount. `passed` is history: every stamp, with the process that
made it. `ApiKeys` is a cache over a table; `createApiKey` and `revokeApiKey`
await a statement, which may fail, be executed with its answer lost, or outlive
its process (`orphaned`). `refusing` and `revoked` are history.

`Admission` composes them in the order of `server.mjs`: the nonce is spent first,
then the key is checked, then the limiter asked. `Restart` empties both Maps and
loads the keys. Requests to the pipeline's own routes meet replay prevention
only.

### Governance: `PolicyEngine`, `Signers`, `Governance`

`PolicyEngine` is `evaluatePolicy` with `applySpgmPolicyBridge`, step by step: the
scope, the first class that applies with its conditions, the mode, the confidence,
the ceiling of a delegate, the bridge. A pattern is the set of actions it matches,
the numeric bounds of a class are one fact about the request, and risk tiers are
their severities. `Signers` is the signer store, a cache over a table whose
handlers write the cache after the answer of the table.

`Governance` composes both with the part of the pipeline between submission and
decision: `Govern` stores the verdict and what it rests on (`ground`, history);
`Authorize` verifies a signature with the cached key and decides in one step;
`RefuseSelfApproval` is the denial that `POST /authorize` records, without a
signature, when the approver is the proposer (`ProposerOf`);
`POST /approvals` does so over two queries (`BeginApproval`, `VerifyVote`,
`EndApproval`, or `AbandonVote`), between which signers come and go. The properties
state the reference: `Grounds` says when no human need be asked in terms of the
policy document, without the engine's order of steps.

### Gateway ledger: `LedgerStore`, `HashChain`

`cache` and `tip` are `_cache` and `currentHash`, `table` the rows in the order
`initLedger` reads them, `inserts` the INSERTs fired and not yet run.
`AppendEntry` is synchronous, as in the code; `Insert` and `InsertFails` happen
whenever the pool gets to them; `Restart` loads. Hashes are numbers, given out in
order: SHA-256 is taken to be injective and entry ids are fresh. An INSERT takes
its serial id and commits in one step. `Pooled`, `LateInserts` and `MaxFailures`
say what may go wrong; the code as it stands is `Pooled = TRUE`. `HashChain` is
the promise: the chain grows at its end, every link right, and a crash costs
entries at the end only.

### Prime workspace: `PrimeWorkspace`, `WorkspaceLog`

Processes share a directory. The store is synchronous, so one process has one
operation in progress, and every system call on a shared file is a step: create
the lock (`CreateLock`), write the owner's name into it (`StampLock`), judge a
lock that exists (`JudgeLock`), unlink it (`ReclaimLock`), read and compute
(`Load`, or `Recover` when the store is opened), write the temporary file
(`WriteTemp`), rename it (`Commit`), unlink the lock and return (`ReleaseLock`).
`Crash`, `StampFails` and `WriteFails` may happen wherever the code can meet
them; a lock file whose writing failed names nobody, or, when only `fsyncSync` failed,
the process, and then stands until that process is gone. `SlowAcquire` says whether a live process may need longer than `staleLockMs`
between creating and stamping the lock. The state file is modelled with its
values, rollback capabilities and proofs; one member of `Ids` stands for the
proof and the rollback token that one transaction makes, and the hash of a value
for the value. Process ids are not reused. `WorkspaceLog` is the promise: whole
transactions one after another, each set with a way back that is taken at most
once, and one trail of proofs.

### Enforcement core: `EnforcementGate`

`executeGate` is synchronous up to its call of `executeFn`: all refusals
(`DenyToken`, `RefuseRequest`, `DenyConsume`) are one step, and so is `Execute`,
which consumes the token and writes PENDING. `Finish` writes the final receipt;
`Reject` is an executor that throws null, for which there is none. Lineage and
scope checks read only the request, so their outcome is an input. `Clock` turns
`now > expires_at`, and back again when the clock is set back. Receipts carry the
token's id, which the code leaves out, so that properties can count by token.
The receipts' hash chain is extended in the same synchronous step as the receipt
and is left out. `SingleUseToken` is what this store promises too, with a binding (trace and
payload hash) in the place of the intent.

## Runs

All runs set `CHECK_DEADLOCK FALSE`: the systems may really stop, since nobody
is obliged to send a request, and the bounds end every behaviour.

| Run | Instance | Shows |
|---|---|---|
| `pipeline_safety` | 1 intent, 3 tokens, 2 principals with every role, 2 waiting calls, both families, 1 restart; 331,124 states | dispatches never outnumber approvals (`EachDispatchGranted`), automatic verdicts bind (`PolicyVerdictBinds`), whatever is in flight is accounted for (`InFlightAccounted`), an approver's rows are no more than wait at once (`VotesBounded`), `SupersededTokenIsDead`, `KeepsTokenPromise`; `VerdictBookkeeping` is the strengthening the proof uses |
| `pipeline_gateway` | `FairSpec`, gateway routes only, 2 intents sharing 2 tokens, one of them for a connector; a proposer, and an approver who also has the kill switch; 1 waiting call, no restart; 592,852 states | a token is spent on its own intent only (`EachExecutionDispatched`); receipts of executions never outnumber executions, and the others are at most two an intent (`EachReceiptExecuted`); `NoOverdueDispatch`; a reservation ends with its connector call (`ReservationSettles`) |
| `gateway_recovery` | 1 intent, 2 tokens, 2 principals with every role, 1 waiting call, 2 statements under way, 1 restart; 1,357,253 states | an approval is used at most once, and once more per restart (`RepeatsBounded`), receipts likewise (`ReceiptRepeatsBounded`); whose decision a receipt carries (`ReceiptNamesDecider`) and `NoSelfApproval` survive a stale reload; `KeepsRecordHistory` |
| `admission` | 1 nonce, 1 key as bucket, limit 2, window 2, retention exactly window + skew, 2 key calls, 5 instants, 1 restart; 2,087,328 states | `NonceSpentOnce`, `RateRespected`, `RevokedForGood`, `RefusedSinceAsked` |
| `governance` | 1 intent, 3 requests (of an agent or for a system in scope and out of it), 2 policies, every mode, one principal who proposes and approves, 1 signer with 2 keys, 2 signer calls, 1 restart; 1,739,646 states | `UnattendedOnGrounds`, `DeniedStaysDenied`, `SignedWithStoredKey`, `RegistrationWins` |
| `prime_shared` | 2 processes, 3 ids, 2 values, 2 faults, without the late unlink of `prime_reclaim` (`ReclaimsJudged` as an action constraint) and without slow lock creation; 973,223 states | `Exclusive`, `AckedDurable` and the log of whole transactions (`KeepsWorkspaceLog`) through crashes, failed writes and the recovery by the other process |
| `prime_recovery` | 2 processes, 2 ids, 2 values, 2 faults, slow lock creation, nothing kept out; 1,319,792 states | every revision has one proof (`RevisionsProven`), even where one process unlinks the other's live lock, or releases it |
| `gate_safety` | 2 tokens, 2 calls, 4 bindings, clock set back; 141,751 states | `TokenExecutesOnce`, `PendingSettledOnce`, `BoundToPayload`, `ExpiredNeverExecutes`; the token store keeps the promise of `SingleUseToken` (`KeepsTokenPromise`) |
| `ledger_pool` | pool, late INSERTs, 5 entries, 1 failure, 2 restarts; 72,348 states | `BreaksOnlyLoaded`: a process's own entries stay linked, whatever the table became; `StoredOnce` |
| `pipeline_replay`, `prime_reclaim`, `ledger_breaks` | smallest instance that reaches it | a statement of the repository that the code does not keep; see below |

`pipeline_safety`, `prime_shared`, `gate_safety` and `ledger_pool` also check the
type invariant; the other modules prove theirs. For every
property of a passing run `PROJECT.json` names a mutant: a definition of the
model changed the way a plausible slip in that code would change it (a `Faulty...`
or otherwise named operator, marked "Mutant" in its comment, beside
the right one), which the same run refutes.

### Bounds

- *Tokens, ids, entries* are fresh names the code makes without limit; a run has
  as many as it takes for a second or third execution, transaction or entry to
  meet what the first left behind. Three tokens let an intent be executed, be
  authorized again and be executed twice more.
- *Deadlines* that may pass (`Deadlines`): both, where `NoOverdueDispatch` is
  checked; none in `gateway_recovery`, where they only add refusals and the run is
  about statements.
- *Statements under way* (`MaxPending`): two per intent when a request is taken;
  a continuation may then send three more. Two are enough for one to overtake another,
  for an UPDATE to come before its INSERT, and for one of a dead process to meet
  those of the next.
- *Time* (`MaxTime`, `Window`, `Skew`, `Retention`, `RateWindow`): five instants
  with windows of one and two ticks; retention is as short as the assumption
  allows, so that a nonce kept one tick less would be refused by TLC. The real
  retention is hundreds of times longer than needed. `MaxRequests` counts one
  request more than the limit.
- *Policies and requests* of `MCGovernance`: two policies with overlapping classes,
  each condition, a class that denies what an earlier one does not let through, and an
  action no class names; between them the requests are in scope and out of it by the agent
  and by the system, have the recipient a class asks for and lack it, and match no class. `Confidences` are the threshold
  and one below. The slots `SignerCalls` and `KeyCalls` are two: a registration
  races a revocation or another registration. One `POST /approvals` call is under
  way at a time in `Governance`; two of them are the concern of `IntentPipeline`.
- *Waiting calls*: two. Each of the races is between two requests; where two
  intents share the tokens one call suffices, since intents meet nowhere else.
  `gateway_recovery` has one too, for the size of the table's histories: there no
  vote is recorded while a connector is sending. That race is in `pipeline_safety`;
  across a restart only the theorems (`RecoveryDeciderNamed`,
  `RecoveryFlightAccounted`) cover it.
- *Principals*: two are a proposer and an approver. A second approver differs
  from the first in nothing but the row of `votes`. In `governance` one principal is
  both, so that it meets its own intents; agents are not principals there, so that the
  agent id is never the approver (`ProposerOf` falls back to it): that case is left to
  `DecisionsSigned`.
- *Announced intents* (`/onboard`, `/kill`) have no e-mail or SMS to deliver, so only
  `pipeline_gateway` has one. What they add to an intent of `/api/v1`, which also
  records no proposer, is the receipt.
- *Restarts and faults* (`MaxRestarts`, `MaxRuns`, `MaxFaults`, `MaxFailures`): one, or two
  where the second hits the recovery of the first.
- `MaxReceipts` bounds the ledger when a call begins, `MaxEntries` the entries
  made. `Values` has one or two members and `Keys` one: a rollback compares a
  value with the one it set on the same key.
- Symmetry sets are used in the safety runs only: no definition tells two
  members of such a set apart. `LawfulReclaim`, `KeepsTokenPromise` and the other
  action properties are invariant under the permutations too. The runs that
  check liveness use none.

The theorems remove most of these bounds for the properties they state.

### Fairness

`FairSpec` adds weak fairness of `Resume(c)` for each waiting call: the
PostgreSQL driver, the mailer and the SMS client answer, fail or time out, and
Node then runs the continuation. Nothing obliges a client to send a request, a
human to vote, or the clock to reach a deadline within a run. The other runs assume no fairness: they check what
may never happen. A restart drops waiting calls, so `pipeline_gateway` allows
none: a reservation cut off by a restart is never settled, and
`intents.mjs:152-154` says that it makes no such claim.

## What is proved

The `...Proofs` modules state the theorems; every proof is checked to its
leaves. Constants are arbitrary up to the named assumptions of the modules
(`TokenAssumption`, `PipelineAssumption`, `RecoveryAssumption`,
`ClockAssumption`, `ReplayAssumption`, `RateAssumption`, `KeyAssumption`,
`AdmissionAssumption`, `PolicyAssumption`, `SignerAssumption`,
`GovernanceAssumption`, `WorkspaceAssumption`, `GateAssumption`,
`LedgerAssumption`), which say that "none" values are not members, that the holders of
a role are principals, and that bounds are numbers. Two say more: `ReplayAssumption`, that a nonce is retained at least for
window and skew together, which the shipped configuration (24 h against 310 s)
satisfies and no code enforces; `AdmissionAssumption`, that every key has a
bucket. None assumes a set to be finite; `VotesFew` alone has that as a hypothesis, of
the requests that can wait at once.

**`IntentPipelineProofs`.** `TypeCorrect`; `DispatchesGranted`,
`ReceiptsExecuted` (receipts of type `governed_action` against executions, and the
receipts of no execution against the status), `FlightAccounted`, which are inductive
with the type invariant; `ExecutionsDispatched`, a consequence of the last; `VerdictsBind`,
whose invariant is `VerdictBookkeeping` (a verdict is given once, and a vote in
flight is on an intent sent to review: without that a waiting vote could
reach an intent denied by policy) together with `EachDispatchGranted`;
`DeciderNamed`, whose invariant `DeciderInv` says that a person has decided
every reviewed intent that has left "governed" and no other;
`ProposersNeverApprove`, of the intents that record their proposer, with the invariant
`ProposerKept` (the principal recorded is the submitter, and no vote in flight is
the proposer's own); `VotesFew`: rows stored and INSERTs under way are together no more
than the requests that can wait, since a vote sends its INSERT only where it found no
row; `NothingOverdue`, assuming that `/api/v1` is not in service: every guard that lets
an intent out reads the deadlines it passed; `VerdictsKept`; `SupersededDead`; `PromiseKept`, the refinement of
`SingleUseToken`, one lemma per kind of step (`TokenMoves` lists the steps; the
gateway with its table takes no others).

`LateVotesAlone` finds the cause of `pipeline_replay`: where the vote of
`POST /approvals` is recorded only while its intent is still governed
(`Rechecked`), each intent is let out at most once, whatever routes, tokens,
restarts and connectors do. The hypothesis is the comparison that the handler makes
before its two awaits and does not repeat. The invariant is that an intent is granted
once and not before it leaves review (`GrantedOnce`), beside `EachDispatchGranted`.

`InFlightAccounted` counts three populations (live tokens, open connector calls,
recorded executions) against dispatches; its proof carries the finiteness of the
counted sets in the invariant, so that each step adds or removes one element.

**`GatewayRecoveryProofs`.** `RecoveryTypeCorrect`; `RestartRepeatsOnce` and
`RestartReceiptsOnce`, which are inductive: a step of the pipeline keeps the count
as before, and a restart raises both sides by at most one, whatever the table
holds. `RecoveryFlightAccounted`: what could record an execution dies with the
process. `HistoryKept`, the refinement of `RecordStore`: its invariant, `TableHad`,
says that the table holds a row once written or none.

A restart may bring an intent back to any version it had, so what is to survive it
must hold of every version by itself. `VersionsExplained` says so of the decision: in
every record, in use or written, verdict, status, authorization and receipt agree on
who decided (`ExplainedRecord`). `RecoveryDeciderNamed` and, for the proposer,
`RecoveryProposersNeverApprove` follow.
`RecoveryExecutionsDispatched`, `RecoverySupersededDead` and `RecoveryPromiseKept`
carry over from the pipeline: a restart loses every token and open connector call.
What does not carry over is not stated: after a reload of a row older than its verdict
an intent is governed again, so `EachDispatchGranted`, `PolicyVerdictBinds` and
`VerdictBookkeeping` hold of the running process and not across restarts
(`RepeatsBounded` is what is left); deadlines are not stated either, since the clock of an
authorization that a reload brings back is the model's own choice (`Reloaded`).

`SettledTableRefines` says when `Restart` of `IntentPipeline`, which takes the table to be up to
date, is exact: where the pool commits the statements of each intent in the order
sent, loses none, and a restart finds none under way (`StatementsSettle`), the
gateway with its table implements `IntentPipeline`, and each of its safety theorems
holds again. The invariant `TableFollows` says that the statements committed are the
first ones and the table has the row of the last of them. The code does not see
to any of this (nothing awaits the UPDATE of `intents.mjs:140`, and the process does
not drain its pool before it exits); the theorem shows that nothing else is missing.
With `LateVotesAlone` it gives
`SettledRestartsRepeatNothing`: at most one dispatch, restarts included.

**`AdmissionProofs`.** `NoReplayInOneProcess`: a message taken in this process is in
the nonce store, or too old for good (`SpentIsKnown`); that clean-up keeps it so
needs an entry's time stamp to be at most the skew ahead of its use
(`EntriesTimely`). `LimitKept`: what passed within the window that ends now is in
the bucket (`PassedInStore`), so a request that is let in finds every window it
falls into below the limit. `RevocationIsFinal`
and `RefusedAtOnce` share `KeyInv`: while an INSERT is under way nobody has its key
and no other call is about it (`CreatesFresh`), so nothing makes a revoked row or
record active again; and an UPDATE that was answered shows in the row.
`AdmissionTypeCorrect`.

**`GovernanceProofs`.** `ReviewOnlyTightens`, for every request, policy and mode.
`ModesOnlyTighten`: against NORMAL mode for a principal who is no delegate, without a
review, nothing that `evaluatePolicy` looks at makes a verdict AUTO_APPROVE or lowers its
risk, and but for MAINTENANCE, which pauses, none takes a denial away; ELEVATED and
LOCKDOWN leave a denial or one human. That REQUIRE_QUORUM then becomes
REQUIRE_HUMAN is what the code does, so "stricter" is not claimed of those decisions.
`UnattendedOnlyOnGrounds` and `DenialIsFinal` are part of `GovernanceInv`, which
adds that a vote under way is on an intent that was sent to review, and is genuine
once verified (`VotesGenuine`); two lemmas say what `EvaluatePolicy` returns
(`ApprovedOnGrounds`, `NotDenied`). `DecisionsSigned` needs that every cached key was
a row's (`HeldIsStored`) and that a decision nobody signed is a denial on the
approver's own intent (`Refused`), which only a later vote replaces; `OneRegistrationWins` that a statement that touched a row
shows in it until the row is deleted (`StatementsHeld`).
`GovernanceTypeCorrect`.

**`PrimeWorkspaceProofs`.** `WorkspaceTyped` and `EveryRevisionProven` hold for
any processes and any faults. The second needs to know that ids are fresh and
that what a process is about to write is itself a proven state whose new proof is
its own (`ProofInv`): then even a commit that overwrites another's leaves a proven
file. `LockExclusive`, `AckedStay` and `WorkspaceLogKept` assume `OrderlyUse`: one
process, or neither a fault nor a slow acquisition. Without it they are false, as
`prime_reclaim` shows. Their invariant says that the lock names who is inside
(`LockInv`) and that what the process inside is about to write is the transaction
applied to the file as it still is (`StoreInv`); the refinement then reads each
commit as one step of `WorkspaceLog`.

`LateUnlinksAlone`, `AckedOutliveCrashes` and `LogOutlivesCrashes` find the cause: for any
number of processes, crashes and failed writes, the lock excludes, `LawfulReclaim`
holds, no receipted transaction is lost and the log is kept, where the file that
`ReclaimLock` unlinks can still be reclaimed (`ReclaimsJudged`) and no live process is
slow to sign its lock (`~SlowAcquire`). The first is the gap between
`#lockCanBeReclaimed` and `unlinkSync`, which `prime_reclaim` runs into; the second is
what `staleLockMs` bets on. `LockHeld` is the invariant: the lock names whoever is inside,
and is unsigned until its owner signs it.

**`EnforcementGateProofs`.** `GateTyped`, `PayloadsBound`, `TokensSingleUse`,
`PendingSettled` (counted, like `InFlightAccounted`), `ExpiredStaysExpired`,
for any number of calls and a clock that may be set back.
`GateInv` adds that waiting calls remember their token's binding and that a token
with a PENDING receipt is consumed: single use needs the latter, since nothing
else stops a second PENDING. `GateTokensKeepPromise` is the refinement of
`SingleUseToken`: a token is issued once, for one binding, and is consumed or expires for good
(`Moves` lists the steps of the store).

**`LedgerStoreProofs`.** `LedgerTyped`, `OwnEntriesLinked`, `EntriesStoredOnce`
for every pool and failure. `SettledChain` and `SettledChainKept` (the
refinement of `HashChain`) hold of every behaviour in which INSERTs leave in order and
commit and a restart finds none under way (`InsertsSettle`): an INSERT overtaken,
failed or late is all that can break the chain. `StoreInv` says that hashes on their
way to the table are not in it; `OrderInv` that table and waiting INSERTs are
together the cache, in order, so that what a restart loads is its beginning.

**Only model-checked.** Liveness under fairness (`ReservationSettles`) and what
rests on ENABLED are out of reach of the provers installed; so are induction over
data and RECURSIVE operators, which these modules do not use.
`ReservationSettles` is the one property of a passing run without a theorem.

**Under a hypothesis about behaviours.** `LateVotesAlone`, `SettledTableRefines`,
`SettledRestartsRepeatNothing`, `LateUnlinksAlone` with the two theorems after it,
`SettledChain` and `SettledChainKept` assume
what the code as it stands does not see to. They say that the three violations below
have the causes named and no other, and what a repair would have to establish; they are no
claim about the code as it is. Of them only `LateUnlinksAlone` and its two companions have
a run beside them: `prime_shared` checks their conclusions under the same hypothesis.

## Where code and documents disagree

Each is a run that TLC must refute; `PROJECT.json` quotes the document.

- `pipeline_replay` (`AtMostOneDispatch`, `routes/index.mjs:652`): a vote that
  waited for its INSERT writes "authorized" over an intent executed meanwhile,
  which can then be executed again (`LateVotesAlone`: in no other way).
- `prime_reclaim` (`LawfulReclaim`, `prime/workspace-store.mjs:116`): the lock
  judged stale is not always the one removed (`LateUnlinksAlone`: nothing else is
  needed for it).
- `ledger_breaks` (`ChainUnbroken`, `ledger/ledger-pg.mjs:245`): INSERTs that
  overtake each other break the chain at the next restart (`SettledChain`).

The properties that do hold are stated so as to say how much is left: the late
vote spends an approval of its own (`EachDispatchGranted`), never undoes an
automatic verdict (`PolicyVerdictBinds`), and breaks of the ledger lie only among
loaded entries (`BreaksOnlyLoaded`).

Other differences have no run of their own.

- *Modes.* LOCKDOWN asks for `root_authority` (`governance/policy-engine.mjs:384-388`,
  `tests/policy-engine.test.mjs:300`); the approving routes ask for the role approver
  (`routes/index.mjs:274`) and do not read the field. In MAINTENANCE "execution is
  paused", but the intent becomes governed like any other and can be approved. No
  code sets the mode.
- *Quorum.* `REQUIRE_QUORUM` and `REQUIRE_UNANIMOUS` are decided by one approval: the
  votes are stored and never counted.
- *Confidence.* `routes/openapi.mjs:492` bounds it by 10, the engine's threshold is 80.
- *Signers.* A revocation whose answer is overtaken by that of a later registration
  leaves the cache empty beside a row, and the other way round a revoked key in the
  cache until the next restart; the comment at `security/identity-binding.mjs:165`
  says that a revoked signer can no longer approve. `RegistrationWins` therefore ends
  at the first deletion, and `SignedWithStoredKey` asks for a key the row has held at
  some time, be it revoked since: neither catches the revoked key left in the cache.
- *Limiter.* A request that reaches the second router of `/api/v1` counts twice
  (`server.mjs:306` and `:312`): a key's limit is spent at twice the rate.
- *Replay.* The nonce is spent before the request is judged, so one that the
  limiter or the handler refuses cannot be sent again as it is; and a restart
  forgets all nonces, so a message may pass once more (`NonceSpentOnce` says so).
- *Expired tokens.* `routes/index.mjs:978` says to "Request a new token via POST
  /execute", which refuses an executing intent (`:746`).
- *Missing recipient.* The checks of `POST /execute-action` after the reservation
  (`routes/index.mjs:1299`, `:1319`) are never reached: `:1199-1205` answers 400 for the
  same expressions before it. So is the refused burn of the token just issued (`:1278`).
- *Kill switch.* "All pending intents are frozen" (`routes/proxy.mjs:277`): none is
  touched, and the kill adds one, which can be governed and approved like any other.
- *Proposer and approver.* "Proposer ≠ Approver" (`routes/index.mjs:300`) is enforced
  by `/approvals` only on an intent that records a `principal_id` (`:561`). Whoever has
  both roles may vote on an intent made through `/api/v1` or `/kill`.
- *Sync.* `routes/sync.mjs:82` compares fields that entries do not have.

The `/api/v1`
routes compare neither proposer with approver nor the TTL (`routes/api-v1.mjs:288`
and `:436`), so `NoOverdueDispatch` is checked for the gateway's routes.
`NoSelfApproval` speaks of intents that record their proposer, and of approvals that
record theirs: an approval through `/api/v1` records nobody, so nothing is claimed of
it. Two concurrent votes of one approver are both stored
(`routes/index.mjs:569`; `VotesBounded` says how many). A denial recorded during a send
ends in a receipt of an execution that carries the denial (`:652`); that it carries a
person's decision at all is `ReceiptNamesDecider`. `BreaksOnlyLoaded` and `StoredOnce`
say how far the damage to the ledger goes; the damage itself is `ChainUnbroken`.

## What is not modelled

Besides the components named above: the contents of requests, receipts and
ledger entries; hashing and signatures, which are taken to be injective and
unforgeable; how roles are given (they are constant sets) and scopes of API keys;
the audit entries a handler appends to the ledger (the ledger is modelled on its
own, with appends at any time); user policies, which only refuse a request before
any change of state; PostgreSQL itself, beyond "a query commits or fails". The
policy store and the principals are inputs; `legacy/`, by far the largest part of the repository, is an
archive that nothing else imports, and the applications in it are not the program
these models are about.
The enforcement core keeps all state in memory, so its restart is a new start.

## What could follow

The plan was: pipeline with tokens, workspace, enforcement core, ledger; then the
intents table, admission, the policy engine with the signers. All of it is done. The
policy store, the principals' setters, the system mode and the pause of the packet
engine were left out when it turned out that nothing in the repository calls them;
they become worth a model when something does:

1. `PolicyStore`: versions created concurrently from one predecessor
   (`governance/policy-store.mjs:237`), and the mode in memory and table (`:374`).
2. Principals: whole rows cached from answers that may overtake each other
   (`security/principals.mjs:724` and `:773`).
3. The pause of `src/engine/orioPause.ts` with its ledger file.
4. `Governance` over `GatewayRecovery`, so that a verdict may be reloaded from an
   older row.
