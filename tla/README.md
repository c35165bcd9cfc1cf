# Enigma Memory: TLA+ models and proofs

Enigma Memory keeps a user's memories in a local encrypted vault, issues a
signed, hash-chained receipt for everything that happens to them, and lets AI
clients read them through an MCP server, a gateway, a browser extension and a
desktop application. A relay witnesses receipt logs, and a set of Solana programs
(`cortex-v3`) records capabilities, budgets, royalties and governance on chain.

The models are written from the source. `PROJECT.json` maps every definition to
the lines it stands for and lists the runs, the mutants (a plausible bug for
every property, which the run must detect), the hazards and the theorems.

## 1. The system

| Component | State it keeps | Operations | Modelled by |
|---|---|---|---|
| Vault, `packages/vault` | memory records, active set, tombstones, receipt log, sequence, cached roots | remember, recall, updateMemory, deleteMemory, exportBundle, importBundle | `VaultOps`, `Vault` |
| Core, `packages/core` | none | canonical JSON, Merkle roots and proofs, signatures, verifyReceiptChain | the chain check in `VaultOps` |
| MCP server and CLI on one bundle file, `packages/mcp-server`, `apps/cli` | the file; a vault in memory for one request | init, init with `--overwrite`, remember, search, update, delete, context pack, import, import rollback; read, truncate, write, answer | `SharedBundle` |
| Passport, `packages/passport` | none; works on the vault | compileContextPack, verifyContextPack, passports | the receipts of compileContextPack in `SharedBundle` |
| capability_registry | capabilities, sessions, owner nonces | grant and revoke a capability; create, extend and revoke a session; pause all | `CapabilityRegistry` |
| budget_escrow | budgets, token budgets, vaults | create, deposit, spend, with the owner's or a session's signature | `BudgetEscrow` |
| royalty_router | royalty receipts | log and route royalties, which spend from a budget | `RoyaltyRouter` |
| memory_registry | entries | create, update, share, delete, by the owner or a session | `MemoryRegistry` |
| cortex_token | stakes, locks, proposals, vote receipts | mint, transfer, stake, lock, propose, vote | `TokenLedger`, `CortexToken` |
| cortex_treasury | treasuries | initialize, deposit, withdraw | `TokenLedger`, `CortexTreasury` |
| Relay, `apps/relay` and the witness part of `packages/mesh` | records, witness log, pairings, challenges; a state file | push, checkpoint, pair; save and load | `WitnessChain`, `RelayService`, `PersistentServer` |
| Gateway, `apps/gateway` | policy, SIEM events; a state file | change the policy, evaluate, decide; save and load | `GatewayService`, `PersistentServer` |
| Persistent HTTP server, `apps/cli` | a chain of pending saves | load or create, serve, save, close | `PersistentServer` |
| Desktop service, `apps/desktop-tauri/src/commands/service.rs` | running, restarts, shutdown, stop channel | start, stop, watch, restart | `ServiceSupervisor` |
| Cortex node, `cortex-v3/node` | one table of memories, facts, budgets, codes and tokens; embeddings; event streams | authorize, token, stream, tool calls, ingest, auto-save | `CortexNode` |
| Connector engine, `apps/desktop-tauri/src/connector/engine.rs` | client configuration files and backups | connect, disconnect, repair, rollback | not modelled |
| Controller, settlement, metering, storage, hosted cloud, browser extension | see `PROJECT.json` | | not modelled |

How they interact. The vault is a library: its callers hold it in memory and
move it between processes as a bundle file that they read and write whole. The
MCP server (one process for each AI client) and the CLI do so on the same file
without a lock. The session-wallet programs share accounts: `budget_escrow` and
`memory_registry` load, check and change the session account that
`capability_registry` owns, and `royalty_router` calls `budget_escrow`.
`cortex_token` and `cortex_treasury` share the token program's accounts.
Relay and gateway run inside one persistent HTTP server of the CLI, which calls
their handlers and saves their state behind the answers. The desktop application
supervises the MCP server as a child process. In the Cortex node the OAuth server,
the MCP server, `/ingest` and the auto-save engine share one table whose keys the
callers of the memory tools choose, and an embedder outside answers them late, out of order or not at all.

What is hard to test, and which properties are about it:

* *Operations that throw half way.* JavaScript does not undo assignments. A
  malformed date or a receipt refused for a plaintext marker leaves part of an
  operation behind (`ReceiptChainVerifies`, `ReadsWereActive`, `NoResurrection`).
* *Two views of one log.* The vault's live sets and the sets importBundle derives
  from receipts must agree (`ActiveRebuildable`, `ImportRestores`).
* *Processes on one file.* Read, truncate, write and answer of several processes
  interleave, and a process may be killed between any two
  (`LoadableVerifies`, `ImportsWhole`, `DamagedNeedsOverwrite`, `AnsweredDeletesHold`,
  `AnsweredMemoriesServed`, `Recovers`).
* *Sequences of instructions.* Sessions are created, paused, revoked and created
  again; every instruction checks only what is stored then
  (`OnlyAuthorisedAct`, `DelegationBounded`, `VotesBackedByStake`).
* *Answered before saved.* The relay and the gateway answer first and save later,
  saves fail, and processes are killed in between (`SavedOrPending`,
  `DurableLogGrows`, `EvidenceKept`, `TornNotReset`, `ChallengesSpentOnce`,
  `EventuallySaved`, `WitnessNeverForks`, `SavedNeverForked`).
* *Threads that restart things.* A stop, a start and a watcher's restart interleave
  on a handful of atomics (`StopHolds`, `OneKept`, `ChildrenWatched`).
* *Authority looked at once.* A token is checked when a stream opens and used by
  calls that run later; codes are spent before they are checked,
  and a memory may be written over a code or under the key of a token
  (`ActsWithinConsent`, `CodeSpentOnce`).
* *Late answers.* Embedder calls of one memory overlap each other and deletes
  (`IndexExact`).
* *Two writers of one row.* The auto-save engine keeps its policy although callers
  write over its facts (`SensitiveNeedsConsent`).
* *Accounts changed in a copy.* A program that changes an account it does not own
  changes nothing (`DailyLimitsHold`).

## 2. Modules

```
VaultOps --- Vault --- MCVault                 CapabilityRegistry
   |           |                                 |          |
   |       VaultProofs                     BudgetEscrow   MemoryRegistry
   |           |                                 |          |
   |       VaultOpsProofs                  RoyaltyRouter    |
   |           |                                  \        /
 SharedBundle -+- SharedBundleProofs               Cortex --- MCCortex, CortexProofs
   |
 MCSharedBundle                            TokenLedger
                                             /      \
                                      CortexToken  CortexTreasury
                                             \      /
                                         CortexGovernance --- MCGovernance, GovernanceProofs

 WitnessChain --- WitnessLog (abstract)
   |                 :  implemented by
 RelayService   GatewayService             ServiceSupervisor --- MCServiceSupervisor
       \           /                             |
      PersistentServer --- MCServices       ServiceSupervisorProofs
             |
      PersistentServerProofs               CortexNode --- MCCortexNode, CortexNodeProofs
```

**VaultOps** has the vault's operations as functions from vault states to vault
states, so that both compositions use the same ones. An address is the pair of
memory id and content, because the HMAC is taken to be collision free; a receipt's
hash is a fresh number, because every event contains a random id; a Merkle root of
a set is the set. Ciphertext, metadata, signatures and timestamps are left out: no
guard reads them. An operation that throws after its first assignment is a second
operator with the assignments made by then.

**Vault** is one vault and the last bundle exported from it. Each action is one
public method. A bundle is its serialised form, the canonical text that `exportBundle`
makes before it returns; every caller under `apps` and `packages` writes it to a file at
once; a bundle object that is kept in memory and imported as it is would share its
arrays with the vault (section 6) and is not modelled. `throws` counts the operations that threw half way, since two
properties hold until the first one only.

**SharedBundle** is the bundle file and the processes on it. A request is four
visible steps: read and operate, truncate (`writeFile` opens with flag `w`), write,
answer. What runs between two awaits is one step. `Write` over a file another
process has written since the truncation leaves either image or a file that does
not parse. The loops of a context pack, of an import and of the rollback of an
import are one step per memory on the private copy; `pc` tells them apart.
`Quickstart` is the command line's init, setup and quickstart: when there is no file,
or when it was told to overwrite, it writes a new vault with one memory and a context
pack of it over whatever is there, damaged or not. The desktop's `create_memory_drive` always tells it to.
`batches` holds the imports that were begun and stands for their reports: a
rollback takes one of them, and finds something to delete only when that import
reached the file. `Crash` kills a process anywhere. `stored`, `deleted` and
`doomed` record what was answered or set out to be removed; they are history
variables that no guard reads, and an overwriting init begins the first two anew.

**CapabilityRegistry**, **BudgetEscrow**, **RoyaltyRouter**, **MemoryRegistry** each
hold one program's accounts as functions from addresses, with one action for each
instruction. An instruction is atomic on this platform: every failed check undoes
it, so checks are guards. A call into another program is part of the action.
`touch_session` and `record_spend` check and compute like the source, and their
result is dropped when the program that runs them does not own the session.
**Cortex** composes the four with a clock. `authorised`, `uses` and `funded` are
history variables.

**TokenLedger** models the SPL token program as the two programs call it (external
code). **CortexToken** and **CortexTreasury** have one action for each instruction,
and **CortexGovernance** composes them.

**WitnessChain** is the hash-linked chain of witness checkpoints and the relay's
validation of it. **RelayService** and **GatewayService** hold the two services'
states and what one request does to them, as functions. **PersistentServer** is the
server around either of them: a request changes memory, answers and puts a save on
the chain in one step, because no await lies in between; each save takes its
snapshot when its turn comes. The relay writes a temporary file and renames it, two
steps; the gateway truncates and writes its file in one call, which may fail, or be
cut off by a kill, with the file torn. A relay may start from the state file of the demonstration, which
accepts requests without authentication (`createDemoRelayState`,
`allowUnauthenticated`). `answered` and `spent` are history variables. **WitnessLog** is what the relay's file promises: a log to which linked
checkpoints with growing epochs are appended and from which nothing is removed.

**ServiceSupervisor** is the supervisor of the sidecar. Each call of `start` begins
a chain of child, watcher, restart, next child, and so on, that is at one place at a
time; `at` is that place. Loads and stores of the shared atomics are separate steps
wherever another thread can come between them; `spawn` and the store of `running`
are one step because a thread that sees the state in between sees what it could see
before. A sender that is replaced is dropped, which its receiver takes for a stop.
Calls of `stop` overlap each other and calls of `start`; `stopped` is a history
variable of each.

**CortexNode** is the OAuth server, the MCP server and the store. Everything the
node keeps is a row of one table, `records`; memories, facts, the budget, codes and
tokens differ in their keys only. The memory tools and `/ingest` take any key from
`ChosenKeys`, also one of those, so a memory can replace the budget, a code or a
token, and `delete_memory` can delete any row. `verifyToken` is the source's function:
without an introspection URL it grants everything, with one it grants the scopes of
the row. Handlers are steps from await to await; the two awaits that matter are the
body of a posted message, between the lookup of its stream and its calls, and the
embedder. What `extractFacts`, `classifyCategory`, `runImmunology` and `scoreSalience`
find in a turn is given by the constants `Facts`, `category`, `flagged` and `salient`;
what the engine does with it is modelled, the quarantine included. `consents`,
`issued`, `performed` and `overtaken` are history variables, and a memory's row says
who saved it.

## 3. Runs

| Run | Instance | What it checks |
|---|---|---|
| `vault_lifecycle` | 2 memories, 2 contents, 5 receipts, 1 throw | the receipt chain, finality of deletion, verifiable reads, the active set as a function of the receipts, and which exports can be imported |
| `vault_export_import` | 1 memory, 2 contents, 4 receipts | `ExportsImport`, violated: see section 6 |
| `shared_races` | 2 processes, 2 memories, 2 contents, packs and imports of 2, 5 receipts, 1 kill | a file that parses verifies and has each import whole or not at all; only an init that was told to overwrite replaces a damaged file |
| `shared_single` | 1 process, imports of 2, 7 receipts, 1 kill, fair | answered deletes and memories last until an init replaces the bundle, a truncated file comes back |
| `shared_deletes` | 2 processes, 1 memory | `AnsweredDeletesHold`, violated with two processes |
| `cortex_programs` | 2 owners, 1 key, 1 mint, every instruction, u64 up to 2, ledgers of 4 accounts | budgets balance, token budgets are backed, sessions act only while authorised, on their own owner's accounts and within bounds |
| `cortex_daily_limits` | 1 owner, 1 key, spends only | `DailyLimitsHold`, violated: the counters are never stored |
| `governance` | 2 wallets, 1 mint, 2 stakes each, u64 up to 1, i64 up to 2 | votes counted once and backed by stakes, bindings final |
| `services_durable` | a relay with 1 key, 1 record id and 2 payloads or a gateway with 2 policies, kills, failed saves, fair | what is on disk implements `WitnessLog`; evidence on disk is never taken back; a torn file is not replaced; no answer forks a checkpoint on disk; challenges are spent once; every answered change is saved or waits to be, and eventually is |
| `witness_forks` | the relay alone | `WitnessNeverForks`, violated: a kill between answer and save |
| `supervisor_stop` | 2 calls of start and 2 of stop that overlap, 2 restarts | `StopHolds`, violated: the watcher restarts after the stop |
| `cortex_node` | 2 clients, with and without introspection, 5 caller-chosen keys (a memory, a fact, the budget, a code, a token), overlapping embedder calls, facts that are free, blocked, quarantined, unknown, flagged and not salient | one token for a code, introspected calls within the consent given, an exact index where writes do not overlap, no fact saved by the engine against its policy |

Bounds. `MaxReceipts`, `MaxThrows`, `MaxCrashes`, `PackLimit`, `BatchLimit`, `MaxTime`,
`MaxNonce`, `MaxUses`, `MaxId`, `MaxEpoch`, `MaxPending`, `MaxEvents`, `MaxKills`,
`MaxIds`, `MaxOpen` and `MaxEmbedding` cap what would otherwise grow; each is a guard of the
action that grows it. `Starts` and `Stops` are the calls a behaviour may make, `ChosenKeys` the keys
that callers may name. `MaxAccounts` is different: a state constraint (`SmallLedger`)
that does not extend a ledger of the session-wallet programs with more accounts than
that. Four are enough for a session of one owner beside budgets, entries or sessions
of the other, which is what it takes to act on a wrong account. Two contents are the least for an update that changes an
address and one that returns to it; two memories let operations on one disturb
the other. Seven receipts let an import of two lose one memory and be rolled back
after that. Five receipts allow create, update, delete, export and import in one
behaviour. A kill or a throw anywhere once reaches each of them at each step;
what happens after a second one does not depend on the first having happened
except through the file or the vault. `U64Max` and `I64Max` are as small as the runs allow so
that the largest values are reached and the overflow guards fire. `CortexProofs`
covers any number of owners, keys and accounts.

Symmetry is used only where no property is a liveness property and where the
permuted values appear in no other constant.

Deadlock is not checked where the bounds stop the model (`CHECK_DEADLOCK FALSE`):
a vault with all its receipts issued, or a file nobody may touch any more, may
stop. The session-wallet programs never stop because a clock at its bound still
leaves instructions that succeed.

Fairness. `FairSpec` of `SharedBundle` assumes weak fairness of
`Continue(p)`, what a process does by itself after it has taken a request. The
event loop runs every resolved await, and the file operations complete or fail
(failing is `Crash`). `Spec` of `PersistentServer` assumes weak fairness of
`Save`: a promise chain runs each save when the one before it has settled, and a
file operation settles. Failing is a step of its own, and a process that is killed
or closed is no longer asked to save. No request, kill or instruction is ever assumed to happen.

## 4. Proofs

TLAPS checks every theorem for all values of the constants, under the named
assumptions of the modules only: bounds are naturals, amounts lie between 0 and
`U64Max` and durations between `-I64Max - 1` and `I64Max`, `DAY` is positive, scopes and limits have their types, owners and
session keys are different, wallets and mints are finitely many, the services are
a relay or a gateway, the default policy is a policy, a budget's key is not that of a
code or a token (they start with `budget:` and `oauth:`); nothing is assumed of the
keys that callers choose
(`VaultBoundsAssumption`, `SharedBoundsAssumption`, `RegistryAssumption`,
`EscrowAssumption`, `LedgerAssumption`, `KeysAssumption`, `TokenAssumption`,
`ServicesAssumption`, `PayloadAssumption`, `PolicyAssumption`, `NodeAssumption`).
TLC evaluates each of them on the instances it checks.

Two results need induction over data: the rebuilding of a vault from a log of any
length, and sums over any finite set of accounts. The induction theorems of the
library take a predicate as a parameter, which the provers cannot instantiate. The
proofs put a set in its place: `NatInductionSet` (a set that has 0 and, with every
number, the next one, has every number) and `FiniteInduction` (the same with the
subsets of a finite set, one element at a time) follow from the library's fact that
a well-founded order has a minimal counterexample; the predicate is then the set of
the numbers, or of the subsets, for which the claim holds.

*Vault* (`VaultOpsProofs`, `VaultProofs`). `TypeOK` is inductive.
`ReceiptChainVerifies` is not: a receipt is chained by the sequence number and the
log in memory, and importing needs the same of the bundle, so `ChainInv` adds the
bundle's sequence. `SoundInv` says of the live log and the exported one that
every delete receipt's address has a tombstone in the sets that travel with it and
every read receipt's address is in its root; an import preserves it because a
bundle is accepted only when its tombstones are those its receipts derive.
`NeverResurrects` is the action property and follows action by action.
`ReplayInv` carries `ActiveRebuildable` through exports, for behaviours without a
throw. `ImportsRestore` needs what `importBundle` computes: it folds a step over the
whole log. `DerivedAppend` says that a log with one more receipt derives one more
step, by the recursive function's own equations (`DerivedExists`); `RebuildInv`
says that the live vault, and the one a bundle holds, is what its log derives, and
every operation appends exactly the receipts whose steps are its assignments
(`RememberAgrees`, `UpdateAgrees`, `DeleteAgrees`).

*Shared bundle* (`SharedBundleProofs`). `SharedChainInv` extends the chain to every
copy in a process's memory. With one process (`ASSUME Single`) `SingleInv` relates
the three places a delete can be: in the request, in the copy, in the file; from it
follows `SingleDeletesHold`; what a rollback removes has its
tombstone, or is still active and still to come (`Removed`). `SingleMemoriesServed`
is about what must not disappear: `ServedInv` follows an answered memory through the
copy and the file, and says that only a memory some request set out to remove
(`doomed`) ever has a tombstone there, killed requests included. The run
`shared_deletes` shows why that assumption is needed. `DamageNeedsOverwrite` is for
any number of processes: a damaged file that nobody is about to write stays as it is
until an init that was told to overwrite opens it, because every other request
begins by loading the file. `ImportsAreWhole` needs no such assumption either: `ImportInv` says that ids are drawn once, so imports are disjoint
and nobody else creates one of their memories, and that a copy with a part of an
import belongs to the request that is writing it and has the rest to come.

*Session wallets* (`CortexProofs`). `IInv` is the type invariant with, for each
program, what its accounts owe each other: balance and spent add up to what was put
in, the vault backs the balance, every live session with the owner's nonce is
authorised, no stored bump is the canonical one. The last part gives
`FourNeverSucceed`. The three `Steps` lemmas say what a step may do to one program's
accounts, so each invariant is proved against one program. `SessionsStayWithin`
combines them for delegated instructions.

*Relay and gateway* (`PersistentServerProofs`). `ServerInv` is inductive: types, what
each place of a process's life allows (`Lifecycle`), that the newest of memory, the
save under way and the file continue each other (`LastSaveCurrent`, `TrailsGrow`),
that all of them are chained (`Chained`) and that no copy holds a spent challenge
(`ChallengesFresh`). Neither the refinement nor `EvidenceKept` is provable without
the ordering of the three copies: a rename is a step of the abstract log only
because its snapshot continues the file. `RelayImplementsWitnessLog` states
`Spec => Durable!Spec`: initial states map to the empty log, a rename or a gateway
save to an append or a stutter, everything else to a stutter. The proof holds for
any number of requests, kills, failed saves and restarts.
`SavedCheckpointsNeverForked` bounds what the violated `WitnessNeverForks` leaves:
only a checkpoint that was answered and never saved can be forked. It needs
`HashesFresh`: the hashes in every copy of the log grow along it and are below the
next one to be drawn, so no earlier entry has the predecessor that an appended
checkpoint names.

*Supervisor* (`ServiceSupervisorProofs`). The invariant relates each chain's place to
its child, its signal and the stored sender. It gives `OneKept` (overlapping starts
may spawn several sidecars, but all except one have been told to end and the next
stop reaches that one) and `ChildrenWatched`, for any number of starts and stops.

*Cortex node* (`CortexNodeProofs`). `NodeInv` has, besides the types: a code that
is in the table has led to no token (`CodesUnspent`); every
right held by a code's or a token's row goes back to one consent of its client, and
so does, where tokens are introspected, that of a stream or a waiting call
(`RightsGiven`); a key outside
`overtaken` has at most one open embedder call, for its present text
(`IndexCurrent`); and `SensitiveNeedsConsent`, which is inductive. Three lemmas say
what any step may do to one row (`RowSteps`), to streams and calls (`AccessSteps`) and
to the index (`IndexSteps`), so that each part of the invariant is proved against
three kinds of steps and not against every handler. A memory written over a row never
has the type of a code or a token, which is why caller-chosen keys widen nothing.

*Governance* (`GovernanceProofs`). Type correctness, which includes that no checked
sum leaves u64, the finality of votes and treasuries, and three theorems about sums
over any number of accounts. `GovernanceInv` has, besides the types, the stakes, which the stake vault covers and
whose amounts add up over the mints (`StakeInv`); and the votes, whose weights are
the tallies and each of which is the amount of a stake of its voter (`VoteInv`). The
proof rests on what a sum over a finite set does when one term changes
(`SumChange`), when a term is added or one of 0 is overwritten (`SumPut`), and when
its terms are matched with larger ones of another sum (`SumAtMost`). A transfer from
an account to itself and a receipt of weight 0 that is voted again are covered.

Only model-checked. `Recovers` and `EventuallySaved` are liveness under fairness,
which the prover does not cover, nor `ENABLED`. Every invariant and every action
property that a passing run checks is also a theorem. The properties that a run
shows violated have no theorem, of course: `ImportsRestore`,
`SingleDeletesHold`, `SavedCheckpointsNeverForked` and `SupervisorKeepsOne` say
what holds nevertheless.

## 5. What is not modelled

The browser extension with its native host, the controller, passport verification,
settlement and metering, storage, the hosted cloud, the connector engine and the
desktop's user interface keep little state that more than one actor changes;
the importers but for their loop over the vault, adapters, the optimizer and the
verifiers are pure. Release, operations
and test scripts, about half of the JavaScript, run once and read or write files
and remote services. In the Cortex node, encryption at rest, the choice of a store
for an owner, on-chain sessions, `prove_capability` and the classification of text
are left out. The demonstrations of the command line write further packs and a first
export after the vault they create, which `Quickstart` has as one memory and its pack.
A bundle object imported without being serialised is left out.

Cryptography is ideal. The text functions (redaction, adapters, importers,
optimizer) are pure and produce data the control does not read. User interfaces,
website, scripts and examples have no state of their own that matters here. The
JSON-RPC envelope, argument validation and the reporting tools of the MCP server
are left out. `PROJECT.json` names each part with its reason.

## 6. Disagreements between the code and what it says

Checked by a run that is expected to fail:

* `updateMemory` checks only the old address. Updating a memory to its current or
  an earlier content makes an address both active and tombstoned; `exportBundle`
  then writes a bundle that `importBundle` refuses (`vault_export_import`).
* The daily limits of a session are counted in a copy of the session account and
  never stored (`cortex_daily_limits`).
* Two processes on one bundle: an answered delete is undone by a request that had
  read the file before (`shared_deletes`).
* The relay answers a checkpoint before it is saved; killed in between and started
  again, it signs another one with the same predecessor (`witness_forks`).
* A stop of the desktop service during a restart returns with the service down, and
  the watcher starts the sidecar afterwards (`supervisor_stop`).

Met while modelling, and visible in the models without a run of their own:

* The same `updateMemory` leaves the address in the active set and tombstoned, so
  it is never served again although it is the newest version.
* A receipt refused for a plaintext marker is refused after the state has changed,
  so a state change exists without an event (`Thrown` in `Vault`).
* A session created after `pause_all_sessions` lies at an address derived from the
  new nonce and stores nonce 0, so no instruction accepts it.
* `revoke`, `update_memory`, `set_shareable` and `delete_memory` derive an address
  with a bump that was never stored and never succeed (`FourNeverSucceed`).
* The gateway truncates its state file in place. A torn file makes every later start
  fail, which keeps the evidence from being replaced and loses the signing key.
* Pending pairing challenges are not saved: a client that paired half way has to
  begin again after a restart.
* A checkpoint request that is repeated without `previous_witness_hash` is accepted
  again, as another checkpoint.
* A failed save closes the server, and saves already on the chain still run.
* `pushRelayRecord` takes an id that is not a string, which the loader refuses; the
  model has string ids.
* Overlapping calls of `start` spawn two sidecars, the first of which is ended at
  once, and the limit on restarts can be passed by the number of watchers.
* A wrong verifier, client or redirect spends an OAuth code.
* An embedder's late answer brings back the embedding of a deleted memory or that of
  an older text, and `store_memory` leaves the embedding of the text before
  (`overtaken` in `CortexNode`).
* A token is checked when its stream opens; an expired one keeps its stream.
* The OAuth server's introspection names no user, so all holders share one store,
  and `spend_budget` takes any `user_id`, each with an initial budget of its own.
* `importCommand` saves the bundle before it writes the report that a rollback
  needs; killed in between, the import stays and no report names it.
* Two `enigma_init` requests may both find no file, and the second overwrites the
  first one's bundle (`packages/mcp-server/src/index.js:1397`).
* `--overwrite` replaces a bundle, readable or damaged, without a backup, and the
  desktop's `create_memory_drive` always passes it (`service.rs:838-842`).
* `exportBundle` copies the sequence and hands out the vault's own arrays of receipts
  and events (`packages/vault/src/index.js:1193`, `1199-1200`). A bundle object that is
  imported again after further operations has more receipts than its sequence says;
  the next receipt repeats a number and the chain no longer verifies.
* Without `CORTEX_OAUTH_INTROSPECT_URL`, the default, the Cortex node's MCP server
  accepts any token with every scope, and says so in its log; `ActsWithinConsent` is
  therefore a property of the node that introspects.
* A memory stored under the key of the budget replaces it: the next spend of any
  amount succeeds and leaves a balance that is not a number, which refuses every later
  one (`SpendFromMemory`); deleting the row gives the initial budget again.
* A memory stored under the key of a token is introspected as an active token, with
  no scope.
* `create_budget` on an existing budget sets `spent` to 0, so what it counts is what
  was spent since.

## 7. Plan

Done: the vault, the shared file, the session wallets, governance, relay and
gateway with their abstract log, the supervisor, the Cortex node; the theorems of
section 4.

Still worth modelling, in this order:

1. Passport and controller: packs verified against the vault at another time,
   grants that expire or are revoked in between.
2. Connector engine: configuration edits with backups, failures between copy and
   rename, rollback.
3. Browser extension and native host: a panel that is drawn while a request is in
   progress keeps its buttons disabled.
4. Merkle roots and inclusion proofs as functions checked against a reference.
5. Settlement and metering, hosted tenants, as far as they keep state.

Proofs to follow: what the daily limits would guarantee if the counters were
stored, and what the supervisor's `stop` guarantees between two restarts.
