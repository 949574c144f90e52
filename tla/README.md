# Proofrail in TLA+

Proofrail is an evidence firewall: an agent proposes an action (a staging
deployment, a payment), independent origins give signed evidence about it, a
policy turns the evidence into `ALLOW`, `REVIEW_REQUIRED` or `DENY`, the decision
is anchored in a Midnight contract, and an `ALLOW` carries a one-time permit that
`POST /api/execute` exchanges for one dispatch of a GitHub workflow. This
directory holds TLA+ models of that program, their model-checking
configurations and proofs about them.

* [Inventory](#inventory) - the parts of the system, their state and hazards
* [Plan](#plan) - the modules in the order of their importance
* [The models](#the-models) - how modules correspond to the code
* [Runs](#runs) - what each run checks, its bounds and its fairness
* [Proofs](#proofs) - what is proved, from what, and how
* [Findings](#findings)
* [Not modelled](#not-modelled)

To check a run: `tlc -workers 2 -config gate_safety.cfg MCExecutionGate`; to check
proofs: `tlapm ExecutionGateProofs.tla`.

## Inventory

| Part | State | Operations | Interacts with |
|---|---|---|---|
| **Execution gate** (`backend/src/routes.ts:1182`, `executionDispatch` 266) | `database.executions`, one record per reservation | `POST /api/execute` | store (three updates), executor, network status, permits of decisions |
| **Staging executor** (`backend/src/executor.ts`) | none; a 10 s abort timer per call | `assertAllowed`, `dispatch` | GitHub |
| **State store** (`backend/src/store.ts`, `postgres-store.ts`) | one document (JSON file, or a row with a revision) and a file of signing secrets | `init` with migrations, `read`, `update`, `reset` | every route |
| **Evaluation** (`routes.ts:465 evaluateAndPersist`) | `decisions`, `anchors`, `audit` | evaluate, simulation run | policy engine, anchor adapter, store |
| **Approval** (`routes.ts:904`) | `approvals`, decisions that an approval completes | `POST /api/approvals` | evaluation, service identities |
| **Evidence intake** (`routes.ts:796-887`, `origins.ts`) | `evidence`, `evidenceSecrets`, encrypted raw files | self-declared, document, collect, expire | store, origins' keys |
| **GitHub evidence** (`github.ts`, `routes.ts:589-755`) | `githubDeliveries`, `githubObservations` | webhook, verify-ci | GitHub API, evidence |
| **Policy engine** (`packages/core/src/policy.ts`, `evidence.ts`, `merkle.ts`) | none (pure) | `evaluateEvidencePolicy`, evidence root | evaluation |
| **Anchor adapter** (`backend/src/midnight-adapter.ts`) | none; the active network and its contract are those of the state file when the CLI starts | `anchor` (local or CLI), network status and switch | Midnight CLI, state file |
| **Compact contract** (`midnight/contract/hello-world.compact`) | registrar commitment, revoked flag, epoch, anchors, used actions | `registerDecision`, `rotateRegistrar`, `revokeRegistrar` | CLI |
| **Midnight CLI** (`midnight/overrides/cli.ts`, `network.ts`) | `.midnight-state.json`: active network, wallets, deployments, registrar secrets | anchor, rotate, revoke, security-check, read, network | contract, environment |
| **Service authentication** (`service-auth.ts`, `access-control.ts`, `service-auth-init.ts`) | the configuration loaded at the start; two files of credentials | generate, load, one check per request | every route, worker |
| **Deployment** (`midnight/overrides/deploy.ts`, `setup.ts`) | deployments and registrar secrets in `.midnight-state.json` | deploy a contract and record its address | contract, CLI |
| **Worker** (`worker/src/index.ts`) | the service tokens it loaded | MCP tools, HTTP proxy | API |
| **Web application** (`frontend/`) | none that lasts | display | API |

Where the behaviour is hard:

* *Execution gate.* Five awaits in one handler; concurrent calls for the same key,
  permit or action nonce; retries at any moment; a dispatch whose answer is lost or
  late; a crash between the reservation and the verdict; a reset under a running
  handler. It is correct when a permit (and an action nonce) fires at most once,
  an answer says what was stored, and a reservation is settled.
* *Contract.* Rotations and revocations between registrations, boundaries of
  validity and evidence count. Correct when an action is allowed at most once, by
  the registrar of the moment, and nothing is ever rewritten.
* *Registrar custody.* A rotation changes the chain and then a file; commands are
  processes that race, die, and hold secrets they read minutes ago. Correct when
  the secret of the registrar is never lost and an old one never works. A deployment
  may take long, ends at a timeout of its own and is started again: correct when every
  contract it recorded has a secret that was stored before.
* *State store.* `update` serialises in one process (JSON) or by a revision
  (PostgreSQL); `reset` does neither. Correct when an acknowledged update is applied
  exactly once and keys match the database.
* *Evaluation and approval.* Decisions are made on a snapshot, an anchor is awaited
  for minutes, the result is stored into another database. Correct when a stored
  decision is anchored, belongs to the evidence it names and a permit is issued once.
* *Credentials.* Who may do what is written in four source files; the credentials are
  in two that operators edit and two processes read at different times. Correct when no token combines two duties and
  what is generated together works together.
* *Policy.* Boundaries of freshness, duplicates, contradictions. Correct when it
  agrees with a declarative definition of sufficient evidence.
* *GitHub evidence.* Deliveries repeated, reordered and forgotten. Correct when a
  stored receipt stands for a state GitHub was in for that very action.

`PROJECT.json` lists each hazard at its line with the properties about it.

## Plan

In this order, the most important behaviour first:

| | Modules | Status |
|---|---|---|
| 1 | `OneTimePermit` (abstract), `ExecutionGate` refining it, their proofs | done |
| 2 | `DecisionContract` with proofs; `MidnightRegistrar`, which composes it with the CLI, the deployment and the state file | done, with proofs |
| 3 | `SerialStore` (abstract: what handlers assume of `store.update`) and `StateStore`, whose engine is the JSON file or PostgreSQL. It discharges what `ExecutionGate` and `EvaluationFlow` assume of updates | done, refinement proved for both engines |
| 4 | `EvaluationFlow`: evaluation, anchoring and approval around resets, composed with `DecisionContract` | done, with proofs |
| 5 | `PolicyEngine`: `evaluateEvidencePolicy` and the Merkle root; `EvidenceIntake`, which extends it: origins, declarations, approvals, simulations, erasure and the GitHub App | done, with proofs |
| 6 | `ServiceAccess`: credentials, the route matrix and the worker | done, with proofs |

## The models

### ExecutionGate and OneTimePermit

A *call* is one `POST /api/execute`. `phase[c]` is the await its handler is
suspended at; each action is the code between two awaits:

| `phase` | Code | Actions leaving it |
|---|---|---|
| `idle` | before `routes.ts:1182` | `Receive` |
| `admitted` | awaits the reservation update (1190) | `ReplayRecord`, `RejectKey`, `RejectPermit`, `RejectConsumed`, `Reserve` |
| `reserved` | awaits the start update (1261) | `Start` |
| `started` | about to call the executor (1272) | `Dispatch` |
| `dispatching` | awaits GitHub | `DispatchReturns`, `DispatchThrows` |
| `dispatched` | awaits the success update (1273) | `RecordSuccess` |
| `failing` | awaits the failure update (1300) | `RecordFailure` |

`UpdateThrows` covers every update that rejects: the store fails, or a reset removed
the record the mutator dereferences. `acked` in the update actions says whether the
caller learns that its update committed (`AckMayBeLost`: a PostgreSQL COMMIT whose
reply is lost). `wire[c]` is the dispatch request on its way: GitHub decides on it
at any time after it was sent, also when the handler no longer waits.

Abstractions: a record is indexed by the call that inserted it, so ids need no
model; the database a reset replaces is a generation number; the long list of
checks in `executionDispatch` is the outcome `Refuses` / `Dispatchable` over what
can change under a handler (permit known, policy version, expiry, active network)
and the fixed set `Deployable` (action, CI provenance and executor configuration).
A reset falls between updates; with the JSON store it may also fall into one, which
is what `StateStore` is about. Keys and permits of the requests are chosen
by `Init` and fixed, so one run covers every assignment.

`OneTimePermit` is what the gate promises: a permit is claimed once, permits with one
nonce exclude each other, it fires at most once and only under a claim, a verdict is
given once, and success is never claimed of what did not happen. `ExecutionGate`
implements it under the mapping at the end of the module (claims are the records of
the current database, orphans those of erased ones, firings the accepted requests).

### DecisionContract

One action per circuit, applied atomically; the caller's witness secret is a
parameter. Block time advances by `NextBlock`. The asserts of `registerDecision`
are `Admissible` and, for `ALLOW`, `AllowBacked`; ids come from a counter read after
its increment (`NewId`). The hash is an injective function `CommitmentOf`.

### MidnightRegistrar

Extends `DecisionContract`: commands are operating-system processes that run a
`Script` of circuit calls and file updates.

| Action | Code |
|---|---|
| `Begin`, `BeginWithNewSecret` | `getOrCreateRegistrarSecret` (`network.ts:268`): the environment first, then the file, then a random secret that is saved at once; without a deployment a CLI command ends here |
| `Register`, `Rotate`, `Revoke` | the circuit calls of `cli.ts:228`, 254 and 269, with the secret that was read at the start |
| `PrepareWallet`, `RegisterDust`, `DeployContract` | `deploy.ts:242`, 179 and 399; each may fail and end the script |
| `LoadState`, `SaveState`, `SaveDeployment` | `recordRegistrarRotation`, `setActiveNetwork`, `recordDeployment`: the file is replaced by a changed copy |
| `RecordRefused` | an environment-managed secret (`network.ts:308`) |
| `Die` | the backend's 600 s timeout, an operator, a power failure |

A rotation draws the next of `RandomSecrets`, changes the chain, keeps the secret in
memory (`drawn`), then loads and saves the file in two steps. `Situations` says what
the commands do, whether `Home` is set up already, and which faults there are: a
secret in the environment (`env`), a transaction that is applied while its call
rejects (`lostAck`), a killed command (`kill`), another process between load and save
(`race`). The situation is chosen by `Init`, so one run covers all of them. `Away`
is the second network, whose contract is not modelled but whose commands write the
same file.

Abstractions: `security-check` is modelled as its successful calls, those it expects
to be rejected change nothing. A contract whose address was never recorded cannot be
called, so `DeployContract` leaves the ledger alone and `SaveDeployment` makes the new one
the ledger; retries within `deploy.ts` keep nothing. An operator deploys when no other
command runs (`Alone`): nothing enforces that, and with a rotation during a deployment
`RegistrarKnown` is false (a hazard in `PROJECT.json`).

### EvaluationFlow

Extends `DecisionContract` with the backend in front of it, `MIDNIGHT_MODE=cli`. An
*evaluation* is one `POST /api/evaluate`; `evaluating[e]` is the await
`evaluateAndPersist` is suspended at:

| `evaluating` | Code | Actions leaving it |
|---|---|---|
| `idle` | before `routes.ts:465` | `Evaluate` (read, verify, decide, start the CLI) |
| `anchoring` | awaits the CLI (`midnight-adapter.ts:97`) | `AnchorReturns`, `AnchorThrows` |
| `anchored` | awaits the signing key (537) | `SignPermit` |
| `ready` | awaits the update (542) | `Persist` |

`transaction[e]` is the transaction the CLI sends. It is independent of the wait: it
may be applied (`Anchored`, `AnchoredElsewhere`) after `AnchorThrows`, the timeout, or never; one
an assert rejects stays `sent` and ends with `AnchorThrows`.

`active` is the contract of the active network, which `SelectContract` changes at any time:
`POST /api/network/select` (`routes.ts:784`), or a deployment that replaces the address a network
has (`deploy.ts:477`). `Evaluate` starts the CLI, which finds its contract once (`contract[e]`).
The ledger of `DecisionContract` is that of one contract, `Watched`. Any of the contracts may be the
watched one, so what is said of it is said of each; a transaction for another contract may be applied at
any time and any number of times for one action, which is more than that contract allows. An
approval is checked on a snapshot (`CheckApproval`) and recorded, returned again or
refused in an update that looks the decision up again.

Abstractions: the receipts of an action are the set of facts they amount to for the
policy (`required`, `contradiction`, `approval`), which come (`Collect`,
`RecordApproval`) and lapse (`GoStale`); an anchor carries the counts the policy gives,
one source per fact. A reset begins a new generation, whose keys differ: `Usable`
says which stored permits `executionDispatch` would accept by its signature check.
Signatures, the identity and the key of an approver are taken as valid; the
requests differ in which decision they approve and whether they are the same
signed approval (`content`).

`OnePermitPerAction` is a property of each contract and rests on it alone: nothing in the backend
prevents two `ALLOW` evaluations of one action, and the commitment of an action names no network
(`packages/shared/src/index.ts:97-106`). After a switch or a new deployment the other contract allows the
action again, and a second permit is stored. Two such permits are never usable together, because
`executionDispatch` refuses a permit whose contract is not the active one
(`routes.ts:345-361`), and within one database they share an action nonce, so that
`OneEffectPerNonce` of the gate keeps the second from a dispatch. After a switch and a reset of the database
nothing does: one action may then be dispatched twice. With `MIDNIGHT_MODE=local` there is no
contract at all, which is why `ExecutionGate` has two permits for one nonce. The price of the
contract's rule is that an `ALLOW` whose transaction lands after the timeout leaves its action
without a permit in that contract for good.

### StateStore and SerialStore

`SerialStore` is what the handlers are written for: an update is applied to what its
predecessors left, at most once, before it is answered; one that is answered by an
error was applied at once or never will be; a reset replaces the database.
`StateStore` has both engines, chosen by `Init`. `pc[w]` is the await a call (or `init`, the
writer `Boot`) is suspended at:

| `pc` | Code | Actions leaving it |
|---|---|---|
| `queued` | waits for the promise queue (`store.ts:333`) | `ReadStore`, `ReadFails` |
| `open`, `write`, `rename` | `writeFile` of the temporary file, then `rename` (317) | `OpenTemp`, `WriteTemp`, `RenameTemp`, `RenameFails`, `Throws` |
| `commit` | `updateMany` under the revision it read (`postgres-store.ts:122`) | `Commit`, `Retry`, `Exhausted`, `Throws` |
| `retry` | next attempt | `BeginTransaction` |
| `upsert` | the write of a reset | `Upsert`, `Throws` |
| `create` | the row is missing (58) | `CreateRow` |
| `applied` | the write is done, its answer is not | `Return`, for PostgreSQL `Throws` (a lost reply) |

A file is an inode: two writers of the one temporary name share it or rename it away
from each other, which is how a reset beside an update breaks `store.json`. `secrets` is
the second file. A database is its schema, the generation of its identities
and the updates applied to it. `environment` is `PROOFRAIL_SIGNING_SECRETS_JSON`: `readSigningSecrets`
(`store.ts:360`) prefers it to the file (`Readable`), while seeds and resets write the file all the
same. `limited` is the public API mode, in which a start that finds a row asks for no keys.
A first start finds one of the `Situations`: a `store.json` of any schema, torn or missing, or
a row without any local file, each with or without the keys. `BootSeeds`, `BootResumes`, `BootMigrates`, `BootFails` and
`BootFindsRow` are the branches of the two `init`s; the three migrations differ in whether they
write the keys first. `Crash` ends the process at any of these awaits, and the next
start finds what was on disk.

`KeysFollowDatabase` is about keys in the file. With keys in the environment it would be false after
any reset or seed: the database then has identities whose keys are in a file that is not read,
and what the server signs verifies with none of them until the variable is changed.
`RestartSucceeds` leaves out a variable with an invalid value: without `store.json` the JSON engine
writes a seed without reading keys, starts, and never starts again. Both are in the model and
are hazards in `PROJECT.json`.

`overlap` says whether callers reset `store.json` beside other calls. Apart from that
the run shows that both engines implement `SerialStore`; with it nothing is promised, and
`store_reset_races` shows why.

### PolicyEngine and EvidenceIntake

`PolicyEngine` has operators only: `EvaluateEvidencePolicy` is `policy.ts:44-207` for one scenario,
with its requirements, contradictions and counts; a signature is the generation of the key
that made it; hashes are terms. `MerkleRoot` builds the levels of `merkle.ts`.

`EvidenceIntake` extends it with everything that adds receipts, takes the keys of their
raw evidence away or changes what they mean: the demonstration origins (`Collect`, whose key
may be older than a reset), declarations of the user, an approval, the two parts of a simulation
around its decision (`Simulate`, `Evaluate`, `Persist`, `SimulationExpires`), `Expire`, `Reset` and the
GitHub App. There, GitHub is an environment whose runs end, start again and lose
artifacts (`RunChanges`); a webhook delivery tells of any moment of their history, at any
later time, repeatedly (`Deliver`), and the last `DeliveriesKept` are remembered. `verify-ci`
is suspended at four awaits: `asking` (the run), `ran` (its artifact), `fresh` (the origin's
key) and `keyed` (the update, which looks for a receipt again).

`AllowIsJustified` is the reference definition of the policy: it is stated over the
receipts and the clock alone, without the sets and counts the code goes through, and is an
equivalence, checked in every reachable database. The scenario is a parameter: the run has one
like `agent_deploy`, the only one with a review origin. The parameters may describe any other one: an
approval that is an ordinary required origin, no CI, and no review origin, where `policy.ts:163` asks for a review
nobody can give and what needs review is never allowed. The theorem covers all of them; `Approve` and
`verify-ci` only exist where their origin does.

Abstractions: a receipt names the action by its commitment; a contradictory one
contradicts both its status and its value; the clock is one for observation, expiry and
decision, and GitHub's may be ahead by the tolerated skew. HMAC, JWT, installation tokens and the
parsing of answers are taken as done; each may fail (`VerifyFails`).

### ServiceAccess

State: the two files of credentials, what the running API loaded, what the worker loaded.
`InitWritesConfig` and `InitWritesSecrets` are `service-auth-init.ts`, which may die between them;
`Edit` is an operator; `ApiStarts` is `loadServiceAuthenticator`, which refuses what
`ServiceAuthFileSchema` refuses (`Valid`); `WorkerLoads` keeps the first answer, also a rejection.
Requests change nothing, so they are operators: `Authenticate`, `Answer`, the worker's
`ToolAnswer` and `ProxyAnswer`. The matrix, the ceilings, the names of the generated principals and the
worker's choice of a principal are translated from four files that nothing else compares.

## Runs

| Run | Question | States |
|---|---|---|
| `gate_safety` | Can three calls over two permits of one action, with all faults, dispatch twice, answer untruly or confuse records? | 692,492 |
| `gate_refinement` | Does the gate implement `OneTimePermit`, and do records only move forward? | 332,360 |
| `gate_liveness` | Is each reservation settled and each admitted call answered? | 60,232 |
| `gate_failed_no_effect` | Does "failed" mean that nothing happened? (it does not) | violation |
| `contract_ledger` | Registrations, rotations, revocations and time in any order: one `ALLOW` per action, append-only, frozen by revocation | 3,402 |
| `registrar_custody` | Is the registrar's secret ever lost, does the file catch up, and can a command act with a secret that was rotated out, over rotations, revocations and deployments, with and without faults? | 174,318 |
| `registrar_env_managed` | A rotation with an environment-managed secret (the secret is lost) | violation |
| `evaluation_flow` | Two evaluations and two approvals around a reset, transactions early, late or lost: is there one permit per action, in each contract, anchored and reviewed, although the network is switched? | 2,701,448 |
| `store_serial` | Do both engines implement the serial store, keep keys and database together, start again after a crash and answer every update, whatever the first start finds on disk, in the table and in the environment? | 161,192 |
| `store_reset_races` | Is `store.json` whole at every moment, also for a reset beside an update? (it is not) | violation |
| `evidence` | Is every `ALLOW` justified by receipts in force, acceptable to the contract and identified by its root; do CI receipts tell what GitHub saw, once per action; does a simulation erase what it used? | 536,206 |
| `service_access` | Can a configuration combine two duties in one token; is the worker refused by the API it was generated with? | 980 |

**Bounds.** Three calls are enough for a call to be overtaken by a winner and a
retry of it at once; two keys and two permits of one nonce give every way in which
two calls may agree or differ in key, permit and nonce. `gate_refinement` has two
calls but anchors on a public network and a change of network between read and
reservation. One reset gives two databases, so that records of an erased one meet a
running handler. `gate_liveness` uses a permit that is refused and one that is
accepted, so that both kinds of answer occur. The contract has three secrets, which
allow a rotation away from a registrar, on, and back, three anchors, and drafts
that each miss a single assert. In the registrar runs three random secrets are
what the security check and a rotation need for all their rotations, on either
network, and what two deployments need for their first secrets; four commands allow an
anchor and a change of network in any of them. In `store_serial` two updates and
`MaxAttempts = 2` (five in the code) let one exhaust its attempts only against the
other and a reset, so that both a retry that succeeds and one that does not occur; one
crash at any await and a second start cover every pair of files a start can find, four
generations are the first one, a reset, a start over unusable files and one more. The 18 situations of the first
start are `store.json` of each schema, torn or removed, with and without secrets; a row and no
local file; these with usable or invalid keys in the environment, and in limited mode where that matters;
one has overlapping calls. `MaxInodes = 5` is one file for each of the four writers beside
`store.json`, so that a writer never waits for one. `evidence`
has eight settings because the parts meet in the receipts only: each setting has what can
interfere (an origin, an approval and a contradiction; stale keys and declarations; two
simulations that share or do not share a request; a simulation over a reset; the App with
three deliveries of which two are remembered, with two callers, without webhooks, beside a
demonstration receipt). With `MaxAge = 1` and two ticks each receipt can be fresh, at its last
moment and too old, with `Skew = 1` also from the future. `service_access` has two generations of
credentials and four edits, of which two are invalid for different reasons. In
`evaluation_flow` two evaluations are the first that asks for review and the second
that may give the permit, or two that compete for one action, or one each for two actions; two
approvals are the same or different; two contracts are the watched one and all others. The contracts change
only while both evaluations are of one action (`RequestsCompete`): with two actions both meet the watched
ledger and `OnePermitPerAction` says nothing. One unit of block time lets a decision
expire while its transaction is on the way. `Max...`
constants bound time, anchors, epochs and resets; because of them, and because
handlers stop when all calls are answered, deadlock is not checked. Calls, keys and
permits that the specification treats alike are symmetric in the two gate runs
without liveness.

**Fairness.** `gate_liveness`: weak fairness of each handler. The event loop resumes a
handler whose await has completed, a store update completes, the abort timer
(`executor.ts:149`) ends the wait for response headers and the body timeout of
`fetch` the wait for the body. Nothing is assumed of GitHub, clients or operators,
and the run has no crashes: after one, nothing in the code resumes an execution
and a reservation does stay open (a hazard in `PROJECT.json`).
`registrar_custody`: weak fairness of each command that has started, as the operating
system schedules it; commands need not start. `store_serial`: weak fairness of each call
that has begun and of `init`, because promises settle: the file system and PostgreSQL
answer or fail. A call need not begin and crashes need not stop.

**Mutants.** Every property is broken by a faulty variant of a definition, kept
next to it under a name that begins with `Mut`: a lookup by permit but not by
nonce, an assert with `<=` for `<`, a save that drops the rotated secret. No
specification uses them.

## Proofs

All proofs hold for every value of the constants that satisfies the named assumptions
(`GateAssumption`, `ContractAssumption`, `FlowAssumption`, `RegistrarAssumption`,
`StoreAssumption`, `PolicyAssumption`, `IntakeAssumption`, `AccessAssumption`, `PromiseAssumption`):
any number of calls, keys, permits, evaluations, commands, sources, runs, resets, secrets, drafts,
edited configurations. They say what the code and its scenarios fix, such as that a source that is
required has a class of its own, or that random secrets do not repeat; TLC evaluates each of them.

* `ExecutionGateProofs`: `TypeOK`, and the six safety invariants of `gate_safety`,
  with all faults allowed. None of them is inductive alone; `IInv` adds what the
  code maintains implicitly: a handler past its reservation owns a record with
  the status of its phase, a record of the current database has a handler that
  is past its reservation, the wire is used only after the start update, an answer
  names a record of the same key and permit. The step lemma has one case per
  action; `Next` faults and environment actions leave most conjuncts alone.
* `ExecutionGateRefinement`: for a store that never loses the reply to a COMMIT
  (`~AckMayBeLost`), `RecordsProgress` and `ImplementsOneTimePermit`. Each gate action
  maps to `Claim`, `Fire`, `Settle`, `Wipe` or a stutter; that a verdict is open when it is
  given, and that an accepted request belongs to the one record of its permit,
  comes from `IInv`. With a lost reply both are false: the catch block overwrites
  `succeeded` by `failed`.
* `DecisionContractProofs`: `LedgerTypeOK`; the inductive invariant `LedgerInv` joins
  it with `UsedActionsAreAnchored` (which makes `OneAllowPerAction` inductive: the set
  the assert reads is what the anchors say) and `AllowsAreBacked`; the action
  properties `AnchorsAppendOnly`, which needs the domain of `anchors` to be
  `1..nextId`, and `RevocationFreezes`.
* `EvaluationFlowProofs`: every invariant of `evaluation_flow`, for whichever contract is watched. `FlowInv` adds what a phase of an
  evaluation knows of its transaction (only an applied one gets past the CLI), that a
  transaction applied to the watched contract is an anchor with the counts of its decision, and that of one action at most
  one `ALLOW` was applied; the last needs `LedgerInv`, as it is the set of used actions that
  refuses the second. `ApprovalsAreBacked` says that an approval the policy counted is one of
  this database, of a decision that asked for it. `FlowKeepsTheContract` is `LedgerInv` again for
  the composition: the lemma about `registerDecision` (`RegisterPreserves`) is proved once
  in `DecisionContractProofs`, for any arguments, and cited by both compositions.
* `MidnightRegistrarProofs`: `CustodyTypeOK`, `RegistrarStaysKnown`, `RotationCutsOff` and `LedgerInv`.
  `CustodyInv` says how far a script may be when a command holds or has drawn a secret,
  that two commands never drew the same one, that every secret in a file or on the chain was issued,
  that a deployment runs alone, and, without races, that a copy of the state file in memory is
  the file. From these `RegistrarIsPendingOrStored` is inductive: the rotation that applied
  last is the one command between chain and file, or its secret is stored. The step from
  the transaction to the file is the case where faults break it, hence the two
  conditions of `RegistrarStaysKnown`.
* `StateStoreProofs`: `StoreTypeOK`, `KeysFollowDatabase`, `RestartSucceeds` and
  `ImplementsSerialStore`. `StoreInv` joins the types, where a call of each kind may be
  (`Calls`) and, when resets are kept apart, that `store.json` has one writer at a time (`Exclusive`), that what
  a writer is about to store is what it read plus its own update (`Drafts`), and how the keys
  relate to every database that is stored or about to be (`Keys`). `RestartSucceeds` follows
  from a condition that is stable once the store was up (`Startable`): the environment
  is not invalid, there are keys somewhere (`Kept`; limited mode needs none), and a file of the current schema, or a row. For the refinement each action maps to
  `Apply`, `Resolve`, `Fail`, `Replace` or a stutter of `SerialStore`; `Exclusive` (JSON) and the
  revision (PostgreSQL) are what make the database an update read the one it replaces.
* `EvidenceIntakeProofs`: every invariant of `evidence`. That the policy agrees with its reference definition is
  a chain of lemmas about `EvaluateEvidencePolicy` (`ConsideredIsInForce`, `ClaimsAreMet`,
  `EnoughSources`, `PolicyDecides`): a set of satisfied claims is complete exactly when
  each source testifies, and then the count of sources is reached, because two needed sources
  have different classes. `IntakeInv` adds who may have made a receipt, that the
  history of GitHub includes its present, that a `verify-ci` call carries what GitHub had shown, and
  that an evaluation rests on receipts of its own action. `OneCiReceiptPerAction` is inductive
  because the update looks for a receipt again; it would not be with the first look alone.
  `RootsIdentifyEvidence` says that `MerkleRoot` is injective on sets of ids. The levels are a
  recursive function and the induction theorems of the library take an operator, so induction is
  over a set of naturals with a least element (`NaturalsByRounds`, from the library's
  `NatLessThanWellFounded`): it gives that the levels exist (`LevelsByRounds`), that each has
  distinct hashes (`LevelsAreLevels`), which makes a round invertible although an odd level repeats its
  last hash (`PairsAreInjective`), and that two trees with one root had the same leaves
  (`EqualLevels`); a leaf is not a pair because hashes are terms.
* `ServiceAccessProofs`: `OneDutyPerToken`, for every set of configurations an operator may
  write. The invariant is that an API that is not limited runs with a configuration it
  found valid, which edits of the file cannot disturb; the token of a valid
  configuration names one principal, its scopes are within the ceiling of its kind, and
  each ceiling without `state:read` is one duty. `WorkerIsServed`: what the generator writes gives
  every kind its ceiling, and each request of a tool or of the proxy asks for a scope within the ceiling
  of the principal it is sent as.

Only model-checked:

* the liveness properties (`ReservationsSettle`, `CallsAreAnswered`, `RotationsAreStored`, `UpdatesAreAnswered`): fairness
  is out of the prover's reach;
* the violations, which are about one behaviour each.

## Findings

* **A failed execution may have happened** (`gate_failed_no_effect`). The record says
  `failed`, the audit trail "O efeito externo falhou depois da reserva do permit."
  and the client gets "The staging workflow dispatch failed", but GitHub may have
  accepted the request: the abort timer fired, the response was unreadable or
  the success update rejected. The permit is consumed either way, so nothing is
  dispatched twice; what is wrong is the report.
* **Rotation with an environment-managed secret loses the contract**
  (`registrar_env_managed`). `rotate-registrar` rotates on chain, then
  `recordRegistrarRotation` throws and asks to update the secret source, but the new
  secret existed only in the memory of the command and is printed nowhere.

* **A reset can empty the store** (`store_reset_races`). `reset()` does not wait in the queue
  of updates and uses the same temporary file name. An update that has written the file
  and is about to rename it finds it truncated by the reset: `store.json` is empty until
  the reset has written, and stays so if the process dies or the write fails.
  `docs/ARCHITECTURE.md:131` promises a "gravação serializada/atômica".

The loss of a secret also follows from a kill between transaction and file, from a transaction
that is applied while its call rejects, and from two processes that save the state
file at once; no document of the repository claims otherwise, so these are hazards
and not findings.

## Not modelled

* The gate starts where `POST /api/execute` has passed access control, the early return
  of the limited public API (`routes.ts:1183`) and the request schemas, which change
  nothing.
* *Cryptography and canonical JSON* are assumed: hashes do not collide, signatures are not
  forged, equal values have equal encodings.
* *The local anchor adapter* (`MIDNIGHT_MODE=local`) stores nothing outside the decision;
  the status of the network is in the gate, its switch in `EvaluationFlow` and, as a
  change of the state file, in `MidnightRegistrar`.
* *Wallets*: seeds, checkpoints of the synchronisation and balances. They are I/O
  against services; what they decide, whether a command goes on or ends, is `CallFails`.
* *What `OneTimePermit` does not promise*: that a permit has not expired and the network has not changed when
  the workflow is dispatched. `ExecutionGate` has both changes; the code checks them once, before the reservation.
* *Several ledgers at once*: `EvaluationFlow` follows one contract (see there for what two of them allow).
* *Duties outside the configuration*: `OneDutyPerToken` is about an API that loaded one; in limited public mode there is a
  placeholder. `WorkerIsServed` is about an API and a worker that loaded the same generation.
* *Two commands beside a deployment* (`Alone`), and a reset of `store.json` beside other
  calls except in `store_reset_races`.
* *Formats*: the configuration of the GitHub App, HMAC, JWT, bounded bodies, error texts,
  headers, CORS, MCP and the forwarding of bodies by the worker.
* *The web application* displays answers of the API; *the relational schema* is one row;
  *workflows, scripts and containers* build and start what is modelled.

`PROJECT.json` has the status of each component.
