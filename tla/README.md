# Verification of the AgentMesh360 client

TLA+ specifications of the AgentMesh360 client and its background Host, TLC
configurations that check them on small instances, and TLAPS proofs. The reference
is the code: `agentmesh360/`, `agent/`, `session/` and `leader/` below are
directories of `crates/codegen/xai-grok-shell/src`, `desktop/` is the Electron
client. `PROJECT.json` maps every definition to its lines.

## The system

A desktop client talks, through a Bridge process, to one background Host per user
(the Leader), which runs product Agents as sessions of a vendored coding-agent
harness. The product's own logic is in `agentmesh360/`: Agents that persist per
account, admitted by a subscription, defined by signed Packages, with models reached
through provider accounts of the user.

| Component | State | Operations | Interacts with |
|---|---|---|---|
| Client access (`access.rs`) | access state with a monotonic deadline | bootstrap, invalidate, guard of requests | Core over HTTP, every handler, session threads |
| Product host (`mod.rs`) | pins, restore flag, generation, applied definitions | bootstrap, activate, restore, suspend, expiry timer, check before a prompt | access, registry, sessions |
| Agent registry (`registry.rs`, `state.rs`) | table `product_agents` | seed, claim legacy rows, prepare activation, mark runtime | host |
| Session residency (`agent/mvp_agent/`) | live session actors, files on disk | new, load, close, detach, sweep | host (pins, access gate) |
| Provider profiles, vault (`providers.rs`, `provider_profiles.rs`, `credential_vault.rs`) | rows with a route revision; keychain items | create, update, replace secret, delete | assignments (cascade), lease |
| Assignments (`model_assignments.rs`) | rows by scope and role | upsert, delete, lookup with fallback | route compiler |
| Routing, bindings (`model_routing.rs`, `session_bindings.rs`) | append-only binding revisions | resolve, switch, migrate, roll back | turns, lease |
| Lease, turns (`credential_lease.rs`, `turn_submission.rs`, `turn_routes.rs`) | leased config in memory, turn records | prepare, submit, record, submit again | session threads, sampling actor |
| Overlays, definitions (`agent_overlays.rs`, `mod.rs`, `model_switch.rs`) | revisioned overlays, applied definition per session | save, clear, check, rebuild | prompts, session actor |
| Package trust (`package_trust*.rs`, `package_registry_*.rs`) | accepted pair of documents, validators | fetch, accept, fall back | registry origin |
| Package delivery (`package_delivery.rs`, `package_installer.rs`, `agent_packages.rs`) | registry rows, version storage, approvals, catalog | download, approve, install, roll back, reconcile | trust, catalog of the registry |
| Leader (`leader/`, `agent/app.rs`) | lock file, socket, pid | connect or spawn, evict, hand off, stop | Bridges, the operating system |
| Session actor (`session/acp_session_impl/`) | prompt queue, running turn, queue revision | queue, promote, complete, cancel, queue operations, rebuild | handlers of the Host, turns |
| Desktop conversation (`desktop/src/conversation-controller.js`) | mirror of the queue, submissions, pending cancel and operation | send, cancel, operate on the queue, recover | Bridge, identity controller |
| Probes, dictation, workspace views, tools | see `PROJECT.json` | | |

### What is hard in it

* The Host's requests, restore tasks and timers run on one single-threaded executor:
  they interleave at awaits, with state read before an await used after it.
* Session actors run on OS threads of their own and take commands from a channel;
  a prompt's preparation, a rebuild, a cancel and the end of a turn meet there in any
  order, and completions arrive after what they complete was cancelled.
* Answers of Core and of the registry origin come late, in another order, or not at
  all; refreshes overlap.
* Two stores (keychain and SQLite; version storage and SQLite) change without a
  common transaction, and two Hosts may share one state home while Leaders change.
* Processes stop anywhere; a lock file may be unlinked while others have it open.
* A connection is lost with requests, answers and snapshots on it; the desktop must
  not send a message twice and must not stay in doubt.

### What makes it correct

* Access: nothing is pinned or restored without it; an end of membership clears the
  pins; a switch of accounts leaves nothing of the other account behind.
* Registry: accounts never share a main session; an activation survives failures,
  suspension and restarts.
* Routing: a binding says what its profile was at the bound revision; a turn sends
  what its record says; bindings and records are final; a deleted profile leaves no
  secret.
* Definitions: the applied record is what the harness was built from; a saved
  definition counts from the next message and never under a running one.
* Packages: a registry row always has durable content; versions only go up or back to
  Previous, with the user's consent to new permissions; an Agent has one owner;
  receipts and catalogs tell the truth; trust documents never go back.
* Leader: the lock tells the truth, one Host serves, clients reach it.
* Conversation: a message runs at most once; the mirror converges to the Host's queue;
  no submission, cancel or queue operation stays open.

## Modules

Each component module is plain TLA+ with one action per step between two awaits,
locks or stores. `MC...` modules add symmetry sets and the functions of an instance;
`...Proofs` modules hold the theorems. Operators named `...M` (or `M1`, `M2`, `Q`) are
mutants: plausible bugs of the definition that follows, which `PROJECT.json` pairs
with the property that notices them.

### `ProductHost`

Access, registry, bootstrap, activation, restore, suspension, expiry, detach. `cpu`
names a restore task that goes on in its loop without an await (an activation that
returns at once), during which nothing else runs.

| Model | Code |
|---|---|
| `access`, `CurrentAccount`, `now` | `ClientAccess`, `current_account_id`, `Instant` |
| `gen`, `timer` | `access_generation`, `spawn_access_expiry` |
| `boot` | bootstrap handlers awaiting Core, with the previous account they read |
| `rows` | `product_agents` by (owner, agent); owner `NoOne` is the NULL owner of legacy rows |
| `resident`, `disk` | `MvpAgent.sessions`; session files in the Agent's own workspace |
| `pins`, `restoreStarted` | `pinned_sessions`, `restore_started` |
| `restore`, `act`, `evict` | restore tasks, activations and the detach check in flight |
| `overtaken`, `stalePins` | history variables, for properties only |

An activation is split at its awaits: `Activate` (to the session call), `Gate` (the
access check of `session/new`), `Register` (the actor is registered), `Activated` or
`OpenFails` (the call returned). `HostRestarts` keeps `rows` and `disk`. `LegacyRow`
in `Init` is what the schema migration leaves of a database of the single-account
Host. Main session ids are UUIDs v5, modelled as the pair they are derived from.
`Overlap = FALSE` is one desktop client, which awaits each bootstrap before it sends
the next; `Overlap = TRUE` allows several. `StoreFails` lets local writes fail.

### `ProviderRouting`

Profiles and vault, assignments, bindings, lease, turn submission and records of one
account. The Host's handlers are synchronous, so a handler is one action, except
create and delete of a profile, which write to two stores and may stop between them
(`op`). A submission `att[t]` has one step per statement that reads or writes a store
(the lookup of an assignment is up to six SELECTs outside a transaction): idle,
unbound, assigned, compiled, bound, leasing, checked, prepared, validated, accepted,
calling, active.

| Model | Code |
|---|---|
| `profiles`, `vault` | `provider_profiles` with `route_revision`; keychain items |
| `assignments` | `model_assignments` by scope and role |
| `bindings` | `session_provider_bindings`: a sequence per (session, role), whose index is the binding revision |
| `records` | `turn_route_records` |
| `issued`, `stored` | history variables: ids handed out, ids that had a row |

Abstractions: an endpoint stands for base URL, protocol, preset and auth kind; a
secret is its presence; a route's hash is the route; the Agent's model policy, a
duplicate name, an unavailable vault and a refusal by the sampling actor are
nondeterministic failures (a create whose row was inserted but cannot be read back
deletes the secret and leaves the row); revisions of assignments and of the catalog are carried
but never decided upon by the code, and are left out. That the session belongs to
the account (`require_session_owner`) is how `Sessions` is chosen.

### `PackageVersions` and `PackageDelivery`

`PackageVersions` is what the installer promises: every Package has an Active and a
Previous artifact; an upgrade goes to a higher version of the same Agent, with the
permissions the user consented to against the Active artifact of that moment; a
rollback swaps the two. `PackageDelivery` is how several Hosts on one state home do
it: `DownloadStarts`, then `InstallStarts` or `ApprovalRequested` and `Approve`, then
under the Host's refresh gate `InstallObserves`, `InstallMoves` (the rename into
version storage), `InstallSyncs`, `InstallCommits` (one transaction that repeats two
of the checks) and the refresh of the catalog with its receipt; `Rollback`,
`Reconcile`, `Crash`, `PowerLoss`, `Restart`, and damage of trees from outside.
`Versions == INSTANCE PackageVersions WITH ...` is the refinement mapping: slots are
the registry's rows, a consent is the approval an installation carries.

| Model | Code |
|---|---|
| `registry` | `agent_package_registry` rows, `InstalledPackageRecord` |
| `storage` | trees under `versions/`; `kept`: how much of one is on disk (`moved`, `entered`, `disk`, `torn`) |
| `pending`, `download` | `PackageDeliveryService.pending`, downloads in flight |
| `op` | the mutation that holds `mutate_and_refresh_package_catalog`'s gate, then its receipt |
| `live`, `up` | the shared runtime catalog; Host processes |

SQLite runs with its default `synchronous = FULL`, so a commit survives power loss; an
fsync of a directory makes its entries durable. `sync_tree` covers the files of the
tree and its root, the sync after the rename the version directory. Nothing covers the
subdirectories of a tree (`Nested`) or the directories above it that `create_dir_all`
has just made (`ShelfOnDisk`): a power loss after the commit may take either, and the
tree is then `torn`. What a power loss does is chosen for each tree by itself, which
allows more than a file system does. `sync_directory` is a no-op outside Unix; the
model is of Unix. A torn tree behind an Active slot makes every catalog unavailable
(`TornNeverServed`) until an upgrade or a rollback replaces it; the same artifact
cannot be installed again, since an installation that finds itself Active verifies
what is there. No document promises more than that an interrupted installation leaves
the registry alone.

The two reads of one observation are one step because the commit repeats both. A
damaged tree is one behind a row: orphans are never read again.

### `PackageTrust`

The conditional fetch of trust bundle and registry snapshot: `RefreshStarts` reads the
validators, `FetchTrust` and `FetchRegistry` get a document or a 304, `Accept` is the
transaction of the cache, `Persist` the later one of the validators, `Refuse` and
`RefreshFails` the fallback. The origin publishes any pair, also an older one or two
documents of one number; `Limit` is `i64::MAX`. `accepted` is history. A refused
access and the death of the Host are `RefreshFails`.

### `AgentDefinitions`

One product session, its actor and the prompts that are being prepared.

| Model | Code |
|---|---|
| `store` | what overlay tables and Package catalog give: Package version, number of saves |
| `applied` | `applied_agent_definition_revisions` |
| `handle`, `actor` | `MvpAgent.sessions`; the actors' command queue, rebuild in progress, pending inputs, running turn |
| `prompt` | `session/prompt` handlers in `ensure_product_agent_overlays_applied` and after |
| `opening`, `saved` | activations in flight; the definition in the session's files |
| `replies` | rebuild answers, in the order their tasks are woken |

Prompts are tasks on the LocalSet and the actor has a thread of its own; answers to
the busy check are taken in any order, those of a rebuild in wake order. Evictions are
in `ProductHost`, cancels and queue operations in `Conversation`; the desktop also
locks the editors while a turn is generating, which the model does not rely on.

### `LeaderElection`

`connect_or_spawn` of the clients and the Leader's life, over lock file inodes, flocks,
pids and the socket path. A lock file has an identity apart from its path: `Drop`
unlinks the path before it closes the file. The model is untimed: the client's 30 s
wait for the lock outlasts a spawner's 10 s and loses to a Leader's 100 ms poll, a
starting Leader binds within 10 s, and every other limit may or may not end. Clients
all have the managed installation's version, so only a Leader present at the start
may be stale; such a Leader keeps its lock until it leaves, and it may decline to. SIGTERM and a crash run no
destructor. Leaders are spawned with `--no-exit-on-disconnect`.

### `Conversation`

The desktop's mirror of the prompt queue, the connection, and the session actor that
owns the queue.

| Model | Code |
|---|---|
| `rev`, `entries`, `running`, `busy`, `mutation`, `cancel` | the controller's `queueRevision`, `queueEntries`, `queueRunningPromptId`, `runningSessionIds`, `queueMutation`, `cancelRequested` with `cancelTargetPromptId` |
| `drafts` | `#submit` between its first check and `submissions.set`, waiting for the attachment store |
| `status`, `waiting` | `submissions` by prompt, requests without an answer |
| `recover` | the load of `#recoverSessions`, or of a reopening |
| `conn`, `up`, `down`, `here` | the Bridge's connection to the Leader, messages on it, requests the Leader would answer to it |
| `prep`, `stops`, `returns` | handlers of prompts and cancels in the Host, results not sent yet |
| `actor` | `State` of the session actor: `pending_inputs`, `running_task`, `queue_revision`, completions in the channel |

The arms of the actor's loop are operators on its state (`QueueInput`, `Completion`,
`CancelRunning`, `RemoveQueued`, ...), which collect what they broadcast and answer;
an action applies one and commits the outcome. A reordering is the stable sort of
`sort_by_key`, written with the place at which every entry ends (`Arranged`). `Drop` loses a part of what was sent in
either direction; what is sent later waits in the Bridge, which replays `initialize`
and `session/load` and then announces the reconnection. With `MayCrash` the Leader may
have ended, with its sessions and the account's access.

`#submit` is two steps, `Prepare` and `Submit`: it checks for a submission of unknown
fate, awaits the attachment store, and only then registers the message and sends it,
without looking again. A turn is answered with its result or its error (`CommitAs`).

Abstractions: one desktop client; messages without attachments (with them the
controller also awaits its store between an answer and its effects); the end of the Bridge
itself, interjections and ownership by other clients are left out; whether a goal is
active, the turn is in a blocking wait, or one of the waiting synthetic turns is for a
finished task (so that a message sweeps them away), is nondeterministic; drained notifications
are a `Wake`. Main sessions are pinned, so a lost connection does not evict them. The
desktop's check that the account is ready is left out and its queue notifications do
not wait for a bootstrap in flight: it may do more than the code.

## Runs

| Run | Instance | Shows |
|---|---|---|
| `host_safety` | 2 accounts, 1 Agent, 1 caller, 2 bootstraps, failing writes, restarts; 0.4 M states | `TypeOK`, `MainSessionsUnique`, `PinsBelongToAccount`, `ActivationsDurable` |
| `host_liveness` | 2 Agents, 2 bootstraps, 2 instants | `ExpiredPinsCleared`, `RestoreReachesAll` |
| `host_fail_closed` | 1 account, 1 Agent | a disagreement, see below |
| `routing_safety` | 1 profile with 2 revisions, 2 racing submissions, 3 binding revisions | `TypeOK`, `BindingsFaithful`, `TurnsFollowRecords`, `DeletedLeavesNoSecret`, `HistoryIsFinal` |
| `delivery_safety` | 2 Hosts, 2 Packages that want one Agent, an upgrade with a new permission and subdirectories, a built-in Package, 2 directories, power losses, damaged trees of the upgrade; 0.9 M states | `TypeOK`, `TreesBehindRows`, `TornNeverServed`, `ReceiptsTruthful`, `OneOwnerPerAgent`, `CatalogsCoherent`, `ImplementsVersions` |
| `trust` | 2 refreshes, 2 bundles, 4 snapshots (one equivocates, one is past the limit), 1 failure | `TypeOK`, `OneDocumentPerNumber`, `NotModifiedIsCached`, `CatchesUp` |
| `definitions_safety` | 2 prompts, 2 actors, 2 versions, 1 save, 1 restart, plan approval | `TypeOK`, `AppliedIsHarness`, `FreshWhenAlone`, `RunningUndisturbed` |
| `definitions_liveness` | 2 prompts, 1 actor | `PromptsSettle` |
| `leader_lock` | 2 clients, 2 Leaders, one stale, a kill and a stop | `TypeOK`, `LockTruthful` |
| `leader_start` | 3 clients at once, 4 Leaders | `SingleHost` |
| `leader_reconnect` | 1 client, 4 Leaders, 2 crashes, failing spawns | `HostReachable`, `ClientsSettle` |
| `conversation` | 2 messages, 1 synthetic turn, 3 events of user, fault or wake; 1.0 M states | `TypeOK`, `AtMostOnce`, `MirrorConverges`, `SubmissionsSettle`, `CancelsSettle`, `MutationsSettle` |

Bounds. A switch of accounts needs two accounts and two bootstraps; an overtaken
activation one caller; a restore that must go past a failure two Agents. Expiry is in
`host_liveness` (one instant before and one after the deadline) and in the theorems;
`host_safety` has no time, so that faults, detaches and restarts fit. A stale read
needs two revisions; a race two submissions; a rollback two earlier binding revisions
and a third one. An approval overtaken by another Host needs two Hosts and two
versions. An installation, a rollback and another installation need three directories,
beyond the run with two Hosts; `DeliveryImplementsVersions` holds for any number. A
refresh overtaken by another needs two. A rebuild behind a rebuild needs two prompts. A
handoff disturbed by others needs three clients; beyond that the lock theorem holds for
any number. In `conversation` an event is a message, a queue operation, a cancel, a
reopening, a synthetic turn or a lost connection: three are a message, what happens to
it, and the loss that meets both; cancels of a turn behind which another waits, and
operations that race a promotion, are among them.

Deadlock is not an error in `leader_lock`, `leader_start` and `conversation`, whose
bounded processes and events run out.

### Fairness

* `ProductHost`: a bootstrap is answered (the HTTP client has a timeout of 15 s), the
  executor polls timers and tasks that are ready, a session call returns. Clients,
  the clock, detaching and restarts have no fairness.
* `PackageTrust`: every granted bootstrap spawns a refresh (`mod.rs:523`, `713`), the
  desktop bootstraps again periodically (`identity-controller.js:70`), and a refresh's
  requests have timeouts of 5 and 15 s. Failures are bounded: an origin that always
  fails teaches nothing.
* `AgentDefinitions`: the actor's thread and the LocalSet run whatever is ready. No
  fairness for the end of turns, saves, or activations.
* `LeaderElection`: processes run, sockets answer, and time limits end. Nobody has to
  start, stop or crash.
* `Conversation` states eventualities as invariants of `Quiet` states, in which no
  message, handler or completion is under way. Every step but the bounded events uses
  one of those up, so a behaviour in which nothing rests reaches such a state; the
  invariant form is the stronger one and needs no fairness.

## Proofs

For every value of the constants that satisfies the named assumptions:

* `TypeCorrect`, `SessionsUnique`, `ActivationsAreDurable`: `RegistryInv` is
  inductive. Uniqueness of sessions is not: `RowShape` says that a row holds its own
  session, the legacy one of its Agent, or none, so that a claim, which moves legacy
  rows, and an allocation cannot collide; `ActShape` says that an activation in flight
  works on a row that wants to run, so that recording its outcome changes no session.
* `SerialPins`, assuming `Overlap = FALSE`: `SerialInv` adds that one bootstrap at
  most is in flight and the account it found still has access (`BootShape`), that
  activations no suspension overtook work for that account (`ActsBelongToAccount`),
  and what a restore task holds (`RestoreShape`).
* `RoutingTypeCorrect`, `BindingsStayFaithful`, `TurnsAlwaysFollowRecords`,
  `DeletedProfilesLeaveNoSecret`, `HistoryStaysFinal`: `RoutingInv` is inductive. A
  profile's revision never goes back and its content changes only with it
  (`ProfilesMove`); bindings are only appended to (`BindingsGrow`); so what a
  submission read stays true of it, and two submissions that agree on a record's
  revision agree on its route.
* `DeliveryTypeCorrect`, `RowsHaveTrees`, `TornTreesUnserved`, `AgentsHaveOneOwner`,
  `ServedCatalogsCoherent`: `DeliveryInv` adds to the types that a row holds
  artifacts of its own Package and one Agent, each with a synced entry in a directory
  of its own (`RowShape`, `DirsApart`), that installed Packages have different Agents
  (`AgentsApart`), and what an installation under way still knows of its plan, its
  consent and its directory (`OpShape`).
* `DeliveryImplementsVersions`: under that invariant the initial state and every step
  of `PackageDelivery` map to one of `PackageVersions`: the two checks that the commit
  repeats are enough for version, Agent and consent to be right at that moment.
* `TrustTypeCorrect`, `NumbersAreUnique`, `NothingHidden`: `TrustInv` says that the
  cache has the newest of what was accepted (`CacheIsNewest`) and where every
  validator comes from (`Provenance`): a document accepted before, or the one this
  refresh fetched and stores only after its acceptance.
* `ElectionTypeCorrect`, `LockFileTruthful`: `LockInv` says who holds a lock and with
  which file (`Held`) and which pids a lock file can have (`Told`), for any number of
  clients, Leaders, crashes, kills and failed spawns, also when the path has split
  over two files.

* `ReceiptsTellTheTruth`: a receipt is written from the catalog that the refresh has
  just built, so `ReceiptInv` says what a Host waiting for that refresh may rely on: a
  Host that is down has no mutation under way (`Down`), and with a single Host the
  committed artifact is still Active when the refresh comes (`Landed`), which is why
  "superseded" needs another Host.
* `OneHost`, assuming `FaultFree` (no crash, kill, stop, failed spawn or stale Leader),
  for any number of clients and Leaders: `CalmInv` adds to `LockInv` that one Leader at
  most is about to bind, that no socket is there before and that the client which
  spawned it holds the lock and waits (`RisingAwaited`, `AwaitedRises`); so nobody
  unlinks the lock path and one file decides. Every one of the five hypotheses is
  needed: with three clients TLC breaks `SingleHost` with any single one of these
  faults.
* `LoneBridgeFindsHost`, assuming `SoleBridge` (one client, nobody killed, told to stop
  or stale), for any number of crashes and failed spawns: `SoleInv` says where the only
  client and its Leaders are with respect to the lock and the socket, so that a Leader
  that serves is the one at the socket. With two clients, a kill, a stop or a stale
  Leader `HostReachable` fails (see Disagreements).
* `DefinitionsTypes`, `TurnsUndisturbed`: without hypothesis. The queue of an actor
  whose turn is running is not empty (`ActorShape`), and a rebuild starts only when
  nothing runs.
* `AppliedTruthful`, `PromptsFresh`: for the behaviours in which at most one activation
  is in flight at a time (`[]OneOpening`); with two, `AppliedIsHarness` does not hold.
  `PlaceInv` follows a prompt's request: its command is in the resident actor's mailbox,
  in its work, in its queue or among the answers, at one place only, and with it goes
  the definition that it carries; `HarnessKnown` ties the applied record to the last
  rebuild that was answered and not taken. `FreshInv` adds that a prompt which came
  alone has read a definition of its own time (`ReadSeen`) and that the harness is one
  of them by the time it is queued (`HarnessSeen`).
* `ConversationTypes`, `ExecutedAtMostOnce`: for any number of messages, synthetic turns
  and events, and with losses of the connection and ends of the Leader anywhere. `ConvInv`
  has four parts. `Types` fixes the shape of the messages in both directions and of the
  handlers. `StopsCounted` bounds the cancels being handled together with those on the
  way. `Orderly` is about the actor alone: the running turn is the one at the front, what
  waits behind it has not started, no prompt is queued twice, and every started turn is
  running or has ended once. `SentOnce` is about the way to it: a prompt is in one request
  or one handler at most, and while it is there the actor has not seen it. The last one
  is what a retry after a lost connection would break. Each operation of the actor
  (`QueueInput`, `Completion`, `CancelRunning`, ...) has a lemma that it keeps `Orderly`,
  over lemmas on the sequence operators (`Arranged`, `InsertNow`, `RemoveAt`).
* `MirrorFollowsActor`, `SubmissionsGetSettled`, `CancelsGetSettled`,
  `MutationsGetSettled` (`ConversationMirrorProofs`), without hypothesis on the constants
  beyond those of `Conversation`. The four properties speak of a moment at which nothing
  is on its way; `MirrorInv`, inductive together with `ConvInv`, says what is true of
  desktop and actor before that, through every message between them:
  * `Mirrors`: the snapshots behind the last announcement of a reconnection have growing
    revisions, above the mirror's and up to the actor's, and the last of them, or the
    mirror when there is none, shows the queue. Snapshots before that announcement say
    nothing, since the desktop forgets its revision when it takes it. `ActorRests` is
    for an actor that has not broadcast yet: its queue is still empty.
  * `SyncComes`: a mirror without a revision has a load, its answer or a snapshot ahead,
    or the load was refused.
  * `AnswersHeard`, `AnsweredOnce`: an answer with a result comes behind a snapshot, so
    that an answered message is not one of a queue the mirror has never seen.
  * `Asked`, `Submissions`: where the request of an open submission is (on the
    connection, in a handler, in the queue, among the answers), and that a synchronised
    mirror knows of what is queued.
  * `CancelEnds`, `MutationEnds`: a pending cancel has a snapshot without a running turn
    ahead, or something that will cause one; a pending queue operation a newer snapshot.

  Each arm of the actor's loop has a lemma on what it broadcasts and answers, and one
  lemma takes what any arm says to `MirrorInv`; the steps of the connection, the user and
  the desktop's handlers have a lemma each. TLC checked `MirrorInv` on the instance of
  the run `conversation` before it was proved.

Every invariant of the passing runs is stated by a theorem, some under the hypotheses named
above: beyond them `SingleHost` and `HostReachable` do not hold, and neither does
`AppliedIsHarness` with two activations in flight. Only model-checked:

* The liveness properties (`ExpiredPinsCleared`, `RestoreReachesAll`, `CatchesUp`,
  `PromptsSettle`, `ClientsSettle`): TLAPS does not reason about fairness here.

## Disagreements

Where a document, a comment or a message says one thing and the code does another.
One is a run, `host_fail_closed`: a sign-out during an activation, which pins its
session afterwards (`mod.rs:1070`, `PERSISTENT_PRODUCT_AGENTS.md:107`). It is also why
`PinsBelongToAccount` and `ExpiredPinsCleared` speak of pins that are not stale: a pin
set by an activation that a suspension overtook is kept apart (`stalePins`), so that
one disagreement does not hide others.

The others were seen while modelling (documents are in `docs/architecture/`); a
property or a bound leaves them out, as said here.

Host and routing:

* A restore loop that is overtaken by a switch of accounts goes on for the new account
  and marks the rest of its list as wanted (`mod.rs:1173`, `978`;
  `PERSISTENT_PRODUCT_AGENTS.md:101`, `105`).
* A failed restore is not retried by the next bootstrap of the account, since
  `restore_started` stays set (`mod.rs:1151`; `PERSISTENT_PRODUCT_AGENTS.md:109`), and
  one that fails early leaves no `error` in its row (`mod.rs:982`).
* A session that is activated during the detach check is unloaded although it is
  pinned (`agent_ops.rs:1659`, `1686`; `PERSISTENT_PRODUCT_AGENTS.md:103`,
  `ADR_BACKGROUND_HOST_LIFECYCLE.md:117`).
* Overlapping bootstraps of two clients leave the old account's pins (`mod.rs:493`;
  `ADR_ACCOUNT_SCOPED_SESSIONS_AND_BINDINGS.md:50`) or, answered out of order, an
  expiry that nobody handles (`mod.rs:704`; `ADR_BACKGROUND_HOST_LIFECYCLE.md:120`).
  Hence `Overlap = FALSE` in the runs and in `SerialPins`.
* A running turn goes on calling the model after access has ended
  (`turn_submission.rs:68`; `PERSISTENT_PRODUCT_AGENTS.md:107`).

Packages and definitions:

* After a rollback a rebuild of the version that is now Previous, with another digest,
  is accepted: versions are compared with Active only (`package_installer.rs:636`;
  `AGENT_PACKAGE_MANIFEST_V1.md:215`).
* An approval is used up before the plan is compared with the registry
  (`package_delivery.rs:82`, `230`; `AGENT_PACKAGE_MANIFEST_V1.md:404`).
* A prompt that finds the applied record equal to the stored definition is sent behind
  another prompt's queued rebuild to a definition since rolled back, and runs under it
  (`mod.rs:833`; `AGENT_PACKAGE_MANIFEST_V1.md:126`,
  `CLIENT_INFORMATION_ARCHITECTURE_V1.md:156`). `FreshWhenAlone` therefore speaks of
  prompts that come alone.
* Two activations in flight open two actors of one session and the applied record need
  not be the resident one's (`mod.rs:989`); the runs have one activation at a time.
* The turn of an answered plan approval starts beside the actor's loop, also during a
  rebuild (`model_switch.rs:135`; `CLIENT_INFORMATION_ARCHITECTURE_V1.md:176`).
  `RunningUndisturbed` speaks of prompts.

Leader:

* A dropped lock unlinks the path while others have the file open; two Leaders can then
  hold the locks of two files and both serve (`lock.rs:322`;
  `ADR_BACKGROUND_HOST_LIFECYCLE.md:27`). It takes a crash, a kill, a stop, a failed spawn or a stale Leader, so
  `leader_start` has none of them.
* Between the spawner's release of the lock and the Leader's handoff a second client
  can take the lock, remove the live Leader's socket and spawn another one, which ends:
  the Leader keeps the lock and nobody can reach it (`leader/mod.rs:1251`;
  `ADR_BACKGROUND_HOST_LIFECYCLE.md:137`). With a kill, a stop or a stale Leader one
  client is enough, so `leader_reconnect` has one client, crashes and failed spawns.

Conversation (`desktop/src/conversation-controller.js`):

* After the Leader's end `#recoverSessions` (line 1185) loads the session while the
  account is still being revalidated; the load is refused and not retried, so that
  submissions of unknown fate block every further message until the user reopens the
  conversation, although the message promises that it reconciles by itself
  (line 1156; `ADR_BACKGROUND_HOST_LIFECYCLE.md:121`). The settling properties except
  `recover = "failed"`.
* An edit or a reordering whose message was promoted meanwhile stays as a failed
  operation and blocks every other one (lines 874, 1510).
* The end of a synthetic turn is not broadcast, so the desktop shows it as running
  until the next snapshot (`turn_end.rs:217`). `MirrorConverges` excepts it.
* A cancel names no turn and may end the one that was promoted since; a removal or a
  clearing is reported as done also when the message had started to run.
* A submission made between the loss of the connection and its announcement may be
  reconciled as gone by a snapshot taken while it was still being prepared, and then
  run; a request that times out after 30 minutes blocks further messages until the
  next snapshot.

## Not modelled

`PROJECT.json` lists every component. The repository is for the greater part a
vendored coding-agent harness (terminal client, tools, sampling, sandbox, MCP), of
which only what the product relies on is modelled: the session actor's queue,
definition rebuild, residency, and the Leader. Of the rest:

* Offline release tools, repository tools, views, catalogs and input capabilities are
  pure functions of their input or file formats; provider probes and dictation are
  single requests to a service, with no state of their own that outlives them.
* The desktop's attachments, history, permissions and other controllers, and the user
  interface, keep local state of one process.
* Signatures, digests and archive formats are abstracted to verified artifacts and
  documents.
* The Leader's relay between several clients of one session (drivers, buffering during
  a load).
* `PackageTrust` and `PackageDelivery` are not composed: which artifacts may be
  downloaded is read from the cache at the start of a download, and any listed
  artifact may be asked for in the model.

## Plan

1. Attachments and several clients of one session in `Conversation`.
2. Composing `PackageTrust` with `PackageDelivery`.
