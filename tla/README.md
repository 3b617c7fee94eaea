# TLA+ models of the aifar-runtime agent

`aifar-runtime` is a single-node agent. An operator PUTs a *Runtime* document
(deployments, services, ingress rules); the agent starts the containers through
the Docker command line, watches them, serves their ports through its own
proxy, and keeps specs and statuses in files so that a restart can load them.
This directory models what the agent does with containers, routes, listeners
and files when commands fail, clients disconnect, containers stop and the
process dies.

## 1. Inventory

| Component (source in `internal/runtimeagent/` unless noted) | State | Operations | Interacts with |
|---|---|---|---|
| Manager (`manager.go`, `reconcile.go`) | `specs`, `statuses`, `endpoints`, `routes`, `servers`, all under `mu`; `reconcileMu` held for a whole operation | `Load`, `Apply`, `Resync`, `Remove`, getters | everything below |
| Deployment reconciliation (`deployment.go`, `container.go`) | none of its own: container names and labels in Docker | `reconcileDeployments`, `ensureDeployment`, surge replacement, `runContainer`, `waitContainerReady`, `removeExtraReplicas` | Docker; updates the status as it goes |
| Rollback (`rollback.go`) | the previous spec and status, captured when `Apply` begins | `rollbackRuntime`, `removeOwnedContainersForGeneration`, `restorePreviousRuntime` | Manager, Docker, store |
| Self-heal (`self_heal.go`) | restart counter, streak, next attempt and message per container name | `healContainer`, `markRestartHealthy` | called by `ensureDeployment` |
| Scheduler Lite (`scheduler.go`, `node.go`) | none; reads `specs` and the configured node resources | `AdmitRuntime`: node match, port conflicts, capacity | Manager |
| Routes and proxy (`route_state.go`, `proxy.go`, `ingress.go`) | `routes`, `servers` | `replaceRoutesAndState`, `startPort`, `stopPort`, request routing | Manager, HTTP clients |
| Service discovery (`service.go`) | `endpoints`, round-robin counters | `refreshRuntimeEndpoints`, `selectEndpoint` | Docker, proxy |
| Status (`status.go`) | none | `NewStatusWithOptions` | Manager |
| State store (`store.go`) | spec, status, event and proxy files | save, load, delete, events, backup, restore | Manager, command line |
| Docker events (`docker_events.go`) | debounce timer | start a `Resync` | Manager |
| Audit log (`audit.go`) | log file and rotated files | append, rotate, read | API, command line |
| HTTP API, RBAC, process (`cmd/aifar-runtime/main.go`) | none beyond the server | PUT, DELETE, GET; `serve` and its shutdown | Manager, audit log |
| Documents (`spec.go`) | none | parsing, legacy conversion, normalisation, validation, writing JSON | API, store, command line |
| Command line client (`cmd/aifar-runtime/main.go`) | none | one HTTP request per command; `backup` and `restore` work on the files | API, store, audit log |
| Config, metrics, logging, runner, release tool | none that changes | parsing, defaults, formatting | - |

What is hard here:

* **Partial failure.** An operation is a long sequence of Docker commands and
  file writes; each may fail, and the code has a different answer for each
  place: roll back, record the failed spec, return at once, or ignore.
* **Three copies of the truth.** Admission reads `m.specs`, requests are served
  from `m.routes` and `m.servers`, a restart reads the files. Failures let them
  differ.
* **Crash and restart.** `Apply` writes the spec file last; `Remove` forgets the
  Runtime before its containers are gone; surge replacement passes through
  states with two containers for one replica.
* **Cancellation.** `Apply` and `Remove` run on the request's context, including
  their clean-up.
* **Concurrency around the lock.** Requests through the proxy, `GET`s and the
  audit middleware run beside the operation that holds `reconcileMu`, and read
  its state in several critical sections; the `backup`, `restore` and local audit
  writes are other processes.
* **Files.** Spec files are overwritten in place, so a killed process or a full
  disk leaves a truncated file; a document goes through normalisation a
  different number of times on each of its ways.
* **Something must eventually happen.** Only the `Resync` ticker and `Load` bring
  a Runtime back after a failure.

`reconcileMu` is held by `Apply`, `Resync` and `Remove` from start to end, so
operations do not interleave with each other; the models keep at most one in
progress and interleave its steps with Docker, clients, requests, the other
commands and the process.

What would make each part correct: status `Running` is never reported over
endpoints that are not there; rollback removes exactly what the failed attempt
added; a surge replacement never leaves its replica without a container; a
successful `Apply` leaves the described containers and no others; `Deleted`
means that nothing is left; routes of different Runtimes do not conflict; open
ports and routed ports agree; the files can always be loaded; the
audit log has no gaps and tells what happened; the node is not overcommitted;
restarts are bounded and spaced; what a client was told survives a restart; a
backup is complete; a request goes to the most specific route and is not lost by
an update; only permitted roles change anything; a failure is eventually
repaired. `PROJECT.json` lists the hazards behind these, each at its line.

## 2. Modules

### `Rollout`: one Runtime, at the granularity of Docker commands

State: Docker's containers with the runtime's labels; the Manager's `specs`,
`statuses` and `endpoints` for the Runtime; its spec, status and event files;
the process; and the operation holding `reconcileMu` (its place `pc`, the
document `cur`, what `Apply` captured as `prev`, loop indices, whether its
context is alive). `before` is auxiliary: the containers found when `Apply`
began.

| Actions | Code |
|---|---|
| `Apply`, `EnsureNetwork` | `Manager.Apply` to `reconcileDeployments`, `nextGeneration`, `previousRuntimeState` |
| `InspectReplica`, `CheckState`, `ReplaceContainer`, `ReplicasDone` | the replica loop of `ensureDeployment`, `containerExists`, `containerNeedsRecreate`, `healContainer` |
| `PullImage`, `RunContainer`, `WaitReady` | `runContainer`, `pullImageWithSecrets`, `waitContainerReady` |
| `SurgeRemove`, `SurgeRename` | `replaceContainerWithSurge` after the replacement is ready |
| `RemoveExtraReplicas` | `removeExtraReplicas` |
| `HandleAbort`, `HandleFailure` | the error returns of `Apply` and `Resync`, `recordFailedStatus` |
| `Rollback`, `Restore` | `rollbackRuntime` with `removeOwnedContainersForGeneration` and `restorePreviousRuntime` |
| `RefreshEndpoints`, `StartPorts`, `SaveRuntime`, `SaveStatus` | the end of `Apply` and of `Resync` |
| `Resync`, `Remove`, `RemoveOwnedContainers`, `DeleteRuntime` | `Manager.Resync`, `Manager.Remove`, `Store.DeleteRuntime` |
| `Cancel`, `Terminate`, `Exit`, `Crash`, `Restart` | the request context, SIGTERM in `serve`, the process and systemd, `Load` |
| `ContainerReady`, `ContainerRevives`, `ContainerStops` | Docker |

A container is its name (deployment, revision, replica, surge suffix), the two
labels the code decides by (spec hash, generation) and a state. A document is a
member of `Versions` whose deployments are given by `Template`. Image,
environment, mounts and commands are the spec hash: `containerNeedsRecreate`
looks at nothing else. Errors the code swallows keep their effect: a failing
inspect reads as "does not exist", a failing label lookup as "has not drifted",
a container that cannot be inspected is left out of the endpoints. A document carries
no generation (the agent then counts) or any other than 0, since validation does not look
at it; rollback removes nothing of a generation below zero (`CleansUp`).

### `Listeners`: several Runtimes, their claims on ports and routes

State: `specs`, phases, spec files, the route table, the open ports, the
process, the operation in progress with the ports it has still to start and
stop, and the Runtimes that `Load` or `Resync` has still to visit. A document is
what admission sees of it, a set of claims: service listeners and ingress routes
(port, host, path). `Conflict` is `validateGlobalPortConflicts` for a pair.
`Provision` stands for the Docker work of `Rollout`, by its three outcomes:
done; failed outside `reconcileDeployments` (`"provider"`); failed inside it
(`"deploy"`, rolled back when there is a previous Runtime). `Load` applies the
files in key order and ends the process at the first that is refused or fails.
Admission also asks `Capacity` (below) whether the node has what the documents
request together.

The variable `failed` records which kinds of failure there have been, so that a
property can say until which failure it holds.

### `AuditLog`: the log file shared by processes

State: the paths that exist (the log is path 0, its backups 1 to `MaxBackups`) with
the numbers of the events in them, the order of writing, and what each process is
doing. One step is one system call, because the mutex of `AuditLogger` serialises
only the calls of one process, while the `backup` and `restore` commands append to
the same file. An open file follows renames and survives its removal.
`BeginAppend` to `WriteEvent` are `Append` and `rotateIfNeeded`; `BeginRead`,
`ReadFile` and `EndRead` are `Read` for `GET /audit`. The auxiliary `overlapped` says
that two processes have been in the log at once. Event sizes are 1 and queries
filter by actor. The events a query keeps of a file are those at the matching places
(`Along`, `Ranked` of module `Ranking`), which can be proved about. With the configuration's defaults and checks `MaxBackups` is at
least 1, so the branch that truncates the log is never taken and is left out.

### `Capacity`: what Scheduler Lite adds up

Operators without state, used by `Listeners`: `runtimeResourceRequest`,
`resourceSnapshotFor` and `validateNodeCapacity` in int64 (`Wrap`), with the
amounts that parsing drops (`Parse`: a whole number too large for int64 is an
error the callers ignore together with the amount, a fraction is added
unchecked). `MaxInt` is a constant, so that sums wrap in a small instance.
`Fits` and `Overflows` are the reference: the same sums in unbounded integers. A sum
is the number of units it counts (`Total`, a cardinality), which can be proved about
where a fold cannot; int64 arithmetic is exact modulo 2^64, so one `Wrap` of the last
sum does what the code does at every step.

### `StateStore` and `DurableMap`: the files, one system call at a time

State: spec, status, event and legacy files, the backup archive, `m.specs`, the
operation in progress with the store calls it has left, the backup command.
`os.WriteFile` is an open that truncates and a write, so every file can be `Torn`.
Each operation of the agent (`Apply` with its three outcomes, `RemoveRuntime`,
`Resync`, `Start` for `Load`) and `Restore` is the sequence of store calls it makes;
`Must` and `Try` say whether an error ends it or is logged. `Proceed` makes the next
system call, `Fail` fails it, `Kill` kills the process. The backup reads beside
the agent (`BeginBackup`, `BackupRead`, `BackupWrite`: `WalkDir`'s listing, then
file by file).

`DurableMap` is what the rest of the agent takes the store for: a map from keys to
documents; an operation is granted values for keys, stores only those, one key
at a time and atomically, and only an entry it may write a document to can be
lost. `StateStore` implements it (`ImplementsDurableMap`): the entry of a key is
the content of its spec file, or, while that file is open for writing, what it
held before.

### `SelfHeal`: restart records and time

The replicas of one deployment, each with its container's state and its
`restartRecord`; an operation at a place and a replica; time in ticks. `VisitAbsent`,
`VisitUp`, `Heal`, `RemoveContainer`, `RunContainer` and `WaitReady` are the loop of
`ensureDeployment` with `healContainer`; `Abort` is its return at the first error.
Any set of replicas may be `broken` (their containers never become ready).
Auxiliary variables count restarts and measure the time between them.

### `Proxy`: requests beside the Manager

One ingress port shared by Runtimes: `m.specs`, the ordered routes of the port,
the endpoint cache, the round-robin counters, the update in progress, and
requests in slots. A request takes three steps, one per acquisition of `m.mu`:
`Resolve`, `ReadEndpoints`, `PickNext` or `PickSticky`. `Update` and `Install` are the
two places where `Apply` changes what requests see. The stable sort of `sortRoutes`
and the sort of endpoints are `Ranked` (module `Ranking`): the members of a set by how
many are before them in an order. `Admissible` compares the routes of a document with one another
and with those of the other Runtimes, as admission does. A path is the sequence of its
characters: admission compares and `sortRoutes` measures the path as it was written,
slashes at its end included, while `pathMatchesPrefix` leaves these out (`Trimmed`). The
relation of request paths and prefixes is the constant `Serves`.

### `Documents`: text to document and back

`ParseRuntimeDocument` as operators: `HasTemplateToken`, `ToRuntime` for legacy
documents, `NormalizeRuntime`, `ValidateRuntime`, and the forms in which documents
are written (`SpecFile`, `ClientBody`). Strings are members of a small set, and
what the code does to strings is a table over it, so that blanks, padding and
case exist without characters. The text of a document has the keys of its maps
(`MapKeys`): `HasForbiddenField` compares them as they are written, before they are
trimmed. `Readable` says which documents have a text that `ParseRuntimeDocument` does not
refuse for a token or a key. Checks of one field that look at nothing else
(resources, health check, volumes, base64) are one flag.

### `Api`: requests, roles and audit events

Clients with a request each: `Request` (security, decoding and the handler up to
the Manager call), `BeginApply`/`EndApply`, `BeginRemove`/`EndRemove`, `GetRuntime` and
`ReadRuntime` (two reads without the lock), `Audit`, `Close`; `ClientApply` is the
command line client; `Crash` and `Restart` go through the spec files with
`Documents`. The Manager is reduced to documents in memory and on disk.

### `MCRollout`, `MCListeners`, `MCStateStore`, `MCProxy`, `MCApi`

The instances. `MixedTemplate` has one deployment that keeps its revision (drift
is found by hash and replaced under the same name, with surge) and one that
changes it (new names, old ones extra) and that a third document drops.
`SurgeTemplate` scales and changes one deployment with surge, `RecreateTemplate`
without. `SomeGenerations` lets a document ask for a generation that is in use and for one
below zero. `ServiceAndIngress` has services on a common port, ingress documents that
can share a port and ones that collide through the wildcard host; `CpuAndPids`
gives them requests that fit exactly, do not fit, wrap around and cannot be
parsed. `MCProxy` has a document that moves a path to another service and a deeper
route of the other Runtime, as long as a shorter one that ends in two slashes. `MCApi`
has files that leave out, pad or contradict fields, legacy ones among them, and files
whose environment has an escaped token, the forbidden key, or that key padded.

### `RankingProofs`, `RolloutProofs`, `ListenersProofs`, `StateStoreProofs`, `AuditLogProofs`, `SelfHealProofs`, `ProxyProofs`, `ApiProofs`

The theorems about the module each extends, section 5; `RankingProofs` has the lemmas
that both `AuditLogProofs` and `ProxyProofs` need. The strengthenings the
proofs need are at the end of the component's module, so that TLC can check them
as further invariants of that component's run, as was done before they were proved;
what only one proof needs (the shape of a record, a finer reading of an order) is
defined beside it.

## 3. Runs

The failure kinds an instance has are its constant `Faults`; each kind is a
disjunct of the action in which the command or write occurs, and `MaxFaults`,
`MaxStops`, `MaxCrashes` and `MaxGeneration` bound how often (`MaxGeneration` bounds the generations the agent counts).
Two failures are
enough for "the update fails and so does its clean-up", one stop for "the
container dies while something else goes wrong", one crash for "the agent dies
between any two steps and loads what it finds". Two generations and two or
three documents give first install, update, and re-apply; two replicas or two
deployments give "the first was replaced, the second failed". Two Runtimes are
enough for every pairwise conflict; three ports let a document give up one port,
keep one and take one.

| Run | Instance | Shows |
|---|---|---|
| `rollout_mixed` | three documents, two deployments, generations counted, in use or below zero, two failures of any kind except a misread label and a failed write | `TypeOK`; `DiskAgrees`; `RollbackUndoes`; `AppliedMeansDeployed`; `DeletedMeansGone` |
| `rollout_crash` | scaling and surge of two replicas, one failure of any kind, one stop, one crash or SIGTERM | the three properties that survive everything: `RunningMeansCached`, `RollbackUndoes`, `SurgeKeepsReplica` |
| `rollout_recovers` | two documents without surge, under counted and negative generations, one failure, stop and crash, with fairness | `Recovers` |
| `listeners` | two Runtimes, six documents, a node of 4 cpu units counted up to 7, any two failures, one crash | `TypeOK`, `RouteIsolation`, `ClaimsDisjoint`, `DiskLoadable`, `ListenersMatchRoutes`, `RunningIsRouted`, `NotOvercommitted` |
| `audit_log` | agent and one command, two backups of two events, seven events (so that the oldest backup is dropped), one kill | `TypeOK`, `FilesBounded`; while processes do not overlap `NoGaps`, `ReadsLatest`, and without a kill `RotationKeeps` |
| `self_heal` | two replicas, limit 2, backoff 1 tick, any of them broken, one stop, one failing command, one removal, with fairness | `HealsBounded`, `BackoffHonoured`, `ReadyHasNoMessage`, `DownIsHandled` |
| `state_store` | two Runtimes, one with a legacy file, two operations, a backup, two restores, one failing call, one kill | `ImplementsDurableMap`, `AckedSurvives`, `BackupComplete`, `RestoreBrings` |
| `proxy` | two Runtimes with two documents each on one port, paths that end in none, one and two slashes, two requests at once and three in all, three operations, one failed update | `LongestPrefixWins`, `UpdateDropsNothing`, `ClientsStick`, `RoundRobin` |
| `api` | two clients, all roles, every endpoint, one failure, one crash; one file meets all requests, the others are applied in both ways | `ReloadsTheSame`, `AuditTellsTruth`, `OnlyOperatorsChange`, `GetIsCurrent` |

Two restores are enough for "the first was cut short, the second must still bring
everything"; two operations for "what the first acknowledged, the second must
not lose"; a limit of two restarts for a growing backoff and a limit that is
reached; three operations for an order of routes that depends on history and an
update in the middle of a request.

Where a failure is excluded, by the instance or by the property itself, it
falsifies the property. `RollbackUndoes` speaks of positive generations, since
nothing is removed of a negative one (section 4).
`AppliedMeansDeployed` is false with a label lookup that
fails (the old container is kept and success reported), `DiskAgrees` with failing
writes, `DeletedMeansGone` with a crash. The properties of `Listeners` hold until
one kind of failure happens: `RouteIsolation` until a `"provider"` failure,
`ClaimsDisjoint` until a `Remove` fails half way, `DiskLoadable` until that or a
failed write, `ListenersMatchRoutes` until a refused port, `RunningIsRouted` until an
`Apply` has failed anywhere (`Resync` then reports `Running` from the endpoints
alone), `NotOvercommitted` as `ClaimsDisjoint` for memory and `DiskLoadable` for the
files, and until a sum has wrapped (`"overflow"`, which is not a failure of the world but of
the arithmetic). `LongestPrefixWins` holds until an update has failed: its old
routes are then served and no longer protected by admission; and it leaves out a request
that a route ending in two slashes matches (section 6). `BackupComplete`
leaves out a backup during which a listed file vanished, `AckedSurvives` a deleted
Runtime that has a legacy file, `ReloadsTheSame` and `GetIsCurrent` a document that is not
`Readable`: one with an escaped template token or with the forbidden key in a map
(section 4). `RotationKeeps` is false
after a kill in the middle of a rotation (the next rotation drops a backup although
one number is free), and nothing but the bound on sizes survives two processes
rotating at once.

Deadlock is checked in the runs of `Rollout`, `Listeners`, `AuditLog` and `SelfHeal`. In
`StateStore` a torn spec file keeps the agent down until it is restored, in `Api` a
spec file that is refused does, and in `Proxy` the bounds on requests and
operations end the run: those may stop.

**Fairness** (`rollout_recovers`). An operation in progress takes its steps
(`WF(Step)`): every Docker command has a context and returns. `Resync` is taken
if it can be taken again and again (`SF`): the ticker of `StartRuntimeResync` does
not stop, and Go's mutex hands itself to a waiter that has waited too long, so a
stream of `Apply` requests cannot starve it. A container that is starting becomes
ready (`WF`): a document whose containers never do is not expected to run; a
container that is down need not come back by itself. A process that failed is
started again (`WF` of `Restart` from `"down"`): `deploy/systemd/aifar-runtime.service`
has `Restart=on-failure`; after SIGTERM nothing is assumed. There is no fairness
on `Apply`, `Remove`, failures, stops or crashes.

**Fairness** (`self_heal`). The ticker keeps calling `Resync` (`WF`), an operation that
has begun goes on (`WF(Works)`), time passes (`WF(Tick)`) and a container that starts
becomes ready or goes down (`WF(Docker)`). Nothing is assumed of `Apply`, `Remove`,
failures, stops or Docker's restart policy.

## 4. Where the code and its documents differ

Each is a run TLC must find violated; the finding in `PROJECT.json` quotes the
document.

* `rollback_keeps_online`: a rollback after some replicas were replaced does not
  bring their previous containers back. (`Resync` later starts them anew.)
* `backup_partial`: `LoadAll` ignores "does not exist" for the whole walk. A Runtime
  deleted between the listing and the reading of its file ends the walk, and the
  backup succeeds without the Runtimes after it.
* `cli_apply`: the client sends compact JSON, which always ends with two closing
  braces, and the server refuses any text with two closing braces in a row as a
  template token: `apply` and `reconcile` of the command line never succeed.
  (An indented document sent by other means is accepted.)

Other disagreements the models show, without a run of their own; the property
that meets them names the condition under which it holds:

* Errors of the network, of the endpoint refresh and of a port are not rolled
  back: they overwrite the previous spec and status (`manager.go:144`; `SKILL.md:35`
  says the previous ones are restored).
* `removeOwnedContainersForGeneration` returns at once for a generation of 0 or less, and
  a document may carry a negative one: a failed update then leaves its containers, and
  the status says `RollbackComplete` (`rollback.go:77`; `README.md:16`). `RollbackUndoes`
  is violated in `rollout_mixed` if its condition `CleansUp` is dropped.
* A map key such as `" registryProjections"` is not the forbidden one in the text that is
  applied, and is in the spec file, which is written after keys have been trimmed.
  `LoadAll` refuses the file, and the agent does not start (`spec.go:840`;
  `docs/aifar-runtime-design.md:80`, `docs/operations-runbook.md:90`).
* The spec file is written at the end of `Apply`; after a crash in the first
  `Apply`, `Remove` finds no Runtime, looks for no container and reports `Deleted`
  (`manager.go:232`; `DeletedMeansGone` is checked without a crash).
* A port that cannot be bound ends `Apply` before the ports it no longer needs are
  stopped; nothing stops them afterwards (`manager.go:165`; `README.md:19`).
* `Resync` reports `Running` for a Runtime whose routes were never installed
  (`reconcile.go:22`; `docs/config-reference.md:145`).
* After an update failed in the endpoint refresh, its old routes still serve while
  admission compares with its new document (`scheduler.go:79`;
  `docs/config-reference.md:132`).
* Agent and command both find the audit log full; the second removes the backup
  the first has just made (`audit.go:242`; `docs/config-reference.md:50`).
* Requests whose sum exceeds int64, or that cannot be parsed, are admitted
  (`scheduler.go:242`; `docs/config-reference.md:134`).

## 5. Proofs

The theorems hold for every value of the constants that satisfies the assumptions
of the modules (which TLC evaluates in each run): any Runtimes, documents,
deployments, replicas, ports, processes, clients, slots, texts and policies, and any
bounds on failures, stops, crashes, operations and generations. Every property is
proved in the same way: an invariant of the whole state that is inductive, from
`Init`, by one lemma or step per action, and an implication at the end.

| Property | Theorem | Besides type correctness it rests on |
|---|---|---|
| `Rollout!TypeOK` | `RolloutProofs!TypeCorrect` | `Control`, `Placed` |
| `RunningMeansCached` | `RunningIsCached` | `Reported` |
| `DiskAgrees` (with `"save" \notin Faults`) | `MemoryIsOnDisk` | `DiskFollows` |
| `RollbackUndoes` | `RollbackUndoesAll` | `Accounted`, `SurgeIsNew`, `CleanedUp` |
| `SurgeKeepsReplica` | `ReplicaKept` | `CanonicalFirst`, `SurgePair` |
| `DeletedMeansGone` (also `MaxCrashes = 0`) | `DeletedIsGone` | `DiskFollows`, `Owned` |
| `AppliedMeansDeployed` (with `"hash" \notin Faults`) | `AppliedIsDeployed` | `Deployed` |
| no two containers have one name | `NamesUnique` | `Control` |
| `Listeners!TypeOK` | `ListenersProofs!TypeCorrect` | |
| `RouteIsolation` | `RoutesIsolated` | `Control`, `RoutesAreClaimed` |
| `ClaimsDisjoint` | `RuntimesCompatible` | `Control`, `NothingForgotten` |
| `DiskLoadable` | `DiskStaysLoadable` | `Control`, `InSync` |
| `ListenersMatchRoutes` | `ListenersAreRoutes` | `Control`, `ListenersTrack` |
| `RunningIsRouted` | `RunningReachable` | `ListenersTrack`, `AllRouted` |
| `NotOvercommitted` | `NeverOvercommitted` | `NothingForgotten`, `InSync`, `RollbackFits` |
| `StateStore!TypeOK` | `StateStoreProofs!TypeCorrect` | `Control`, `CallsGranted` |
| `ImplementsDurableMap` | `FilesAreAMap` | `Control`, `CallsGranted` |
| `AckedSurvives` | `AnswersSurvive` | `AckedKept`, `AcksDelivered` |
| `BackupComplete` | `BackupsComplete` | `BackupSeen` |
| `RestoreBrings` | `RestoresComplete` | `AcksDelivered`, `RestoreProgress` |
| `AuditLog!TypeOK` | `AuditLogProofs!TypeCorrect` | `RoomForEvents`, `EventsOK` |
| `FilesBounded` | `SpaceIsBounded` | `RoomForWriters` |
| `NoGaps` | `OrderKept` | `Alone`, `Emptied`, `InOrder` |
| `RotationKeeps` | `RotationKeepsEnough` | the same, `Packed`, `Deep`, `EnoughKept` |
| `ReadsLatest` | `QueriesAnswerLatest` | `InOrder`, `FoundSoFar` |
| `SelfHeal!TypeOK` | `SelfHealProofs!TypeCorrect` | |
| `HealsBounded`, `ReadyHasNoMessage` | `RestartsBounded`, `ReadyIsClean` | `RecordsTell` |
| `BackoffHonoured` | `RestartsWait` | `RecordsTell`, `TimeIsKept` |
| `Proxy!TypeOK` | `ProxyProofs!TypeCorrect` | `Listed`, `Counted` |
| `LongestPrefixWins` | `LongestPrefixAlwaysWins` | `Routed` |
| `UpdateDropsNothing` | `UpdatesDropNothing` | `Expected` |
| `ClientsStick` | `ClientsAlwaysStick` | `Selected` |
| `RoundRobin` | `RoundRobinAlways` | `Even` |
| `AuditTellsTruth`, `OnlyOperatorsChange` | `ApiProofs!AuditAlwaysTellsTruth`, `OnlyOperatorsAlwaysChange` | `AllHonest` |
| `ReloadsTheSame` | `DocumentsReload` | `AllSettled` |
| `GetIsCurrent` | `GetsAreCurrent` | `AllSettled`, `InCharge`, `SeesStored` |

Hypotheses. Three theorems of `RolloutProofs` exclude a failure that falsifies the
property (section 3): no failing write of a state file, no crash, no misread hash
label. These are the constants of `rollout_mixed`, the run that checks the
properties. Every other exclusion is part of the property itself (`failed`,
`overlapped`, `vanished`, ... on its left-hand side), and each is needed. What
`ApiProofs` assumes of strings is `TextsAssumption`, which `strings.TrimSpace`,
`ToLower` and the added `/` satisfy: trimming twice, folding twice or trimming what was
folded or given a `/` changes nothing more, nothing that is not blank becomes blank, and
DNS labels and the constants of the code have no space around them. What it
assumes of documents is the shape of the Go structs (`IsDocument`, `IsLegacy`): which
fields there are, and which of them are strings or maps of strings.

### The arguments

**`Rollout`.** `Control` and `Placed` say what each place `pc` implies: which operation
is there, that its document is the one in memory, and that the loop is at a
deployment and a replica of it. A status is `Running` only where the endpoints of the
document are cached (`Reported`): this must also be said of what a rollback restores
and of what a restart reads, or a step that puts it back breaks the property. A
rollback undoes everything because a container that `Apply` did not find carries the
new generation (`Accounted`), also while it has the surge name (`SurgeIsNew`), and none
of that generation is left when the previous Runtime is restored, if the generation is
positive (`CleanedUp`). A surge
keeps its replica because, from the first look at it to the rename, there is the old
container or the replacement under one of the two names (`SurgePair`), and a
replica is always looked at under its canonical name first (`CanonicalFirst`).
`Deployed` is the loop invariant of `reconcileDeployments`: earlier deployments are as
the document says, and so are the replicas before this one; it uses that the
deployments of a document have different names (`TemplateAssumption`, which
`ValidateRuntime` checks), so that the work on one leaves the others alone.

**`Listeners`.** `Control` ties the place of the operation to the state: from admission
on, the document being applied is the one in `m.specs` and is compatible with every
other Runtime in it. `FailuresStay` says that the record of failures only grows, so
that a step before which something had failed need not be considered. Only
`NotOvercommitted` depends on the arithmetic: for the others capacity just makes
admission stricter.

* `RouteIsolation` needs `RoutesAreClaimed`: every route is a claim of its Runtime's
  document, or, while `Apply` has not reached its routes, of the document it
  replaces, which is the one a rollback restores.
* `ClaimsDisjoint` needs `NothingForgotten`: a rollback puts back `prev`, which is not
  admitted again. `prev` is either what `m.specs` held (compatible then, and nobody
  else changes while the operation runs) or what only the disk held; the second
  happens only for a Runtime still to be loaded or just being removed.
* `DiskLoadable` needs `InSync`: memory and disk agree on every Runtime that is not
  being worked on.
* `ListenersMatchRoutes` needs that `starts` and `stops` are what separates the open
  ports from the routed ones while `Apply` works (`ListenersTrack`); `RunningIsRouted`
  that the routes of every Runtime in memory are installed (`AllRouted`).
* `NotOvercommitted`: what admission computes is the true sum when that fits int64,
  because no product or sum on the way is larger (`RequestedIsTrue`), and fewer
  Runtimes ask for less (`FewerFit`). A rollback asks nobody, so the invariant says
  that what it would put back fits too (`RollbackFits`): it was in memory when the
  operation began, or is the document just admitted. On disk the sum is that of
  memory, by `InSync`.

**`StateStore`.** The invariant is about the calls an operation has left: each is about
a key and a value it was granted, a write follows the open of the same file
(`CallsGranted`, `WellFormed`). With it each system call maps to a step of
`DurableMap` or a stutter. `AckedSurvives` needs the promise in the middle of an
operation: what it is going to answer for a key is either stored or will be, by a call
whose error ends the operation (`AcksDelivered`). `BackupComplete` needs that what the
backup has read of a file was its content at some moment since the listing
(`BackupSeen`); `RestoreBrings` that the runtimes a restore has passed are restored, and
how far it is with the one at hand (`RestoreProgress`).

**`AuditLog`.** Several processes race through the same code; what bounds a file is
that its length and the number of processes about to write it together stay below
the limit plus all processes (`RoomForWriters`, a statement on cardinalities). The
order needs where a rotation is: the path behind the one it is at is empty
(`Emptied`), each file holds consecutive events, older ones than the files before
it (`InOrder`). That nothing is lost too soon needs that no backup is missing before
another (`Packed`) and that a backup has a full file of newer events for each path
before it (`Deep`). A query drops what exceeds tail after every file, long before it has
seen the newest: `FoundSoFar` says that it has the latest matching events of the files
read so far (`KeptBehind`), and `LatestStep` that cutting again behind a file of newer events
gives the latest of both; that the next file is newer is `InOrder`.

**`SelfHeal`.** `RecordsTell`: the auxiliary count of restarts is the streak of the
record. `TimeIsKept`: what is left to wait and what has passed since the last restart
make up its backoff, also after the Runtime was removed.

**`Proxy`.** `Routed` says that the table is ordered by the length of prefixes, and that,
until an update has failed, its routes are those of documents that were admitted
together: two routes that match one request then have prefixes of different length.
For a prefix with at most one slash at its end matches only a request whose path it begins
(`ServedPrefix`), and two beginnings of one path that are equally
long are equal, which is the conflict admission looks for (`MatchesConflict`).
`Expected` follows a request from its first critical section: the service has had
endpoints at every moment since, or its answer is in doubt. `Even` is the argument
for round robin, for a list of any length: the picks of
a list are whole rounds and a part of one that ends at the counter.

**`Api`.** `Honest` says for each stage of a request who sent it, which Runtime it may
change, and what its event will say; the key of a parsed document is the key
of the path it was compared with, trimmed or not (`KeyFacts`, `ParsedFacts`).

* `ReloadsTheSame` needs how often a document must be normalised until it no longer
  changes. Once is not enough: the default label `app` is put into a selector before
  keys are trimmed, where a padded `app` with a blank value replaces it, and only the
  next pass puts it back. Twice is (`DocumentPass`, `DocumentTwice`, part by part). `Parsed` is
  two passes at least, so what a request carries is a fixed point, assigning a node
  keeps it one (`AssignedFacts`), and so is all that memory, spec files and `prev` hold
  (`AllSettled`).
* `GetIsCurrent` needs what a `GET` that missed in memory may still count on until it
  reads the file (`SeesStored`): if the Runtime is in memory by then, it has seen
  what is stored; if an `Apply` of it is in progress, also what a rollback would write.
  That what a step writes to the store is what the `GET` has seen in memory is
  `InCharge`: `reconcileMu` has one holder, whose document is in memory until it
  ends, or gone from it while `Remove` works.

### Only model-checked

* `Recovers` and `DownIsHandled`: liveness under fairness is beyond the prover. Every other
  property of a passing run is the statement of a theorem.

## 6. What is not modelled

* Configuration: parsing, defaults and environment overrides are pure; what they
  guarantee (a positive restart limit, at least one audit backup) is an assumption
  of the module that needs it.
* The conditions and per-resource phases of a status (`status.go`): derived from
  what `Rollout` has and read by nothing. A deployment that no service selects has
  no endpoints and keeps its Runtime `Degraded`; validation does not ask for one.
* Checks of single fields in `ValidateRuntime`, the characters of strings.
* Metrics, logging, the command runner, the release tool, TLS, the commands that
  only print a response, and the text of statuses and events.
* The proxy state file: it is written and never read.
* Event files are never trimmed (a query only answers with the last events), so
  their size is no concern of a property; their content after a restore is.
* Containers removed by hand, and two agents on one host.
* What `net/http` does before a handler runs. Its multiplexer answers a path that is not
  clean with a redirect (301); the audit middleware around it then records an apply or a
  delete that succeeded although nothing was changed. `Api` begins at the handlers.

Behaviours seen in the models that have no run of their own:

* After a `Remove` whose container removal failed, the status file says
  `Terminating` though nothing is being removed; a restart applies the Runtime
  again. Until then its document is on disk only, where admission does not look:
  another Runtime may be given its port, after which a failing `Apply` of the first
  restores it from disk beside the other (`ClaimsDisjoint` and `DiskLoadable` fail
  with `"rm"`).
* With surge and two failures `Recovers` fails: an update that failed at the
  network is redone by `Resync`; if the removal of an old container fails there, its
  replacement keeps the surge name, which every later `Resync` of the same
  generation wants again, and none of them succeeds.
* `/a//` and `/a/b` are different paths for admission and equally long for `sortRoutes`,
  and both match a request for `/a/b`: the name of the service decides, and
  `LongestPrefixWins` fails. `/a///` is longer than `/a/b` and wins, although it says less.
* A deleted Runtime that has a file of the previous release is back after the
  next start: `DeleteRuntime` does not remove that file.
* `Load` writes every spec file again at every start, so a kill during start can
  tear a file nobody changed; the agent then stays down until it is restored.
* A backup that fails has already truncated an archive of the same name.
* `docker run` that fails is tried again by every `Resync` without being counted or
  delayed; only restarts of existing containers are.
* With self-heal disabled the message of a container that recovered stays. A
  replica that never becomes ready fails `Load`, and with it the process, whose
  restart forgets the record of restarts.
* A template token written with an escape is accepted, and the spec file made of
  it is refused at the next start. Before that it can make a `GET` wrong: a `Remove`
  that failed has forgotten the Runtime and kept its file; if an `Apply` of such a document
  ends between the two reads of a `GET`, the second finds a file that cannot be
  parsed, and the answer is 404 although the Runtime was there all the time.
* `DELETE` of a padded name removes the Runtime of the trimmed name; the audit
  event has the padded one. A legacy reconcile is audited without a target.
* A client that disconnects after the documents are written is answered (and
  audited) as failed although `Apply` is complete.
* Renaming the node keeps the agent down: the saved documents carry the old name.

## 7. Plan

What is left: a second Runtime behind one that keeps failing (`Resync` returns early), as a
liveness property of `Listeners`.
