------------------------------ MODULE Rollout ------------------------------
(***************************************************************************)
(* How the Manager brings the containers of ONE Runtime to its desired     *)
(* state: Apply, Resync, Remove and Load, with surge replacement, self-heal *)
(* restarts, rollback, and the status and state files they write.           *)
(*                                                                         *)
(* Granularity.  One step is one Docker command that changes something (or *)
(* a run of reads before it), or one write of the state store.             *)
(* `reconcileMu` makes Apply, Resync and Remove mutually exclusive, so at  *)
(* most one operation is in progress; what interleaves with its steps is   *)
(* Docker (containers become ready or stop), failing commands, a client    *)
(* that disconnects, SIGTERM, and a crash of the agent.                    *)
(*                                                                         *)
(* Failures covered: each Docker command and the writes whose errors end   *)
(* Apply, Resync or Remove may fail (the kinds in FaultKinds; a run picks  *)
(* some of them and bounds their number; writes whose errors are ignored   *)
(* succeed), request contexts are cancelled, the agent dies between any    *)
(* two steps and is restarted.  Containers only disappear through the      *)
(* agent.                                                                  *)
(*                                                                         *)
(* Abstractions: an applied document is one of Versions (already valid and *)
(* admitted; admission is module Listeners); the image, environment, mounts *)
(* and commands of a deployment are its spec hash; every deployment is     *)
(* selected by a service; the proxy's routes and ports are in Listeners;   *)
(* restart counters and backoff decide only whether a restart is declined. *)
(***************************************************************************)
EXTENDS Integers, Sequences, FiniteSets

CONSTANTS
  Versions,        \* the Runtime documents an operator may apply
  NoVersion,       \* stands for "no document"
  Template,        \* Template[v]: the deployments of v, in document order
  Deployments,     \* deployment names
  Revisions,       \* deployment revisions
  Hashes,          \* deploymentSpecHash values
  MaxReplicas,     \* bound on replicas of a deployment
  MaxGeneration,   \* bound on metadata.generation
  ExplicitGens,    \* generations an applied document may carry itself, negative ones too
  Faults,          \* the kinds of failure of this instance
  MaxFaults,       \* bound on the number of failures
  MaxStops,        \* bound on containers that exit or turn unhealthy
  MaxCrashes       \* bound on crashes and terminations of the agent

FaultKinds ==
  {"network", "inspect", "hash", "state", "heal", "pull", "run", "ready",
   "rm", "rename", "ps", "endpoints", "listen", "save", "cancel"}

DeploymentSpec ==
  [name : Deployments, revision : Revisions, hash : Hashes,
   replicas : 0..MaxReplicas, surge : BOOLEAN]

ASSUME ConstantsAssumption ==
  /\ NoVersion \notin Versions
  /\ MaxReplicas \in Nat /\ MaxGeneration \in Nat \ {0}
  /\ MaxFaults \in Nat /\ MaxStops \in Nat /\ MaxCrashes \in Nat
  /\ ExplicitGens \subseteq Int /\ \A g \in ExplicitGens : g <= MaxGeneration
  /\ Faults \subseteq FaultKinds

\* ValidateRuntime requires at least one deployment and distinct names.
ASSUME TemplateAssumption ==
  /\ Template \in [Versions -> Seq(DeploymentSpec)]
  /\ \A v \in Versions :
       /\ Len(Template[v]) > 0
       /\ \A i, j \in 1..Len(Template[v]) :
            Template[v][i].name = Template[v][j].name => i = j

VARIABLES
  containers,   \* Docker: the containers that carry this runtime's labels
  spec,         \* m.specs[key]
  phase,        \* m.statuses[key].Phase (Absent when there is none)
  endpoints,    \* m.endpoints of the runtime: names of containers
  savedSpec,    \* specs/<ns>/<name>.json
  savedPhase,   \* status/<ns>/<name>.json (Absent when there is none)
  event,        \* reason of the last line of events/<ns>/<name>.jsonl
  agent,        \* the process, see Agents
  op,           \* the operation that holds reconcileMu
  pc,           \* where it is
  cur,          \* the Runtime it reconciles
  prev,         \* Apply: previousRuntime, previousStatus, hasPrevious
  at,           \* loop variables of reconcileDeployments and ensureDeployment
  target,       \* the name runContainer is starting: canonical or surge
  live,         \* the operation's context is not cancelled
  before,       \* auxiliary: the containers there were when Apply began
  faults, stops, crashes

mem == <<spec, phase, endpoints>>
disk == <<savedSpec, savedPhase>>
frame == <<agent, op, cur, prev, live, before>>
place == <<pc, at, target>>
budget == <<faults, stops, crashes>>
vars == <<containers, mem, disk, event, frame, place, budget>>

-----------------------------------------------------------------------------
(* Data *)

\* ValidateRuntime does not look at metadata.generation; Apply replaces only a 0.
Generations == 0..MaxGeneration \cup ExplicitGens
Runtime == [version : Versions \cup {NoVersion}, generation : Generations]
NoRuntime == [version |-> NoVersion, generation |-> 0]

\* "down" is a process systemd restarts (it crashed, or Load failed), "stopped"
\* one that was asked to stop.
Agents == {"loading", "serving", "failing", "stopping", "down", "stopped"}

Absent == ""
Phases == {Absent, "Pending", "Pulling", "Starting", "Running", "Degraded",
           "Updating", "Failed", "Terminating"}

Events == {Absent, "ApplyStarted", "Applied", "ReconcileFailed", "DeleteStarted",
           "Deleted", "ContainerRestarting", "RollbackStarted",
           "RollbackComplete", "RollbackFailed"}

Name ==
  [deployment : Deployments, revision : Revisions,
   replica : 1..MaxReplicas, surge : Generations]

\* A container: its name and its labels.  The deployment, revision and replica
\* labels always repeat the name; rename changes the name's surge suffix only.
\* "down" is a container that exited or whose health check is failing.
Container ==
  [name : Name, hash : Hashes, generation : Generations,
   state : {"starting", "ready", "down"}]

NoPrevious == [has |-> FALSE, runtime |-> NoRuntime, phase |-> Absent]
Start == [d |-> 1, r |-> 1]

Named(n) == {c \in containers : c.name = n}

\* The document's deployments and the one the loop is at.
DeploymentsOf(rt) == Template[rt.version]
Here == DeploymentsOf(cur)[at.d]

\* Mutant: replicas are numbered from 0.
ZeroBasedName(d, r) ==
  [deployment |-> d.name, revision |-> d.revision, replica |-> r - 1, surge |-> 0]

\* containerNameForDeployment: namespace and name are fixed here.
ContainerName(d, r) ==
  [deployment |-> d.name, revision |-> d.revision, replica |-> r, surge |-> 0]

CanonicalName == ContainerName(Here, at.r)

\* The name replaceContainerWithSurge gives the replacement.
SurgeName == [CanonicalName EXCEPT !.surge = cur.generation]

TargetName == IF target = "surge" THEN SurgeName ELSE CanonicalName

\* Every replica a Runtime asks for, by name.
Canonical(rt) ==
  UNION {{ContainerName(DeploymentsOf(rt)[i], r) :
            r \in 1..DeploymentsOf(rt)[i].replicas} :
         i \in 1..Len(DeploymentsOf(rt))}

\* NewStatusWithOptions with phase Running and no error.
ObservedPhase(rt, eps) ==
  IF Canonical(rt) \subseteq eps THEN "Running" ELSE "Degraded"

\* discoverEndpoints for every service: `docker ps` lists running containers
\* of the deployments of rt, and only ready ones become endpoints.
ReadyNames(rt) ==
  {c.name : c \in {k \in containers :
     /\ k.state = "ready"
     /\ \E i \in 1..Len(DeploymentsOf(rt)) :
          DeploymentsOf(rt)[i].name = k.name.deployment}}

\* What removeExtraReplicas selects from the containers of a deployment.
IsExtra(c, d) ==
  /\ c.name.deployment = d.name
  /\ \/ c.name.replica > d.replicas
     \/ c.name.revision # d.revision

\* removeOwnedContainersForGeneration returns nil at once for other generations.
CleansUp == cur.generation > 0

\* Mutants: rollback filters by the generation it goes back to, or leaves out
\* the containers whose names the spec does not derive.
IsPreviousGeneration(c) == CleansUp /\ c.generation = prev.runtime.generation
IsFailedReplica(c) == CleansUp /\ c.generation = cur.generation /\ c.name.surge = 0

\* What it removes otherwise.
IsFailedGeneration(c) == CleansUp /\ c.generation = cur.generation

\* A container without the part of it that Docker changes.
Labels(S) == {[name |-> c.name, hash |-> c.hash, generation |-> c.generation] :
              c \in S}

TypeOK ==
  /\ containers \subseteq Container
  /\ spec \in Runtime /\ phase \in Phases /\ endpoints \subseteq Name
  /\ savedSpec \in Runtime /\ savedPhase \in Phases
  /\ event \in Events
  /\ agent \in Agents
  /\ op \in {"none", "apply", "resync", "remove"}
  /\ pc \in {"idle", "network", "inspect", "state", "replace", "pull", "run", "wait",
             "surgeRemove", "surgeRename", "extra", "abort", "fail", "cleanup",
             "restore", "restoreUnclean", "refresh", "ports", "saveRuntime", "saveStatus", "removeOwned",
             "delete"}
  /\ cur \in Runtime
  /\ prev \in [has : BOOLEAN, runtime : Runtime, phase : Phases]
  /\ at \in [d : Nat, r : Nat]
  /\ target \in {"canonical", "surge"}
  /\ live \in BOOLEAN
  /\ before \subseteq
       [name : Name, hash : Hashes, generation : Generations]
  /\ faults \in 0..MaxFaults /\ stops \in 0..MaxStops
  /\ crashes \in 0..MaxCrashes

-----------------------------------------------------------------------------
(* Commands *)

\* A command succeeds only while the context is alive; it may fail because the
\* context is cancelled, or because this instance has failures of its kind.
Succeeds == live /\ UNCHANGED faults

Happens(k) == k \in Faults /\ faults < MaxFaults /\ faults' = faults + 1

Fails(k) == (~live /\ UNCHANGED faults) \/ (live /\ Happens(k))

Goto(label) == pc' = label /\ UNCHANGED <<at, target>>

\* The next iteration of the replica loop of ensureDeployment.
NextReplica ==
  /\ pc' = "inspect" /\ at' = [at EXCEPT !.r = @ + 1]
  /\ target' = "canonical"

\* reconcileDeployments returned an error.
Abort == Goto("abort")

\* updateRuntimeStatus: memory and the status file, never the spec file.
UpdateStatus(p) ==
  /\ spec' = cur /\ phase' = p /\ savedPhase' = p
  /\ UNCHANGED <<endpoints, savedSpec>>

\* Mutant: serve goes on when Load has failed.
ReturnAndServe(ok) ==
  /\ op' = "none" /\ pc' = "idle" /\ cur' = NoRuntime /\ prev' = NoPrevious
  /\ at' = Start /\ target' = "canonical" /\ live' = TRUE /\ before' = {}
  /\ agent' = IF agent = "loading" THEN "serving" ELSE agent

\* The operation returns and reconcileMu is released.  A Load that failed
\* makes serve return.
Return(ok) ==
  /\ op' = "none" /\ pc' = "idle" /\ cur' = NoRuntime /\ prev' = NoPrevious
  /\ at' = Start /\ target' = "canonical" /\ live' = TRUE /\ before' = {}
  /\ agent' = CASE agent = "loading" -> IF ok THEN "serving" ELSE "failing"
                [] OTHER -> agent

Begin(kind, label, rt) ==
  /\ op' = kind /\ pc' = label /\ cur' = rt
  /\ at' = Start /\ target' = "canonical" /\ live' = TRUE
  /\ before' = Labels(containers)

-----------------------------------------------------------------------------
(* Apply *)

\* previousRuntimeState: memory first, else the state store.
PreviousRuntimeState ==
  IF spec # NoRuntime
  THEN [has |-> TRUE, runtime |-> spec, phase |-> phase]
  ELSE IF savedSpec # NoRuntime
  THEN [has |-> TRUE, runtime |-> savedSpec, phase |-> savedPhase]
  ELSE NoPrevious

NextGeneration == IF spec.generation > 0 THEN spec.generation + 1 ELSE 1

\* Apply up to its first Docker command.
BeginApply(rt) ==
  LET p == IF spec # NoRuntime THEN "Updating" ELSE "Pending"
  IN /\ Begin("apply", "network", rt)
     /\ prev' = PreviousRuntimeState
     /\ event' = "ApplyStarted"
     /\ spec' = rt /\ phase' = p /\ savedPhase' = p
     /\ UNCHANGED <<containers, endpoints, savedSpec, budget>>

\* PUT of a document that leaves metadata.generation to the agent (g = 0) or
\* sets it.
Apply(v, g) ==
  /\ agent = "serving" /\ op = "none"
  /\ g = 0 => NextGeneration <= MaxGeneration
  /\ BeginApply([version |-> v,
                 generation |-> IF g = 0 THEN NextGeneration ELSE g])
  /\ UNCHANGED agent

EnsureNetwork ==
  /\ pc = "network"
  /\ \/ /\ Succeeds /\ UpdateStatus("Starting") /\ Goto("inspect")
     \/ /\ Fails("network") /\ Goto("fail") /\ UNCHANGED <<mem, disk>>
  /\ UNCHANGED <<containers, event, frame, stops, crashes>>

-----------------------------------------------------------------------------
(* ensureDeployment *)

\* Mutant: drift is looked for in the generation label.
OlderGeneration(c) == c.generation < cur.generation

\* containerNeedsRecreate, when the label can be read
NeedsRecreate(c) == c.hash # Here.hash

\* containerExists and containerNeedsRecreate.  A failing inspect reads as
\* "does not exist", and a failing hash lookup as "has not drifted".
InspectReplica ==
  /\ pc = "inspect" /\ at.r <= Here.replicas
  /\ \/ /\ Named(CanonicalName) = {} /\ Goto("pull") /\ UNCHANGED faults
     \/ /\ Named(CanonicalName) # {} /\ Fails("inspect") /\ Goto("pull")
     \/ \E c \in Named(CanonicalName) :
          \/ ~NeedsRecreate(c) /\ Succeeds /\ Goto("state")
          \/ NeedsRecreate(c) /\ live /\ Happens("hash") /\ Goto("state")
          \/ NeedsRecreate(c) /\ Succeeds /\ Here.surge
               /\ pc' = "pull" /\ target' = "surge" /\ UNCHANGED at
          \/ NeedsRecreate(c) /\ Succeeds /\ ~Here.surge /\ Goto("replace")
  /\ UNCHANGED <<containers, mem, disk, event, frame, stops, crashes>>

\* containerRuntimeState, Ready, NeedsRestart and the part of healContainer
\* before its Docker commands; "heal" is a restart that is declined (self-heal
\* disabled, restart limit reached, or backoff not over).
CheckState ==
  /\ pc = "state"
  /\ \E c \in Named(CanonicalName) :
       \/ /\ Fails("state") /\ Abort /\ UNCHANGED <<mem, disk, event>>
       \/ /\ c.state # "down" /\ Succeeds /\ NextReplica
          /\ UNCHANGED <<mem, disk, event>>
       \/ /\ c.state = "down" /\ live /\ Happens("heal") /\ NextReplica
          /\ UNCHANGED <<mem, disk, event>>
       \/ /\ c.state = "down" /\ Succeeds /\ Goto("replace")
          /\ UpdateStatus("Updating") /\ event' = "ContainerRestarting"
  /\ UNCHANGED <<containers, frame, stops, crashes>>

\* rm -f of a drifted container (no surge) or of one that is being healed.
ReplaceContainer ==
  /\ pc = "replace"
  /\ \/ /\ Succeeds /\ Goto("pull")
        /\ containers' = containers \ Named(CanonicalName)
     \/ Fails("rm") /\ Abort /\ UNCHANGED containers
  /\ UNCHANGED <<mem, disk, event, frame, stops, crashes>>

\* runContainer begins with pullImageWithSecrets; a deployment without pull
\* secrets goes on at once.
PullImage ==
  /\ pc = "pull"
  /\ UpdateStatus("Pulling")
  /\ \/ Goto("run") /\ UNCHANGED faults
     \/ Fails("pull") /\ Abort
  /\ UNCHANGED <<containers, event, frame, stops, crashes>>

NewContainer(n, state) ==
  [name |-> n, hash |-> Here.hash, generation |-> cur.generation,
   state |-> state]

\* `docker run`: Docker refuses a name in use, and a run
\* that fails may leave the created container behind.
RunContainer ==
  /\ pc = "run"
  /\ UpdateStatus("Starting")
  /\ \/ /\ Named(TargetName) # {} /\ Abort /\ UNCHANGED <<containers, faults>>
     \/ /\ Named(TargetName) = {} /\ Succeeds /\ Goto("wait")
        /\ containers' =
             containers \cup {NewContainer(TargetName, "starting")}
     \/ /\ Named(TargetName) = {} /\ Fails("run") /\ Abort
        /\ containers' \in {containers,
                            containers \cup {NewContainer(TargetName, "down")}}
  /\ UNCHANGED <<event, frame, stops, crashes>>

\* Where ensureDeployment goes once runContainer has returned nil.
AfterReady ==
  IF target = "surge" THEN Goto("surgeRemove") ELSE NextReplica

\* waitContainerReady: ready, or the deadline or the context ends the wait.
WaitReady ==
  /\ pc = "wait"
  /\ \/ /\ \E c \in Named(TargetName) : c.state = "ready"
        /\ Succeeds /\ AfterReady
     \/ ~live /\ Abort /\ UNCHANGED faults
     \/ /\ \E c \in Named(TargetName) : c.state = "down"
        /\ live /\ Abort /\ UNCHANGED faults
     \/ /\ \E c \in Named(TargetName) : c.state = "starting"
        /\ live /\ Happens("ready") /\ Abort
  /\ UNCHANGED <<containers, mem, disk, event, frame, stops, crashes>>

\* replaceContainerWithSurge after the replacement is ready.
SurgeRemove ==
  /\ pc = "surgeRemove"
  /\ \/ /\ Succeeds /\ Goto("surgeRename")
        /\ containers' = containers \ Named(CanonicalName)
     \/ Fails("rm") /\ Abort /\ UNCHANGED containers
  /\ UNCHANGED <<mem, disk, event, frame, stops, crashes>>

\* Mutant: the replacement gets the name of the next replica.
RenamedToNext(c) ==
  IF c.name = SurgeName THEN [c EXCEPT !.name = ContainerName(Here, at.r + 1)] ELSE c

Renamed(c) == IF c.name = SurgeName THEN [c EXCEPT !.name = CanonicalName] ELSE c

SurgeRename ==
  /\ pc = "surgeRename"
  /\ \/ /\ Succeeds /\ NextReplica
        /\ containers' = {Renamed(c) : c \in containers}
     \/ Fails("rename") /\ Abort /\ UNCHANGED containers
  /\ UNCHANGED <<mem, disk, event, frame, stops, crashes>>

ReplicasDone ==
  /\ pc = "inspect" /\ at.r > Here.replicas
  /\ Goto("extra")
  /\ UNCHANGED <<containers, mem, disk, event, frame, budget>>

\* removeExtraReplicas, one rm at a time, then the next deployment.
RemoveExtraReplicas ==
  LET extra == {c \in containers : IsExtra(c, Here)}
  IN /\ pc = "extra"
     /\ \/ /\ Succeeds
           /\ \E c \in extra : containers' = containers \ {c}
           /\ Goto("extra")
        \/ /\ Succeeds /\ extra = {} /\ UNCHANGED <<containers, target>>
           /\ IF at.d < Len(DeploymentsOf(cur))
              THEN pc' = "inspect" /\ at' = [d |-> at.d + 1, r |-> 1]
              ELSE pc' = "refresh" /\ at' = Start
        \/ Fails("ps") /\ Abort /\ UNCHANGED containers
        \/ extra # {} /\ Fails("rm") /\ Abort /\ UNCHANGED containers
     /\ UNCHANGED <<mem, disk, event, frame, stops, crashes>>

-----------------------------------------------------------------------------
(* Failure and rollback *)

\* Mutant: the failed spec is not written.
RecordStatusOnly ==
  /\ spec' = cur /\ phase' = "Failed" /\ savedPhase' = "Failed"
  /\ event' = "ReconcileFailed"
  /\ UNCHANGED <<endpoints, savedSpec>>

\* recordFailedStatus: the spec that failed replaces the saved one.
RecordFailedStatus ==
  /\ spec' = cur /\ phase' = "Failed"
  /\ savedSpec' = cur /\ savedPhase' = "Failed"
  /\ event' = "ReconcileFailed"
  /\ UNCHANGED endpoints

\* What Apply and Resync do with an error of reconcileDeployments.
HandleAbort ==
  /\ pc = "abort"
  /\ IF op = "apply" /\ prev.has
     THEN /\ Goto("cleanup") /\ event' = "RollbackStarted"
          /\ UNCHANGED <<mem, disk, frame>>
     ELSE RecordFailedStatus /\ Return(FALSE)
  /\ UNCHANGED <<containers, budget>>

\* What they do with an error of the network, the endpoint refresh or a port.
HandleFailure ==
  /\ pc = "fail"
  /\ RecordFailedStatus /\ Return(FALSE)
  /\ UNCHANGED <<containers, budget>>

\* removeOwnedContainersForGeneration, one rm at a time; the previous Runtime
\* is restored whether or not the cleanup got to its end.
Rollback ==
  LET doomed == {c \in containers : IsFailedGeneration(c)}
  IN /\ pc = "cleanup"
     /\ \/ ~CleansUp /\ Goto("restore") /\ UNCHANGED <<containers, faults>>
        \/ /\ Succeeds /\ Goto("cleanup")
           /\ \E c \in doomed : containers' = containers \ {c}
        \/ CleansUp /\ doomed = {} /\ Succeeds /\ Goto("restore") /\ UNCHANGED containers
        \/ CleansUp /\ Fails("ps") /\ Goto("restoreUnclean") /\ UNCHANGED containers
        \/ doomed # {} /\ Fails("rm") /\ Goto("restoreUnclean") /\ UNCHANGED containers
     /\ UNCHANGED <<mem, disk, event, frame, stops, crashes>>

\* restorePreviousRuntime (memory, the spec file, the status file) and the event
\* that ends the rollback.
Restore ==
  /\ pc \in {"restore", "restoreUnclean"}
  /\ spec' = prev.runtime /\ phase' = prev.phase
  /\ \/ /\ UNCHANGED faults
        /\ savedSpec' = prev.runtime /\ savedPhase' = prev.phase
        /\ event' = IF pc = "restore" THEN "RollbackComplete" ELSE "RollbackFailed"
     \/ /\ Happens("save")
        /\ savedSpec' \in {savedSpec, prev.runtime} /\ UNCHANGED savedPhase
        /\ event' = "RollbackFailed"
  /\ Return(FALSE)
  /\ UNCHANGED <<containers, endpoints, stops, crashes>>

-----------------------------------------------------------------------------
(* The end of Apply and of Resync *)

\* refreshRuntimeEndpoints: a failing list is an error, a container whose
\* inspect fails is left out.  Resync then publishes endpoints and status;
\* Apply publishes the endpoints with the routes (replaceRoutesAndState).
RefreshEndpoints ==
  /\ pc = "refresh"
  /\ \/ \E eps \in SUBSET ReadyNames(cur) :
          /\ IF eps = ReadyNames(cur) THEN Succeeds
                                      ELSE live /\ Happens("endpoints")
          /\ endpoints' = eps
          /\ \/ /\ op = "apply" /\ Goto("ports")
                /\ spec' = cur /\ UNCHANGED phase
             \/ /\ op = "resync" /\ Goto("saveStatus")
                /\ phase' = ObservedPhase(cur, eps) /\ UNCHANGED spec
     \/ Fails("ps") /\ Goto("fail") /\ UNCHANGED mem
  /\ UNCHANGED <<containers, disk, event, frame, stops, crashes>>

\* startPort and stopPort need no context; then the in-memory status is set.
StartPorts ==
  /\ pc = "ports"
  /\ \/ /\ UNCHANGED faults /\ Goto("saveRuntime")
        /\ phase' = ObservedPhase(cur, endpoints)
     \/ Happens("listen") /\ Goto("fail") /\ UNCHANGED phase
  /\ UNCHANGED <<containers, spec, endpoints, disk, event, frame, stops, crashes>>

\* SaveRuntime, then SaveStatus, writeProxyState and the event; a failed write
\* ends Apply.  Resync has only the status to write.
SaveRuntime ==
  /\ pc = "saveRuntime"
  /\ \/ /\ UNCHANGED <<faults, frame>> /\ Goto("saveStatus") /\ savedSpec' = cur
     \/ Happens("save") /\ Return(FALSE) /\ UNCHANGED savedSpec
  /\ UNCHANGED <<containers, mem, savedPhase, event, stops, crashes>>

SaveStatus ==
  /\ pc = "saveStatus"
  /\ \/ /\ UNCHANGED faults /\ savedPhase' = phase /\ Return(live)
        /\ event' = IF op = "apply" THEN "Applied" ELSE event
     \/ /\ Happens("save") /\ savedPhase' \in {savedPhase, phase}
        /\ Return(FALSE) /\ UNCHANGED event
  /\ UNCHANGED <<containers, mem, savedSpec, stops, crashes>>

\* Mutant: a Runtime that failed is left alone.
ResyncHealthy ==
  /\ agent = "serving" /\ op = "none" /\ spec # NoRuntime /\ phase # "Failed"
  /\ Begin("resync", "inspect", spec)
  /\ UNCHANGED <<containers, mem, disk, event, agent, prev, budget>>

\* The ticker and Docker events start a Resync of what m.specs holds.
Resync ==
  /\ agent = "serving" /\ op = "none" /\ spec # NoRuntime
  /\ Begin("resync", "inspect", spec)
  /\ UNCHANGED <<containers, mem, disk, event, agent, prev, budget>>

-----------------------------------------------------------------------------
(* Remove *)

\* Mutant: Remove looks in memory only.
RemovedFromMemory == spec

\* The Runtime Remove works on: memory first, else the state store.
RemovedRuntime == IF spec # NoRuntime THEN spec ELSE savedSpec

\* Remove up to its first Docker command; without a Runtime in memory or on
\* disk no container is looked for.
Remove ==
  LET has == RemovedRuntime # NoRuntime
  IN /\ agent = "serving" /\ op = "none"
     /\ Begin("remove", IF has THEN "removeOwned" ELSE "delete", RemovedRuntime)
     /\ event' = "DeleteStarted"
     /\ savedPhase' = IF has THEN "Terminating" ELSE savedPhase
     /\ spec' = NoRuntime /\ phase' = Absent /\ endpoints' = {}
     /\ UNCHANGED <<containers, savedSpec, agent, prev, budget>>

RemoveOwnedContainers ==
  /\ pc = "removeOwned"
  /\ \/ /\ Succeeds /\ Goto("removeOwned") /\ UNCHANGED frame
        /\ \E c \in containers : containers' = containers \ {c}
     \/ /\ Succeeds /\ containers = {} /\ Goto("delete")
        /\ UNCHANGED <<containers, frame>>
     \/ Fails("ps") /\ Return(FALSE) /\ UNCHANGED containers
     \/ containers # {} /\ Fails("rm") /\ Return(FALSE) /\ UNCHANGED containers
  /\ UNCHANGED <<mem, disk, event, stops, crashes>>

\* store.DeleteRuntime removes the spec file, then the status file; writeProxyState
\* may fail after both.
DeleteRuntime ==
  /\ pc = "delete"
  /\ \/ /\ UNCHANGED faults /\ event' = "Deleted"
        /\ savedSpec' = NoRuntime /\ savedPhase' = Absent
     \/ /\ Happens("save") /\ UNCHANGED event
        /\ \/ UNCHANGED disk
           \/ savedSpec' = NoRuntime /\ savedPhase' \in {savedPhase, Absent}
  /\ Return(TRUE)
  /\ UNCHANGED <<containers, mem, stops, crashes>>

-----------------------------------------------------------------------------
(* The process and Docker *)

\* A client that goes away cancels the request's context.
Cancel ==
  /\ op \in {"apply", "remove"} /\ agent = "serving" /\ live
  /\ Happens("cancel")
  /\ live' = FALSE
  /\ UNCHANGED <<containers, mem, disk, event, agent, op, cur, prev, before,
                 place, stops, crashes>>

\* SIGTERM cancels the context of Load and of Resync, not of a request; the
\* process ends when the operation in progress has returned.
Terminate ==
  /\ agent \in {"loading", "serving"} /\ crashes < MaxCrashes
  /\ agent' = "stopping" /\ crashes' = crashes + 1
  /\ live' = (live /\ agent = "serving" /\ op # "resync")
  /\ UNCHANGED <<containers, mem, disk, event, op, cur, prev, before, place,
                 faults, stops>>

\* The process is gone: what it had in memory is lost, what it had not yet
\* done is not done.
Gone(state) ==
  /\ agent' = state /\ op' = "none" /\ pc' = "idle"
  /\ spec' = NoRuntime /\ phase' = Absent /\ endpoints' = {}
  /\ cur' = NoRuntime /\ prev' = NoPrevious /\ at' = Start
  /\ target' = "canonical" /\ live' = TRUE /\ before' = {}
  /\ UNCHANGED <<containers, disk, event, faults, stops>>

Exit ==
  /\ op = "none" /\ UNCHANGED crashes
  /\ \/ agent = "failing" /\ Gone("down")
     \/ agent = "stopping" /\ Gone("stopped")

Crash ==
  /\ agent \notin {"down", "stopped"} /\ crashes < MaxCrashes
  /\ Gone("down") /\ crashes' = crashes + 1

\* The agent is started again and Load applies the saved document.
Restart ==
  /\ agent \in {"down", "stopped"}
  /\ \/ /\ savedSpec = NoRuntime /\ agent' = "serving"
        /\ UNCHANGED <<containers, mem, disk, event, op, cur, prev, live,
                       before, place, budget>>
     \/ /\ savedSpec # NoRuntime /\ agent' = "loading"
        /\ BeginApply(savedSpec)

\* Docker: a container passes its health check (a stopped or unhealthy one may
\* come back by itself, through Docker's restart policy), or exits or turns
\* unhealthy.
Becomes(c, state) ==
  containers' = (containers \ {c}) \cup {[c EXCEPT !.state = state]}

ContainerReady ==
  /\ \E c \in containers : c.state = "starting" /\ Becomes(c, "ready")
  /\ UNCHANGED <<mem, disk, event, frame, place, budget>>

ContainerRevives ==
  /\ \E c \in containers : c.state = "down" /\ Becomes(c, "ready")
  /\ UNCHANGED <<mem, disk, event, frame, place, budget>>

ContainerStops ==
  /\ stops < MaxStops /\ stops' = stops + 1
  /\ \E c \in containers : c.state # "down" /\ Becomes(c, "down")
  /\ UNCHANGED <<mem, disk, event, frame, place, faults, crashes>>

-----------------------------------------------------------------------------

Init ==
  /\ containers = {} /\ spec = NoRuntime /\ phase = Absent /\ endpoints = {}
  /\ savedSpec = NoRuntime /\ savedPhase = Absent /\ event = Absent
  /\ agent = "serving" /\ op = "none" /\ pc = "idle" /\ cur = NoRuntime
  /\ prev = NoPrevious /\ at = Start /\ target = "canonical" /\ live = TRUE
  /\ before = {} /\ faults = 0 /\ stops = 0 /\ crashes = 0

\* The steps of an operation that is in progress.
Step ==
  \/ EnsureNetwork \/ InspectReplica \/ CheckState \/ ReplaceContainer
  \/ PullImage \/ RunContainer \/ WaitReady \/ SurgeRemove \/ SurgeRename \/ ReplicasDone
  \/ RemoveExtraReplicas \/ HandleAbort \/ HandleFailure \/ Rollback \/ Restore
  \/ RefreshEndpoints \/ StartPorts \/ SaveRuntime \/ SaveStatus
  \/ RemoveOwnedContainers \/ DeleteRuntime

Next ==
  \/ \E v \in Versions, g \in ExplicitGens \cup {0} : Apply(v, g)
  \/ Resync \/ Remove \/ Step
  \/ Cancel \/ Terminate \/ Exit \/ Crash \/ Restart
  \/ ContainerReady \/ ContainerRevives \/ ContainerStops

Spec == Init /\ [][Next]_vars

\* The ticker of StartRuntimeResync fires for ever and Go's mutex does not
\* starve a waiter; an operation in progress goes on; a container that is
\* starting becomes ready; systemd restarts an agent that failed (Restart=on-failure),
\* not one that was stopped.
Fairness ==
  /\ WF_vars(Step) /\ SF_vars(Resync) /\ WF_vars(ContainerReady)
  /\ WF_vars(Exit) /\ WF_vars(agent = "down" /\ Restart)

FairSpec == Spec /\ Fairness

-----------------------------------------------------------------------------
(* Properties *)

\* A step writes this reason as a new last line of the event file.
Writes(reason) == event # reason /\ event' = reason

\* Whenever the API reports Running, the proxy's endpoint cache holds every
\* replica of the Runtime reported: no early return, failed Remove, rollback or
\* restart leaves Running over the endpoints of another spec or over none.
RunningMeansCached ==
  agent = "serving" /\ phase = "Running" =>
    spec # NoRuntime /\ Canonical(spec) \subseteq endpoints

\* Between operations the state files hold exactly the spec and phase that
\* memory holds, whichever way the last operation ended, so that a restart
\* loads what the API was reporting (no write error in this instance).
DiskAgrees ==
  agent = "serving" /\ op = "none" /\ spec # NoRuntime =>
    savedSpec = spec /\ savedPhase = phase

\* A rollback that reports RollbackComplete has undone the failed attempt, whose
\* document has a positive generation: every container left was there, under the
\* same name and labels, when Apply began.
RollbackUndoes ==
  [][Writes("RollbackComplete") /\ CleansUp => Labels(containers) \subseteq before]_vars

\* While replaceContainerWithSurge is at work the replica it replaces always
\* has a container: the replacement is there before the old one goes.
Slots(S) == {[c.name EXCEPT !.surge = 0] : c \in S}
SurgeAtWork ==
  \/ pc \in {"surgeRemove", "surgeRename"}
  \/ pc \in {"pull", "run", "wait"} /\ target = "surge"
SurgeKeepsReplica ==
  [][SurgeAtWork =>
       CanonicalName \in (Slots(containers) \cap Slots(containers'))]_vars

\* When Apply reports success every replica of the document has a container
\* that was started from the document's own deployment spec, and no container
\* of its deployments has another revision or a replica number too high.
AppliedMeansDeployed ==
  [][Writes("Applied") =>
       \A i \in 1..Len(DeploymentsOf(cur)) :
         LET d == DeploymentsOf(cur)[i]
         IN /\ \A r \in 1..d.replicas :
                 \E c \in Named(ContainerName(d, r)) : c.hash = d.hash
            /\ \A c \in containers : c.name.deployment = d.name =>
                 c.name.revision = d.revision /\ c.name.replica <= d.replicas]_vars

\* When Remove reports Deleted no container of the Runtime is left, also when
\* an earlier Remove or Apply of it failed half way.
DeletedMeansGone == [][Writes("Deleted") => containers = {}]_vars

\* config-reference: a failed update "keeps existing ready containers online":
\* no container that Apply found is missing when the rollback is complete.
RollbackKeepsOnline ==
  [][Writes("RollbackComplete") => before \subseteq Labels(containers)]_vars

\* A Runtime whose document is on disk is eventually reported Running, unless
\* its deletion begins or the agent is stopped: once failures and crashes
\* cease, Resync (and Load after a restart) repair whatever the failed
\* operation left.
Desired == savedSpec # NoRuntime /\ savedPhase # "Terminating"
Recovers == Desired ~> (phase = "Running" \/ ~Desired \/ agent = "stopped")

-----------------------------------------------------------------------------
(* What the proofs in RolloutProofs need to know besides: the inductive
   strengthenings of the properties above. *)

Document == [version : Versions, generation : Generations \ {0}]

\* Where ensureDeployment works on one replica, where reconcileDeployments is at
\* a deployment, and where Apply and Resync are once it has returned nil.
AtReplica == {"state", "replace", "pull", "run", "wait", "surgeRemove", "surgeRename"}
AtDeployment == AtReplica \cup {"inspect", "extra"}
AtEnd == {"refresh", "ports", "saveRuntime", "saveStatus"}

\* What is known of the operation in progress and of the process.
Control ==
  /\ {spec, savedSpec} \subseteq Document \cup {NoRuntime}
  /\ prev.has => prev.runtime \in Document
  /\ op = "none" <=> pc = "idle"
  /\ op = "remove" <=> pc \in {"removeOwned", "delete"}
  /\ op = "remove" => spec = NoRuntime
  /\ pc \in {"network", "cleanup", "restore", "restoreUnclean", "ports", "saveRuntime"} =>
       op = "apply"
  /\ op \in {"apply", "resync"} => cur \in Document /\ spec = cur
  /\ pc \in {"cleanup", "restore", "restoreUnclean"} => prev.has
  /\ agent = "loading" => op = "apply"
  /\ agent \in {"failing", "down", "stopped"} => op = "none"
  /\ agent \in {"down", "stopped"} => spec = NoRuntime /\ phase = Absent

\* The loop variables are at a deployment and a replica of the document.
Placed ==
  /\ pc = "network" => at = Start /\ target = "canonical"
  /\ pc \in AtDeployment => at.d \in 1..Len(DeploymentsOf(cur)) /\ at.r >= 1
  /\ pc \in AtReplica => at.r <= Here.replicas
  /\ pc \in {"surgeRemove", "surgeRename"} => target = "surge"

\* Running is reported of the endpoints cached: by memory, and by the status that
\* a rollback or a restart may bring back.
Reported ==
  /\ agent \in {"loading", "serving"} /\ phase = "Running" =>
       spec # NoRuntime /\ Canonical(spec) \subseteq endpoints
  /\ op = "apply" /\ pc \notin {"saveRuntime", "saveStatus"} => phase # "Running"
  /\ op = "apply" /\ agent = "serving" /\ pc \notin AtEnd \cup {"fail"}
       /\ prev.has /\ prev.phase = "Running" =>
       Canonical(prev.runtime) \subseteq endpoints
  /\ agent = "serving" /\ spec = NoRuntime /\ savedSpec # NoRuntime => savedPhase # "Running"

\* The state files follow memory.
DiskFollows ==
  /\ DiskAgrees
  /\ op = "resync" \/ (op = "apply" /\ pc = "saveStatus") => savedSpec = spec

\* Every container was there when Apply began or carries the generation that a
\* rollback removes, after whose cleanup none carries it; the replacement of a surge
\* always does.
Accounted ==
  op = "apply" => \A c \in containers :
    c.generation = cur.generation \/ Labels({c}) \subseteq before
CleanedUp ==
  pc = "restore" /\ CleansUp => \A c \in containers : c.generation # cur.generation
SurgeIsNew ==
  pc \in {"wait", "surgeRemove", "surgeRename"} /\ target = "surge" =>
    \A c \in Named(SurgeName) : c.generation = cur.generation

\* The replica replaced and its replacement.
CanonicalFirst == pc \in {"inspect", "state", "replace", "extra"} => target = "canonical"
SurgePair ==
  /\ pc = "surgeRemove" \/ (pc \in {"pull", "run", "wait"} /\ target = "surge") =>
       Named(CanonicalName) # {}
  /\ pc \in {"surgeRemove", "surgeRename"} \/ (pc = "wait" /\ target = "surge") =>
       Named(SurgeName) # {}

\* Containers belong to a Runtime that memory or the disk still has, so that
\* Remove finds it.
Owned ==
  /\ agent = "serving"
  /\ op # "apply" /\ containers # {} => spec # NoRuntime \/ savedSpec # NoRuntime
  /\ op = "remove" /\ containers # {} => savedSpec # NoRuntime
  /\ pc = "delete" => containers = {}

\* Docker's names are unique: the name a rename gives is not in use.
UniqueNames ==
  /\ \A c, d \in containers : c.name = d.name => c = d
  /\ pc = "surgeRename" => Named(CanonicalName) = {}

\* How far reconcileDeployments has got: the deployments and replicas before the
\* loop variables are done, and what is being done has the right hash.
HasReplica(d, r) == \E c \in Named(ContainerName(d, r)) : c.hash = d.hash
HasAll(d) == \A r \in 1..d.replicas : HasReplica(d, r)
HasNoExtra(d) == \A c \in containers : ~IsExtra(c, d)
EarlierDone == pc \in AtDeployment =>
  \A i \in 1..(at.d - 1) : HasAll(DeploymentsOf(cur)[i]) /\ HasNoExtra(DeploymentsOf(cur)[i])
SiblingsDone == pc \in AtDeployment =>
  \A r \in 1..Here.replicas : r < at.r => HasReplica(Here, r)
ReplicaDone ==
  /\ pc = "extra" => HasAll(Here)
  /\ pc = "state" => HasReplica(Here, at.r)
  /\ pc = "wait" => \E c \in Named(TargetName) : c.hash = Here.hash
  /\ pc \in {"surgeRemove", "surgeRename"} => \E c \in Named(SurgeName) : c.hash = Here.hash
AllDone == pc \in AtEnd =>
  \A i \in 1..Len(DeploymentsOf(cur)) :
    HasAll(DeploymentsOf(cur)[i]) /\ HasNoExtra(DeploymentsOf(cur)[i])
Deployed == EarlierDone /\ SiblingsDone /\ ReplicaDone /\ AllDone
=============================================================================
