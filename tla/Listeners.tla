----------------------------- MODULE Listeners -----------------------------
(***************************************************************************)
(* Which host ports and ingress routes belong to which Runtime: admission  *)
(* by Scheduler Lite, the Manager's route table and its proxy listeners,   *)
(* and the spec files a restart loads, for SEVERAL Runtimes.               *)
(*                                                                         *)
(* reconcileMu serialises the operations, so there is one in progress at a *)
(* time; its steps are separated where the code can return early or the    *)
(* agent can crash.  The Docker work between admission and the routes is   *)
(* one step with the outcomes module Rollout has: done, failed outside     *)
(* reconcileDeployments ("provider": network, endpoint refresh), failed    *)
(* inside it ("deploy": rolled back if there is a previous Runtime).       *)
(*                                                                         *)
(* "Updating" stands for every phase Apply passes through, and containers  *)
(* that came up stay ready (Degraded is in Rollout).                       *)
(*                                                                         *)
(* A document is what admission sees of it: the set of its claims, one per *)
(* service listener and one per ingress route, and what it asks of the     *)
(* node (module Capacity).  Keys are numbered in the order                 *)
(* sortedRuntimeKeys and LoadAll give them.                                *)
(***************************************************************************)
EXTENDS Integers, FiniteSets, Capacity

CONSTANTS
  Keys,      \* runtime keys, in the order of their names
  Ports,     \* host ports
  Hosts,     \* ingress hosts, Wildcard among them
  Wildcard,  \* host "*", also what an empty host is normalised to
  Paths,     \* cleaned ingress paths
  Docs,      \* Runtime documents
  NoDoc,     \* stands for "no document"
  Claims,    \* Claims[d]: the listeners and routes document d asks for
  Faults,    \* the kinds of failure of this instance
  MaxFaults, \* bound on failures
  MaxCrashes \* bound on crashes of the agent

\* "overflow" is not a fault of the world: a sum of requests did not fit int64.
FaultKinds == {"provider", "deploy", "listen", "save", "rm", "overflow"}

Claim == [kind : {"service", "ingress"}, port : Ports,
          host : Hosts, path : Paths]

ASSUME ConstantsAssumption ==
  /\ Keys \subseteq Nat /\ IsFiniteSet(Keys) /\ Keys # {} /\ Ports \subseteq Nat
  /\ Wildcard \in Hosts /\ NoDoc \notin Docs
  /\ Claims \in [Docs -> SUBSET Claim] /\ DOMAIN Demands = Docs
  /\ Faults \subseteq FaultKinds \ {"overflow"} /\ MaxFaults \in Nat /\ MaxCrashes \in Nat

VARIABLES
  specs,    \* m.specs
  phase,    \* m.statuses[key].Phase, as far as it matters here
  saved,    \* the spec files
  routes,   \* m.routes, one element per proxyRoute
  servers,  \* the ports of m.servers
  agent,    \* "down", "loading", "serving" or "exiting"
  op,       \* [kind, pc, key, doc, prev]: the operation holding reconcileMu
  starts,   \* portsToStart still to be started
  stops,    \* portsToStop
  queue,    \* runtimes Load or Resync has still to visit
  failed,   \* the kinds of failure there have been
  faults, crashes

table == <<routes, servers>>
failures == <<failed, faults>>
vars == <<specs, phase, saved, table, agent, op, starts, stops, queue,
          failures, crashes>>

-----------------------------------------------------------------------------
(* Data *)

MaybeDoc == Docs \cup {NoDoc}
Phases == {"", "Updating", "Running", "Failed", "Terminating"}
Previous == [doc : MaybeDoc, phase : Phases]
NoPrevious == [doc |-> NoDoc, phase |-> ""]

Kinds == {"none", "apply", "remove", "resync"}
Labels == {"idle", "provision", "install", "start", "stop", "save",
           "removeOwned", "resync"}
AnyKey == CHOOSE k \in Keys : TRUE
Idle == [kind |-> "none", pc |-> "idle", key |-> AnyKey, doc |-> NoDoc,
         prev |-> NoPrevious]

Route == [key : Keys, claim : Claim]

ClaimsOf(d) == IF d = NoDoc THEN {} ELSE Claims[d]
PortsOf(d) == {c.port : c \in ClaimsOf(d)}

\* Mutant: the routes are registered under the container's port.
ContainerPortRoutesOf(k, d) ==
  {[key |-> k, claim |-> [c EXCEPT !.port = 8080]] : c \in ClaimsOf(d)}

\* routesForRuntime
RoutesOf(k, d) == {[key |-> k, claim |-> c] : c \in ClaimsOf(d)}

RoutedPorts(R) == {r.claim.port : r \in R}

\* ingressHostsOverlap and ingressRouteConflicts
HostsOverlap(a, b) == a = Wildcard \/ b = Wildcard \/ a = b
IngressRouteConflicts(a, b) ==
  a.port = b.port /\ HostsOverlap(a.host, b.host) /\ a.path = b.path

\* The two kinds of claim validateGlobalPortConflicts refuses to combine: a
\* service shares its port with nothing, ingress routes may share a port.
Conflict(a, b) ==
  /\ a.port = b.port
  /\ \/ a.kind = "service" \/ b.kind = "service"
     \/ IngressRouteConflicts(a, b)

Compatible(d, e) ==
  \A a \in ClaimsOf(d), b \in ClaimsOf(e) : ~Conflict(a, b)

\* The Runtimes of the node with document d for runtime k.
With(k, d) == [specs EXCEPT ![k] = d]

\* Mutants: admission looks only at the Runtimes that are running, or only at
\* the routes that are installed.
AdmissibleBesideRunning(k, d) ==
  /\ \A j \in Keys \ {k} : phase[j] = "Running" => Compatible(d, specs[j])
  /\ \A a, b \in Claims[d] : a # b => ~Conflict(a, b)
  /\ WithinCapacity(With(k, d))
AdmissibleBesideRoutes(k, d) ==
  /\ \A r \in routes, c \in Claims[d] : r.key # k => ~Conflict(c, r.claim)
  /\ \A a, b \in Claims[d] : a # b => ~Conflict(a, b)
  /\ WithinCapacity(With(k, d))

\* AdmitRuntime.  validateGlobalPortConflicts of document d for runtime k:
\* against every other Runtime in m.specs, and between the ingress routes of d
\* itself (ValidateRuntime has refused a document with two listeners of its own
\* on a service's port); then validateNodeCapacity.
Admissible(k, d) ==
  /\ \A j \in Keys \ {k} : Compatible(d, specs[j])
  /\ \A a, b \in Claims[d] : a # b => ~Conflict(a, b)
  /\ WithinCapacity(With(k, d))

\* removeRoutesForKeyLocked: the ports to stop are those left without a route.
OthersRoutes(k) == {r \in routes : r.key # k}

\* Mutant: a port shared with another Runtime is stopped too.
OwnPorts(k) == {r.claim.port : r \in routes \ OthersRoutes(k)} \cap servers

Orphaned(k) == (RoutedPorts(routes) \ RoutedPorts(OthersRoutes(k))) \cap servers

TypeOK ==
  /\ specs \in [Keys -> MaybeDoc] /\ phase \in [Keys -> Phases]
  /\ saved \in [Keys -> MaybeDoc]
  /\ routes \subseteq Route /\ servers \subseteq Ports
  /\ agent \in {"down", "loading", "serving", "exiting"}
  /\ op \in [kind : Kinds, pc : Labels, key : Keys, doc : MaybeDoc,
             prev : Previous]
  /\ starts \subseteq Ports /\ stops \subseteq Ports /\ queue \subseteq Keys
  /\ failed \subseteq FaultKinds /\ faults \in Nat /\ crashes \in Nat

-----------------------------------------------------------------------------
(* Operations *)

Happens(f) ==
  /\ f \in Faults /\ faults < MaxFaults
  /\ faults' = faults + 1 /\ failed' = failed \cup {f}

Goto(label) == op' = [op EXCEPT !.pc = label]
First(S, x) == x \in S /\ \A y \in S : x <= y

\* The operation returns.  While loading, an error ends the process, and the
\* process serves once the last saved Runtime has been applied.
Done(ok) ==
  /\ op' = Idle /\ starts' = {} /\ stops' = {}
  /\ agent' = CASE agent = "serving" -> "serving"
                [] ~ok -> "exiting"
                [] OTHER -> IF queue = {} THEN "serving" ELSE "loading"
  /\ queue' = IF op.kind = "resync" THEN {} ELSE queue

\* previousRuntimeState: memory, else the store.  A serving agent finds a
\* document in the store alone only after a Remove that failed, which had
\* written Terminating; what a failing Load restores is lost with the process.
PreviousOf(k) ==
  IF specs[k] # NoDoc THEN [doc |-> specs[k], phase |-> phase[k]]
  ELSE [doc |-> saved[k], phase |-> "Terminating"]

\* Apply from admission to its first Docker command.
BeginApply(k, d) ==
  /\ Admissible(k, d)
  /\ op' = [kind |-> "apply", pc |-> "provision", key |-> k, doc |-> d,
            prev |-> PreviousOf(k)]
  /\ specs' = [specs EXCEPT ![k] = d]
  /\ phase' = [phase EXCEPT ![k] = "Updating"]
  /\ failed' = failed \cup (IF Overflows(With(k, d)) THEN {"overflow"} ELSE {})
  /\ UNCHANGED <<saved, table, agent, starts, stops, faults, crashes>>

\* A document that is not admissible is answered with an error and changes
\* nothing but the event file.
Apply(k, d) ==
  /\ agent = "serving" /\ op.kind = "none"
  /\ BeginApply(k, d)
  /\ UNCHANGED queue

\* recordFailedStatus
RecordFailed ==
  /\ specs' = [specs EXCEPT ![op.key] = op.doc]
  /\ phase' = [phase EXCEPT ![op.key] = "Failed"]
  /\ saved' = [saved EXCEPT ![op.key] = op.doc]

\* rollbackRuntime, as far as specs, status and files go.
RestorePrevious ==
  /\ specs' = [specs EXCEPT ![op.key] = op.prev.doc]
  /\ phase' = [phase EXCEPT ![op.key] = op.prev.phase]
  /\ saved' = [saved EXCEPT ![op.key] = op.prev.doc]

\* ensureNetwork, reconcileDeployments and refreshRuntimeEndpoints.
Provision ==
  /\ op.pc = "provision"
  /\ \/ /\ Goto("install")
        /\ UNCHANGED <<specs, phase, saved, agent, starts, stops, queue, failures>>
     \/ Happens("provider") /\ RecordFailed /\ Done(FALSE)
     \/ /\ Happens("deploy") /\ Done(FALSE)
        /\ IF op.prev.doc # NoDoc THEN RestorePrevious ELSE RecordFailed
  /\ UNCHANGED <<table, crashes>>

\* replaceRoutesAndState
InstallRoutes ==
  LET new == RoutesOf(op.key, op.doc)
  IN /\ op.pc = "install"
     /\ routes' = OthersRoutes(op.key) \cup new
     /\ starts' = RoutedPorts(new) \ servers
     /\ stops' = Orphaned(op.key) \ RoutedPorts(new)
     /\ specs' = [specs EXCEPT ![op.key] = op.doc]
     /\ Goto("start")
     /\ UNCHANGED <<phase, saved, servers, agent, queue, failures, crashes>>

\* startPort, in port order; the first that cannot listen ends Apply, with the
\* routes installed and the ports to stop still being served.
StartPort ==
  /\ op.pc = "start"
  /\ \/ /\ starts = {} /\ Goto("stop")
        /\ UNCHANGED <<specs, phase, saved, servers, agent, starts, stops,
                       queue, failures>>
     \/ \E p \in Ports :
          /\ First(starts, p)
          /\ servers' = servers \cup {p} /\ starts' = starts \ {p}
          /\ UNCHANGED <<specs, phase, saved, agent, op, stops, queue, failures>>
     \/ /\ starts # {} /\ Happens("listen") /\ RecordFailed /\ Done(FALSE)
        /\ UNCHANGED servers
  /\ UNCHANGED <<routes, crashes>>

StopPorts ==
  /\ op.pc = "stop"
  /\ servers' = servers \ stops
  /\ phase' = [phase EXCEPT ![op.key] = "Running"]
  /\ Goto("save")
  /\ UNCHANGED <<specs, saved, routes, agent, starts, stops, queue, failures,
                 crashes>>

SaveRuntime ==
  /\ op.pc = "save"
  /\ \/ /\ saved' = [saved EXCEPT ![op.key] = op.doc]
        /\ Done(TRUE) /\ UNCHANGED failures
     \/ Happens("save") /\ Done(FALSE) /\ UNCHANGED saved
  /\ UNCHANGED <<specs, phase, table, crashes>>

\* Remove forgets the Runtime and its routes and stops its listeners first ...
Remove(k) ==
  /\ agent = "serving" /\ op.kind = "none"
  /\ specs' = [specs EXCEPT ![k] = NoDoc]
  /\ phase' = [phase EXCEPT ![k] = ""]
  /\ routes' = OthersRoutes(k)
  /\ servers' = servers \ Orphaned(k)
  /\ op' = [Idle EXCEPT !.kind = "remove", !.pc = "removeOwned", !.key = k]
  /\ UNCHANGED <<saved, agent, starts, stops, queue, failures, crashes>>

\* Mutant: the spec file stays.
FinishRemoveKeepsFile ==
  /\ op.pc = "removeOwned"
  /\ Done(TRUE)
  /\ UNCHANGED <<specs, phase, saved, table, failures, crashes>>

\* ... and deletes the spec file only when the containers are gone (a Runtime
\* without a file has none to keep, whatever fails).
FinishRemove ==
  /\ op.pc = "removeOwned"
  /\ \/ /\ saved' = [saved EXCEPT ![op.key] = NoDoc] /\ UNCHANGED failures
     \/ saved[op.key] # NoDoc /\ Happens("rm") /\ UNCHANGED saved
  /\ Done(TRUE)
  /\ UNCHANGED <<specs, phase, table, crashes>>

\* Resync visits the Runtimes in key order and stops at the first that fails.
Resync ==
  /\ agent = "serving" /\ op.kind = "none"
  /\ queue' = {k \in Keys : specs[k] # NoDoc} /\ queue' # {}
  /\ op' = [op EXCEPT !.kind = "resync", !.pc = "resync"]
  /\ UNCHANGED <<specs, phase, saved, table, agent, starts, stops, failures,
                 crashes>>

ResyncRuntime ==
  /\ op.pc = "resync"
  /\ \E k \in Keys :
       /\ First(queue, k)
       /\ \/ /\ phase' = [phase EXCEPT ![k] = "Running"]
             /\ IF queue = {k}
                THEN Done(TRUE)
                ELSE queue' = queue \ {k} /\ UNCHANGED <<agent, op, starts, stops>>
             /\ UNCHANGED <<saved, failures>>
          \/ /\ Happens("deploy")
             /\ phase' = [phase EXCEPT ![k] = "Failed"]
             /\ saved' = [saved EXCEPT ![k] = specs[k]]
             /\ Done(FALSE)
  /\ UNCHANGED <<specs, table, crashes>>

-----------------------------------------------------------------------------
(* The process *)

\* Load applies the saved Runtimes in key order ...
LoadNext ==
  /\ agent = "loading" /\ op.kind = "none"
  /\ \E k \in Keys :
       First(queue, k) /\ BeginApply(k, saved[k]) /\ queue' = queue \ {k}

\* ... and a Runtime that is not admitted, or whose Apply fails, ends the
\* process.  The agent may also be stopped or killed at any moment.
Exit ==
  /\ agent' = "down"
  /\ specs' = [k \in Keys |-> NoDoc] /\ phase' = [k \in Keys |-> ""]
  /\ routes' = {} /\ servers' = {}
  /\ op' = Idle /\ starts' = {} /\ stops' = {} /\ queue' = {}
  /\ UNCHANGED <<saved, failures>>

LoadFailed == agent = "exiting" /\ Exit /\ UNCHANGED crashes

LoadRejected ==
  /\ agent = "loading" /\ op.kind = "none"
  /\ \E k \in Keys : First(queue, k) /\ ~Admissible(k, saved[k])
  /\ Exit /\ UNCHANGED crashes

Crash ==
  /\ agent # "down" /\ crashes < MaxCrashes /\ crashes' = crashes + 1
  /\ Exit

Restart ==
  /\ agent = "down"
  /\ queue' = {k \in Keys : saved[k] # NoDoc}
  /\ agent' = IF queue' = {} THEN "serving" ELSE "loading"
  /\ UNCHANGED <<specs, phase, saved, table, op, starts, stops, failures, crashes>>
-----------------------------------------------------------------------------

Init ==
  /\ specs = [k \in Keys |-> NoDoc] /\ phase = [k \in Keys |-> ""]
  /\ saved = [k \in Keys |-> NoDoc]
  /\ routes = {} /\ servers = {} /\ agent = "serving" /\ op = Idle
  /\ starts = {} /\ stops = {} /\ queue = {} /\ failed = {} /\ faults = 0
  /\ crashes = 0

Next ==
  \/ \E k \in Keys, d \in Docs : Apply(k, d)
  \/ \E k \in Keys : Remove(k)
  \/ Provision \/ InstallRoutes \/ StartPort \/ StopPorts \/ SaveRuntime
  \/ FinishRemove \/ Resync \/ ResyncRuntime
  \/ LoadNext \/ LoadFailed \/ LoadRejected \/ Crash \/ Restart

Spec == Init /\ [][Next]_vars

-----------------------------------------------------------------------------
(* Properties *)

\* A request is never ambiguous between Runtimes: whatever failed before, the
\* route table holds no two routes of different Runtimes that validateGlobal-
\* PortConflicts would refuse to combine; only an Apply that failed at the
\* network or in the endpoint refresh ("provider") can end this.
RoutesDisjoint ==
  \A r, q \in routes : r.key # q.key => ~Conflict(r.claim, q.claim)
RouteIsolation == "provider" \notin failed => RoutesDisjoint

\* Admission is enough to keep the Runtimes the agent holds compatible with
\* each other, although a failing Apply puts an earlier document back without
\* admitting it again; only a Remove that failed half way can end this.
SpecsCompatible ==
  \A j, k \in Keys : j # k => Compatible(specs[j], specs[k])
ClaimsDisjoint == "rm" \notin failed => SpecsCompatible

\* At every moment the agent may crash: the spec files on disk are pairwise
\* compatible, so that Load admits every one of them, until a write or the
\* container removal of Remove has failed.
FilesCompatible ==
  \A j, k \in Keys : j # k => Compatible(saved[j], saved[k])
DiskLoadable == {"rm", "save"} \cap failed = {} => FilesCompatible

\* Between operations the agent listens on exactly the ports it has routes
\* for, until a port it wants could not be bound.
ListenersMatchRoutes ==
  "listen" \notin failed /\ agent = "serving" /\ op.kind = "none" =>
    servers = RoutedPorts(routes)

\* config-reference: Running means that replicas "and proxy endpoints are
\* ready": between operations the routes of a Runtime that is Running are
\* installed and their ports served, unless an Apply has failed.
RunningIsRouted ==
  {"provider", "deploy", "listen"} \cap failed = {} /\ op.kind = "none" =>
    \A k \in Keys : phase[k] = "Running" =>
      /\ RoutesOf(k, specs[k]) \subseteq routes
      /\ PortsOf(specs[k]) \subseteq servers

\* The Runtimes the agent holds never ask for more than the node has, and what
\* is on disk does not either, so that Load admits it: also when a document is
\* put back by a rollback, which asks nobody.  It ends with a Remove that fails
\* half way, for the files with a write that fails, or once a sum has wrapped.
NotOvercommitted ==
  /\ {"rm", "overflow"} \cap failed = {} => Fits(specs)
  /\ {"rm", "save", "overflow"} \cap failed = {} => Fits(saved)

-----------------------------------------------------------------------------
(* What the proofs in ListenersProofs need to know besides: the inductive
   strengthenings of the properties above. *)

\* From admission on, the document is the one in m.specs and stays compatible
\* with the other Runtimes; a process that has not loaded a Runtime has not
\* got it in memory.
Control ==
  /\ op.kind = "none" <=> op.pc = "idle"
  /\ op.kind = "apply" <=> op.pc \in {"provision", "install", "start", "stop", "save"}
  /\ op.kind = "remove" <=> op.pc = "removeOwned"
  /\ op.kind = "remove" => specs[op.key] = NoDoc
  /\ op.kind \in {"remove", "resync"} => agent = "serving"
  /\ op.kind = "apply" =>
       /\ op.doc # NoDoc /\ specs[op.key] = op.doc
       /\ \A j \in Keys \ {op.key} : Compatible(op.doc, specs[j])
  /\ agent \in {"down", "exiting"} => op.kind = "none"
  /\ agent = "down" => routes = {} /\ \A k \in Keys : specs[k] = NoDoc
  /\ agent = "loading" => \A k \in queue : specs[k] = NoDoc /\ saved[k] # NoDoc

\* The routes of a Runtime are claims of its document; while Apply has not got
\* to its routes, of the document it replaces.
RoutedDoc(k) ==
  IF op.pc \in {"provision", "install"} /\ k = op.key THEN op.prev.doc ELSE specs[k]
RoutesAreClaimed == \A r \in routes : r.claim \in ClaimsOf(RoutedDoc(r.key))

\* Only what is still to be loaded, or is being removed, is on disk and not in
\* memory; what a rollback would put back is compatible with the rest.
NothingForgotten ==
  /\ agent \in {"serving", "loading"} =>
       \A k \in Keys : specs[k] = NoDoc /\ saved[k] # NoDoc =>
         \/ agent = "loading" /\ k \in queue
         \/ op.pc = "removeOwned" /\ op.key = k
  /\ op.pc = "provision" =>
       \A j \in Keys \ {op.key} : Compatible(op.prev.doc, specs[j])

\* Memory and disk agree on every Runtime that is not being worked on.
InSync ==
  /\ agent \in {"serving", "loading"} =>
       \A k \in Keys :
         \/ specs[k] = saved[k]
         \/ agent = "loading" /\ k \in queue
         \/ op.kind \in {"apply", "remove"} /\ k = op.key
  /\ agent = "loading" /\ op.kind = "apply" => op.doc = saved[op.key]
  /\ op.pc = "provision" => op.prev.doc = saved[op.key]

\* What a rollback would put back fits beside the other Runtimes too.
RollbackFits == op.pc = "provision" => Fits(With(op.key, op.prev.doc))

\* The listeners are those of the routes, but for the ports that Apply has still
\* to start and to stop.
ListenersTrack ==
  /\ op.pc \notin {"start", "stop"} => servers = RoutedPorts(routes)
  /\ op.pc \in {"start", "stop"} =>
       /\ RoutedPorts(routes) = (servers \ stops) \cup starts
       /\ starts \cap stops = {}
  /\ op.pc = "stop" => starts = {}

\* Every Runtime in memory is routed, but for the one that Apply is working on.
AllRouted ==
  \A k \in Keys :
    \/ RoutesOf(k, specs[k]) \subseteq routes
    \/ op.pc \in {"provision", "install"} /\ k = op.key
============================================================================
