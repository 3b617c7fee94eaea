--------------------------- MODULE RolloutProofs ---------------------------
(***************************************************************************)
(* Proofs about Rollout, for any documents, deployments, replicas,         *)
(* generations, and bounds on failures, stops and crashes.                 *)
(***************************************************************************)
EXTENDS Rollout, SequenceTheorems, TLAPS

Inv == TypeOK /\ Control /\ Placed

-----------------------------------------------------------------------------
(* Documents and names *)

\* The documents and what they are not.
LEMMA DocumentFacts ==
  ASSUME NEW rt \in Document
  PROVE  /\ rt \in Runtime /\ rt # NoRuntime /\ rt.version \in Versions
         /\ rt.generation \in Generations /\ rt.generation \in Int /\ rt.generation # 0
<1>1. rt \in Runtime /\ rt.version \in Versions /\ rt.version # NoVersion
      /\ rt.generation \in Generations /\ rt.generation # 0
  BY ConstantsAssumption DEF Document, Runtime
<1>2. rt # NoRuntime
  BY <1>1 DEF NoRuntime
<1>3. Generations \subseteq Int
  BY ConstantsAssumption DEF Generations
<1> QED BY <1>1, <1>2, <1>3

\* No document is one of the values a Runtime record may have.
LEMMA NoRuntimeType == NoRuntime \in Runtime /\ NoRuntime \notin Document
BY ConstantsAssumption, DocumentFacts DEF NoRuntime, Runtime, Generations

\* The deployments of a document.
LEMMA TemplateFacts ==
  ASSUME NEW rt \in Document
  PROVE  /\ Len(DeploymentsOf(rt)) \in Nat /\ Len(DeploymentsOf(rt)) >= 1
         /\ \A i \in 1..Len(DeploymentsOf(rt)) : DeploymentsOf(rt)[i] \in DeploymentSpec
         /\ \A i, j \in 1..Len(DeploymentsOf(rt)) :
              DeploymentsOf(rt)[i].name = DeploymentsOf(rt)[j].name => i = j
<1>1. rt.version \in Versions
  BY DocumentFacts
<1>2. PICK t : t = DeploymentsOf(rt)
  OBVIOUS
<1>3. t \in Seq(DeploymentSpec) /\ Len(t) > 0
      /\ \A i, j \in 1..Len(t) : t[i].name = t[j].name => i = j
  BY <1>1, <1>2, TemplateAssumption DEF DeploymentsOf
<1>4. Len(t) \in Nat /\ \A i \in 1..Len(t) : t[i] \in DeploymentSpec
  BY <1>3, LenProperties
<1>5. Len(t) >= 1
  BY <1>3, <1>4
<1> QED BY <1>2, <1>3, <1>4, <1>5

\* The fields of a deployment.
LEMMA SpecFacts ==
  ASSUME NEW d \in DeploymentSpec
  PROVE  /\ d.name \in Deployments /\ d.revision \in Revisions /\ d.hash \in Hashes
         /\ d.replicas \in 0..MaxReplicas /\ d.surge \in BOOLEAN
BY DEF DeploymentSpec

\* A replica's name.
LEMMA NameFacts ==
  ASSUME NEW d \in DeploymentSpec, NEW r \in 1..MaxReplicas
  PROVE  ContainerName(d, r) \in Name
<1>1. 0 \in Generations
  BY ConstantsAssumption DEF Generations
<1> QED BY <1>1, SpecFacts DEF ContainerName, Name

\* The deployment the loop is at, and the two names of its replica.
LEMMA HereFacts ==
  ASSUME Inv, pc \in AtDeployment
  PROVE  /\ cur \in Document /\ at.d \in 1..Len(DeploymentsOf(cur))
         /\ Here = DeploymentsOf(cur)[at.d] /\ Here \in DeploymentSpec
         /\ at.r \in Nat /\ at.r >= 1
<1>1. op \in {"apply", "resync"} /\ at \in [d : Nat, r : Nat]
  BY DEF Inv, Control, TypeOK, AtDeployment, AtReplica
<1>2. cur \in Document /\ at.d \in 1..Len(DeploymentsOf(cur)) /\ at.r >= 1
  BY <1>1 DEF Inv, Control, Placed
<1> QED BY <1>1, <1>2, TemplateFacts DEF Here

\* The names rolloutDeployment computes for the replica it is at are names, and renaming
\* the surge container gives the canonical one.
LEMMA ReplicaNames ==
  ASSUME Inv, pc \in AtDeployment, at.r <= Here.replicas
  PROVE  /\ CanonicalName \in Name /\ SurgeName \in Name /\ TargetName \in {CanonicalName, SurgeName}
         /\ CanonicalName = ContainerName(Here, at.r)
         /\ CanonicalName.surge = 0 /\ SurgeName.surge = cur.generation
         /\ [SurgeName EXCEPT !.surge = 0] = CanonicalName
         /\ SurgeName # CanonicalName
<1>1. /\ Here \in DeploymentSpec /\ at.r \in 1..MaxReplicas /\ cur.generation # 0
      /\ cur.generation \in Generations /\ 0 \in Generations
  <2>1. /\ cur \in Document /\ Here \in DeploymentSpec /\ at.r \in Nat /\ at.r >= 1
        /\ Here.replicas \in 0..MaxReplicas
    BY HereFacts, SpecFacts
  <2>2. cur.generation \in Generations /\ cur.generation # 0
    BY <2>1, DocumentFacts
  <2> QED BY <2>1, <2>2, ConstantsAssumption DEF Generations
<1>2. PICK n : n = CanonicalName
  OBVIOUS
<1>3. n \in Name /\ n.surge = 0 /\ n = ContainerName(Here, at.r)
  BY <1>1, <1>2, NameFacts DEF CanonicalName, ContainerName
<1>4. PICK g : g = cur.generation
  OBVIOUS
<1>5. PICK m : m = [n EXCEPT !.surge = g]
  OBVIOUS
<1>6. /\ n = [deployment |-> n.deployment, revision |-> n.revision,
               replica |-> n.replica, surge |-> 0]
      /\ n.deployment \in Deployments /\ n.revision \in Revisions /\ n.replica \in 1..MaxReplicas
  BY <1>3 DEF Name
<1>7. m = [deployment |-> n.deployment, revision |-> n.revision,
           replica |-> n.replica, surge |-> g]
  BY <1>5, <1>6
<1>8. m \in Name /\ m.surge = g
  BY <1>1, <1>4, <1>6, <1>7 DEF Name
<1>9. [m EXCEPT !.surge = 0] = n
  BY <1>6, <1>7
<1>10. m # n
  BY <1>1, <1>3, <1>4, <1>8
<1> QED BY <1>2, <1>3, <1>4, <1>5, <1>8, <1>9, <1>10 DEF SurgeName, TargetName

-----------------------------------------------------------------------------
(* The steps of an operation *)

\* Constants that actions use.
LEMMA Values ==
  /\ NoPrevious \in [has : BOOLEAN, runtime : Runtime, phase : Phases] /\ ~NoPrevious.has
  /\ Start \in [d : Nat, r : Nat] /\ Start.d = 1 /\ Start.r = 1
  /\ Absent \in Phases /\ Absent \in Events
BY NoRuntimeType DEF NoPrevious, Start, Phases, Events

\* A Runtime that is not there is in no phase.
LEMMA AbsentPhase == Absent \notin {"Running", "Updating", "Pulling", "Starting", "Failed"}
BY Zenon DEF Absent

\* The parts of TypeOK.
MemoryType == spec \in Runtime /\ phase \in Phases /\ endpoints \subseteq Name
DiskType == savedSpec \in Runtime /\ savedPhase \in Phases /\ event \in Events
PlaceType ==
  /\ pc \in AtDeployment \cup AtEnd \cup
            {"idle", "network", "abort", "fail", "cleanup", "restore", "restoreUnclean",
             "removeOwned", "delete"}
  /\ at \in [d : Nat, r : Nat] /\ target \in {"canonical", "surge"}
FrameType ==
  /\ agent \in Agents /\ op \in {"none", "apply", "resync", "remove"} /\ cur \in Runtime
  /\ prev \in [has : BOOLEAN, runtime : Runtime, phase : Phases]
  /\ live \in BOOLEAN
  /\ before \subseteq [name : Name, hash : Hashes, generation : Generations]
BudgetType == faults \in 0..MaxFaults /\ stops \in 0..MaxStops /\ crashes \in 0..MaxCrashes

\* The parts of the type invariant, in the next state.
LEMMA TypeParts ==
  ASSUME (/\ containers \subseteq Container
          /\ MemoryType /\ DiskType /\ PlaceType /\ FrameType /\ BudgetType)'
  PROVE  TypeOK'
BY DEF TypeOK, MemoryType, DiskType, PlaceType, FrameType, BudgetType, AtDeployment, AtReplica, AtEnd

\* The number of failures stays within its bound.
LEMMA FaultsType ==
  ASSUME TypeOK, UNCHANGED <<stops, crashes>>, faults' = faults \/ \E k : Happens(k)
  PROVE  BudgetType'
BY ConstantsAssumption DEF TypeOK, BudgetType, Happens

\* The loop variables after a step of ensureDeployment.
LEMMA PlacedStep ==
  ASSUME Inv, pc \in AtDeployment, cur' = cur, pc' # "network",
         at' = at \/ (pc' = "inspect" /\ at' = [at EXCEPT !.r = @ + 1]),
         pc' \in AtReplica => at.r <= Here.replicas,
         pc' \in {"surgeRemove", "surgeRename"} => target' = "surge"
  PROVE  Placed'
<1>1. /\ at.d \in 1..Len(DeploymentsOf(cur)) /\ at.r \in Nat /\ at.r >= 1
      /\ at \in [d : Nat, r : Nat]
  BY HereFacts DEF Inv, TypeOK
<1>2. at'.d = at.d /\ (at'.r = at.r \/ (pc' = "inspect" /\ at'.r = at.r + 1))
  BY <1>1
<1>3. Here' = Here /\ DeploymentsOf(cur)' = DeploymentsOf(cur)
  BY <1>2 DEF Here, DeploymentsOf
<1>4. pc' = "inspect" => pc' \notin AtReplica
  BY DEF AtReplica
<1>5. at'.r >= 1
  BY <1>1, <1>2
<1>6. pc' \in AtReplica => at'.r <= Here'.replicas
  BY <1>2, <1>3, <1>4
<1>7. at'.d \in 1..Len(DeploymentsOf(cur)')
  BY <1>1, <1>2, <1>3
<1> QED BY <1>5, <1>6, <1>7 DEF Placed

\* The loop variables when the loops begin, and when they are not in use.
LEMMA PlacedStart ==
  ASSUME cur' \in Document, at' = Start, pc' \notin AtReplica,
         pc' = "network" => target' = "canonical"
  PROVE  Placed'
<1>1. at'.d = 1 /\ at'.r = 1 /\ 1 \in 1..Len(DeploymentsOf(cur'))
  BY TemplateFacts, Values
<1>2. pc' \notin {"surgeRemove", "surgeRename"}
  BY DEF AtReplica
<1> QED BY <1>1, <1>2 DEF Placed, DeploymentsOf

\* Placed asks nothing outside a deployment.
LEMMA PlacedElsewhere ==
  ASSUME pc' \notin AtDeployment \cup {"network"}
  PROVE  Placed'
BY DEF Placed, AtDeployment, AtReplica

\* ensureNetwork preserves Inv: it changes no container.
LEMMA EnsureNetworkInv ==
  ASSUME Inv, EnsureNetwork
  PROVE  Inv'
<1>1. BudgetType'
  BY FaultsType DEF Inv, EnsureNetwork, Succeeds, Fails
<1>2. containers' \subseteq Container /\ FrameType'
  BY DEF Inv, TypeOK, FrameType, EnsureNetwork, frame
<1>3. MemoryType' /\ DiskType'
  BY DEF Inv, TypeOK, MemoryType, DiskType, EnsureNetwork, mem, disk, UpdateStatus, Phases
<1>4. PlaceType'
  BY DEF Inv, TypeOK, PlaceType, EnsureNetwork, Goto, AtDeployment
<1>5. Control'
  BY DEF Inv, TypeOK, Control, EnsureNetwork, UpdateStatus, Goto, mem, disk, frame
<1>6. Placed'
  <2>1. op = "apply" /\ cur \in Document /\ at = Start /\ target = "canonical"
    BY DEF Inv, Control, Placed, EnsureNetwork
  <2>2. pc' \in {"inspect", "fail"} /\ UNCHANGED <<cur, at, target>>
    BY DEF EnsureNetwork, Goto, frame
  <2> QED BY <2>1, <2>2, PlacedStart DEF AtReplica
<1> QED BY <1>1, <1>2, <1>3, <1>4, <1>5, <1>6, TypeParts DEF Inv

\* Reading the canonical container of a replica preserves Inv.
LEMMA InspectReplicaInv ==
  ASSUME Inv, InspectReplica
  PROVE  Inv'
<1>1. BudgetType'
  BY FaultsType DEF Inv, InspectReplica, Succeeds, Fails
<1>2. containers' \subseteq Container /\ FrameType' /\ MemoryType' /\ DiskType'
  BY DEF Inv, TypeOK, FrameType, InspectReplica, frame, MemoryType, DiskType, mem, disk
<1>3. PlaceType'
  BY DEF Inv, TypeOK, PlaceType, InspectReplica, Goto, AtDeployment, AtReplica
<1>4. Control'
  BY DEF Inv, TypeOK, Control, InspectReplica, Goto, mem, disk, frame
<1>5. Placed'
  <2>1. /\ pc = "inspect" /\ at.r <= Here.replicas /\ pc' \in {"pull", "state", "replace"}
        /\ cur' = cur /\ at' = at
    BY DEF InspectReplica, Goto, frame
  <2> QED BY <2>1, PlacedStep DEF AtDeployment
<1> QED BY <1>1, <1>2, <1>3, <1>4, <1>5, TypeParts DEF Inv

\* Comparing the hash and the state, and a start of a stopped container, preserve Inv.
LEMMA CheckStateInv ==
  ASSUME Inv, CheckState
  PROVE  Inv'
<1>1. BudgetType'
  BY FaultsType DEF Inv, CheckState, Succeeds, Fails
<1>2. containers' \subseteq Container /\ FrameType'
  BY DEF Inv, TypeOK, FrameType, CheckState, frame
<1>3. MemoryType' /\ DiskType'
  BY DEF Inv, TypeOK, MemoryType, DiskType, CheckState, mem, disk, UpdateStatus, Phases, Events
<1>4. PlaceType'
  BY DEF Inv, TypeOK, PlaceType, CheckState, Goto, Abort, NextReplica, AtDeployment, AtReplica
<1>5. Control'
  BY DEF Inv, TypeOK, Control, CheckState, Goto, Abort, NextReplica, UpdateStatus, mem, disk, frame
<1>6. Placed'
  <2>1. /\ pc = "state" /\ pc' \in {"abort", "replace", "inspect"} /\ cur' = cur
        /\ at' = at \/ (pc' = "inspect" /\ at' = [at EXCEPT !.r = @ + 1])
    BY DEF CheckState, Goto, frame, NextReplica, Abort
  <2>2. at.r <= Here.replicas
    BY <2>1 DEF Inv, Placed, AtReplica
  <2> QED BY <2>1, <2>2, PlacedStep DEF AtDeployment, AtReplica
<1> QED BY <1>1, <1>2, <1>3, <1>4, <1>5, <1>6, TypeParts DEF Inv

\* Removing the container a recreate replaces preserves Inv.
LEMMA ReplaceContainerInv ==
  ASSUME Inv, ReplaceContainer
  PROVE  Inv'
<1>1. BudgetType'
  BY FaultsType DEF Inv, ReplaceContainer, Succeeds, Fails
<1>2. containers' \subseteq Container /\ FrameType' /\ MemoryType' /\ DiskType'
  BY DEF Inv, TypeOK, FrameType, ReplaceContainer, frame, MemoryType, DiskType, mem, disk
<1>3. PlaceType'
  BY DEF Inv, TypeOK, PlaceType, ReplaceContainer, Goto, Abort, AtDeployment, AtReplica
<1>4. Control'
  BY DEF Inv, TypeOK, Control, ReplaceContainer, Goto, Abort, mem, disk, frame
<1>5. Placed'
  <2>1. pc = "replace" /\ pc' \in {"pull", "abort"} /\ cur' = cur /\ at' = at
    BY DEF ReplaceContainer, Goto, Abort, frame
  <2>2. at.r <= Here.replicas
    BY <2>1 DEF Inv, Placed, AtReplica
  <2> QED BY <2>1, <2>2, PlacedStep DEF AtDeployment, AtReplica
<1> QED BY <1>1, <1>2, <1>3, <1>4, <1>5, TypeParts DEF Inv

\* Pulling the image, at the head of createContainer, preserves Inv.
LEMMA PullImageInv ==
  ASSUME Inv, PullImage
  PROVE  Inv'
<1>1. BudgetType'
  BY FaultsType DEF Inv, PullImage, Fails
<1>2. containers' \subseteq Container /\ FrameType'
  BY DEF Inv, TypeOK, FrameType, PullImage, frame
<1>3. MemoryType' /\ DiskType'
  BY DEF Inv, TypeOK, MemoryType, DiskType, PullImage, UpdateStatus, Phases
<1>4. PlaceType'
  BY DEF Inv, TypeOK, PlaceType, PullImage, Goto, Abort, AtDeployment, AtReplica
<1>5. Control'
  BY DEF Inv, TypeOK, Control, PullImage, Goto, Abort, UpdateStatus, frame
<1>6. Placed'
  <2>1. pc = "pull" /\ pc' \in {"run", "abort"} /\ cur' = cur /\ at' = at
    BY DEF PullImage, Goto, Abort, frame
  <2>2. at.r <= Here.replicas
    BY <2>1 DEF Inv, Placed, AtReplica
  <2> QED BY <2>1, <2>2, PlacedStep DEF AtDeployment, AtReplica
<1> QED BY <1>1, <1>2, <1>3, <1>4, <1>5, <1>6, TypeParts DEF Inv

\* A container that runContainer starts.
LEMMA NewContainerType ==
  ASSUME Inv, pc \in AtReplica, NEW state \in {"starting", "ready", "down"}
  PROVE  /\ NewContainer(TargetName, state) \in Container
         /\ NewContainer(TargetName, state).name = TargetName
         /\ NewContainer(TargetName, state).hash = Here.hash
         /\ NewContainer(TargetName, state).generation = cur.generation
<1>1. PICK n, h, g, c : /\ n = TargetName /\ h = Here.hash /\ g = cur.generation
                        /\ c = NewContainer(TargetName, state)
  OBVIOUS
<1>2. at.r <= Here.replicas /\ pc \in AtDeployment
  BY DEF Inv, Placed, AtDeployment
<1>3. n \in Name /\ h \in Hashes /\ g \in Generations
  BY <1>1, <1>2, ReplicaNames, HereFacts, SpecFacts, DocumentFacts DEF Runtime
<1>4. c = [name |-> n, hash |-> h, generation |-> g, state |-> state]
  BY <1>1 DEF NewContainer
<1> QED BY <1>1, <1>3, <1>4 DEF Container

\* docker run preserves Inv: the new container carries one of the two names of the replica.
LEMMA RunContainerInv ==
  ASSUME Inv, RunContainer
  PROVE  Inv'
<1>1. BudgetType'
  BY FaultsType DEF Inv, RunContainer, Succeeds, Fails
<1>2. FrameType'
  BY DEF Inv, TypeOK, FrameType, RunContainer, frame
<1>3. MemoryType' /\ DiskType'
  BY DEF Inv, TypeOK, MemoryType, DiskType, RunContainer, UpdateStatus, Phases
<1>4. PlaceType'
  BY DEF Inv, TypeOK, PlaceType, RunContainer, Goto, Abort, AtDeployment, AtReplica
<1>5. Control'
  BY DEF Inv, TypeOK, Control, RunContainer, Goto, Abort, UpdateStatus, frame
<1>6. Placed'
  <2>1. pc = "run" /\ pc' \in {"wait", "abort"} /\ cur' = cur /\ at' = at
    BY DEF RunContainer, Goto, Abort, frame
  <2>2. at.r <= Here.replicas
    BY <2>1 DEF Inv, Placed, AtReplica
  <2> QED BY <2>1, <2>2, PlacedStep DEF AtDeployment, AtReplica
<1>7. containers' \subseteq Container
  <2>1. pc \in AtReplica
    BY DEF RunContainer, AtReplica
  <2>2. containers \subseteq Container
    BY DEF Inv, TypeOK
  <2>3. \/ containers' = containers
        \/ containers' = containers \cup {NewContainer(TargetName, "starting")}
        \/ containers' = containers \cup {NewContainer(TargetName, "down")}
    BY DEF RunContainer
  <2> QED BY <2>1, <2>2, <2>3, NewContainerType
<1> QED BY <1>1, <1>2, <1>3, <1>4, <1>5, <1>6, <1>7, TypeParts DEF Inv

\* Waiting for readiness, and giving up, preserve Inv.
LEMMA WaitReadyInv ==
  ASSUME Inv, WaitReady
  PROVE  Inv'
<1>1. BudgetType'
  BY FaultsType DEF Inv, WaitReady, Succeeds
<1>2. containers' \subseteq Container /\ FrameType' /\ MemoryType' /\ DiskType'
  BY DEF Inv, TypeOK, FrameType, WaitReady, frame, MemoryType, DiskType, mem, disk
<1>3. PlaceType'
  BY DEF Inv, TypeOK, PlaceType, WaitReady, AfterReady, Goto, Abort, NextReplica, AtDeployment, AtReplica
<1>4. Control'
  BY DEF Inv, TypeOK, Control, WaitReady, AfterReady, Goto, Abort, NextReplica, mem, disk, frame
<1>5. Placed'
  <2>1. /\ pc = "wait" /\ pc' \in {"surgeRemove", "abort", "inspect"} /\ cur' = cur
        /\ at' = at \/ (pc' = "inspect" /\ at' = [at EXCEPT !.r = @ + 1])
        /\ pc' = "surgeRemove" => target' = "surge"
    BY DEF WaitReady, AfterReady, Goto, Abort, NextReplica, frame
  <2>2. at.r <= Here.replicas
    BY <2>1 DEF Inv, Placed, AtReplica
  <2> QED BY <2>1, <2>2, PlacedStep DEF AtDeployment, AtReplica
<1> QED BY <1>1, <1>2, <1>3, <1>4, <1>5, TypeParts DEF Inv

\* Removing the old container once the surge one is ready preserves Inv.
LEMMA SurgeRemoveInv ==
  ASSUME Inv, SurgeRemove
  PROVE  Inv'
<1>1. BudgetType'
  BY FaultsType DEF Inv, SurgeRemove, Succeeds, Fails
<1>2. containers' \subseteq Container /\ FrameType' /\ MemoryType' /\ DiskType'
  BY DEF Inv, TypeOK, FrameType, SurgeRemove, frame, MemoryType, DiskType, mem, disk
<1>3. PlaceType'
  BY DEF Inv, TypeOK, PlaceType, SurgeRemove, Goto, Abort, AtDeployment, AtReplica
<1>4. Control'
  BY DEF Inv, TypeOK, Control, SurgeRemove, Goto, Abort, mem, disk, frame
<1>5. Placed'
  <2>1. /\ pc = "surgeRemove" /\ pc' \in {"surgeRename", "abort"} /\ cur' = cur /\ at' = at
        /\ target' = target
    BY DEF SurgeRemove, Goto, Abort, frame
  <2>2. at.r <= Here.replicas /\ target = "surge"
    BY <2>1 DEF Inv, Placed, AtReplica
  <2> QED BY <2>1, <2>2, PlacedStep DEF AtDeployment, AtReplica
<1> QED BY <1>1, <1>2, <1>3, <1>4, <1>5, TypeParts DEF Inv

\* A container that docker rename works on.
LEMMA RenamedType ==
  ASSUME Inv, pc \in AtReplica, NEW c \in Container
  PROVE  /\ Renamed(c) \in Container
         /\ Renamed(c).name = IF c.name = SurgeName THEN CanonicalName ELSE c.name
         /\ Renamed(c).hash = c.hash /\ Renamed(c).generation = c.generation
         /\ Renamed(c).state = c.state
<1>1. at.r <= Here.replicas /\ pc \in AtDeployment
  BY DEF Inv, Placed, AtDeployment
<1>2. PICK n, m : n = CanonicalName /\ m = SurgeName
  OBVIOUS
<1>3. n \in Name
  BY <1>1, <1>2, ReplicaNames
<1>4. Renamed(c) = IF c.name = m THEN [c EXCEPT !.name = n] ELSE c
  BY <1>2 DEF Renamed
<1>5. PICK b : b = [c EXCEPT !.name = n]
  OBVIOUS
<1>6. /\ b \in Container /\ b.name = n /\ b.hash = c.hash
      /\ b.generation = c.generation /\ b.state = c.state
  BY <1>3, <1>5 DEF Container
<1> QED BY <1>2, <1>4, <1>5, <1>6

\* Renaming the surge container to the canonical name preserves Inv.
LEMMA SurgeRenameInv ==
  ASSUME Inv, SurgeRename
  PROVE  Inv'
<1>1. BudgetType'
  BY FaultsType DEF Inv, SurgeRename, Succeeds, Fails
<1>2. FrameType' /\ MemoryType' /\ DiskType'
  BY DEF Inv, TypeOK, FrameType, SurgeRename, frame, MemoryType, DiskType, mem, disk
<1>3. PlaceType'
  BY DEF Inv, TypeOK, PlaceType, SurgeRename, Goto, Abort, NextReplica, AtDeployment, AtReplica
<1>4. Control'
  BY DEF Inv, TypeOK, Control, SurgeRename, Goto, Abort, NextReplica, mem, disk, frame
<1>5. Placed'
  <2>1. /\ pc = "surgeRename" /\ pc' \in {"inspect", "abort"} /\ cur' = cur
        /\ at' = at \/ (pc' = "inspect" /\ at' = [at EXCEPT !.r = @ + 1])
    BY DEF SurgeRename, Goto, Abort, NextReplica, frame
  <2>2. at.r <= Here.replicas
    BY <2>1 DEF Inv, Placed, AtReplica
  <2> QED BY <2>1, <2>2, PlacedStep DEF AtDeployment, AtReplica
<1>6. containers' \subseteq Container
  <2>1. pc \in AtReplica /\ containers \subseteq Container
    BY DEF SurgeRename, AtReplica, Inv, TypeOK
  <2>2. containers' = containers \/ containers' = {Renamed(c) : c \in containers}
    BY DEF SurgeRename
  <2> QED BY <2>1, <2>2, RenamedType
<1> QED BY <1>1, <1>2, <1>3, <1>4, <1>5, <1>6, TypeParts DEF Inv

\* Leaving the loop over the replicas preserves Inv.
LEMMA ReplicasDoneInv ==
  ASSUME Inv, ReplicasDone
  PROVE  Inv'
<1>1. BudgetType'
  BY FaultsType DEF Inv, ReplicasDone, budget
<1>2. containers' \subseteq Container /\ FrameType' /\ MemoryType' /\ DiskType'
  BY DEF Inv, TypeOK, FrameType, ReplicasDone, frame, MemoryType, DiskType, mem, disk
<1>3. PlaceType'
  BY DEF Inv, TypeOK, PlaceType, ReplicasDone, Goto, AtDeployment
<1>4. Control'
  BY DEF Inv, TypeOK, Control, ReplicasDone, Goto, mem, disk, frame
<1>5. Placed'
  <2>1. pc = "inspect" /\ pc' = "extra" /\ cur' = cur /\ at' = at
    BY DEF ReplicasDone, Goto, frame
  <2> QED BY <2>1, PlacedStep DEF AtDeployment, AtReplica
<1> QED BY <1>1, <1>2, <1>3, <1>4, <1>5, TypeParts DEF Inv

\* Scaling down, and going on to the next deployment, preserve Inv.
LEMMA RemoveExtraReplicasInv ==
  ASSUME Inv, RemoveExtraReplicas
  PROVE  Inv'
<1>1. BudgetType'
  BY FaultsType DEF Inv, RemoveExtraReplicas, Succeeds, Fails
<1>2. containers' \subseteq Container /\ FrameType' /\ MemoryType' /\ DiskType'
  BY DEF Inv, TypeOK, FrameType, RemoveExtraReplicas, frame, MemoryType, DiskType, mem, disk
<1>3. /\ pc = "extra" /\ cur' = cur
      /\ \/ pc' \in {"extra", "abort"} /\ UNCHANGED <<at, target>>
         \/ /\ at.d < Len(DeploymentsOf(cur)) /\ pc' = "inspect" /\ target' = target
            /\ at' = [d |-> at.d + 1, r |-> 1]
         \/ pc' = "refresh" /\ at' = Start /\ target' = target
  BY DEF RemoveExtraReplicas, Goto, Abort, frame
<1>4. at.d \in Nat /\ at.d >= 1 /\ Len(DeploymentsOf(cur)) \in Nat
  BY <1>3, HereFacts, TemplateFacts DEF AtDeployment
<1>5. PlaceType'
  BY <1>3, <1>4, Values DEF Inv, TypeOK, PlaceType, AtDeployment, AtEnd
<1>6. Control'
  BY <1>3 DEF Inv, TypeOK, Control, RemoveExtraReplicas, mem, disk, frame
<1>7. Placed'
  <2>1. CASE pc' \in {"extra", "abort"} /\ UNCHANGED <<at, target>>
    BY <1>3, <2>1, PlacedStep DEF AtDeployment, AtReplica
  <2>2. CASE /\ at.d < Len(DeploymentsOf(cur)) /\ pc' = "inspect" /\ target' = target
             /\ at' = [d |-> at.d + 1, r |-> 1]
    <3>1. /\ DeploymentsOf(cur)' = DeploymentsOf(cur) /\ at'.d = at.d + 1 /\ at'.r = 1
      BY <1>3, <2>2 DEF DeploymentsOf
    <3>2. at'.d \in 1..Len(DeploymentsOf(cur)')
      BY <1>4, <2>2, <3>1
    <3>3. pc' \notin AtReplica
      BY <2>2 DEF AtReplica
    <3> QED BY <2>2, <3>1, <3>2, <3>3 DEF Placed
  <2>3. CASE pc' = "refresh"
    BY <2>3, PlacedElsewhere DEF AtDeployment, AtReplica
  <2> QED BY <1>3, <2>1, <2>2, <2>3
<1> QED BY <1>1, <1>2, <1>5, <1>6, <1>7, TypeParts DEF Inv

\* Every operation leaves the process and the loop variables the same way.
LEMMA ReturnFacts ==
  ASSUME Inv, NEW ok, Return(ok), op # "none",
         spec' \in Document \cup {NoRuntime}, savedSpec' \in Document \cup {NoRuntime}
  PROVE  /\ FrameType' /\ PlaceType' /\ Control' /\ Placed'
         /\ op' = "none" /\ pc' = "idle"
         /\ agent' = IF agent = "loading" THEN IF ok THEN "serving" ELSE "failing" ELSE agent
<1>1. /\ op' = "none" /\ pc' = "idle" /\ cur' = NoRuntime /\ prev' = NoPrevious
      /\ at' = Start /\ target' = "canonical" /\ live' = TRUE /\ before' = {}
  BY DEF Return
<1>2. agent' = IF agent = "loading" THEN IF ok THEN "serving" ELSE "failing" ELSE agent
  BY DEF Return
<1>3. agent \in Agents /\ agent \notin {"down", "stopped"}
  BY DEF Inv, TypeOK, Control
<1>4. agent' \in Agents /\ agent' # "loading" /\ agent' \notin {"down", "stopped"}
  BY <1>2, <1>3 DEF Agents
<1>5. FrameType'
  BY <1>1, <1>4, NoRuntimeType, Values DEF FrameType
<1>6. PlaceType'
  BY <1>1, Values DEF PlaceType
<1>7. Control'
  BY <1>1, <1>4, Values DEF Control
<1>8. Placed'
  BY <1>1, PlacedElsewhere DEF AtDeployment, AtReplica
<1> QED BY <1>1, <1>2, <1>5, <1>6, <1>7, <1>8

\* What memory and the disk may hold.
LEMMA HeldTypes ==
  ASSUME Inv
  PROVE  /\ spec \in Document \cup {NoRuntime} /\ savedSpec \in Document \cup {NoRuntime}
         /\ op \in {"apply", "resync"} => cur \in Document
         /\ prev.has => prev.runtime \in Document
         /\ prev.phase \in Phases /\ phase \in Phases /\ savedPhase \in Phases
         /\ Document \subseteq Runtime
BY DocumentFacts DEF Inv, Control, TypeOK

\* recordFailedStatus at the end of an operation.
LEMMA RecordFailedInv ==
  ASSUME Inv, RecordFailedStatus, Return(FALSE), op \in {"apply", "resync"},
         UNCHANGED <<containers, budget>>
  PROVE  Inv'
<1>1. /\ spec' = cur /\ savedSpec' = cur /\ phase' = "Failed" /\ savedPhase' = "Failed"
      /\ event' = "ReconcileFailed" /\ endpoints' = endpoints
  BY DEF RecordFailedStatus
<1>2. BudgetType' /\ containers' \subseteq Container
  BY DEF Inv, TypeOK, BudgetType, budget
<1>3. MemoryType' /\ DiskType'
  BY <1>1, HeldTypes DEF Inv, TypeOK, MemoryType, DiskType, Phases, Events
<1> QED BY <1>1, <1>2, <1>3, HeldTypes, ReturnFacts, TypeParts DEF Inv

\* The choice between rolling back and recording the failure preserves Inv.
LEMMA HandleAbortInv ==
  ASSUME Inv, HandleAbort
  PROVE  Inv'
<1>1. pc = "abort" /\ UNCHANGED <<containers, budget>>
  BY DEF HandleAbort
<1>2. op \in {"apply", "resync"}
  BY <1>1 DEF Inv, TypeOK, Control
<1>3. CASE op = "apply" /\ prev.has
  <2>1. /\ Goto("cleanup") /\ event' = "RollbackStarted" /\ UNCHANGED <<mem, disk, frame>>
    BY <1>3 DEF HandleAbort
  <2>2. BudgetType' /\ containers' \subseteq Container
    BY <1>1 DEF Inv, TypeOK, BudgetType, budget
  <2>3. FrameType' /\ MemoryType' /\ DiskType'
    BY <2>1 DEF Inv, TypeOK, FrameType, MemoryType, DiskType, mem, disk, frame, Events
  <2>4. PlaceType'
    BY <2>1 DEF Inv, TypeOK, PlaceType, Goto
  <2>5. Control'
    BY <1>1, <1>3, <2>1 DEF Inv, Control, Goto, mem, disk, frame
  <2>6. Placed'
    BY <2>1, PlacedElsewhere DEF Goto, AtDeployment, AtReplica
  <2> QED BY <2>2, <2>3, <2>4, <2>5, <2>6, TypeParts DEF Inv
<1>4. CASE ~(op = "apply" /\ prev.has)
  BY <1>1, <1>2, <1>4, RecordFailedInv DEF HandleAbort
<1> QED BY <1>3, <1>4

\* Recording a failed apply or resync preserves Inv.
LEMMA HandleFailureInv ==
  ASSUME Inv, HandleFailure
  PROVE  Inv'
<1>1. op \in {"apply", "resync"}
  BY DEF HandleFailure, Inv, TypeOK, Control
<1> QED BY <1>1, RecordFailedInv DEF HandleFailure

\* Removing the containers of the failed generation preserves Inv.
LEMMA RollbackInv ==
  ASSUME Inv, Rollback
  PROVE  Inv'
<1>1. /\ pc = "cleanup" /\ op = "apply" /\ prev.has
      /\ containers \subseteq Container /\ containers' \subseteq containers
  BY DEF Rollback, Inv, Control, TypeOK
<1>2. BudgetType'
  BY FaultsType DEF Inv, Rollback, Succeeds, Fails
<1>3. /\ pc' \in {"cleanup", "restore", "restoreUnclean"} /\ UNCHANGED <<at, target>>
      /\ UNCHANGED <<mem, disk, event, frame>>
  BY DEF Rollback, Goto
<1>4. FrameType' /\ MemoryType' /\ DiskType'
  BY <1>3 DEF Inv, TypeOK, FrameType, MemoryType, DiskType, mem, disk, frame
<1>5. PlaceType'
  BY <1>3 DEF Inv, TypeOK, PlaceType
<1>6. Control'
  BY <1>1, <1>3 DEF Inv, Control, mem, disk, frame
<1>7. Placed'
  BY <1>3, PlacedElsewhere DEF AtDeployment, AtReplica
<1> QED BY <1>1, <1>2, <1>4, <1>5, <1>6, <1>7, TypeParts DEF Inv

\* What restorePreviousRuntime does to memory and files.
LEMMA RestoreFacts ==
  ASSUME Inv, Restore
  PROVE  /\ pc \in {"restore", "restoreUnclean"} /\ op = "apply" /\ prev.has /\ prev.runtime \in Document
         /\ spec' = prev.runtime /\ phase' = prev.phase
         /\ UNCHANGED <<containers, endpoints, stops, crashes>>
         /\ savedSpec' \in {savedSpec, prev.runtime} /\ savedPhase' \in {savedPhase, prev.phase}
         /\ event' \in {"RollbackComplete", "RollbackFailed"} /\ Return(FALSE)
<1>1. pc \in {"restore", "restoreUnclean"} /\ Return(FALSE) /\ UNCHANGED <<containers, endpoints, stops, crashes>>
      /\ spec' = prev.runtime /\ phase' = prev.phase
  BY DEF Restore
<1>2. op = "apply" /\ prev.has /\ prev.runtime \in Document
  BY <1>1 DEF Inv, Control
<1>3. /\ savedSpec' \in {savedSpec, prev.runtime} /\ savedPhase' \in {savedPhase, prev.phase}
      /\ event' \in {"RollbackComplete", "RollbackFailed"}
  BY DEF Restore
<1> QED BY <1>1, <1>2, <1>3

\* Putting the previous Runtime back preserves Inv.
LEMMA RestoreInv ==
  ASSUME Inv, Restore
  PROVE  Inv'
<1>1. BudgetType'
  BY FaultsType DEF Inv, Restore
<1>2. MemoryType' /\ DiskType' /\ containers' \subseteq Container
  BY RestoreFacts, HeldTypes DEF Inv, TypeOK, MemoryType, DiskType, Events
<1> QED BY <1>1, <1>2, RestoreFacts, HeldTypes, ReturnFacts, TypeParts DEF Inv

\* refreshEndpoints preserves Inv: the cached endpoints are containers' names.
LEMMA RefreshEndpointsInv ==
  ASSUME Inv, RefreshEndpoints
  PROVE  Inv'
<1>1. BudgetType'
  BY FaultsType DEF Inv, RefreshEndpoints, Succeeds, Fails
<1>2. containers' \subseteq Container /\ FrameType' /\ DiskType'
  BY DEF Inv, TypeOK, FrameType, RefreshEndpoints, frame, DiskType, disk
<1>3. ReadyNames(cur) \subseteq Name
  BY DEF ReadyNames, Inv, TypeOK, Container
<1>4. \A eps : ObservedPhase(cur, eps) \in Phases
  BY DEF ObservedPhase, Phases
<1>5. MemoryType'
  BY <1>3, <1>4 DEF Inv, TypeOK, MemoryType, RefreshEndpoints, mem
<1>6. PlaceType'
  BY DEF Inv, TypeOK, PlaceType, RefreshEndpoints, Goto, AtEnd
<1>7. Control'
  <2>1. op \in {"apply", "resync"} /\ pc = "refresh"
    BY DEF RefreshEndpoints, Inv, TypeOK, Control
  <2>2. /\ UNCHANGED <<agent, op, cur, prev, savedSpec>>
        /\ pc' \in {"ports", "saveStatus", "fail"} /\ (pc' = "ports" => op = "apply")
        /\ spec' \in {cur, spec} /\ (agent \in {"down", "stopped"} => FALSE)
    BY <2>1 DEF RefreshEndpoints, Goto, frame, disk, mem, Inv, Control
  <2> QED BY <2>1, <2>2 DEF Inv, Control
<1>8. Placed'
  BY PlacedElsewhere DEF RefreshEndpoints, Goto, AtDeployment, AtReplica
<1> QED BY <1>1, <1>2, <1>5, <1>6, <1>7, <1>8, TypeParts DEF Inv

\* Starting the listeners, which may refuse the document, preserves Inv.
LEMMA StartPortsInv ==
  ASSUME Inv, StartPorts
  PROVE  Inv'
<1>1. BudgetType'
  BY FaultsType DEF Inv, StartPorts
<1>2. containers' \subseteq Container /\ FrameType' /\ DiskType'
  BY DEF Inv, TypeOK, FrameType, StartPorts, frame, DiskType, disk
<1>3. MemoryType'
  BY DEF Inv, TypeOK, MemoryType, StartPorts, ObservedPhase, Phases
<1>4. PlaceType'
  BY DEF Inv, TypeOK, PlaceType, StartPorts, Goto, AtEnd
<1>5. Control'
  BY DEF Inv, TypeOK, Control, StartPorts, Goto, frame, disk
<1>6. Placed'
  BY PlacedElsewhere DEF StartPorts, Goto, AtDeployment, AtReplica
<1> QED BY <1>1, <1>2, <1>3, <1>4, <1>5, <1>6, TypeParts DEF Inv

\* Writing the document preserves Inv, written or not.
LEMMA SaveRuntimeInv ==
  ASSUME Inv, SaveRuntime
  PROVE  Inv'
<1>1. BudgetType'
  BY FaultsType DEF Inv, SaveRuntime
<1>2. containers' \subseteq Container /\ MemoryType' /\ UNCHANGED <<savedPhase, event>>
  BY DEF Inv, TypeOK, SaveRuntime, MemoryType, mem
<1>3. pc = "saveRuntime" /\ op = "apply" /\ cur \in Document /\ spec' = spec
  BY DEF SaveRuntime, Inv, Control, mem
<1>4. CASE UNCHANGED frame /\ Goto("saveStatus") /\ savedSpec' = cur
  <2>1. FrameType' /\ DiskType'
    BY <1>2, <1>3, <1>4, HeldTypes DEF Inv, TypeOK, FrameType, DiskType, frame
  <2>2. PlaceType'
    BY <1>4 DEF Inv, TypeOK, PlaceType, Goto, AtEnd
  <2>3. Control'
    BY <1>3, <1>4 DEF Inv, Control, Goto, frame
  <2>4. Placed'
    BY <1>4, PlacedElsewhere DEF Goto, AtDeployment, AtReplica
  <2> QED BY <1>1, <1>2, <2>1, <2>2, <2>3, <2>4, TypeParts DEF Inv
<1>5. CASE Return(FALSE) /\ UNCHANGED savedSpec
  <2>1. DiskType'
    BY <1>2, <1>5 DEF Inv, TypeOK, DiskType
  <2> QED BY <1>1, <1>2, <1>3, <1>5, <2>1, HeldTypes, ReturnFacts, TypeParts DEF Inv
<1> QED BY <1>4, <1>5 DEF SaveRuntime

\* Writing the status of a finished apply or resync preserves Inv.
LEMMA SaveStatusInv ==
  ASSUME Inv, SaveStatus
  PROVE  Inv'
<1>1. BudgetType'
  BY FaultsType DEF Inv, SaveStatus
<1>2. containers' \subseteq Container /\ MemoryType' /\ UNCHANGED <<spec, savedSpec>>
  BY DEF Inv, TypeOK, SaveStatus, MemoryType, mem
<1>3. op # "none"
  BY DEF SaveStatus, Inv, Control
<1>4. DiskType'
  BY DEF Inv, TypeOK, DiskType, SaveStatus, Events
<1>5. Return(live) \/ Return(FALSE)
  BY DEF SaveStatus
<1> QED BY <1>1, <1>2, <1>3, <1>4, <1>5, HeldTypes, ReturnFacts, TypeParts DEF Inv

\* Removing the runtime's containers preserves Inv, all of them removed or not.
LEMMA RemoveOwnedContainersInv ==
  ASSUME Inv, RemoveOwnedContainers
  PROVE  Inv'
<1>1. BudgetType'
  BY FaultsType DEF Inv, RemoveOwnedContainers, Succeeds, Fails
<1>2. /\ containers' \subseteq Container /\ MemoryType' /\ DiskType'
      /\ UNCHANGED <<spec, savedSpec, phase>>
  BY DEF Inv, TypeOK, RemoveOwnedContainers, MemoryType, DiskType, mem, disk
<1>3. op = "remove"
  BY DEF RemoveOwnedContainers, Inv, Control
<1>4. CASE (Goto("removeOwned") \/ Goto("delete")) /\ UNCHANGED frame
  <2>1. FrameType'
    BY <1>4 DEF Inv, TypeOK, FrameType, frame
  <2>2. PlaceType'
    BY <1>4 DEF Inv, TypeOK, PlaceType, Goto
  <2>3. Control'
    BY <1>2, <1>3, <1>4 DEF Inv, Control, Goto, frame
  <2>4. Placed'
    BY <1>4, PlacedElsewhere DEF Goto, AtDeployment, AtReplica
  <2> QED BY <1>1, <1>2, <2>1, <2>2, <2>3, <2>4, TypeParts DEF Inv
<1>5. CASE Return(FALSE)
  BY <1>1, <1>2, <1>3, <1>5, HeldTypes, ReturnFacts, TypeParts DEF Inv
<1> QED BY <1>4, <1>5 DEF RemoveOwnedContainers

\* Deleting the files and forgetting the runtime preserve Inv.
LEMMA DeleteRuntimeInv ==
  ASSUME Inv, DeleteRuntime
  PROVE  Inv'
<1>1. BudgetType'
  BY FaultsType DEF Inv, DeleteRuntime
<1>2. /\ containers' \subseteq Container /\ MemoryType' /\ spec' = spec /\ Return(TRUE)
  BY DEF Inv, TypeOK, DeleteRuntime, MemoryType, mem
<1>3. DiskType' /\ savedSpec' \in {savedSpec, NoRuntime}
  BY Values, NoRuntimeType DEF Inv, TypeOK, DeleteRuntime, DiskType, disk, Events
<1>4. op # "none"
  BY DEF DeleteRuntime, Inv, Control
<1> QED BY <1>1, <1>2, <1>3, <1>4, HeldTypes, ReturnFacts, TypeParts DEF Inv

-----------------------------------------------------------------------------
(* Operations that begin, the process and Docker *)

\* The labels of containers, for the record of what there was.
LEMMA LabelsType ==
  ASSUME NEW S, S \subseteq Container
  PROVE  Labels(S) \subseteq [name : Name, hash : Hashes, generation : Generations]
BY DEF Labels, Container

\* An operation that begins.
LEMMA BeginFacts ==
  ASSUME Inv, NEW kind \in {"apply", "resync", "remove"}, NEW label, NEW rt \in Runtime,
         Begin(kind, label, rt), label \in {"network", "inspect", "removeOwned", "delete"},
         agent' \in Agents, prev' \in [has : BOOLEAN, runtime : Runtime, phase : Phases],
         label \in {"network", "inspect"} => rt \in Document
  PROVE  FrameType' /\ PlaceType' /\ Placed' /\ op' = kind /\ pc' = label /\ cur' = rt
<1>1. /\ op' = kind /\ pc' = label /\ cur' = rt /\ at' = Start /\ target' = "canonical"
      /\ live' = TRUE /\ before' = Labels(containers)
  BY DEF Begin
<1>2. before' \subseteq [name : Name, hash : Hashes, generation : Generations]
  BY <1>1, LabelsType DEF Inv, TypeOK
<1>3. FrameType'
  BY <1>1, <1>2 DEF FrameType
<1>4. PlaceType'
  BY <1>1, Values DEF PlaceType, AtDeployment
<1>5. CASE label \in {"network", "inspect"}
  BY <1>1, <1>3, <1>4, <1>5, PlacedStart DEF AtReplica
<1>6. CASE label \in {"removeOwned", "delete"}
  BY <1>1, <1>3, <1>4, <1>6, PlacedElsewhere DEF AtDeployment, AtReplica
<1> QED BY <1>5, <1>6

\* What previousRuntimeState finds.
LEMMA PreviousFacts ==
  ASSUME Inv
  PROVE  /\ PreviousRuntimeState \in [has : BOOLEAN, runtime : Runtime, phase : Phases]
         /\ PreviousRuntimeState.has => PreviousRuntimeState.runtime \in Document
<1>1. CASE spec # NoRuntime
  <2>1. spec \in Document /\ spec \in Runtime /\ phase \in Phases
    BY <1>1, HeldTypes
  <2> QED BY <1>1, <2>1 DEF PreviousRuntimeState
<1>2. CASE spec = NoRuntime /\ savedSpec # NoRuntime
  <2>1. savedSpec \in Document /\ savedSpec \in Runtime /\ savedPhase \in Phases
    BY <1>2, HeldTypes
  <2> QED BY <1>2, <2>1 DEF PreviousRuntimeState
<1>3. CASE spec = NoRuntime /\ savedSpec = NoRuntime
  BY <1>3, Values DEF PreviousRuntimeState
<1> QED BY <1>1, <1>2, <1>3

\* Apply of a document, by a client or by Load.
LEMMA BeginApplyInv ==
  ASSUME Inv, NEW rt \in Document, BeginApply(rt), op = "none",
         agent' \in {"loading", "serving"}
  PROVE  Inv'
<1>1. /\ Begin("apply", "network", rt) /\ prev' = PreviousRuntimeState
      /\ event' = "ApplyStarted" /\ spec' = rt /\ phase' \in {"Updating", "Pending"}
      /\ savedPhase' = phase' /\ UNCHANGED <<containers, endpoints, savedSpec, budget>>
  BY DEF BeginApply
<1>2. FrameType' /\ PlaceType' /\ Placed' /\ op' = "apply" /\ pc' = "network" /\ cur' = rt
  BY <1>1, HeldTypes, PreviousFacts, BeginFacts DEF Agents
<1>3. BudgetType' /\ containers' \subseteq Container
  BY <1>1 DEF Inv, TypeOK, BudgetType, budget
<1>4. MemoryType' /\ DiskType'
  BY <1>1, HeldTypes DEF Inv, TypeOK, MemoryType, DiskType, Phases, Events
<1>5. Control'
  BY <1>1, <1>2, HeldTypes, PreviousFacts DEF Control
<1> QED BY <1>2, <1>3, <1>4, <1>5, TypeParts DEF Inv

\* The document a client's Apply works with: its generation is set.
LEMMA AppliedDocument ==
  ASSUME Inv, NEW v \in Versions, NEW g \in ExplicitGens \cup {0}, Apply(v, g)
  PROVE  \E rt \in Document : BeginApply(rt) /\ op = "none" /\ agent = "serving" /\ agent' = agent
<1>1. PICK rt : /\ rt = [version |-> v, generation |-> IF g = 0 THEN NextGeneration ELSE g]
                /\ BeginApply(rt) /\ op = "none" /\ agent = "serving" /\ agent' = agent
  BY DEF Apply
<1>2. spec.generation \in Int
  <2>1. Generations \subseteq Int
    BY ConstantsAssumption DEF Generations
  <2> QED BY <2>1 DEF Inv, TypeOK, Runtime
<1>3. g = 0 => NextGeneration \in Generations \ {0}
  <2>1. g = 0 => NextGeneration \in 1..MaxGeneration
    BY <1>2, ConstantsAssumption DEF Apply, NextGeneration
  <2> QED BY <2>1, ConstantsAssumption DEF Generations
<1>4. g # 0 => g \in Generations \ {0}
  BY DEF Generations
<1>5. rt \in Document
  BY <1>1, <1>3, <1>4 DEF Document
<1> QED BY <1>1, <1>5

\* The head of Apply preserves Inv, for a document of any generation.
LEMMA ApplyInv ==
  ASSUME Inv, NEW v \in Versions, NEW g \in ExplicitGens \cup {0}, Apply(v, g)
  PROVE  Inv'
<1>1. PICK rt \in Document : BeginApply(rt) /\ op = "none" /\ agent = "serving" /\ agent' = agent
  BY AppliedDocument
<1> QED BY <1>1, BeginApplyInv

\* The head of Resync preserves Inv.
LEMMA ResyncInv ==
  ASSUME Inv, Resync
  PROVE  Inv'
<1>1. /\ agent = "serving" /\ op = "none" /\ spec \in Document /\ Begin("resync", "inspect", spec)
      /\ UNCHANGED <<containers, mem, disk, event, agent, prev, budget>>
  BY HeldTypes DEF Resync
<1>2. FrameType' /\ PlaceType' /\ Placed' /\ op' = "resync" /\ pc' = "inspect" /\ cur' = spec
  BY <1>1, HeldTypes, BeginFacts DEF Inv, TypeOK
<1>3. BudgetType' /\ containers' \subseteq Container /\ MemoryType' /\ DiskType'
  BY <1>1 DEF Inv, TypeOK, BudgetType, budget, MemoryType, DiskType, mem, disk
<1>4. Control'
  BY <1>1, <1>2 DEF Inv, Control, mem, disk
<1> QED BY <1>2, <1>3, <1>4, TypeParts DEF Inv

\* The head of Remove preserves Inv, with the Terminating status written or not.
LEMMA RemoveInv ==
  ASSUME Inv, Remove
  PROVE  Inv'
<1>1. PICK label \in {"removeOwned", "delete"} :
        /\ agent = "serving" /\ op = "none" /\ Begin("remove", label, RemovedRuntime)
        /\ event' = "DeleteStarted" /\ savedPhase' \in {"Terminating", savedPhase}
        /\ spec' = NoRuntime /\ phase' = Absent /\ endpoints' = {}
        /\ UNCHANGED <<containers, savedSpec, agent, prev, budget>>
  BY DEF Remove
<1>2. RemovedRuntime \in Runtime
  BY DEF RemovedRuntime, Inv, TypeOK
<1>3. FrameType' /\ PlaceType' /\ Placed' /\ op' = "remove" /\ pc' = label
  BY <1>1, <1>2, BeginFacts DEF Inv, TypeOK
<1>4. BudgetType' /\ containers' \subseteq Container
  BY <1>1 DEF Inv, TypeOK, BudgetType, budget
<1>5. MemoryType' /\ DiskType'
  BY <1>1, Values, NoRuntimeType DEF Inv, TypeOK, MemoryType, DiskType, Phases, Events
<1>6. Control'
  BY <1>1, <1>3 DEF Inv, Control
<1> QED BY <1>3, <1>4, <1>5, <1>6, TypeParts DEF Inv

\* A step that leaves the operation where it is.
LEMMA PlaceStays ==
  ASSUME Inv, UNCHANGED <<op, cur, prev, before, place, spec, savedSpec>>
  PROVE  PlaceType' /\ Placed'
<1>1. UNCHANGED <<pc, at, target, cur>>
  BY DEF place
<1>2. PlaceType'
  BY <1>1 DEF Inv, TypeOK, PlaceType, AtDeployment, AtReplica, AtEnd
<1>3. Here' = Here /\ DeploymentsOf(cur)' = DeploymentsOf(cur)
  BY <1>1 DEF Here, DeploymentsOf
<1> QED BY <1>1, <1>2, <1>3 DEF Inv, Placed

\* The end of the caller's context preserves Inv.
LEMMA CancelInv ==
  ASSUME Inv, Cancel
  PROVE  Inv'
<1>1. BudgetType'
  BY FaultsType DEF Inv, Cancel
<1>2. containers' \subseteq Container /\ FrameType' /\ MemoryType' /\ DiskType'
  BY DEF Inv, TypeOK, Cancel, FrameType, MemoryType, DiskType, mem, disk
<1>3. PlaceType' /\ Placed'
  BY PlaceStays DEF Cancel, mem, disk
<1>4. Control'
  BY DEF Inv, Control, Cancel, mem, disk, place
<1> QED BY <1>1, <1>2, <1>3, <1>4, TypeParts DEF Inv

\* A SIGTERM, after which the operation in progress ends by itself, preserves Inv.
LEMMA TerminateInv ==
  ASSUME Inv, Terminate
  PROVE  Inv'
<1>1. BudgetType'
  BY ConstantsAssumption DEF Inv, TypeOK, BudgetType, Terminate
<1>2. containers' \subseteq Container /\ MemoryType' /\ DiskType'
  BY DEF Inv, TypeOK, Terminate, MemoryType, DiskType, mem, disk
<1>3. live' \in BOOLEAN
  BY DEF Inv, TypeOK, Terminate
<1>4. FrameType'
  BY <1>3 DEF Inv, TypeOK, Terminate, FrameType, Agents
<1>5. PlaceType' /\ Placed'
  BY PlaceStays DEF Terminate, mem, disk
<1>6. Control'
  BY DEF Inv, Control, Terminate, mem, disk, place
<1> QED BY <1>1, <1>2, <1>4, <1>5, <1>6, TypeParts DEF Inv

\* The process is gone.
LEMMA GoneInv ==
  ASSUME Inv, NEW s \in {"down", "stopped"}, Gone(s), crashes' \in 0..MaxCrashes
  PROVE  Inv'
<1>1. /\ agent' = s /\ op' = "none" /\ pc' = "idle" /\ spec' = NoRuntime /\ phase' = Absent
      /\ endpoints' = {} /\ cur' = NoRuntime /\ prev' = NoPrevious /\ at' = Start
      /\ target' = "canonical" /\ live' = TRUE /\ before' = {}
      /\ UNCHANGED <<containers, savedSpec, savedPhase, event, faults, stops>>
  BY DEF Gone, disk
<1>2. FrameType'
  BY <1>1, NoRuntimeType, Values DEF FrameType, Agents
<1>3. PlaceType' /\ Placed'
  BY <1>1, Values, PlacedElsewhere DEF PlaceType, AtDeployment, AtReplica
<1>4. MemoryType' /\ DiskType'
  BY <1>1, Values, NoRuntimeType DEF Inv, TypeOK, MemoryType, DiskType
<1>5. BudgetType' /\ containers' \subseteq Container
  BY <1>1 DEF Inv, TypeOK, BudgetType
<1>6. Control'
  BY <1>1, Values DEF Inv, Control
<1> QED BY <1>2, <1>3, <1>4, <1>5, <1>6, TypeParts DEF Inv

\* An exit and a crash leave the containers and the files as they are.
LEMMA GoneSteps ==
  ASSUME Inv, Exit \/ Crash
  PROVE  \E s \in {"down", "stopped"} : Gone(s) /\ crashes' \in 0..MaxCrashes
BY ConstantsAssumption DEF Exit, Crash, Inv, TypeOK

\* A start of the agent, which loads what the files hold, preserves Inv.
LEMMA RestartInv ==
  ASSUME Inv, Restart
  PROVE  Inv'
<1>1. agent \in {"down", "stopped"} /\ op = "none"
  BY DEF Restart, Inv, Control
<1>2. CASE savedSpec # NoRuntime
  BY <1>1, <1>2, HeldTypes, BeginApplyInv DEF Restart
<1>3. CASE savedSpec = NoRuntime
  <2>1. /\ agent' = "serving"
        /\ UNCHANGED <<containers, mem, disk, event, op, cur, prev, live, before, place, budget>>
    BY <1>3 DEF Restart
  <2>2. PlaceType' /\ Placed'
    BY <2>1, PlaceStays DEF mem, disk
  <2>3. BudgetType' /\ containers' \subseteq Container /\ MemoryType' /\ DiskType' /\ FrameType'
    BY <2>1 DEF Inv, TypeOK, BudgetType, budget, MemoryType, DiskType, FrameType, mem, disk, Agents
  <2>4. Control'
    BY <1>1, <2>1 DEF Inv, Control, mem, disk, place
  <2> QED BY <2>2, <2>3, <2>4, TypeParts DEF Inv
<1> QED BY <1>2, <1>3

\* Docker changes the state of one container.
DockerStep == ContainerReady \/ ContainerRevives \/ ContainerStops

\* What Docker does by itself changes one container's state, never its name or labels.
LEMMA DockerFacts ==
  ASSUME Inv, DockerStep
  PROVE  /\ \E c \in containers, b \in Container :
              /\ containers' = (containers \ {c}) \cup {b}
              /\ b.name = c.name /\ b.hash = c.hash /\ b.generation = c.generation
         /\ UNCHANGED <<mem, disk, event, frame, place, faults, crashes>>
         /\ stops' \in 0..MaxStops
<1>1. /\ \E c \in containers, state \in {"ready", "down"} : Becomes(c, state)
      /\ UNCHANGED <<mem, disk, event, frame, place, faults, crashes>>
      /\ stops' \in 0..MaxStops
  BY ConstantsAssumption
     DEF DockerStep, ContainerReady, ContainerRevives, ContainerStops, Inv, TypeOK, budget
<1>2. PICK c \in containers, state \in {"ready", "down"} : Becomes(c, state)
  BY <1>1
<1>3. PICK b : b = [c EXCEPT !.state = state]
  OBVIOUS
<1>4. c \in Container
  BY DEF Inv, TypeOK
<1>5. b \in Container /\ b.name = c.name /\ b.hash = c.hash /\ b.generation = c.generation
  BY <1>3, <1>4 DEF Container
<1>6. containers' = (containers \ {c}) \cup {b}
  BY <1>2, <1>3 DEF Becomes
<1> QED BY <1>1, <1>5, <1>6

\* What Docker does by itself preserves Inv.
LEMMA DockerInv ==
  ASSUME Inv, DockerStep
  PROVE  Inv'
<1>1. \E c \in containers, b \in Container : containers' = (containers \ {c}) \cup {b}
  BY DockerFacts
<1>2. /\ UNCHANGED <<mem, disk, event, frame, place, faults, crashes>> /\ stops' \in 0..MaxStops
  BY DockerFacts
<1>3. containers' \subseteq Container
  BY <1>1 DEF Inv, TypeOK
<1>4. PlaceType' /\ Placed'
  BY <1>2, PlaceStays DEF mem, disk, frame
<1>5. BudgetType' /\ MemoryType' /\ DiskType' /\ FrameType'
  BY <1>2 DEF Inv, TypeOK, BudgetType, MemoryType, DiskType, FrameType, mem, disk, frame
<1>6. Control'
  BY <1>2 DEF Inv, Control, mem, disk, frame, place
<1> QED BY <1>3, <1>4, <1>5, <1>6, TypeParts DEF Inv

-----------------------------------------------------------------------------
(* Type correctness *)

\* A stuttering step preserves Inv.
LEMMA StutterInv ==
  ASSUME Inv, UNCHANGED vars
  PROVE  Inv'
<1>1. UNCHANGED <<containers, spec, phase, endpoints, savedSpec, savedPhase, event, agent, op, cur,
                  prev, live, before, pc, at, target, faults, stops, crashes>>
  BY DEF vars, mem, disk, frame, place, budget
<1>2. PlaceType' /\ Placed'
  BY <1>1, PlaceStays DEF place
<1>3. containers' \subseteq Container /\ BudgetType' /\ MemoryType' /\ DiskType' /\ FrameType'
  BY <1>1 DEF Inv, TypeOK, BudgetType, MemoryType, DiskType, FrameType
<1>4. Control'
  BY <1>1 DEF Inv, Control
<1> QED BY <1>2, <1>3, <1>4, TypeParts DEF Inv

\* Inv holds when the agent starts on an empty node.
LEMMA InitInv == Init => Inv
<1> SUFFICES ASSUME Init PROVE Inv
  OBVIOUS
<1>1. TypeOK
  BY ConstantsAssumption, Values, NoRuntimeType DEF Init, TypeOK, Agents
<1>2. Control
  BY Values DEF Init, Control
<1>3. Placed
  BY DEF Init, Placed, AtDeployment, AtReplica
<1> QED BY <1>1, <1>2, <1>3 DEF Inv

\* Every step of the Manager, the process and Docker keeps the invariant.
LEMMA NextInv == Inv /\ [Next]_vars => Inv'
<1> SUFFICES ASSUME Inv, [Next]_vars PROVE Inv'
  OBVIOUS
<1>1. CASE Step
  BY <1>1, EnsureNetworkInv, InspectReplicaInv, CheckStateInv, ReplaceContainerInv, PullImageInv,
     RunContainerInv, WaitReadyInv, SurgeRemoveInv, SurgeRenameInv, ReplicasDoneInv,
     RemoveExtraReplicasInv, HandleAbortInv, HandleFailureInv, RollbackInv, RestoreInv,
     RefreshEndpointsInv, StartPortsInv, SaveRuntimeInv, SaveStatusInv, RemoveOwnedContainersInv, DeleteRuntimeInv
     DEF Step
<1>2. CASE \/ \E v \in Versions, g \in ExplicitGens \cup {0} : Apply(v, g)
           \/ Resync \/ Remove
  BY <1>2, ApplyInv, ResyncInv, RemoveInv
<1>3. CASE Cancel \/ Terminate \/ Exit \/ Crash \/ Restart
  BY <1>3, CancelInv, TerminateInv, GoneSteps, GoneInv, RestartInv
<1>4. CASE ContainerReady \/ ContainerRevives \/ ContainerStops
  BY <1>4, DockerInv DEF DockerStep
<1> QED BY <1>1, <1>2, <1>3, <1>4, StutterInv DEF Next

\* The types, where an operation can be, and the replica it works on.
THEOREM InvAlways == Spec => []Inv
BY InitInv, NextInv, PTL DEF Spec

\* Every reachable state of containers, memory, state files, process and
\* operation is well formed (TypeOK).
THEOREM TypeCorrect == Spec => []TypeOK
<1>1. Inv => TypeOK
  BY DEF Inv
<1> QED BY <1>1, InvAlways, PTL

-----------------------------------------------------------------------------
(* What the API reports *)

\* A step of reconcileDeployments changes the status reported and nothing else
\* that outlives the operation.
QuietStep ==
  /\ op \in {"apply", "resync"} /\ cur \in Document /\ spec = cur /\ spec' = cur
  /\ pc \in AtDeployment \cup {"network"} /\ pc' \in AtDeployment \cup {"abort", "fail", "refresh"}
  /\ \/ phase' = phase /\ savedPhase' = savedPhase
     \/ phase' \in {"Updating", "Pulling", "Starting"} /\ savedPhase' = phase'
  /\ UNCHANGED <<agent, op, cur, prev, before, endpoints, savedSpec>>

\* Until a deployment ends, a step of an operation changes neither memory nor files.
LEMMA QuietSteps ==
  ASSUME Inv, \/ EnsureNetwork \/ InspectReplica \/ CheckState \/ ReplaceContainer \/ PullImage
              \/ RunContainer \/ WaitReady \/ SurgeRemove \/ SurgeRename \/ ReplicasDone
              \/ RemoveExtraReplicas
  PROVE  QuietStep
<1>1. pc \in AtDeployment \cup {"network"}
  BY DEF EnsureNetwork, InspectReplica, CheckState, ReplaceContainer, PullImage, RunContainer,
         WaitReady, SurgeRemove, SurgeRename, ReplicasDone, RemoveExtraReplicas,
         AtDeployment, AtReplica
<1>2. op \in {"apply", "resync"} /\ cur \in Document /\ spec = cur
  BY <1>1 DEF Inv, TypeOK, Control, AtDeployment, AtReplica
<1>3. CASE EnsureNetwork
  BY <1>1, <1>2, <1>3
     DEF EnsureNetwork, QuietStep, UpdateStatus, Goto, mem, disk, frame, AtDeployment
<1>4. CASE InspectReplica
  BY <1>1, <1>2, <1>4 DEF InspectReplica, QuietStep, Goto, mem, disk, frame, AtDeployment, AtReplica
<1>5. CASE CheckState
  BY <1>1, <1>2, <1>5 DEF CheckState, QuietStep, UpdateStatus, Goto, Abort, NextReplica,
                          mem, disk, frame, AtDeployment, AtReplica
<1>6. CASE ReplaceContainer
  BY <1>1, <1>2, <1>6 DEF ReplaceContainer, QuietStep, Goto, Abort, mem, disk, frame,
                          AtDeployment, AtReplica
<1>7. CASE PullImage
  BY <1>1, <1>2, <1>7 DEF PullImage, QuietStep, UpdateStatus, Goto, Abort, frame,
                          AtDeployment, AtReplica
<1>8. CASE RunContainer
  BY <1>1, <1>2, <1>8 DEF RunContainer, QuietStep, UpdateStatus, Goto, Abort, frame,
                          AtDeployment, AtReplica
<1>9. CASE WaitReady
  BY <1>1, <1>2, <1>9 DEF WaitReady, QuietStep, AfterReady, NextReplica, Goto, Abort,
                          mem, disk, frame, AtDeployment, AtReplica
<1>10. CASE SurgeRemove
  BY <1>1, <1>2, <1>10 DEF SurgeRemove, QuietStep, Goto, Abort, mem, disk, frame,
                           AtDeployment, AtReplica
<1>11. CASE SurgeRename
  BY <1>1, <1>2, <1>11 DEF SurgeRename, QuietStep, NextReplica, Goto, Abort, mem, disk, frame,
                           AtDeployment
<1>12. CASE ReplicasDone
  BY <1>1, <1>2, <1>12 DEF ReplicasDone, QuietStep, Goto, mem, disk, frame, AtDeployment
<1>13. CASE RemoveExtraReplicas
  BY <1>1, <1>2, <1>13 DEF RemoveExtraReplicas, QuietStep, Goto, Abort, mem, disk, frame, AtDeployment
<1> QED BY <1>3, <1>4, <1>5, <1>6, <1>7, <1>8, <1>9, <1>10, <1>11, <1>12, <1>13

\* A step that changes neither memory nor files leaves what was reported.
LEMMA QuietReported ==
  ASSUME Reported, QuietStep
  PROVE  Reported'
<1>1. pc \notin AtEnd \cup {"fail"}
  BY DEF QuietStep, AtDeployment, AtReplica, AtEnd
<1>2. spec # NoRuntime /\ spec' = spec /\ Canonical(spec)' = Canonical(spec)
  BY DocumentFacts DEF QuietStep
<1>3. prev' = prev /\ Canonical(prev.runtime)' = Canonical(prev.runtime)
  BY DEF QuietStep
<1>4. pc \notin {"saveRuntime", "saveStatus"}
  BY <1>1 DEF AtEnd
<1> QED BY <1>1, <1>2, <1>3, <1>4 DEF Reported, QuietStep

\* An operation that has returned reports what it had found.
LEMMA ReturnReported ==
  ASSUME Reported, Inv, op # "none", op' = "none", agent' \in {"loading", "serving"} => agent' = "serving",
         agent' = "serving" /\ phase' = "Running" =>
           spec' # NoRuntime /\ Canonical(spec') \subseteq endpoints',
         agent' = "serving" /\ spec' = NoRuntime /\ savedSpec' # NoRuntime => savedPhase' # "Running"
  PROVE  Reported'
<1>1. Canonical(spec)' = Canonical(spec')
  OBVIOUS
<1> QED BY <1>1 DEF Reported

\* recordFailedStatus reports the document that failed, as Failed.
LEMMA FailedReported ==
  ASSUME Inv, Reported, RecordFailedStatus, Return(FALSE), op \in {"apply", "resync"}
  PROVE  Reported'
<1>1. cur \in Document /\ cur # NoRuntime
  BY HeldTypes, DocumentFacts
<1>2. /\ spec' = cur /\ savedSpec' = cur /\ phase' = "Failed" /\ op' = "none"
      /\ agent' \in {"loading", "serving"} => agent' = "serving"
  BY <1>1, HeldTypes, ReturnFacts DEF RecordFailedStatus
<1> QED BY <1>1, <1>2, ReturnReported

\* Rolling back reports nothing; what is recorded otherwise is the failure.
LEMMA HandleAbortReported ==
  ASSUME Inv, Reported, HandleAbort
  PROVE  Reported'
<1>1. pc = "abort" /\ op \in {"apply", "resync"}
  BY DEF HandleAbort, Inv, TypeOK, Control
<1>2. CASE op = "apply" /\ prev.has
  <2>1. pc' = "cleanup" /\ UNCHANGED <<spec, phase, endpoints, savedSpec, savedPhase, agent, op, prev>>
    BY <1>2 DEF HandleAbort, Goto, mem, disk, frame
  <2> QED BY <1>1, <2>1 DEF Reported, AtEnd
<1>3. CASE ~(op = "apply" /\ prev.has)
  BY <1>1, <1>3, FailedReported DEF HandleAbort
<1> QED BY <1>2, <1>3

\* Cleaning up for a rollback changes nothing that is reported.
LEMMA RollbackReported ==
  ASSUME Inv, Reported, Rollback
  PROVE  Reported'
<1>1. pc = "cleanup" /\ op = "apply"
  BY DEF Rollback, Inv, Control
<1>2. /\ pc' \in {"cleanup", "restore", "restoreUnclean"}
      /\ UNCHANGED <<spec, phase, endpoints, savedSpec, savedPhase, agent, op, prev>>
  BY DEF Rollback, Goto, mem, disk, frame
<1> QED BY <1>1, <1>2 DEF Reported, AtEnd

\* A rollback restores memory to what was reported before Apply began.
LEMMA RestoreReported ==
  ASSUME Inv, Reported, Restore
  PROVE  Reported'
<1>1. /\ pc \in {"restore", "restoreUnclean"} /\ op = "apply" /\ prev.has /\ prev.runtime \in Document
      /\ spec' = prev.runtime /\ phase' = prev.phase /\ endpoints' = endpoints
      /\ savedSpec' \in {savedSpec, prev.runtime} /\ Return(FALSE)
  BY RestoreFacts
<1>2. /\ op' = "none" /\ (agent' \in {"loading", "serving"} => agent' = "serving")
      /\ (agent' = "serving" => agent = "serving")
  BY <1>1, HeldTypes, ReturnFacts
<1>3. prev.runtime # NoRuntime
  BY <1>1, DocumentFacts
<1>4. agent = "serving" /\ prev.phase = "Running" => Canonical(prev.runtime) \subseteq endpoints
  BY <1>1 DEF Reported, AtEnd
<1> QED BY <1>1, <1>2, <1>3, <1>4, ReturnReported

\* The last steps of an apply or a resync report the document they end with.
LEMMA EndReported ==
  ASSUME Inv, Reported, RefreshEndpoints \/ StartPorts \/ SaveRuntime \/ SaveStatus
  PROVE  Reported'
<1>1. op \in {"apply", "resync"} /\ cur \in Document /\ cur # NoRuntime /\ spec = cur
  BY DocumentFacts
     DEF RefreshEndpoints, StartPorts, SaveRuntime, SaveStatus, Inv, TypeOK, Control
<1>2. \A eps : ObservedPhase(cur, eps) = "Running" => Canonical(cur) \subseteq eps
  BY DEF ObservedPhase
<1>3. CASE RefreshEndpoints
  <2>1. CASE UNCHANGED mem /\ Goto("fail")
    <3>1. pc' = "fail" /\ UNCHANGED <<spec, phase, endpoints, savedSpec, savedPhase, agent, op, prev>>
      BY <1>3, <2>1 DEF RefreshEndpoints, Goto, mem, disk, frame
    <3>2. pc = "refresh"
      BY <1>3 DEF RefreshEndpoints
    <3> QED BY <1>1, <3>1, <3>2 DEF Reported
  <2>2. CASE op = "apply" /\ Goto("ports") /\ spec' = cur /\ UNCHANGED phase
    <3>1. /\ pc = "refresh" /\ pc' = "ports" /\ spec' = spec
          /\ UNCHANGED <<phase, savedSpec, savedPhase, agent, op, prev>>
      BY <1>1, <1>3, <2>2 DEF RefreshEndpoints, Goto, disk, frame
    <3>2. phase' # "Running"
      BY <2>2, <3>1 DEF Reported
    <3> QED BY <1>1, <3>1, <3>2 DEF Reported, AtEnd
  <2>3. CASE op = "resync" /\ Goto("saveStatus") /\ phase' = ObservedPhase(cur, endpoints')
                           /\ UNCHANGED spec
    <3>1. pc' = "saveStatus" /\ UNCHANGED <<spec, savedSpec, savedPhase, agent, op, prev>>
      BY <1>3, <2>3 DEF RefreshEndpoints, Goto, disk, frame
    <3>2. phase' = "Running" => Canonical(spec') \subseteq endpoints'
      BY <1>1, <1>2, <2>3
    <3>3. Canonical(spec)' = Canonical(spec')
      OBVIOUS
    <3> QED BY <1>1, <2>3, <3>1, <3>2, <3>3 DEF Reported
  <2> QED BY <1>3, <2>1, <2>2, <2>3 DEF RefreshEndpoints
<1>4. CASE StartPorts
  <2>1. /\ pc = "ports" /\ op = "apply"
        /\ UNCHANGED <<spec, endpoints, savedSpec, savedPhase, agent, op, prev>>
        /\ \/ pc' = "saveRuntime" /\ phase' = ObservedPhase(cur, endpoints)
           \/ pc' = "fail" /\ phase' = phase
    BY <1>4 DEF StartPorts, Goto, disk, frame, Inv, Control
  <2>2. CASE pc' = "saveRuntime" /\ phase' = ObservedPhase(cur, endpoints)
    <3>1. phase' = "Running" => Canonical(spec') \subseteq endpoints'
      BY <1>1, <1>2, <2>1, <2>2
    <3>2. Canonical(spec)' = Canonical(spec')
      OBVIOUS
    <3> QED BY <1>1, <2>1, <2>2, <3>1, <3>2 DEF Reported, AtEnd
  <2>3. CASE pc' = "fail" /\ phase' = phase
    BY <1>1, <2>1, <2>3 DEF Reported
  <2> QED BY <2>1, <2>2, <2>3
<1>5. CASE SaveRuntime
  <2>1. pc = "saveRuntime" /\ UNCHANGED <<spec, phase, endpoints, savedPhase>>
    BY <1>5 DEF SaveRuntime, mem
  <2>2. CASE UNCHANGED frame /\ Goto("saveStatus")
    <3>1. pc' = "saveStatus" /\ UNCHANGED <<agent, op, prev>>
      BY <2>2 DEF Goto, frame
    <3> QED BY <1>1, <2>1, <3>1 DEF Reported, AtEnd
  <2>3. CASE Return(FALSE) /\ UNCHANGED savedSpec
    <3>1. /\ op' = "none" /\ (agent' \in {"loading", "serving"} => agent' = "serving")
          /\ agent' = "serving" => agent \in {"loading", "serving"}
      BY <1>1, <2>1, <2>3, HeldTypes, ReturnFacts
    <3>2. agent' = "serving" /\ phase' = "Running" =>
            spec' # NoRuntime /\ Canonical(spec') \subseteq endpoints'
      BY <2>1, <3>1 DEF Reported
    <3> QED BY <1>1, <2>1, <3>1, <3>2, ReturnReported
  <2> QED BY <1>5, <2>2, <2>3 DEF SaveRuntime
<1>6. CASE SaveStatus
  <2>1. UNCHANGED <<spec, phase, endpoints, savedSpec>> /\ (Return(live) \/ Return(FALSE))
    BY <1>6 DEF SaveStatus, mem
  <2>2. /\ op' = "none" /\ (agent' \in {"loading", "serving"} => agent' = "serving")
        /\ agent' = "serving" => agent \in {"loading", "serving"}
    BY <1>1, <2>1, HeldTypes, ReturnFacts
  <2>3. agent' = "serving" /\ phase' = "Running" =>
          spec' # NoRuntime /\ Canonical(spec') \subseteq endpoints'
    BY <2>1, <2>2 DEF Reported
  <2> QED BY <1>1, <2>1, <2>2, <2>3, ReturnReported
<1> QED BY <1>3, <1>4, <1>5, <1>6

\* Remove takes the status with the Runtime.
LEMMA RemovingReported ==
  ASSUME Inv, Reported, RemoveOwnedContainers \/ DeleteRuntime
  PROVE  Reported'
<1>1. op = "remove" /\ pc \in {"removeOwned", "delete"}
  BY DEF RemoveOwnedContainers, DeleteRuntime, Inv, Control
<1>2. UNCHANGED <<spec, phase, endpoints>>
  BY DEF RemoveOwnedContainers, DeleteRuntime, mem
<1>3. UNCHANGED <<savedSpec, savedPhase>> \/ savedSpec' = NoRuntime
  BY DEF RemoveOwnedContainers, DeleteRuntime, disk
<1>4. CASE UNCHANGED frame /\ RemoveOwnedContainers
  <2>1. UNCHANGED <<agent, op, prev, savedSpec, savedPhase>>
    BY <1>4 DEF frame, RemoveOwnedContainers, disk
  <2> QED BY <1>1, <1>2, <2>1 DEF Reported
<1>5. CASE Return(FALSE) \/ Return(TRUE)
  <2>1. savedSpec' \in Document \cup {NoRuntime} /\ spec' \in Document \cup {NoRuntime}
    BY <1>2, <1>3, HeldTypes
  <2>2. agent # "loading"
    BY <1>1 DEF Inv, Control
  <2>3. op' = "none" /\ agent' = agent
    BY <1>1, <1>5, <2>1, <2>2, ReturnFacts
  <2>4. agent' \in {"loading", "serving"} => agent' = "serving"
    BY <2>2, <2>3
  <2>5. agent' = "serving" /\ phase' = "Running" =>
          spec' # NoRuntime /\ Canonical(spec') \subseteq endpoints'
    BY <1>2, <2>3 DEF Reported
  <2>6. agent' = "serving" /\ spec' = NoRuntime /\ savedSpec' # NoRuntime => savedPhase' # "Running"
    BY <1>2, <1>3, <2>3 DEF Reported
  <2>7. op # "none"
    BY <1>1
  <2> QED BY <2>3, <2>4, <2>5, <2>6, <2>7, ReturnReported
<1> QED BY <1>4, <1>5 DEF RemoveOwnedContainers, DeleteRuntime

\* An Apply begins with a status that is not Running, and remembers the one before.
LEMMA BeginApplyReported ==
  ASSUME Inv, Reported, NEW rt \in Document, BeginApply(rt), agent' \in {"loading", agent}
  PROVE  Reported'
<1>1. /\ op' = "apply" /\ pc' = "network" /\ prev' = PreviousRuntimeState
      /\ spec' = rt /\ phase' \in {"Updating", "Pending"}
      /\ UNCHANGED <<endpoints, savedSpec>>
  BY DEF BeginApply, Begin
<1>2. rt # NoRuntime
  BY DocumentFacts
<1>3. ASSUME agent' = "serving", prev'.has, prev'.phase = "Running"
      PROVE  Canonical(prev'.runtime) \subseteq endpoints'
  <2>1. agent = "serving"
    BY <1>3
  <2>2. CASE spec # NoRuntime
    BY <1>1, <1>3, <2>1, <2>2 DEF PreviousRuntimeState, Reported
  <2>3. CASE spec = NoRuntime /\ savedSpec # NoRuntime
    BY <1>1, <1>3, <2>1, <2>3 DEF PreviousRuntimeState, Reported
  <2>4. CASE spec = NoRuntime /\ savedSpec = NoRuntime
    BY <1>1, <1>3, <2>4, Values DEF PreviousRuntimeState
  <2> QED BY <2>2, <2>3, <2>4
<1>4. Canonical(prev.runtime)' = Canonical(prev'.runtime)
  OBVIOUS
<1> QED BY <1>1, <1>2, <1>3, <1>4 DEF Reported

\* A step that changes neither memory nor the state files nor the operation.
LEMMA SameReported ==
  ASSUME Reported, UNCHANGED <<spec, phase, endpoints, savedSpec, savedPhase, op, pc, prev>>,
         agent' \in {agent, "stopping"}
  PROVE  Reported'
<1>1. UNCHANGED <<spec, phase, endpoints, savedSpec, savedPhase, op, pc, prev>>
  OBVIOUS
<1>2. CASE agent' = agent
  BY <1>1, <1>2 DEF Reported
<1>3. CASE agent' = "stopping"
  BY <1>1, <1>3 DEF Reported
<1> QED BY <1>2, <1>3

\* Operations that begin, the end of the process and its restart.
LEMMA ProcessReported ==
  ASSUME Inv, Reported,
         \/ \E v \in Versions, g \in ExplicitGens \cup {0} : Apply(v, g)
         \/ Resync \/ Remove \/ Cancel \/ Terminate \/ Exit \/ Crash \/ Restart
  PROVE  Reported'
<1>1. CASE \E v \in Versions, g \in ExplicitGens \cup {0} : Apply(v, g)
  <2>1. PICK v \in Versions, g \in ExplicitGens \cup {0} : Apply(v, g)
    BY <1>1
  <2>2. PICK rt \in Document : BeginApply(rt) /\ agent' = agent
    BY <2>1, AppliedDocument
  <2> QED BY <2>2, BeginApplyReported
<1>2. CASE Resync
  <2>1. op' = "resync" /\ UNCHANGED <<spec, phase, endpoints, savedSpec, savedPhase, agent, prev>>
    BY <1>2 DEF Resync, Begin, mem, disk
  <2> QED BY <2>1 DEF Reported
<1>3. CASE Remove
  <2>1. /\ op' = "remove" /\ spec' = NoRuntime /\ phase' = Absent /\ savedSpec' = savedSpec
        /\ savedSpec # NoRuntime => savedPhase' = "Terminating"
    BY <1>3 DEF Remove, Begin, RemovedRuntime
  <2> QED BY <2>1, AbsentPhase DEF Reported
<1>4. CASE Cancel
  BY <1>4, SameReported DEF Cancel, mem, disk, place
<1>5. CASE Terminate
  BY <1>5, SameReported DEF Terminate, mem, disk, place
<1>6. CASE Exit \/ Crash
  <2>1. agent' \in {"down", "stopped"} /\ op' = "none"
    BY <1>6 DEF Exit, Crash, Gone
  <2> QED BY <2>1 DEF Reported
<1>7. CASE Restart /\ savedSpec # NoRuntime
  BY <1>7, HeldTypes, BeginApplyReported DEF Restart
<1>8. CASE Restart /\ savedSpec = NoRuntime
  <2>1. /\ UNCHANGED <<spec, phase, endpoints, savedSpec, savedPhase, op, prev>>
        /\ op = "none" /\ phase = Absent
    BY <1>8 DEF Restart, mem, disk, Inv, Control
  <2> QED BY <1>8, <2>1, AbsentPhase DEF Reported
<1> QED BY <1>1, <1>2, <1>3, <1>4, <1>5, <1>6, <1>7, <1>8

\* Every step keeps what is reported true.
LEMMA NextReported == Inv /\ Reported /\ [Next]_vars => Reported'
<1> SUFFICES ASSUME Inv, Reported, [Next]_vars PROVE Reported'
  OBVIOUS
<1>1. CASE Step
  <2>1. CASE HandleFailure
    BY <2>1, FailedReported DEF HandleFailure, Inv, TypeOK, Control
  <2> QED BY <1>1, <2>1, QuietSteps, QuietReported, HandleAbortReported, RollbackReported,
             RestoreReported, EndReported, RemovingReported DEF Step
<1>2. CASE \/ \E v \in Versions, g \in ExplicitGens \cup {0} : Apply(v, g)
           \/ Resync \/ Remove \/ Cancel \/ Terminate \/ Exit \/ Crash \/ Restart
  BY <1>2, ProcessReported
<1>3. CASE ContainerReady \/ ContainerRevives \/ ContainerStops
  <2>1. UNCHANGED <<mem, disk, event, frame, place, faults, crashes>>
    BY <1>3, DockerFacts DEF DockerStep
  <2> QED BY <2>1, SameReported DEF mem, disk, frame, place
<1>4. CASE UNCHANGED vars
  BY <1>4, SameReported DEF vars, mem, disk, frame, place
<1> QED BY <1>1, <1>2, <1>3, <1>4 DEF Next

\* What memory reports, and what a rollback or a restart may bring back, is
\* always true of the endpoints cached.
THEOREM ReportsAreTrue == Spec => []Reported
<1>1. Init => Reported
  BY AbsentPhase DEF Init, Reported
<1> QED BY <1>1, InvAlways, NextReported, PTL DEF Spec

\* The API never reports Running over an endpoint cache that lacks a replica of
\* the Runtime it reports (RunningMeansCached).
THEOREM RunningIsCached == Spec => []RunningMeansCached
<1>1. Reported => RunningMeansCached
  BY DEF Reported, RunningMeansCached
<1> QED BY <1>1, ReportsAreTrue, PTL

-----------------------------------------------------------------------------
(* What a restart will load *)

\* An operation that has returned has left memory and the state files equal.
LEMMA ReturnFollows ==
  ASSUME op' = "none", spec' # NoRuntime => savedSpec' = spec' /\ savedPhase' = phase'
  PROVE  DiskFollows'
BY DEF DiskFollows, DiskAgrees

\* The steps of an operation in progress.
LEMMA StepFollows ==
  ASSUME Inv, DiskFollows, Step, "save" \notin Faults
  PROVE  DiskFollows'
<1>0. ~Happens("save")
  BY DEF Happens
<1>1. CASE QuietStep
  BY <1>1 DEF QuietStep, DiskFollows, DiskAgrees, AtDeployment, AtReplica
<1>2. CASE RecordFailedStatus /\ Return(FALSE)
  <2>1. op' = "none" /\ savedSpec' = spec' /\ savedPhase' = phase'
    BY <1>2 DEF RecordFailedStatus, Return
  <2> QED BY <2>1, ReturnFollows
<1>3. CASE HandleAbort
  <2>1. CASE op = "apply" /\ prev.has
    <3>1. pc' = "cleanup" /\ op' = "apply"
      BY <1>3, <2>1 DEF HandleAbort, Goto, frame
    <3> QED BY <3>1 DEF DiskFollows, DiskAgrees
  <2>2. CASE ~(op = "apply" /\ prev.has)
    BY <1>2, <1>3, <2>2 DEF HandleAbort
  <2> QED BY <2>1, <2>2
<1>4. CASE HandleFailure
  BY <1>2, <1>4 DEF HandleFailure
<1>5. CASE Rollback
  <2>1. pc' \in {"cleanup", "restore", "restoreUnclean"} /\ op' = "apply"
    BY <1>5 DEF Rollback, Goto, frame, Inv, Control
  <2> QED BY <2>1 DEF DiskFollows, DiskAgrees
<1>6. CASE RefreshEndpoints
  <2>1. /\ op \in {"apply", "resync"} /\ op' = op /\ pc' \in {"ports", "fail", "saveStatus"}
        /\ savedSpec' = savedSpec /\ (op = "resync" => spec' = spec)
        /\ (pc' = "saveStatus" => op = "resync")
    BY <1>6 DEF RefreshEndpoints, Goto, frame, disk, mem, Inv, TypeOK, Control
  <2> QED BY <2>1 DEF DiskFollows, DiskAgrees
<1>7. CASE StartPorts
  <2>1. op' = "apply" /\ pc' \in {"saveRuntime", "fail"}
    BY <1>7 DEF StartPorts, Goto, frame, Inv, Control
  <2> QED BY <2>1 DEF DiskFollows, DiskAgrees
<1>8. CASE SaveRuntime
  <2>1. op' = "apply" /\ savedSpec' = cur /\ spec' = spec /\ spec = cur
    BY <1>0, <1>8 DEF SaveRuntime, Goto, frame, mem, Inv, Control
  <2> QED BY <2>1 DEF DiskFollows, DiskAgrees
<1>9. CASE SaveStatus
  <2>1. /\ pc = "saveStatus" /\ op' = "none" /\ savedPhase' = phase /\ phase' = phase /\ spec' = spec
        /\ savedSpec' = savedSpec
    BY <1>0, <1>9 DEF SaveStatus, Return, mem
  <2>2. op \in {"apply", "resync"}
    BY <2>1 DEF Inv, TypeOK, Control
  <2> QED BY <2>1, <2>2, ReturnFollows DEF DiskFollows
<1>10. CASE RemoveOwnedContainers \/ DeleteRuntime
  <2>1. op = "remove" /\ spec' = NoRuntime /\ op' \in {"remove", "none"}
    BY <1>10 DEF RemoveOwnedContainers, DeleteRuntime, Return, mem, frame, Inv, Control
  <2> QED BY <2>1 DEF DiskFollows, DiskAgrees
<1>11. CASE Restore
  <2>1. op' = "none" /\ savedSpec' = spec' /\ savedPhase' = phase'
    BY <1>0, <1>11 DEF Restore, Return
  <2> QED BY <2>1, ReturnFollows
<1> QED BY <1>1, <1>3, <1>4, <1>5, <1>6, <1>7, <1>8, <1>9, <1>10, <1>11, QuietSteps DEF Step

\* Every step keeps the state files equal to memory.
LEMMA NextFollows ==
  ASSUME Inv, DiskFollows, [Next]_vars, "save" \notin Faults
  PROVE  DiskFollows'
<1>1. CASE Step
  BY <1>1, StepFollows
<1>2. CASE \/ \E v \in Versions, g \in ExplicitGens \cup {0} : Apply(v, g)
           \/ Restart /\ savedSpec # NoRuntime
  <2>1. op' = "apply" /\ pc' = "network"
    BY <1>2 DEF Apply, Restart, BeginApply, Begin
  <2> QED BY <2>1 DEF DiskFollows, DiskAgrees
<1>3. CASE Resync
  <2>1. /\ agent = "serving" /\ op = "none" /\ spec # NoRuntime /\ op' = "resync"
        /\ UNCHANGED <<spec, savedSpec>>
    BY <1>3 DEF Resync, Begin, mem, disk
  <2> QED BY <2>1 DEF DiskFollows, DiskAgrees
<1>4. CASE Remove
  <2>1. op' = "remove"
    BY <1>4 DEF Remove, Begin
  <2> QED BY <2>1 DEF DiskFollows, DiskAgrees
<1>5. CASE Cancel \/ Terminate \/ DockerStep \/ UNCHANGED vars
  <2>1. UNCHANGED <<mem, disk, op, place>>
    BY <1>5, DockerFacts DEF Cancel, Terminate, vars, frame
  <2>2. UNCHANGED <<spec, phase, savedSpec, savedPhase, op, pc>> /\ agent' \in {agent, "stopping"}
    BY <1>5, <2>1, DockerFacts DEF mem, disk, place, Cancel, Terminate, vars, frame
  <2> QED BY <2>2 DEF DiskFollows, DiskAgrees
<1>6. CASE Exit \/ Crash
  <2>1. op' = "none" /\ spec' = NoRuntime
    BY <1>6 DEF Exit, Crash, Gone
  <2> QED BY <2>1, ReturnFollows
<1>7. CASE Restart /\ savedSpec = NoRuntime
  <2>1. op' = "none" /\ spec' = NoRuntime
    BY <1>7 DEF Restart, mem, Inv, Control
  <2> QED BY <2>1, ReturnFollows
<1> QED BY <1>1, <1>2, <1>3, <1>4, <1>5, <1>6, <1>7 DEF Next, DockerStep

\* Between operations a restart would load exactly what the API reports, when no
\* write of a state file fails (DiskAgrees).
THEOREM MemoryIsOnDisk ==
  ASSUME "save" \notin Faults
  PROVE  Spec => []DiskAgrees
<1>1. Init => DiskFollows
  BY DEF Init, DiskFollows, DiskAgrees
<1>2. Inv /\ DiskFollows /\ [Next]_vars => DiskFollows'
  BY NextFollows
<1>3. DiskFollows => DiskAgrees
  BY DEF DiskFollows
<1> QED BY <1>1, <1>2, <1>3, InvAlways, PTL DEF Spec

-----------------------------------------------------------------------------
(* What a rollback undoes *)

\* A container without the part of it that Docker changes.
Label(c) == [name |-> c.name, hash |-> c.hash, generation |-> c.generation]

\* The names and hashes of a set of containers, as a set.
LEMMA LabelsAre ==
  ASSUME NEW S
  PROVE  Labels(S) = {Label(c) : c \in S}
BY DEF Labels, Label

\* An operation in progress goes on or returns.
LEMMA StepFrame ==
  ASSUME Step
  PROVE  op' = "none" \/ UNCHANGED frame
BY DEF Step, EnsureNetwork, InspectReplica, CheckState, ReplaceContainer, PullImage, RunContainer,
       WaitReady, SurgeRemove, SurgeRename, ReplicasDone, RemoveExtraReplicas, HandleAbort,
       HandleFailure, Rollback, Restore, RefreshEndpoints, StartPorts, SaveRuntime, SaveStatus,
       RemoveOwnedContainers, DeleteRuntime, Return

\* Only docker run and docker rename make containers that were not there.
LEMMA StepContainers ==
  ASSUME Step, ~RunContainer, ~SurgeRename
  PROVE  containers' \subseteq containers
BY DEF Step, EnsureNetwork, InspectReplica, CheckState, ReplaceContainer, PullImage,
       WaitReady, SurgeRemove, ReplicasDone, RemoveExtraReplicas, HandleAbort,
       HandleFailure, Rollback, Restore, RefreshEndpoints, StartPorts, SaveRuntime, SaveStatus,
       RemoveOwnedContainers, DeleteRuntime

\* The names of the replica at work stay what they are while the loop is at it.
LEMMA SameNames ==
  ASSUME cur' = cur, at' = at
  PROVE  /\ Here' = Here /\ CanonicalName' = CanonicalName /\ SurgeName' = SurgeName
         /\ DeploymentsOf(cur)' = DeploymentsOf(cur)
BY DEF Here, CanonicalName, SurgeName, DeploymentsOf

\* What docker run did.
LEMMA RunFacts ==
  ASSUME Inv, RunContainer
  PROVE  /\ pc = "run" /\ UNCHANGED <<op, cur, before, prev, agent, at, target>>
         /\ pc' \in {"wait", "abort"}
         /\ \/ containers' = containers /\ pc' = "abort"
            \/ /\ Named(TargetName) = {}
               /\ \E b \in Container :
                    /\ b.name = TargetName /\ b.hash = Here.hash /\ b.generation = cur.generation
                    /\ containers' = containers \cup {b}
<1>1. /\ pc = "run" /\ UNCHANGED <<op, cur, before, prev, agent, at, target>>
      /\ pc' \in {"wait", "abort"}
  BY DEF RunContainer, Goto, Abort, frame
<1>2. \/ containers' = containers /\ pc' = "abort"
      \/ /\ Named(TargetName) = {}
         /\ \/ containers' = containers \cup {NewContainer(TargetName, "starting")}
            \/ containers' = containers \cup {NewContainer(TargetName, "down")}
  BY DEF RunContainer, Goto, Abort
<1>3. pc \in AtReplica
  BY <1>1 DEF AtReplica
<1> QED BY <1>1, <1>2, <1>3, NewContainerType

\* What docker rename did.
LEMMA RenameFacts ==
  ASSUME Inv, SurgeRename
  PROVE  /\ pc = "surgeRename" /\ target = "surge" /\ UNCHANGED <<op, cur, before, prev, agent>>
         /\ \/ containers' = containers /\ pc' = "abort"
            \/ /\ containers' = {Renamed(c) : c \in containers} /\ pc' = "inspect"
               /\ at' = [at EXCEPT !.r = @ + 1]
         /\ \A c \in containers :
              /\ Renamed(c).name = IF c.name = SurgeName THEN CanonicalName ELSE c.name
              /\ Renamed(c).hash = c.hash /\ Renamed(c).generation = c.generation
<1>1. /\ pc = "surgeRename" /\ UNCHANGED <<op, cur, before, prev, agent>>
      /\ \/ containers' = containers /\ pc' = "abort"
         \/ /\ containers' = {Renamed(c) : c \in containers} /\ pc' = "inspect"
            /\ at' = [at EXCEPT !.r = @ + 1]
  BY DEF SurgeRename, NextReplica, Goto, Abort, frame
<1>2. target = "surge" /\ pc \in AtReplica /\ containers \subseteq Container
  BY <1>1 DEF Inv, Placed, AtReplica, TypeOK
<1> QED BY <1>1, <1>2, RenamedType

\* No step loses a container an apply in progress started from.
LEMMA AccountedStep ==
  ASSUME Inv, Accounted, SurgeIsNew, Step
  PROVE  Accounted'
<1>1. CASE op' # "apply"
  BY <1>1 DEF Accounted
<1>2. CASE op' = "apply"
  <2>1. UNCHANGED <<op, cur, before>>
    BY <1>2, StepFrame DEF frame
  <2>2. \A c : Labels({c})' = {Label(c)} /\ Labels({c}) = {Label(c)}
    BY LabelsAre
  <2>3. \A c \in containers : c.generation = cur.generation \/ Label(c) \in before
    BY <1>2, <2>1, <2>2 DEF Accounted
  <2>4. \A c \in containers' : c.generation = cur.generation \/ Label(c) \in before
    <3>1. CASE RunContainer
      BY <2>3, <3>1, RunFacts
    <3>2. CASE SurgeRename
      <4>1. ASSUME NEW c \in containers
            PROVE  Renamed(c).generation = cur.generation \/ Label(Renamed(c)) \in before
        <5>1. CASE c.name = SurgeName
          BY <3>2, <5>1, RenameFacts DEF SurgeIsNew, Named
        <5>2. CASE c.name # SurgeName
          BY <2>3, <5>2 DEF Renamed
        <5> QED BY <5>1, <5>2
      <4> QED BY <2>3, <3>2, <4>1, RenameFacts
    <3> QED BY <2>3, <3>1, <3>2, StepContainers
  <2> QED BY <2>1, <2>2, <2>4 DEF Accounted
<1> QED BY <1>1, <1>2

\* The surge container of a replica in progress is always the apply's own.
LEMMA SurgeIsNewStep ==
  ASSUME Inv, SurgeIsNew, Step
  PROVE  SurgeIsNew'
<1>1. CASE pc' \notin {"wait", "surgeRemove", "surgeRename"} \/ target' # "surge"
  BY <1>1 DEF SurgeIsNew
<1>2. CASE pc' \in {"wait", "surgeRemove", "surgeRename"} /\ target' = "surge"
  <2>1. CASE RunContainer
    <3>1. SurgeName' = SurgeName /\ TargetName = SurgeName
      BY <1>2, <2>1, RunFacts, SameNames DEF TargetName
    <3>2. Named(SurgeName) = {} /\ \E b \in Container :
             b.generation = cur.generation /\ containers' = containers \cup {b} /\ cur' = cur
      BY <1>2, <2>1, <3>1, RunFacts
    <3>3. \A c \in containers' : c.name = SurgeName => c.generation = cur'.generation
      BY <3>2 DEF Named
    <3> QED BY <3>1, <3>3 DEF SurgeIsNew, Named
  <2>2. CASE WaitReady \/ SurgeRemove
    <3>1. /\ pc \in {"wait", "surgeRemove"} /\ target = "surge" /\ at' = at /\ cur' = cur
          /\ containers' \subseteq containers
      BY <1>2, <2>2 DEF WaitReady, AfterReady, SurgeRemove, Goto, Abort, NextReplica, frame
    <3>2. SurgeName' = SurgeName
      BY <3>1, SameNames
    <3> QED BY <3>1, <3>2 DEF SurgeIsNew, Named
  <2>3. CASE ~(RunContainer \/ WaitReady \/ SurgeRemove)
    <3>1. pc' \notin {"wait", "surgeRemove", "surgeRename"}
      BY <2>3
         DEF Step, EnsureNetwork, InspectReplica, CheckState, ReplaceContainer, PullImage,
             SurgeRename, ReplicasDone, RemoveExtraReplicas, HandleAbort, HandleFailure, Rollback,
             Restore, RefreshEndpoints, StartPorts, SaveRuntime, SaveStatus, Return,
             RemoveOwnedContainers, DeleteRuntime, Goto, Abort, NextReplica
    <3> QED BY <1>2, <3>1
  <2> QED BY <2>1, <2>2, <2>3
<1> QED BY <1>1, <1>2

\* Every step keeps the account of the containers.
LEMMA NextAccounted ==
  ASSUME Inv, Accounted, SurgeIsNew, [Next]_vars
  PROVE  Accounted' /\ SurgeIsNew'
<1>1. CASE Step
  BY <1>1, AccountedStep, SurgeIsNewStep
<1>2. CASE \/ \E v \in Versions, g \in ExplicitGens \cup {0} : Apply(v, g)
           \/ Restart /\ savedSpec # NoRuntime
  <2>1. pc' = "network" /\ before' = Labels(containers) /\ containers' = containers
    BY <1>2 DEF Apply, Restart, BeginApply, Begin
  <2>2. \A c \in containers' : Labels({c})' \subseteq before'
    BY <2>1, LabelsAre
  <2> QED BY <2>1, <2>2 DEF Accounted, SurgeIsNew
<1>3. CASE Resync \/ Remove \/ Exit \/ Crash
  <2>1. op' # "apply" /\ pc' \in {"inspect", "removeOwned", "delete", "idle"}
    BY <1>3 DEF Resync, Remove, Begin, Exit, Crash, Gone
  <2> QED BY <2>1 DEF Accounted, SurgeIsNew
<1>4. CASE Cancel \/ Terminate \/ (Restart /\ savedSpec = NoRuntime) \/ UNCHANGED vars
  <2>1. UNCHANGED <<containers, op, cur, before, pc, at, target>>
    BY <1>4 DEF Cancel, Terminate, Restart, vars, frame, place
  <2>2. SurgeName' = SurgeName /\ \A c : Labels({c})' = Labels({c})
    BY <2>1, SameNames DEF Labels
  <2> QED BY <2>1, <2>2 DEF Accounted, SurgeIsNew, Named
<1>5. CASE DockerStep
  <2>1. UNCHANGED <<op, cur, before, pc, at, target>>
    BY <1>5, DockerFacts DEF frame, place
  <2>2. SurgeName' = SurgeName
    BY <2>1, SameNames
  <2>3. PICK c \in containers, b \in Container :
          /\ containers' = (containers \ {c}) \cup {b}
          /\ b.name = c.name /\ b.hash = c.hash /\ b.generation = c.generation
    BY <1>5, DockerFacts
  <2>4. Label(b) = Label(c)
    BY <2>3 DEF Label
  <2>5. \A d : Labels({d})' = {Label(d)} /\ Labels({d}) = {Label(d)}
    BY LabelsAre
  <2>6. SurgeIsNew'
    BY <2>1, <2>2, <2>3 DEF SurgeIsNew, Named
  <2>7. Accounted'
    BY <2>1, <2>3, <2>4, <2>5 DEF Accounted
  <2> QED BY <2>6, <2>7
<1> QED BY <1>1, <1>2, <1>3, <1>4, <1>5 DEF Next, DockerStep

\* Every container is accounted for: Apply found it or it carries the generation
\* that a rollback removes.
THEOREM ContainersAccounted == Spec => [](Accounted /\ SurgeIsNew)
<1>1. Init => Accounted /\ SurgeIsNew
  BY DEF Init, Accounted, SurgeIsNew
<1>2. Inv /\ (Accounted /\ SurgeIsNew) /\ [Next]_vars => (Accounted /\ SurgeIsNew)'
  BY NextAccounted
<1> QED BY <1>1, <1>2, InvAlways, PTL DEF Spec

\* No container of the failed generation is left when the cleanup has got to its end.
LEMMA CleanedUpStep ==
  ASSUME Inv, CleanedUp, Next
  PROVE  CleanedUp'
<1>1. CASE Rollback
  <2>1. cur' = cur /\ (pc' = "restore" =>
          ~CleansUp \/ ({c \in containers : IsFailedGeneration(c)} = {} /\ containers' = containers))
    BY <1>1 DEF Rollback, Goto, frame
  <2> QED BY <2>1 DEF CleanedUp, CleansUp, IsFailedGeneration
<1>2. CASE Step /\ ~Rollback
  <2>1. pc' # "restore"
    BY <1>2
       DEF Step, EnsureNetwork, InspectReplica, CheckState, ReplaceContainer, PullImage, RunContainer,
           WaitReady, AfterReady, SurgeRemove, SurgeRename, ReplicasDone, RemoveExtraReplicas,
           HandleAbort, HandleFailure, Restore, RefreshEndpoints, StartPorts, SaveRuntime,
           SaveStatus, Return, RemoveOwnedContainers, DeleteRuntime, Goto, Abort, NextReplica
  <2> QED BY <2>1 DEF CleanedUp
<1>3. CASE \/ \E v \in Versions, g \in ExplicitGens \cup {0} : Apply(v, g)
           \/ (Restart /\ savedSpec # NoRuntime) \/ Resync \/ Remove \/ Exit \/ Crash
  <2>1. pc' \in {"network", "inspect", "removeOwned", "delete", "idle"}
    BY <1>3 DEF Apply, Restart, BeginApply, Resync, Remove, Begin, Exit, Crash, Gone
  <2> QED BY <2>1 DEF CleanedUp
<1>4. CASE Cancel \/ Terminate \/ (Restart /\ savedSpec = NoRuntime)
  <2>1. UNCHANGED <<containers, cur, pc>>
    BY <1>4 DEF Cancel, Terminate, Restart, place
  <2> QED BY <2>1 DEF CleanedUp, CleansUp
<1>5. CASE DockerStep
  <2>1. UNCHANGED <<cur, pc>>
    BY <1>5, DockerFacts DEF frame, place
  <2>2. PICK c \in containers, b \in Container :
          containers' = (containers \ {c}) \cup {b} /\ b.generation = c.generation
    BY <1>5, DockerFacts
  <2> QED BY <2>1, <2>2 DEF CleanedUp, CleansUp
<1> QED BY <1>1, <1>2, <1>3, <1>4, <1>5 DEF Next, DockerStep

\* Whatever happens between the cleanup and the restore, the cleanup stays done.
THEOREM StaysCleanedUp == Spec => []CleanedUp
<1>1. Init => CleanedUp
  BY DEF Init, CleanedUp
<1>2. Inv /\ CleanedUp /\ [Next]_vars => CleanedUp'
  BY CleanedUpStep DEF vars, CleanedUp, CleansUp, place, frame
<1> QED BY <1>1, <1>2, InvAlways, PTL DEF Spec

\* Which step reports what.
LEMMA WhoWrites ==
  ASSUME Next
  PROVE  /\ Writes("RollbackComplete") => Restore /\ pc = "restore"
         /\ Writes("Deleted") => DeleteRuntime
         /\ Writes("Applied") => SaveStatus /\ op = "apply"
<1>1. CASE Step
  <2>1. CASE Restore
    BY <2>1 DEF Restore, Writes
  <2>2. CASE DeleteRuntime
    BY <2>2 DEF DeleteRuntime, Writes
  <2>3. CASE SaveStatus
    BY <2>3 DEF SaveStatus, Writes
  <2>4. CASE CheckState \/ HandleAbort \/ HandleFailure
    BY <2>4 DEF CheckState, HandleAbort, HandleFailure, RecordFailedStatus, Writes
  <2>5. CASE ~(Restore \/ DeleteRuntime \/ SaveStatus \/ CheckState \/ HandleAbort \/ HandleFailure)
    <3>1. event' = event
      BY <1>1, <2>5
         DEF Step, EnsureNetwork, InspectReplica, ReplaceContainer, PullImage, RunContainer,
             WaitReady, SurgeRemove, SurgeRename, ReplicasDone, RemoveExtraReplicas, Rollback,
             RefreshEndpoints, StartPorts, SaveRuntime, RemoveOwnedContainers
    <3> QED BY <3>1 DEF Writes
  <2> QED BY <2>1, <2>2, <2>3, <2>4, <2>5
<1>2. CASE ~Step
  <2>1. event' \in {event, "ApplyStarted", "DeleteStarted"}
    BY <1>2 DEF Next, Apply, Restart, BeginApply, Resync, Remove, Cancel, Terminate, Exit, Crash,
                Gone, ContainerReady, ContainerRevives, ContainerStops
  <2> QED BY <2>1 DEF Writes
<1> QED BY <1>1, <1>2

\* A rollback that reports RollbackComplete leaves only containers that were
\* there when Apply began, unless the generation that failed is negative, for
\* which nothing is cleaned up (RollbackUndoes).
THEOREM RollbackUndoesAll == Spec => RollbackUndoes
<1>1. Inv /\ Accounted /\ CleanedUp /\ [Next]_vars =>
        [Writes("RollbackComplete") /\ CleansUp => Labels(containers) \subseteq before]_vars
  <2> SUFFICES ASSUME Inv, Accounted, CleanedUp, Next, Writes("RollbackComplete"), CleansUp
               PROVE  Labels(containers) \subseteq before
    OBVIOUS
  <2>1. pc = "restore" /\ op = "apply"
    BY WhoWrites, RestoreFacts
  <2>2. \A c \in containers : Labels({c}) \subseteq before
    BY <2>1 DEF Accounted, CleanedUp
  <2>3. \A c : Labels({c}) = {Label(c)}
    BY LabelsAre
  <2> QED BY <2>2, <2>3, LabelsAre
<1> QED BY <1>1, InvAlways, ContainersAccounted, StaysCleanedUp, PTL DEF Spec, RollbackUndoes

-----------------------------------------------------------------------------
(* What a surge keeps *)

\* Where a replica and its replacement are at work.
LEMMA AtSurge ==
  ASSUME Inv, SurgeAtWork
  PROVE  /\ pc \in AtReplica /\ target = "surge" /\ at.r <= Here.replicas /\ pc \in AtDeployment
         /\ CanonicalName # SurgeName /\ TargetName = SurgeName
         /\ [SurgeName EXCEPT !.surge = 0] = CanonicalName
         /\ [CanonicalName EXCEPT !.surge = 0] = CanonicalName
<1>1. pc \in AtReplica /\ target = "surge"
  BY DEF SurgeAtWork, AtReplica, Inv, Placed
<1>2. at.r <= Here.replicas /\ pc \in AtDeployment
  BY <1>1 DEF Inv, Placed, AtDeployment
<1>3. CanonicalName # SurgeName /\ [SurgeName EXCEPT !.surge = 0] = CanonicalName
  BY <1>2, ReplicaNames
<1>4. TargetName = SurgeName
  BY <1>1 DEF TargetName
<1>5. [CanonicalName EXCEPT !.surge = 0] = CanonicalName
  BY DEF CanonicalName, ContainerName
<1> QED BY <1>1, <1>2, <1>3, <1>4, <1>5

\* The steps that a surge consists of.
LEMMA SurgeSteps ==
  ASSUME Inv, SurgeAtWork, Step
  PROVE  PullImage \/ RunContainer \/ WaitReady \/ SurgeRemove \/ SurgeRename
BY DEF SurgeAtWork, Step, EnsureNetwork, InspectReplica, CheckState, ReplaceContainer, ReplicasDone,
       RemoveExtraReplicas, HandleAbort, HandleFailure, Rollback, Restore, RefreshEndpoints,
       StartPorts, SaveRuntime, SaveStatus, RemoveOwnedContainers, DeleteRuntime

\* The loops look at the canonical name until a surge begins.
LEMMA NextCanonical ==
  ASSUME Inv, CanonicalFirst, [Next]_vars
  PROVE  CanonicalFirst'
<1>1. CASE EnsureNetwork
  BY <1>1 DEF EnsureNetwork, Goto, CanonicalFirst, Inv, Placed
<1>2. CASE Step /\ ~EnsureNetwork
  BY <1>2
     DEF CanonicalFirst, Step, InspectReplica, CheckState, ReplaceContainer, PullImage, RunContainer,
         WaitReady, AfterReady, SurgeRemove, SurgeRename, ReplicasDone, RemoveExtraReplicas,
         HandleAbort, HandleFailure, Rollback, Restore, RefreshEndpoints, StartPorts, SaveRuntime,
         SaveStatus, Return, RemoveOwnedContainers, DeleteRuntime, Goto, Abort, NextReplica
<1>3. CASE Next /\ ~Step
  <2>1. target' = "canonical" \/ UNCHANGED <<pc, target>>
    BY <1>3 DEF Next, Apply, Restart, BeginApply, Begin, Resync, Remove, Cancel, Terminate, Exit,
                Crash, Gone, ContainerReady, ContainerRevives, ContainerStops, place
  <2> QED BY <2>1 DEF CanonicalFirst
<1>4. CASE UNCHANGED vars
  BY <1>4 DEF CanonicalFirst, vars, place
<1> QED BY <1>1, <1>2, <1>3, <1>4

\* A surge begins with the replica that is to be replaced.
LEMMA SurgePairStep ==
  ASSUME Inv, CanonicalFirst, SurgePair, Step
  PROVE  SurgePair'
<1>1. CASE ~SurgeAtWork'
  BY <1>1 DEF SurgePair, SurgeAtWork
<1>2. CASE SurgeAtWork' /\ InspectReplica
  <2>1. /\ pc' = "pull" /\ Named(CanonicalName) # {} /\ UNCHANGED <<containers, at, cur>>
    BY <1>2 DEF InspectReplica, SurgeAtWork, CanonicalFirst, Goto, frame
  <2>2. CanonicalName' = CanonicalName
    BY <2>1, SameNames
  <2> QED BY <2>1, <2>2 DEF SurgePair, Named
<1>3. CASE SurgeAtWork' /\ (PullImage \/ RunContainer \/ WaitReady)
  <2>1. /\ pc \in {"pull", "run", "wait"} /\ target' = target /\ at' = at /\ cur' = cur
        /\ containers \subseteq containers'
    BY <1>3, RunFacts DEF PullImage, WaitReady, AfterReady, NextReplica, Goto, Abort, frame, SurgeAtWork
  <2>2. target = "surge" /\ SurgeAtWork
    BY <1>3, <2>1 DEF SurgeAtWork, PullImage, WaitReady, AfterReady, NextReplica, RunContainer,
                      Goto, Abort
  <2>3. CanonicalName' = CanonicalName /\ SurgeName' = SurgeName /\ TargetName = SurgeName
    BY <2>1, <2>2, SameNames, AtSurge
  <2>4. Named(CanonicalName)' # {}
    BY <2>1, <2>2, <2>3 DEF SurgePair, Named
  <2>5. CASE PullImage
    BY <1>3, <2>4, <2>5 DEF SurgePair, PullImage, Goto, Abort
  <2>6. CASE RunContainer
    <3>1. pc' \in {"wait", "abort"} /\ (pc' = "abort" \/ \E b \in containers' : b.name = SurgeName)
      BY <2>3, <2>6, RunFacts
    <3>2. \E b \in containers' : b.name = SurgeName
      BY <1>3, <3>1 DEF SurgeAtWork
    <3> QED BY <2>3, <2>4, <3>2 DEF SurgePair, Named
  <2>7. CASE WaitReady
    <3>1. Named(SurgeName)' # {}
      BY <2>1, <2>2, <2>3, <2>7 DEF SurgePair, Named, WaitReady
    <3> QED BY <2>3, <2>4, <3>1 DEF SurgePair
  <2> QED BY <1>3, <2>5, <2>6, <2>7
<1>4. CASE SurgeAtWork' /\ SurgeRemove
  <2>1. /\ pc = "surgeRemove" /\ pc' = "surgeRename" /\ at' = at /\ cur' = cur /\ SurgeAtWork
        /\ containers' = containers \ Named(CanonicalName)
    BY <1>4 DEF SurgeRemove, Goto, Abort, frame, SurgeAtWork
  <2>2. CanonicalName # SurgeName /\ SurgeName' = SurgeName
    BY <2>1, SameNames, AtSurge
  <2>3. PICK c \in containers : c.name = SurgeName
    BY <2>1 DEF SurgePair, Named
  <2>4. c \in containers'
    BY <2>1, <2>2, <2>3 DEF Named
  <2> QED BY <2>1, <2>2, <2>3, <2>4 DEF SurgePair, Named
<1>5. CASE SurgeAtWork' /\ ~(InspectReplica \/ PullImage \/ RunContainer \/ WaitReady \/ SurgeRemove)
  <2>1. \/ pc' \notin {"pull", "run", "wait", "surgeRemove", "surgeRename"}
        \/ pc' = "pull" /\ target' # "surge"
    <3>1. CASE ReplaceContainer
      <4>1. pc = "replace" /\ pc' \in {"pull", "abort"} /\ target' = target
        BY <3>1 DEF ReplaceContainer, Goto, Abort
      <4>2. target = "canonical"
        BY <4>1 DEF CanonicalFirst
      <4> QED BY <4>1, <4>2
    <3>2. CASE ~ReplaceContainer
      BY <1>5, <3>2
         DEF Step, EnsureNetwork, CheckState, SurgeRename, ReplicasDone, RemoveExtraReplicas,
             HandleAbort, HandleFailure, Rollback, Restore, RefreshEndpoints, StartPorts, SaveRuntime,
             SaveStatus, Return, RemoveOwnedContainers, DeleteRuntime, Goto, Abort, NextReplica
    <3> QED BY <3>1, <3>2
  <2> QED BY <1>5, <2>1 DEF SurgeAtWork
<1> QED BY <1>1, <1>2, <1>3, <1>4, <1>5

\* Outside of an operation's own steps no surge is begun and no name disappears.
LEMMA NextSurgePair ==
  ASSUME Inv, CanonicalFirst, SurgePair, [Next]_vars
  PROVE  SurgePair'
<1>1. CASE Step
  BY <1>1, SurgePairStep
<1>2. CASE DockerStep
  <2>1. UNCHANGED <<cur, pc, at, target>>
    BY <1>2, DockerFacts DEF frame, place
  <2>2. CanonicalName' = CanonicalName /\ SurgeName' = SurgeName
    BY <2>1, SameNames
  <2>3. \E c \in containers, b \in Container :
          containers' = (containers \ {c}) \cup {b} /\ b.name = c.name
    BY <1>2, DockerFacts
  <2>4. \A n : Named(n) # {} => \E c \in containers' : c.name = n
    BY <2>3 DEF Named
  <2> QED BY <2>1, <2>2, <2>4 DEF SurgePair, Named
<1>3. CASE \/ \E v \in Versions, g \in ExplicitGens \cup {0} : Apply(v, g)
           \/ Resync \/ Remove \/ Exit \/ Crash \/ (Restart /\ savedSpec # NoRuntime)
  <2>1. pc' \in {"network", "inspect", "removeOwned", "delete", "idle"}
    BY <1>3 DEF Apply, Restart, BeginApply, Begin, Resync, Remove, Exit, Crash, Gone
  <2> QED BY <2>1 DEF SurgePair
<1>4. CASE Cancel \/ Terminate \/ (Restart /\ savedSpec = NoRuntime) \/ UNCHANGED vars
  <2>1. UNCHANGED <<containers, cur, pc, at, target>>
    BY <1>4 DEF Cancel, Terminate, Restart, vars, frame, place
  <2>2. CanonicalName' = CanonicalName /\ SurgeName' = SurgeName
    BY <2>1, SameNames
  <2> QED BY <2>1, <2>2 DEF SurgePair, Named
<1> QED BY <1>1, <1>2, <1>3, <1>4 DEF Next, DockerStep

\* While a surge is at work there is the replica, its replacement, or both.
THEOREM PairAlways == Spec => [](CanonicalFirst /\ SurgePair)
<1>1. Init => CanonicalFirst /\ SurgePair
  BY DEF Init, CanonicalFirst, SurgePair
<1>2. Inv /\ (CanonicalFirst /\ SurgePair) /\ [Next]_vars => (CanonicalFirst /\ SurgePair)'
  BY NextCanonical, NextSurgePair
<1> QED BY <1>1, <1>2, InvAlways, PTL DEF Spec

\* No step of a surge takes the replica's last container, whether the replica
\* still has its old container or only the replacement (SurgeKeepsReplica).
THEOREM ReplicaKept == Spec => SurgeKeepsReplica
<1>1. ASSUME Inv, SurgeAtWork, NEW S, NEW c \in S, c.name \in {CanonicalName, SurgeName}
      PROVE  CanonicalName \in Slots(S)
  BY <1>1, AtSurge DEF Slots
<1>2. Inv /\ SurgePair /\ [Next]_vars =>
        [SurgeAtWork => CanonicalName \in (Slots(containers) \cap Slots(containers'))]_vars
  <2> SUFFICES ASSUME Inv, SurgePair, Next, SurgeAtWork
               PROVE  CanonicalName \in Slots(containers) /\ CanonicalName \in Slots(containers')
    OBVIOUS
  <2>1. \E c \in containers : c.name \in {CanonicalName, SurgeName}
    BY DEF SurgePair, SurgeAtWork, Named
  <2>2. \E c \in containers' : c.name \in {CanonicalName, SurgeName}
    <3>1. CASE containers \subseteq containers'
      BY <2>1, <3>1
    <3>2. CASE SurgeRemove
      <4>1. /\ pc = "surgeRemove"
            /\ containers' = containers \ Named(CanonicalName) \/ containers' = containers
        BY <3>2 DEF SurgeRemove
      <4>2. PICK c \in containers : c.name = SurgeName
        BY <4>1 DEF SurgePair, Named
      <4>3. c \in containers'
        BY <4>1, <4>2, AtSurge DEF Named
      <4> QED BY <4>2, <4>3
    <3>3. CASE SurgeRename
      <4>1. PICK c \in containers : c.name = SurgeName
        BY <3>3 DEF SurgePair, Named, SurgeRename
      <4>2. Renamed(c).name = CanonicalName
        BY <3>3, <4>1, RenameFacts
      <4>3. containers' = containers \/ containers' = {Renamed(d) : d \in containers}
        BY <3>3 DEF SurgeRename
      <4> QED BY <4>1, <4>2, <4>3
    <3>4. CASE DockerStep
      <4>1. \E c \in containers, b \in Container :
              containers' = (containers \ {c}) \cup {b} /\ b.name = c.name
        BY <3>4, DockerFacts
      <4> QED BY <2>1, <4>1
    <3>5. CASE PullImage \/ RunContainer \/ WaitReady
      BY <3>1, <3>5, RunFacts DEF PullImage, WaitReady
    <3>6. CASE Next /\ ~Step /\ ~DockerStep
      BY <3>1, <3>6 DEF Next, DockerStep, Apply, Restart, BeginApply, Resync, Remove, Cancel,
                        Terminate, Exit, Crash, Gone
    <3> QED BY <3>2, <3>3, <3>4, <3>5, <3>6, SurgeSteps
  <2> QED BY <1>1, <2>1, <2>2
<1> QED BY <1>2, InvAlways, PairAlways, PTL DEF Spec, SurgeKeepsReplica

-----------------------------------------------------------------------------
(* What a deletion leaves *)

\* Without a crash or a termination the agent that serves goes on serving.
LEMMA Serving ==
  ASSUME Inv, agent = "serving", [Next]_vars, MaxCrashes = 0
  PROVE  agent' = "serving"
<1>1. crashes = 0
  BY DEF Inv, TypeOK
<1>2. CASE Step
  BY <1>2
     DEF Step, EnsureNetwork, InspectReplica, CheckState, ReplaceContainer, PullImage, RunContainer,
         WaitReady, SurgeRemove, SurgeRename, ReplicasDone, RemoveExtraReplicas, HandleAbort,
         HandleFailure, Rollback, Restore, RefreshEndpoints, StartPorts, SaveRuntime, SaveStatus,
         Return, RemoveOwnedContainers, DeleteRuntime, frame
<1>3. CASE Terminate \/ Crash
  BY <1>1, <1>3 DEF Terminate, Crash
<1>4. CASE Next /\ ~Step /\ ~(Terminate \/ Crash)
  BY <1>4 DEF Next, Apply, Resync, Remove, Cancel, Exit, Restart, ContainerReady, ContainerRevives,
              ContainerStops, frame
<1>5. CASE UNCHANGED vars
  BY <1>5 DEF vars, frame
<1> QED BY <1>2, <1>3, <1>4, <1>5

\* An operation on a document, or one that ends with a document, owns its containers.
LEMMA DocumentOwns ==
  ASSUME agent' = "serving", spec' # NoRuntime, op' # "remove", pc' # "delete"
  PROVE  Owned'
BY DEF Owned

\* The steps of Apply and Resync keep or restore a document.
LEMMA StepKeepsDocument ==
  ASSUME Inv, Step, op # "remove"
  PROVE  spec' # NoRuntime /\ op' # "remove" /\ pc' # "delete"
<1>1. op \in {"apply", "resync"} /\ pc \notin {"removeOwned", "delete"}
  BY DEF Step, EnsureNetwork, InspectReplica, CheckState, ReplaceContainer, PullImage, RunContainer,
         WaitReady, SurgeRemove, SurgeRename, ReplicasDone, RemoveExtraReplicas, HandleAbort,
         HandleFailure, Rollback, Restore, RefreshEndpoints, StartPorts, SaveRuntime, SaveStatus,
         RemoveOwnedContainers, DeleteRuntime, Inv, TypeOK, Control
<1>2. cur # NoRuntime /\ spec = cur
  BY <1>1, DocumentFacts DEF Inv, Control
<1>3. pc' # "delete" /\ op' # "remove"
  BY <1>1
     DEF Step, EnsureNetwork, InspectReplica, CheckState, ReplaceContainer, PullImage, RunContainer,
         WaitReady, AfterReady, SurgeRemove, SurgeRename, ReplicasDone, RemoveExtraReplicas,
         HandleAbort, HandleFailure, Rollback, Restore, RefreshEndpoints, StartPorts, SaveRuntime,
         SaveStatus, RemoveOwnedContainers, DeleteRuntime, Return, Goto, Abort, NextReplica, frame
<1>4. CASE Restore
  BY <1>3, <1>4, RestoreFacts, DocumentFacts
<1>5. CASE ~Restore
  <2>1. spec' \in {spec, cur}
    BY <1>1, <1>5
       DEF Step, EnsureNetwork, InspectReplica, CheckState, ReplaceContainer, PullImage, RunContainer,
           WaitReady, SurgeRemove, SurgeRename, ReplicasDone, RemoveExtraReplicas, HandleAbort,
           HandleFailure, Rollback, RecordFailedStatus, RefreshEndpoints, StartPorts, SaveRuntime,
           SaveStatus, RemoveOwnedContainers, DeleteRuntime, UpdateStatus, mem
  <2> QED BY <1>2, <1>3, <2>1
<1> QED BY <1>4, <1>5

\* Every step keeps containers within the reach of Remove.
LEMMA NextOwned ==
  ASSUME Inv, DiskFollows, Owned, [Next]_vars, MaxCrashes = 0
  PROVE  Owned'
<1>1. agent = "serving" /\ agent' = "serving"
  BY Serving DEF Owned
<1>2. CASE Step /\ op # "remove"
  BY <1>1, <1>2, StepKeepsDocument, DocumentOwns
<1>3. CASE Step /\ op = "remove"
  <2>1. RemoveOwnedContainers \/ DeleteRuntime
    BY <1>3
       DEF Step, EnsureNetwork, InspectReplica, CheckState, ReplaceContainer, PullImage, RunContainer,
           WaitReady, SurgeRemove, SurgeRename, ReplicasDone, RemoveExtraReplicas, HandleAbort,
           HandleFailure, Rollback, Restore, RefreshEndpoints, StartPorts, SaveRuntime,
           SaveStatus, Inv, Control
  <2>2. CASE RemoveOwnedContainers
    <3>1. /\ containers' \subseteq containers /\ savedSpec' = savedSpec
          /\ pc' = "delete" => containers' = {}
      BY <2>2 DEF RemoveOwnedContainers, Goto, Return, disk
    <3> QED BY <1>1, <1>3, <3>1 DEF Owned
  <2>3. CASE DeleteRuntime
    <3>1. containers' = {}
      BY <2>3 DEF DeleteRuntime, Owned
    <3> QED BY <1>1, <3>1 DEF Owned
  <2> QED BY <2>1, <2>2, <2>3
<1>4. CASE \E v \in Versions, g \in ExplicitGens \cup {0} : Apply(v, g)
  <2>1. op' = "apply" /\ pc' = "network"
    BY <1>4 DEF Apply, BeginApply, Begin
  <2> QED BY <1>1, <2>1 DEF Owned
<1>5. CASE Resync
  <2>1. spec' # NoRuntime /\ op' = "resync" /\ pc' = "inspect"
    BY <1>5 DEF Resync, Begin, mem
  <2> QED BY <1>1, <2>1, DocumentOwns
<1>6. CASE Remove
  <2>1. /\ op = "none" /\ op' = "remove" /\ UNCHANGED <<containers, savedSpec>>
        /\ pc' = "delete" => spec = NoRuntime /\ savedSpec = NoRuntime
    BY <1>6 DEF Remove, Begin, RemovedRuntime
  <2>2. containers # {} => spec # NoRuntime \/ savedSpec # NoRuntime
    BY <2>1 DEF Owned
  <2>3. containers # {} => savedSpec # NoRuntime
    BY <1>1, <2>1, <2>2 DEF DiskFollows, DiskAgrees
  <2> QED BY <1>1, <2>1, <2>2, <2>3 DEF Owned
<1>7. CASE Exit \/ Crash \/ Restart \/ Terminate
  <2>1. crashes = 0
    BY DEF Inv, TypeOK
  <2> QED BY <1>1, <1>7, <2>1 DEF Exit, Crash, Restart, Terminate
<1>8. CASE Cancel \/ UNCHANGED vars
  BY <1>8 DEF Cancel, vars, mem, disk, frame, place, Owned
<1>9. CASE DockerStep
  <2>1. UNCHANGED <<spec, savedSpec, agent, op, pc>> /\ containers # {}
    BY <1>9, DockerFacts DEF mem, disk, frame, place
  <2> QED BY <2>1 DEF Owned
<1> QED BY <1>2, <1>3, <1>4, <1>5, <1>6, <1>7, <1>8, <1>9 DEF Next, DockerStep

\* When Remove reports Deleted no container is left, as long as the agent does
\* not die and the state files can be written (DeletedMeansGone).
THEOREM DeletedIsGone ==
  ASSUME "save" \notin Faults, MaxCrashes = 0
  PROVE  Spec => DeletedMeansGone
<1>1. Init => DiskFollows /\ Owned
  BY DEF Init, DiskFollows, DiskAgrees, Owned
<1>2. Inv /\ (DiskFollows /\ Owned) /\ [Next]_vars => (DiskFollows /\ Owned)'
  BY NextFollows, NextOwned
<1>3. Owned /\ [Next]_vars => [Writes("Deleted") => containers = {}]_vars
  BY WhoWrites DEF Owned, DeleteRuntime
<1> QED BY <1>1, <1>2, <1>3, InvAlways, PTL DEF Spec, DeletedMeansGone

-----------------------------------------------------------------------------
(* What Apply has deployed *)

\* The parts of the names of a replica and of its replacement.
LEMMA NameParts ==
  /\ \A d, r : /\ ContainerName(d, r).deployment = d.name /\ ContainerName(d, r).replica = r
               /\ ContainerName(d, r).revision = d.revision /\ ContainerName(d, r).surge = 0
  /\ CanonicalName.deployment = Here.name /\ CanonicalName.replica = at.r
  /\ CanonicalName.revision = Here.revision
  /\ SurgeName.deployment = Here.name /\ SurgeName.surge = cur.generation
<1>1. CanonicalName = ContainerName(Here, at.r)
  BY DEF CanonicalName
<1>2. PICK n, g : n = CanonicalName /\ g = cur.generation
  OBVIOUS
<1>3. n = [deployment |-> Here.name, revision |-> Here.revision, replica |-> at.r, surge |-> 0]
  BY <1>1, <1>2 DEF ContainerName
<1>4. [n EXCEPT !.surge = g] =
        [deployment |-> Here.name, revision |-> Here.revision, replica |-> at.r, surge |-> g]
  BY <1>3
<1> QED BY <1>1, <1>2, <1>4 DEF SurgeName, ContainerName

\* A step that changes no container but those of the replica at work.
OthersKept ==
  /\ \A c \in containers : c.name # CanonicalName /\ c.name # SurgeName =>
       \E b \in containers' : b.name = c.name /\ b.hash = c.hash
  /\ \A b \in containers' : b.name \in {CanonicalName, SurgeName} \/ \E c \in containers : b.name = c.name

\* The steps at a replica move only to the next one, and touch no other replica's
\* containers.
LEMMA ReplicaSteps ==
  ASSUME Inv, \/ InspectReplica \/ CheckState \/ ReplaceContainer \/ PullImage \/ RunContainer
              \/ WaitReady \/ SurgeRemove \/ SurgeRename \/ ReplicasDone
  PROVE  /\ pc \in AtDeployment /\ UNCHANGED <<op, cur>> /\ OthersKept
         /\ pc' \in AtDeployment \cup {"abort"}
         /\ at' = at \/ (pc' = "inspect" /\ at' = [at EXCEPT !.r = @ + 1])
<1>1. pc \in AtDeployment /\ UNCHANGED <<op, cur>> /\ pc' \in AtDeployment \cup {"abort"}
  BY DEF InspectReplica, CheckState, ReplaceContainer, PullImage, RunContainer, WaitReady, AfterReady,
         SurgeRemove, SurgeRename, ReplicasDone, Goto, Abort, NextReplica, frame,
         AtDeployment, AtReplica
<1>2. at' = at \/ (pc' = "inspect" /\ at' = [at EXCEPT !.r = @ + 1])
  BY DEF InspectReplica, CheckState, ReplaceContainer, PullImage, RunContainer, WaitReady, AfterReady,
         SurgeRemove, SurgeRename, ReplicasDone, Goto, Abort, NextReplica
<1>3. CASE containers' = containers \/ containers' = containers \ Named(CanonicalName)
  BY <1>1, <1>2, <1>3 DEF OthersKept, Named
<1>4. CASE RunContainer
  <2>1. TargetName \in {CanonicalName, SurgeName}
    BY DEF TargetName
  <2>2. \/ containers' = containers
        \/ \E b \in Container : b.name = TargetName /\ containers' = containers \cup {b}
    BY <1>4, RunFacts
  <2>3. OthersKept
    BY <2>1, <2>2 DEF OthersKept
  <2> QED BY <1>1, <1>2, <2>3
<1>5. CASE SurgeRename
  <2>1. /\ containers' = containers \/ containers' = {Renamed(c) : c \in containers}
        /\ \A c \in containers :
             /\ Renamed(c).name = IF c.name = SurgeName THEN CanonicalName ELSE c.name
             /\ Renamed(c).hash = c.hash
    BY <1>5, RenameFacts
  <2>2. OthersKept
    BY <2>1 DEF OthersKept
  <2> QED BY <1>1, <1>2, <2>2
<1>6. CASE ~(RunContainer \/ SurgeRename)
  <2>1. containers' = containers \/ containers' = containers \ Named(CanonicalName)
    BY <1>6 DEF InspectReplica, CheckState, ReplaceContainer, PullImage, WaitReady, SurgeRemove,
                ReplicasDone
  <2> QED BY <1>1, <1>2, <1>3, <2>1
<1> QED BY <1>4, <1>5, <1>6

\* What has been deployed stays deployed: a replica whose container is kept ...
LEMMA KeepReplica ==
  ASSUME NEW d, NEW r, HasReplica(d, r),
         \A c \in containers : c.name = ContainerName(d, r) =>
           \E b \in containers' : b.name = c.name /\ b.hash = c.hash
  PROVE  HasReplica(d, r)'
BY DEF HasReplica, Named

\* ... and a deployment that gets no new names.
LEMMA KeepNoExtra ==
  ASSUME NEW d, HasNoExtra(d),
         \A b \in containers' : b.name.deployment = d.name => \E c \in containers : b.name = c.name
  PROVE  HasNoExtra(d)'
BY DEF HasNoExtra, IsExtra

\* The deployments before the one at work.
LEMMA EarlierKept ==
  ASSUME Inv, EarlierDone, pc \in AtDeployment, OthersKept, NEW i \in 1..(at.d - 1),
         NEW d, d = DeploymentsOf(cur)[i]
  PROVE  HasAll(d)' /\ HasNoExtra(d)'
<1>1. HasAll(d) /\ HasNoExtra(d)
  BY DEF EarlierDone
<1>2. d.name # Here.name
  <2>1. /\ cur \in Document /\ at.d \in 1..Len(DeploymentsOf(cur)) /\ Here = DeploymentsOf(cur)[at.d]
        /\ Len(DeploymentsOf(cur)) \in Nat
    BY HereFacts, TemplateFacts
  <2>2. i \in 1..Len(DeploymentsOf(cur)) /\ i # at.d
    BY <2>1
  <2> QED BY <2>1, <2>2, TemplateFacts
<1>3. \A r : ContainerName(d, r) # CanonicalName /\ ContainerName(d, r) # SurgeName
  BY <1>2, NameParts
<1>4. \A r \in 1..d.replicas : HasReplica(d, r)'
  <2> TAKE r \in 1..d.replicas
  <2>1. HasReplica(d, r)
    BY <1>1 DEF HasAll
  <2>2. \A c \in containers : c.name = ContainerName(d, r) =>
          \E b \in containers' : b.name = c.name /\ b.hash = c.hash
    BY <1>3 DEF OthersKept
  <2> QED BY <2>1, <2>2, KeepReplica
<1>5. \A b \in containers' : b.name.deployment = d.name => \E c \in containers : b.name = c.name
  BY <1>2, NameParts DEF OthersKept
<1> QED BY <1>1, <1>4, <1>5, KeepNoExtra DEF HasAll

\* The other replicas of the deployment at work.
LEMMA SiblingKept ==
  ASSUME Inv, pc \in AtDeployment, OthersKept, NEW r, r # at.r, NEW d, d = Here, HasReplica(d, r)
  PROVE  HasReplica(d, r)'
<1>1. cur.generation # 0
  BY HereFacts, DocumentFacts
<1>2. ContainerName(d, r) # CanonicalName /\ ContainerName(d, r) # SurgeName
  BY <1>1, NameParts
<1> QED BY <1>2, KeepReplica DEF OthersKept

\* The replica at work has been deployed when the loop goes on to the next one.
LEMMA ReplicaFinished ==
  ASSUME Inv, ReplicaDone, CheckState \/ WaitReady \/ SurgeRename, pc' = "inspect"
  PROVE  \E b \in containers' : b.name = ContainerName(Here, at.r) /\ b.hash = Here.hash
<1>1. CanonicalName = ContainerName(Here, at.r)
  BY DEF CanonicalName
<1>2. CASE CheckState
  <2>1. containers' = containers /\ pc = "state"
    BY <1>2 DEF CheckState
  <2> QED BY <2>1 DEF ReplicaDone, HasReplica, Named
<1>3. CASE WaitReady
  <2>1. containers' = containers /\ pc = "wait" /\ target # "surge"
    BY <1>3 DEF WaitReady, AfterReady, Goto, Abort
  <2> QED BY <1>1, <2>1 DEF ReplicaDone, Named, TargetName
<1>4. CASE SurgeRename
  <2>1. PICK c \in containers : c.name = SurgeName /\ c.hash = Here.hash
    BY <1>4 DEF SurgeRename, ReplicaDone, Named
  <2>2. containers' = {Renamed(b) : b \in containers}
    BY <1>4, RenameFacts
  <2>3. Renamed(c).name = CanonicalName /\ Renamed(c).hash = Here.hash
    BY <1>4, <2>1, RenameFacts
  <2> QED BY <1>1, <2>2, <2>3
<1> QED BY <1>2, <1>3, <1>4

\* The loop over the replicas keeps what it has done.
LEMMA SiblingsStep ==
  ASSUME Inv, SiblingsDone, ReplicaDone,
         \/ InspectReplica \/ CheckState \/ ReplaceContainer \/ PullImage \/ RunContainer
         \/ WaitReady \/ SurgeRemove \/ SurgeRename \/ ReplicasDone,
         pc' \in AtDeployment
  PROVE  SiblingsDone'
<1>1. /\ pc \in AtDeployment /\ cur' = cur /\ OthersKept
      /\ at' = at \/ (pc' = "inspect" /\ at' = [at EXCEPT !.r = @ + 1])
  BY ReplicaSteps
<1>2. at \in [d : Nat, r : Nat]
  BY DEF Inv, TypeOK
<1>3. at'.d = at.d /\ (at'.r = at.r \/ (pc' = "inspect" /\ at'.r = at.r + 1))
  BY <1>1, <1>2
<1>4. PICK d : d = Here
  OBVIOUS
<1>5. d = Here'
  BY <1>1, <1>3, <1>4 DEF Here, DeploymentsOf
<1>6. ASSUME NEW r \in 1..d.replicas, r < at'.r
      PROVE  HasReplica(d, r)'
  <2>1. CASE r < at.r
    <3>1. HasReplica(d, r)
      BY <1>1, <1>4, <2>1 DEF SiblingsDone
    <3>2. r # at.r
      BY <1>2, <2>1
    <3> QED BY <1>1, <1>4, <3>1, <3>2, SiblingKept
  <2>2. CASE ~(r < at.r)
    <3>1. r = at.r /\ pc' = "inspect" /\ at'.r = at.r + 1
      <4>1. at.r \in Nat /\ r \in Int
        BY <1>2
      <4>2. at'.r = at.r + 1 /\ pc' = "inspect"
        BY <1>3, <1>6, <2>2
      <4> QED BY <1>6, <2>2, <4>1, <4>2
    <3>2. CheckState \/ WaitReady \/ SurgeRename
      <4>1. at' # at
        BY <1>2, <3>1
      <4> QED BY <4>1 DEF InspectReplica, ReplaceContainer, PullImage, RunContainer, SurgeRemove,
                          ReplicasDone, Goto, Abort
    <3>3. \E b \in containers' : b.name = ContainerName(Here, at.r) /\ b.hash = Here.hash
      BY <3>1, <3>2, ReplicaFinished
    <3> QED BY <1>4, <3>1, <3>3 DEF HasReplica, Named
  <2> QED BY <2>1, <2>2
<1> QED BY <1>5, <1>6 DEF SiblingsDone

\* The replicas already rolled out stay deployed through the steps at later ones.
LEMMA EarlierStep ==
  ASSUME Inv, EarlierDone,
         \/ InspectReplica \/ CheckState \/ ReplaceContainer \/ PullImage \/ RunContainer
         \/ WaitReady \/ SurgeRemove \/ SurgeRename \/ ReplicasDone
  PROVE  EarlierDone'
<1>1. /\ pc \in AtDeployment /\ cur' = cur /\ OthersKept
      /\ at' = at \/ at' = [at EXCEPT !.r = @ + 1]
  BY ReplicaSteps
<1>2. at'.d = at.d
  BY <1>1 DEF Inv, TypeOK
<1>3. ASSUME NEW i \in 1..(at'.d - 1)
      PROVE  (HasAll(DeploymentsOf(cur)[i]) /\ HasNoExtra(DeploymentsOf(cur)[i]))'
  <2>1. PICK d : d = DeploymentsOf(cur)[i]
    OBVIOUS
  <2>2. HasAll(d)' /\ HasNoExtra(d)'
    BY <1>1, <1>2, <2>1, EarlierKept
  <2>3. d = DeploymentsOf(cur)'[i]
    BY <1>1, <2>1 DEF DeploymentsOf
  <2> QED BY <2>2, <2>3
<1> QED BY <1>3 DEF EarlierDone

\* What is known of the replica at work.
LEMMA ReplicaDoneStep ==
  ASSUME Inv, CanonicalFirst, SiblingsDone, ReplicaDone, "hash" \notin Faults,
         \/ InspectReplica \/ CheckState \/ ReplaceContainer \/ PullImage \/ RunContainer
         \/ WaitReady \/ SurgeRemove \/ SurgeRename \/ ReplicasDone
  PROVE  ReplicaDone'
<1>1. CASE InspectReplica
  <2>1. /\ UNCHANGED <<containers, cur, at>> /\ pc' \in {"pull", "state", "replace"}
        /\ pc' = "state" => \E c \in Named(CanonicalName) : c.hash = Here.hash
    BY <1>1 DEF InspectReplica, Goto, NeedsRecreate, Happens, frame
  <2>2. Here' = Here
    BY <2>1, SameNames
  <2> QED BY <2>1, <2>2 DEF ReplicaDone, HasReplica, Named, CanonicalName
<1>2. CASE CheckState \/ ReplaceContainer \/ PullImage
  <2>1. pc' \notin {"extra", "state", "wait", "surgeRemove", "surgeRename"}
    BY <1>2 DEF CheckState, ReplaceContainer, PullImage, Goto, Abort, NextReplica
  <2> QED BY <2>1 DEF ReplicaDone
<1>3. CASE RunContainer
  <2>1. /\ UNCHANGED <<cur, at, target>> /\ pc' \in {"wait", "abort"}
        /\ pc' = "abort" \/ \E b \in containers' : b.name = TargetName /\ b.hash = Here.hash
    BY <1>3, RunFacts
  <2>2. Here' = Here /\ TargetName' = TargetName
    BY <2>1, SameNames DEF TargetName
  <2> QED BY <2>1, <2>2 DEF ReplicaDone, Named
<1>4. CASE WaitReady
  <2>1. /\ containers' = containers /\ cur' = cur /\ pc = "wait"
        /\ pc' \in {"surgeRemove", "inspect", "abort"}
        /\ pc' = "surgeRemove" => target = "surge" /\ at' = at
    BY <1>4 DEF WaitReady, AfterReady, NextReplica, Goto, Abort, frame
  <2>2. CASE pc' = "surgeRemove"
    <3>1. Here' = Here /\ SurgeName' = SurgeName /\ TargetName = SurgeName
      BY <2>1, <2>2, SameNames DEF TargetName
    <3> QED BY <2>1, <2>2, <3>1 DEF ReplicaDone, Named
  <2>3. CASE pc' # "surgeRemove"
    BY <2>1, <2>3 DEF ReplicaDone
  <2> QED BY <2>2, <2>3
<1>5. CASE SurgeRemove
  <2>1. /\ pc = "surgeRemove" /\ cur' = cur /\ at' = at /\ pc' \in {"surgeRename", "abort"}
        /\ containers \ Named(CanonicalName) \subseteq containers'
    BY <1>5 DEF SurgeRemove, Goto, Abort, frame
  <2>2. Here' = Here /\ SurgeName' = SurgeName
    BY <2>1, SameNames
  <2>3. CanonicalName # SurgeName
    BY <2>1, AtSurge DEF SurgeAtWork
  <2>4. PICK c \in containers : c.name = SurgeName /\ c.hash = Here.hash
    BY <2>1 DEF ReplicaDone, Named
  <2>5. c \in containers'
    BY <2>1, <2>3, <2>4 DEF Named
  <2> QED BY <2>1, <2>2, <2>4, <2>5 DEF ReplicaDone, Named
<1>6. CASE SurgeRename
  <2>1. pc' \in {"inspect", "abort"}
    BY <1>6 DEF SurgeRename, NextReplica, Goto, Abort
  <2> QED BY <2>1 DEF ReplicaDone
<1>7. CASE ReplicasDone
  <2>1. /\ pc = "inspect" /\ pc' = "extra" /\ UNCHANGED <<containers, cur, at>> /\ at.r > Here.replicas
    BY <1>7 DEF ReplicasDone, Goto, frame
  <2>2. PICK d : d = Here
    OBVIOUS
  <2>3. d = Here'
    BY <2>1, <2>2, SameNames
  <2>4. d.replicas \in Nat /\ at.r \in Nat
    BY <2>1, <2>2, HereFacts, SpecFacts DEF AtDeployment
  <2>5. \A r \in 1..d.replicas : HasReplica(d, r)
    BY <2>1, <2>2, <2>4 DEF SiblingsDone, AtDeployment
  <2>6. \A r \in 1..d.replicas : HasReplica(d, r)'
    BY <2>1, <2>5 DEF HasReplica, Named
  <2> QED BY <2>1, <2>3, <2>6 DEF ReplicaDone, HasAll
<1> QED BY <1>1, <1>2, <1>3, <1>4, <1>5, <1>6, <1>7

\* removeExtraReplicas removes nothing that has been deployed.
LEMMA ExtraFacts ==
  ASSUME Inv, RemoveExtraReplicas
  PROVE  /\ pc = "extra" /\ cur' = cur /\ containers' \subseteq containers
         /\ \A c \in containers : ~IsExtra(c, Here) => c \in containers'
         /\ \/ pc' \in {"extra", "abort"} /\ at' = at
            \/ /\ containers' = containers /\ HasNoExtra(Here)
               /\ \/ at.d < Len(DeploymentsOf(cur)) /\ pc' = "inspect" /\ at' = [d |-> at.d + 1, r |-> 1]
                  \/ ~(at.d < Len(DeploymentsOf(cur))) /\ pc' = "refresh"
<1>1. pc = "extra" /\ cur' = cur
  BY DEF RemoveExtraReplicas, frame
<1>2. CASE pc' \in {"extra", "abort"}
  <2>1. /\ containers' = containers \/ \E c \in containers : IsExtra(c, Here) /\ containers' = containers \ {c}
        /\ at' = at
    BY <1>2 DEF RemoveExtraReplicas, Goto, Abort
  <2> QED BY <1>1, <1>2, <2>1
<1>3. CASE pc' \notin {"extra", "abort"}
  <2>1. /\ {c \in containers : IsExtra(c, Here)} = {} /\ containers' = containers
        /\ \/ at.d < Len(DeploymentsOf(cur)) /\ pc' = "inspect" /\ at' = [d |-> at.d + 1, r |-> 1]
           \/ ~(at.d < Len(DeploymentsOf(cur))) /\ pc' = "refresh"
    BY <1>3 DEF RemoveExtraReplicas, Goto, Abort
  <2> QED BY <1>1, <2>1 DEF HasNoExtra
<1> QED BY <1>2, <1>3

\* The replicas of the deployments up to the one at work are not extra.
LEMMA NotExtra ==
  ASSUME Inv, pc = "extra", NEW i \in 1..at.d, NEW d, d = DeploymentsOf(cur)[i],
         NEW r \in 1..d.replicas, NEW c, c.name = ContainerName(d, r)
  PROVE  ~IsExtra(c, Here)
<1>1. /\ cur \in Document /\ at.d \in 1..Len(DeploymentsOf(cur)) /\ Here = DeploymentsOf(cur)[at.d]
      /\ Len(DeploymentsOf(cur)) \in Nat /\ Here \in DeploymentSpec
  BY HereFacts, TemplateFacts DEF AtDeployment
<1>2. CASE i = at.d
  <2>1. d = Here /\ d.replicas \in Nat
    BY <1>1, <1>2, SpecFacts
  <2>2. c.name.replica = r /\ c.name.revision = d.revision
    BY NameParts
  <2> QED BY <2>1, <2>2 DEF IsExtra
<1>3. CASE i # at.d
  <2>1. i \in 1..Len(DeploymentsOf(cur))
    BY <1>1
  <2>2. d.name # Here.name
    BY <1>1, <1>3, <2>1, TemplateFacts
  <2> QED BY <2>2, NameParts DEF IsExtra
<1> QED BY <1>2, <1>3

\* The deployments that have been done when removeExtraReplicas goes on.
LEMMA ExtraKeeps ==
  ASSUME Inv, EarlierDone, ReplicaDone, RemoveExtraReplicas,
         NEW i \in 1..at.d, NEW d, d = DeploymentsOf(cur)[i]
  PROVE  HasAll(d)' /\ (i < at.d \/ HasNoExtra(Here) => HasNoExtra(d)')
<1>1. pc = "extra" /\ at.d \in Nat /\ Here = DeploymentsOf(cur)[at.d]
  BY ExtraFacts, HereFacts DEF AtDeployment
<1>2. HasAll(d) /\ (i < at.d \/ HasNoExtra(Here) => HasNoExtra(d))
  <2>1. CASE i = at.d
    BY <1>1, <2>1 DEF ReplicaDone
  <2>2. CASE i # at.d
    <3>1. i \in 1..(at.d - 1)
      BY <1>1, <2>2
    <3> QED BY <1>1, <3>1 DEF EarlierDone, AtDeployment
  <2> QED BY <2>1, <2>2
<1>3. ASSUME NEW r \in 1..d.replicas
      PROVE  HasReplica(d, r)'
  <2>1. HasReplica(d, r)
    BY <1>2 DEF HasAll
  <2>2. \A c \in containers : c.name = ContainerName(d, r) => c \in containers'
    BY <1>1, ExtraFacts, NotExtra
  <2> QED BY <2>1, <2>2, KeepReplica
<1>4. containers' \subseteq containers
  BY ExtraFacts
<1>5. HasNoExtra(d) => HasNoExtra(d)'
  BY <1>4 DEF HasNoExtra, IsExtra
<1> QED BY <1>2, <1>3, <1>5 DEF HasAll

\* Scaling down removes no container of the replicas asked for.
LEMMA ExtraStep ==
  ASSUME Inv, EarlierDone, ReplicaDone, RemoveExtraReplicas
  PROVE  Deployed'
<1>1. /\ pc = "extra" /\ cur' = cur
      /\ \/ pc' \in {"extra", "abort"} /\ at' = at
         \/ /\ HasNoExtra(Here)
            /\ \/ at.d < Len(DeploymentsOf(cur)) /\ pc' = "inspect" /\ at' = [d |-> at.d + 1, r |-> 1]
               \/ ~(at.d < Len(DeploymentsOf(cur))) /\ pc' = "refresh"
  BY ExtraFacts
<1>2. /\ at.d \in 1..Len(DeploymentsOf(cur)) /\ at.d \in Nat /\ Len(DeploymentsOf(cur)) \in Nat
      /\ Here = DeploymentsOf(cur)[at.d]
  BY <1>1, HereFacts, TemplateFacts DEF AtDeployment
<1>3. PICK t : t = DeploymentsOf(cur)
  OBVIOUS
<1>4. t = DeploymentsOf(cur)'
  BY <1>1, <1>3 DEF DeploymentsOf
<1>5. \A i \in 1..at.d : HasAll(t[i])' /\ (i < at.d \/ HasNoExtra(Here) => HasNoExtra(t[i])')
  <2> TAKE i \in 1..at.d
  <2>1. PICK d : d = t[i]
    OBVIOUS
  <2>2. HasAll(d)' /\ (i < at.d \/ HasNoExtra(Here) => HasNoExtra(d)')
    BY <1>3, <2>1, ExtraKeeps
  <2> QED BY <2>1, <2>2
<1>6. CASE pc' = "abort"
  BY <1>6 DEF Deployed, EarlierDone, SiblingsDone, ReplicaDone, AllDone, AtDeployment, AtReplica, AtEnd
<1>7. CASE pc' = "extra"
  <2>1. at' = at
    BY <1>1, <1>7
  <2>2. Here' = t[at.d]
    BY <1>1, <1>3, <2>1 DEF Here, DeploymentsOf
  <2>3. \A i \in 1..(at.d - 1) : HasAll(t[i])' /\ HasNoExtra(t[i])'
    <3> TAKE i \in 1..(at.d - 1)
    <3>1. i \in 1..at.d /\ i < at.d
      BY <1>2
    <3> QED BY <1>5, <3>1
  <2>4. EarlierDone'
    BY <1>4, <2>1, <2>3 DEF EarlierDone
  <2>5. HasAll(Here)'
    <3>1. PICK k : k = at.d
      OBVIOUS
    <3>2. k \in 1..at.d
      BY <1>2, <3>1
    <3>3. HasAll(t[k])'
      BY <1>5, <3>2
    <3> QED BY <2>2, <3>1, <3>3 DEF HasAll
  <2>6. SiblingsDone' /\ ReplicaDone'
    BY <1>7, <2>5 DEF SiblingsDone, ReplicaDone, HasAll
  <2> QED BY <1>7, <2>4, <2>6 DEF Deployed, AllDone, AtEnd
<1>8. CASE pc' = "inspect"
  <2>1. HasNoExtra(Here) /\ at'.d = at.d + 1 /\ at'.r = 1
    BY <1>1, <1>8
  <2>2. 1..(at'.d - 1) = 1..at.d
    BY <1>2, <2>1
  <2>3. EarlierDone'
    BY <1>4, <1>5, <2>1, <2>2 DEF EarlierDone
  <2>4. SiblingsDone'
    <3>1. \A r \in 1..Here'.replicas : ~(r < at'.r)
      BY <2>1
    <3> QED BY <3>1 DEF SiblingsDone
  <2> QED BY <1>8, <2>3, <2>4 DEF Deployed, ReplicaDone, AllDone, AtEnd
<1>9. CASE pc' = "refresh"
  <2>1. HasNoExtra(Here) /\ at.d = Len(t)
    BY <1>1, <1>2, <1>3, <1>9
  <2>2. AllDone'
    BY <1>4, <1>5, <2>1 DEF AllDone
  <2> QED BY <1>9, <2>2 DEF Deployed, EarlierDone, SiblingsDone, ReplicaDone, AtDeployment, AtReplica
<1> QED BY <1>1, <1>6, <1>7, <1>8, <1>9

\* Elsewhere there is nothing to know, ...
LEMMA ElsewhereDeployed ==
  ASSUME pc' \notin AtDeployment \cup AtEnd
  PROVE  Deployed'
BY DEF Deployed, EarlierDone, SiblingsDone, ReplicaDone, AllDone, AtDeployment, AtReplica, AtEnd

\* ... and nothing when the loops begin.
LEMMA StartDeployed ==
  ASSUME pc' = "inspect", at' = Start
  PROVE  Deployed'
<1>1. at'.d = 1 /\ at'.r = 1
  BY Values
<1>2. EarlierDone'
  BY <1>1 DEF EarlierDone
<1>3. \A r \in 1..Here'.replicas : ~(r < at'.r)
  BY <1>1
<1>4. SiblingsDone'
  BY <1>3 DEF SiblingsDone
<1> QED BY <1>2, <1>4 DEF Deployed, ReplicaDone, AllDone, AtEnd

\* Containers that keep their names and hashes are as good as before.
LEMMA SameDeployed ==
  ASSUME Deployed, UNCHANGED <<cur, pc, at, target>>,
         \A c \in containers : \E b \in containers' : b.name = c.name /\ b.hash = c.hash,
         \A b \in containers' : \E c \in containers : b.name = c.name
  PROVE  Deployed'
<1>1. /\ Here' = Here /\ SurgeName' = SurgeName /\ TargetName' = TargetName
      /\ DeploymentsOf(cur)' = DeploymentsOf(cur)
  BY SameNames DEF TargetName
<1>2. \A d, r : HasReplica(d, r) => HasReplica(d, r)'
  BY KeepReplica
<1>3. \A d : HasNoExtra(d) => HasNoExtra(d)'
  BY KeepNoExtra
<1>4. \A d : HasAll(d) => HasAll(d)'
  BY <1>2 DEF HasAll
<1>5. PICK t, h, n, s : t = DeploymentsOf(cur) /\ h = Here /\ n = TargetName /\ s = SurgeName
  OBVIOUS
<1>6. EarlierDone'
  <2>1. pc \in AtDeployment => \A i \in 1..(at.d - 1) : HasAll(t[i]) /\ HasNoExtra(t[i])
    BY <1>5 DEF Deployed, EarlierDone
  <2>2. pc \in AtDeployment => \A i \in 1..(at.d - 1) : HasAll(t[i])' /\ HasNoExtra(t[i])'
    BY <1>3, <1>4, <2>1
  <2> QED BY <1>1, <1>5, <2>2 DEF EarlierDone
<1>7. SiblingsDone'
  <2>1. pc \in AtDeployment => \A r \in 1..h.replicas : r < at.r => HasReplica(h, r)
    BY <1>5 DEF Deployed, SiblingsDone
  <2>2. pc \in AtDeployment => \A r \in 1..h.replicas : r < at.r => HasReplica(h, r)'
    BY <1>2, <2>1
  <2> QED BY <1>1, <1>5, <2>2 DEF SiblingsDone
<1>8. ReplicaDone'
  <2>1. pc = "extra" => HasAll(h)'
    BY <1>4, <1>5 DEF Deployed, ReplicaDone
  <2>2. PICK r : r = at.r
    OBVIOUS
  <2>3. pc = "state" => HasReplica(h, r)'
    BY <1>2, <1>5, <2>2 DEF Deployed, ReplicaDone
  <2>4. pc = "wait" => \E b \in containers' : b.name = n /\ b.hash = h.hash
    BY <1>5 DEF Deployed, ReplicaDone, Named
  <2>5. pc \in {"surgeRemove", "surgeRename"} => \E b \in containers' : b.name = s /\ b.hash = h.hash
    BY <1>5 DEF Deployed, ReplicaDone, Named
  <2> QED BY <1>1, <1>5, <2>1, <2>2, <2>3, <2>4, <2>5 DEF ReplicaDone, Named
<1>9. AllDone'
  <2>1. pc \in AtEnd => \A i \in 1..Len(t) : HasAll(t[i]) /\ HasNoExtra(t[i])
    BY <1>5 DEF Deployed, AllDone
  <2>2. pc \in AtEnd => \A i \in 1..Len(t) : HasAll(t[i])' /\ HasNoExtra(t[i])'
    BY <1>3, <1>4, <2>1
  <2> QED BY <1>1, <1>5, <2>2 DEF AllDone
<1> QED BY <1>6, <1>7, <1>8, <1>9 DEF Deployed

\* The end of Apply and of Resync leaves the containers alone.
LEMMA EndDeployed ==
  ASSUME Inv, Deployed, RefreshEndpoints \/ StartPorts \/ SaveRuntime \/ SaveStatus
  PROVE  Deployed'
<1>1. pc \in AtEnd /\ containers' = containers
  BY DEF RefreshEndpoints, StartPorts, SaveRuntime, SaveStatus, AtEnd
<1>2. CASE pc' \notin AtEnd
  <2>1. pc' \in {"fail", "idle"}
    BY <1>2 DEF RefreshEndpoints, StartPorts, SaveRuntime, SaveStatus, Return, Goto, AtEnd
  <2> QED BY <2>1, ElsewhereDeployed DEF AtDeployment, AtReplica, AtEnd
<1>3. CASE pc' \in AtEnd
  <2>1. cur' = cur
    BY <1>3 DEF RefreshEndpoints, StartPorts, SaveRuntime, SaveStatus, Return, frame, AtEnd
  <2>2. DeploymentsOf(cur)' = DeploymentsOf(cur)
    BY <2>1 DEF DeploymentsOf
  <2>3. AllDone'
    BY <1>1, <2>2 DEF Deployed, AllDone, HasAll, HasNoExtra, HasReplica, Named, IsExtra
  <2> QED BY <1>3, <2>3 DEF Deployed, EarlierDone, SiblingsDone, ReplicaDone, AtDeployment, AtReplica, AtEnd
<1> QED BY <1>2, <1>3

\* Every step keeps what is deployed.
LEMMA NextDeployed ==
  ASSUME Inv, CanonicalFirst, Deployed, [Next]_vars, "hash" \notin Faults
  PROVE  Deployed'
<1>1. CASE EnsureNetwork
  <2>1. pc' \in {"inspect", "fail"} /\ at' = Start
    BY <1>1 DEF EnsureNetwork, Goto, Inv, Placed
  <2> QED BY <2>1, StartDeployed, ElsewhereDeployed DEF AtDeployment, AtReplica, AtEnd
<1>2. CASE \/ InspectReplica \/ CheckState \/ ReplaceContainer \/ PullImage \/ RunContainer
           \/ WaitReady \/ SurgeRemove \/ SurgeRename \/ ReplicasDone
  <2>1. pc' \in AtDeployment \cup {"abort"}
    BY <1>2, ReplicaSteps
  <2>2. CASE pc' = "abort"
    BY <2>2, ElsewhereDeployed DEF AtDeployment, AtReplica, AtEnd
  <2>3. CASE pc' \in AtDeployment
    <3>1. SiblingsDone'
      BY <1>2, <2>3, SiblingsStep DEF Deployed
    <3>2. EarlierDone'
      BY <1>2, EarlierStep DEF Deployed
    <3>3. ReplicaDone'
      BY <1>2, ReplicaDoneStep DEF Deployed
    <3>4. AllDone'
      BY <2>3 DEF AllDone, AtDeployment, AtReplica, AtEnd
    <3> QED BY <3>1, <3>2, <3>3, <3>4 DEF Deployed
  <2> QED BY <2>1, <2>2, <2>3
<1>3. CASE RemoveExtraReplicas
  BY <1>3, ExtraStep DEF Deployed
<1>4. CASE \/ HandleAbort \/ HandleFailure \/ Rollback \/ Restore
           \/ RemoveOwnedContainers \/ DeleteRuntime
  <2>1. pc' \in {"cleanup", "restore", "restoreUnclean", "idle", "removeOwned", "delete"}
    BY <1>4 DEF HandleAbort, HandleFailure, Rollback, Restore, RemoveOwnedContainers, DeleteRuntime,
                Return, Goto
  <2> QED BY <2>1, ElsewhereDeployed DEF AtDeployment, AtReplica, AtEnd
<1>5. CASE RefreshEndpoints \/ StartPorts \/ SaveRuntime \/ SaveStatus
  BY <1>5, EndDeployed
<1>6. CASE \/ \E v \in Versions, g \in ExplicitGens \cup {0} : Apply(v, g)
           \/ Remove \/ Exit \/ Crash \/ (Restart /\ savedSpec # NoRuntime)
  <2>1. pc' \in {"network", "removeOwned", "delete", "idle"}
    BY <1>6 DEF Apply, Restart, BeginApply, Begin, Remove, Exit, Crash, Gone
  <2> QED BY <2>1, ElsewhereDeployed DEF AtDeployment, AtReplica, AtEnd
<1>7. CASE Resync
  <2>1. pc' = "inspect" /\ at' = Start
    BY <1>7 DEF Resync, Begin
  <2> QED BY <2>1, StartDeployed
<1>8. CASE Cancel \/ Terminate \/ (Restart /\ savedSpec = NoRuntime) \/ UNCHANGED vars
  <2>1. UNCHANGED <<containers, cur, pc, at, target>>
    BY <1>8 DEF Cancel, Terminate, Restart, vars, frame, place
  <2> QED BY <2>1, SameDeployed
<1>9. CASE DockerStep
  <2>1. UNCHANGED <<cur, pc, at, target>>
    BY <1>9, DockerFacts DEF frame, place
  <2>2. \E c \in containers, b \in Container :
          containers' = (containers \ {c}) \cup {b} /\ b.name = c.name /\ b.hash = c.hash
    BY <1>9, DockerFacts
  <2>3. /\ \A c \in containers : \E b \in containers' : b.name = c.name /\ b.hash = c.hash
        /\ \A b \in containers' : \E c \in containers : b.name = c.name
    BY <2>2
  <2> QED BY <2>1, <2>3, SameDeployed
<1> QED BY <1>1, <1>2, <1>3, <1>4, <1>5, <1>6, <1>7, <1>8, <1>9 DEF Next, Step, DockerStep

\* reconcileDeployments leaves behind it only deployments that are as the document
\* says: the invariant of its two loops.
THEOREM DeployedAlways ==
  ASSUME "hash" \notin Faults
  PROVE  Spec => []Deployed
<1>1. Init => Deployed
  BY DEF Init, Deployed, EarlierDone, SiblingsDone, ReplicaDone, AllDone, AtDeployment, AtReplica, AtEnd
<1>2. Inv /\ (CanonicalFirst /\ SurgePair) /\ Deployed /\ [Next]_vars => Deployed'
  BY NextDeployed
<1> QED BY <1>1, <1>2, InvAlways, PairAlways, PTL DEF Spec

\* When Apply reports Applied every replica of the document runs from the
\* document's own spec, and none is left of another revision or number, as long
\* as the hash label of a container can be read (AppliedMeansDeployed).
THEOREM AppliedIsDeployed ==
  ASSUME "hash" \notin Faults
  PROVE  Spec => AppliedMeansDeployed
<1>1. Inv /\ Deployed /\ [Next]_vars =>
        [Writes("Applied") =>
           \A i \in 1..Len(DeploymentsOf(cur)) :
             LET d == DeploymentsOf(cur)[i]
             IN /\ \A r \in 1..d.replicas :
                     \E c \in Named(ContainerName(d, r)) : c.hash = d.hash
                /\ \A c \in containers : c.name.deployment = d.name =>
                     c.name.revision = d.revision /\ c.name.replica <= d.replicas]_vars
  <2> SUFFICES ASSUME Inv, Deployed, Next, Writes("Applied"),
                      NEW i \in 1..Len(DeploymentsOf(cur)), NEW d, d = DeploymentsOf(cur)[i]
               PROVE  /\ \A r \in 1..d.replicas :
                           \E c \in Named(ContainerName(d, r)) : c.hash = d.hash
                      /\ \A c \in containers : c.name.deployment = d.name =>
                           c.name.revision = d.revision /\ c.name.replica <= d.replicas
    OBVIOUS
  <2>1. pc = "saveStatus" /\ op = "apply"
    BY WhoWrites DEF SaveStatus
  <2>2. HasAll(d) /\ HasNoExtra(d)
    BY <2>1 DEF Deployed, AllDone, AtEnd
  <2>3. d.replicas \in Nat
    <3>1. cur \in Document
      BY <2>1 DEF Inv, Control
    <3> QED BY <3>1, TemplateFacts, SpecFacts
  <2>4. \A c \in containers : c.name.replica \in Nat
    BY DEF Inv, TypeOK, Container, Name
  <2>5. \A c \in containers : c.name.deployment = d.name =>
          c.name.revision = d.revision /\ c.name.replica <= d.replicas
    BY <2>2, <2>3, <2>4 DEF HasNoExtra, IsExtra
  <2> QED BY <2>2, <2>5 DEF HasAll, HasReplica
<1> QED BY <1>1, InvAlways, DeployedAlways, PTL DEF Spec, AppliedMeansDeployed

-----------------------------------------------------------------------------
(* Names *)

\* Every step keeps the names unique.
LEMMA NextUnique ==
  ASSUME Inv, UniqueNames, [Next]_vars
  PROVE  UniqueNames'
<1>1. CASE RunContainer
  <2>1. /\ pc' \in {"wait", "abort"}
        /\ \/ containers' = containers
           \/ /\ Named(TargetName) = {}
              /\ \E b \in Container : b.name = TargetName /\ containers' = containers \cup {b}
    BY <1>1, RunFacts
  <2> QED BY <2>1 DEF UniqueNames, Named
<1>2. CASE SurgeRename
  <2>1. /\ pc = "surgeRename" /\ pc' \in {"inspect", "abort"}
        /\ containers' = containers \/ containers' = {Renamed(c) : c \in containers}
    BY <1>2 DEF SurgeRename, NextReplica, Goto, Abort
  <2>2. \A c \in containers : Renamed(c).name = IF c.name = SurgeName THEN CanonicalName ELSE c.name
    BY <1>2, RenameFacts
  <2>3. \A c \in containers : c.name # CanonicalName
    BY <2>1 DEF UniqueNames, Named
  <2>4. \A c, d \in containers : Renamed(c).name = Renamed(d).name => c = d
    BY <2>2, <2>3 DEF UniqueNames
  <2> QED BY <2>1, <2>4 DEF UniqueNames
<1>3. CASE Step /\ ~RunContainer /\ ~SurgeRename
  <2>1. containers' \subseteq containers
    BY <1>3, StepContainers
  <2>2. pc' = "surgeRename" => SurgeRemove
    BY <1>3
       DEF Step, EnsureNetwork, InspectReplica, CheckState, ReplaceContainer, PullImage, WaitReady,
           AfterReady, ReplicasDone, RemoveExtraReplicas, HandleAbort, HandleFailure, Rollback, Restore,
           RefreshEndpoints, StartPorts, SaveRuntime, SaveStatus, Return, RemoveOwnedContainers,
           DeleteRuntime, Goto, Abort, NextReplica
  <2>3. CASE pc' = "surgeRename"
    <3>1. containers' = containers \ Named(CanonicalName) /\ at' = at /\ cur' = cur
      BY <2>2, <2>3 DEF SurgeRemove, Goto, Abort, frame
    <3>2. CanonicalName' = CanonicalName
      BY <3>1, SameNames
    <3> QED BY <2>1, <3>1, <3>2 DEF UniqueNames, Named
  <2>4. CASE pc' # "surgeRename"
    BY <2>1, <2>4 DEF UniqueNames
  <2> QED BY <2>3, <2>4
<1>4. CASE DockerStep
  <2>1. UNCHANGED <<cur, pc, at>>
    BY <1>4, DockerFacts DEF frame, place
  <2>2. CanonicalName' = CanonicalName
    BY <2>1, SameNames
  <2>3. \E c \in containers, b \in Container :
          containers' = (containers \ {c}) \cup {b} /\ b.name = c.name
    BY <1>4, DockerFacts
  <2> QED BY <2>1, <2>2, <2>3 DEF UniqueNames, Named
<1>5. CASE \/ \E v \in Versions, g \in ExplicitGens \cup {0} : Apply(v, g)
           \/ Resync \/ Remove \/ Exit \/ Crash \/ (Restart /\ savedSpec # NoRuntime)
  <2>1. pc' \in {"network", "inspect", "removeOwned", "delete", "idle"} /\ containers' = containers
    BY <1>5 DEF Apply, Restart, BeginApply, Begin, Resync, Remove, Exit, Crash, Gone
  <2> QED BY <2>1 DEF UniqueNames
<1>6. CASE Cancel \/ Terminate \/ (Restart /\ savedSpec = NoRuntime) \/ UNCHANGED vars
  <2>1. UNCHANGED <<containers, cur, pc, at>>
    BY <1>6 DEF Cancel, Terminate, Restart, vars, frame, place
  <2>2. CanonicalName' = CanonicalName
    BY <2>1, SameNames
  <2> QED BY <2>1, <2>2 DEF UniqueNames, Named
<1> QED BY <1>1, <1>2, <1>3, <1>4, <1>5, <1>6 DEF Next, DockerStep

\* No two containers ever have one name: docker run takes a free name only, and
\* the name a rename gives is free, because replaceContainerWithSurge has removed
\* the container that had it.
THEOREM NamesUnique == Spec => []UniqueNames
<1>1. Init => UniqueNames
  BY DEF Init, UniqueNames
<1> QED BY <1>1, InvAlways, NextUnique, PTL DEF Spec

=============================================================================
