-------------------------- MODULE ListenersProofs --------------------------
(***************************************************************************)
(* Proofs about Listeners, for every set of keys, documents and ports and  *)
(* any number of failures and crashes.                                     *)
(***************************************************************************)
EXTENDS Listeners, FiniteSetTheorems, TLAPS

-----------------------------------------------------------------------------
(* Facts about the operators *)

\* Conflicts are mutual: whoever is admitted second sees the same conflict.
LEMMA CompatibleSymmetric ==
  ASSUME NEW d, NEW e, Compatible(d, e)
  PROVE  Compatible(e, d)
BY DEF Compatible, Conflict, IngressRouteConflicts, HostsOverlap

\* A document that claims nothing is compatible with every other.
LEMMA NoDocCompatible ==
  ASSUME NEW d
  PROVE  Compatible(d, NoDoc) /\ Compatible(NoDoc, d)
BY DEF Compatible, ClaimsOf

\* The key an idle caller holds is a key.
LEMMA AnyKeyType == AnyKey \in Keys
BY ConstantsAssumption DEF AnyKey

\* An idle caller has no request, no key and no document.
LEMMA IdleFields ==
  Idle.kind = "none" /\ Idle.pc = "idle" /\ Idle.key = AnyKey /\ Idle.doc = NoDoc
BY DEF Idle

\* What syncLocked routes for a document is a set of routes, on ports.
LEMMA RoutesOfType ==
  ASSUME NEW k \in Keys, NEW d \in MaybeDoc
  PROVE  RoutesOf(k, d) \subseteq Route /\ RoutedPorts(RoutesOf(k, d)) \subseteq Ports
<1>1. ClaimsOf(d) \subseteq Claim
  BY ConstantsAssumption DEF ClaimsOf, MaybeDoc
<1>2. RoutesOf(k, d) \subseteq Route
  BY <1>1 DEF RoutesOf, Route
<1>3. \A r \in Route : r.claim.port \in Ports
  BY DEF Route, Claim
<1> QED BY <1>2, <1>3 DEF RoutedPorts

-----------------------------------------------------------------------------
(* Type correctness *)

\* Every reachable state of the scheduler, route table and state files is well
\* formed, whichever operation fails and wherever the agent crashes.
THEOREM TypeCorrect == Spec => []TypeOK
<1>1. Init => TypeOK
  <2> SUFFICES ASSUME Init PROVE TypeOK
    OBVIOUS
  <2>1. Idle \in [kind : Kinds, pc : Labels, key : Keys, doc : MaybeDoc, prev : Previous]
    BY AnyKeyType DEF Idle, MaybeDoc, Previous, NoPrevious, Phases, Kinds, Labels
  <2>2. /\ specs \in [Keys -> MaybeDoc] /\ phase \in [Keys -> Phases]
        /\ saved \in [Keys -> MaybeDoc]
    BY DEF Init, MaybeDoc, Phases
  <2> QED BY <2>1, <2>2 DEF Init, TypeOK
<1>2. TypeOK /\ [Next]_vars => TypeOK'
  <2> SUFFICES ASSUME TypeOK, [Next]_vars PROVE TypeOK'
    OBVIOUS
  <2> USE DEF TypeOK, failures
  <2> DEFINE OpType == [kind : Kinds, pc : Labels, key : Keys, doc : MaybeDoc,
                        prev : Previous]
  <2>idle. Idle \in OpType
    BY AnyKeyType DEF Idle, MaybeDoc, Previous, NoPrevious, Phases, Kinds, Labels
  <2>goto. ASSUME NEW l \in Labels, Goto(l) PROVE op' \in OpType
    BY <2>goto DEF Goto
  <2>labels. {"install", "start", "stop", "save"} \subseteq Labels
    BY DEF Labels
  <2>prev. \A k \in Keys : PreviousOf(k) \in Previous
    BY DEF PreviousOf, Previous, Phases
  <2>done. ASSUME NEW ok \in BOOLEAN, Done(ok)
           PROVE  /\ op' \in OpType /\ starts' \subseteq Ports /\ stops' \subseteq Ports
                  /\ agent' \in {"down", "loading", "serving", "exiting"}
                  /\ queue' \subseteq Keys
    BY <2>done, <2>idle DEF Done
  <2>begin. ASSUME NEW k \in Keys, NEW d \in MaybeDoc, BeginApply(k, d)
            PROVE  /\ op' \in OpType
                   /\ specs' \in [Keys -> MaybeDoc] /\ phase' \in [Keys -> Phases]
                   /\ saved' \in [Keys -> MaybeDoc]
                   /\ routes' \subseteq Route /\ servers' \subseteq Ports
                   /\ agent' \in {"down", "loading", "serving", "exiting"}
                   /\ starts' \subseteq Ports /\ stops' \subseteq Ports
                   /\ failed' \subseteq FaultKinds /\ faults' \in Nat /\ crashes' \in Nat
    BY <2>begin, <2>prev DEF BeginApply, Kinds, Labels, Phases, table, FaultKinds
  <2>failed. RecordFailed => /\ specs' \in [Keys -> MaybeDoc]
                             /\ phase' \in [Keys -> Phases]
                             /\ saved' \in [Keys -> MaybeDoc]
    BY DEF RecordFailed, Phases
  <2>restored. RestorePrevious => /\ specs' \in [Keys -> MaybeDoc]
                                  /\ phase' \in [Keys -> Phases]
                                  /\ saved' \in [Keys -> MaybeDoc]
    BY DEF RestorePrevious, Previous
  <2>fault. \A f : Happens(f) => failed' \subseteq FaultKinds /\ faults' \in Nat
    BY ConstantsAssumption DEF Happens
  <2>exit. Exit => /\ specs' \in [Keys -> MaybeDoc] /\ phase' \in [Keys -> Phases]
                   /\ saved' \in [Keys -> MaybeDoc]
                   /\ routes' \subseteq Route /\ servers' \subseteq Ports
                   /\ agent' \in {"down", "loading", "serving", "exiting"}
                   /\ op' \in OpType /\ queue' \subseteq Keys
                   /\ starts' \subseteq Ports /\ stops' \subseteq Ports
                   /\ failed' \subseteq FaultKinds /\ faults' \in Nat
    BY <2>idle DEF Exit, MaybeDoc, Phases
  <2>1. ASSUME NEW k \in Keys, NEW d \in Docs, Apply(k, d) PROVE TypeOK'
    BY <2>1, <2>begin DEF Apply, MaybeDoc
  <2>2. ASSUME NEW k \in Keys, Remove(k) PROVE TypeOK'
    BY <2>2, <2>idle DEF Remove, MaybeDoc, Phases, OthersRoutes, Kinds, Labels
  <2>3. CASE Provision
    <3>1. /\ specs' \in [Keys -> MaybeDoc] /\ phase' \in [Keys -> Phases]
          /\ saved' \in [Keys -> MaybeDoc]
      BY <2>3, <2>failed, <2>restored DEF Provision
    <3>2. /\ op' \in OpType /\ starts' \subseteq Ports /\ stops' \subseteq Ports
          /\ agent' \in {"down", "loading", "serving", "exiting"}
          /\ queue' \subseteq Keys
      <4>1. CASE Goto("install") /\ UNCHANGED <<agent, starts, stops, queue>>
        BY <4>1, <2>goto, <2>labels
      <4>2. CASE Done(FALSE)
        BY <4>2, <2>done
      <4> QED BY <2>3, <4>1, <4>2 DEF Provision
    <3>3. failed' \subseteq FaultKinds /\ faults' \in Nat
      BY <2>3, <2>fault DEF Provision
    <3> QED BY <2>3, <3>1, <3>2, <3>3 DEF Provision, table
  <2>4. CASE InstallRoutes
    <3>1. RoutesOf(op.key, op.doc) \subseteq Route
          /\ RoutedPorts(RoutesOf(op.key, op.doc)) \subseteq Ports
      BY RoutesOfType
    <3>2. op' \in OpType
      BY <2>4, <2>goto, <2>labels DEF InstallRoutes
    <3> QED BY <2>4, <3>1, <3>2 DEF InstallRoutes, OthersRoutes, Orphaned
  <2>5. CASE StartPort
    <3>1. CASE starts = {} /\ Goto("stop") /\ UNCHANGED <<specs, phase, saved, servers, agent, starts, stops, queue, failures>>
      BY <3>1, <2>5, <2>goto, <2>labels DEF StartPort
    <3>2. CASE \E p \in Ports :
                 /\ First(starts, p)
                 /\ servers' = servers \cup {p} /\ starts' = starts \ {p}
                 /\ UNCHANGED <<specs, phase, saved, agent, op, stops, queue, failures>>
      BY <3>2, <2>5 DEF StartPort
    <3>3. CASE starts # {} /\ Happens("listen") /\ RecordFailed /\ Done(FALSE) /\ UNCHANGED servers
      BY <3>3, <2>5, <2>failed, <2>done, <2>fault DEF StartPort
    <3> QED BY <2>5, <3>1, <3>2, <3>3 DEF StartPort
  <2>6. CASE StopPorts
    <3>1. op' \in OpType
      BY <2>6, <2>goto, <2>labels DEF StopPorts
    <3>2. phase' \in [Keys -> Phases]
      BY <2>6 DEF StopPorts, Phases
    <3> QED BY <2>6, <3>1, <3>2 DEF StopPorts
  <2>7. CASE SaveRuntime
    <3>1. op' \in OpType /\ starts' \subseteq Ports /\ stops' \subseteq Ports
          /\ agent' \in {"down", "loading", "serving", "exiting"}
          /\ queue' \subseteq Keys
      BY <2>7, <2>done DEF SaveRuntime
    <3> QED BY <2>7, <3>1, <2>fault DEF SaveRuntime, table
  <2>8. CASE FinishRemove
    <3>1. op' \in OpType /\ starts' \subseteq Ports /\ stops' \subseteq Ports
          /\ agent' \in {"down", "loading", "serving", "exiting"}
          /\ queue' \subseteq Keys
      BY <2>8, <2>done DEF FinishRemove
    <3> QED BY <2>8, <3>1, <2>fault DEF FinishRemove, table, MaybeDoc
  <2>9. CASE Resync
    BY <2>9 DEF Resync, table, Kinds, Labels
  <2>10. CASE ResyncRuntime
    <3>1. op' \in OpType /\ starts' \subseteq Ports /\ stops' \subseteq Ports
          /\ agent' \in {"down", "loading", "serving", "exiting"}
          /\ queue' \subseteq Keys
      BY <2>10, <2>done DEF ResyncRuntime
    <3>2. /\ phase' \in [Keys -> Phases] /\ saved' \in [Keys -> MaybeDoc]
          /\ failed' \subseteq FaultKinds /\ faults' \in Nat
      BY <2>10, <2>fault DEF ResyncRuntime, Phases
    <3> QED BY <2>10, <3>1, <3>2 DEF ResyncRuntime, table
  <2>11. CASE LoadNext
    <3>1. PICK k \in Keys : BeginApply(k, saved[k]) /\ queue' = queue \ {k}
      BY <2>11 DEF LoadNext
    <3> QED BY <3>1, <2>begin
  <2>12. CASE LoadFailed
    BY <2>12, <2>exit DEF LoadFailed
  <2>13. CASE LoadRejected
    BY <2>13, <2>exit DEF LoadRejected
  <2>14. CASE Crash
    BY <2>14, <2>exit DEF Crash
  <2>15. CASE Restart
    BY <2>15 DEF Restart, table
  <2>16. CASE UNCHANGED vars
    BY <2>16 DEF vars, table
  <2> QED BY <2>1, <2>2, <2>3, <2>4, <2>5, <2>6, <2>7, <2>8, <2>9, <2>10,
             <2>11, <2>12, <2>13, <2>14, <2>15, <2>16 DEF Next
<1> QED BY <1>1, <1>2, PTL DEF Spec

-----------------------------------------------------------------------------
(* Control: what every operation can rely on *)

\* The document an Apply works on is the one in memory and stays compatible
\* with the others until Apply returns, in every interleaving with crashes.
THEOREM ControlInvariant == Spec => []Control
<1>1. Init => Control
  BY IdleFields DEF Init, Control
<1>2. TypeOK /\ Control /\ [Next]_vars => Control'
  <2> SUFFICES ASSUME TypeOK, Control, [Next]_vars PROVE Control'
    OBVIOUS
  <2> USE DEF Control
  <2>type. /\ op.key \in Keys /\ specs \in [Keys -> MaybeDoc]
           /\ saved \in [Keys -> MaybeDoc] /\ queue \subseteq Keys
    BY DEF TypeOK
  <2>begin. ASSUME NEW k \in Keys, NEW d, d # NoDoc, BeginApply(k, d),
                   agent \in {"serving", "loading"},
                   queue' = queue \/ queue' = queue \ {k},
                   agent = "loading" => queue' = queue \ {k}
            PROVE  Control'
    <3>1. op'.key = k /\ op'.doc = d /\ op'.kind = "apply" /\ op'.pc = "provision"
      BY <2>begin DEF BeginApply
    <3>2. specs'[k] = d /\ \A j \in Keys \ {k} : specs'[j] = specs[j]
      BY <2>begin, <2>type DEF BeginApply
    <3>3. \A j \in Keys \ {k} : Compatible(d, specs'[j])
      BY <2>begin, <3>2 DEF BeginApply, Admissible
    <3>4. agent' = agent /\ saved' = saved
      BY <2>begin DEF BeginApply
    <3> QED BY <2>begin, <2>type, <3>1, <3>2, <3>3, <3>4
  <2>exit. Exit => Control'
    BY IdleFields DEF Exit
  <2>done. ASSUME NEW ok, Done(ok), op.kind # "none",
                  \A k \in Keys : k # op.key => specs'[k] = specs[k],
                  \A k \in Keys : saved[k] # NoDoc => saved'[k] # NoDoc \/ k = op.key
           PROVE  Control'
    <3>1. op'.kind = "none" /\ op'.pc = "idle" /\ agent' # "down"
      BY <2>done, <2>type DEF Done, Idle, TypeOK
    <3>2. agent' = "loading" => agent = "loading" /\ queue' = queue
      BY <2>done DEF Done, TypeOK
    <3>3. agent = "loading" => op.kind = "apply" /\ op.key \notin queue
      BY <2>done DEF TypeOK, Kinds
    <3> QED BY <3>1, <3>2, <3>3, <2>done, <2>type
  <2>1. ASSUME NEW k \in Keys, NEW d \in Docs, Apply(k, d) PROVE Control'
    BY <2>1, <2>begin, ConstantsAssumption DEF Apply
  <2>2. ASSUME NEW k \in Keys, Remove(k) PROVE Control'
    <3>1. op'.kind = "remove" /\ op'.pc = "removeOwned" /\ op'.key = k
          /\ agent' = "serving"
      BY <2>2 DEF Remove, Idle
    <3>2. specs'[k] = NoDoc
      BY <2>2, <2>type DEF Remove
    <3> QED BY <3>1, <3>2
  <2>3. CASE Provision
    <3>1. CASE Goto("install") /\ UNCHANGED <<specs, saved, agent, queue>>
      BY <2>3, <3>1, <2>type DEF Provision, Goto, TypeOK
    <3>2. CASE RecordFailed /\ Done(FALSE)
      BY <2>3, <3>2, <2>done, <2>type DEF Provision, RecordFailed
    <3>3. CASE RestorePrevious /\ Done(FALSE)
      <4>1. op'.kind = "none" /\ op'.pc = "idle" /\ agent' \in {"serving", "exiting"}
        BY <2>3, <3>3, IdleFields DEF Provision, Done
      <4> QED BY <4>1
    <3> QED BY <2>3, <3>1, <3>2, <3>3 DEF Provision
  <2>4. CASE InstallRoutes
    BY <2>4, <2>type DEF InstallRoutes, Goto, TypeOK
  <2>5. CASE StartPort
    <3>1. op.pc = "start"
      BY <2>5 DEF StartPort
    <3>2. CASE Goto("stop") /\ UNCHANGED <<specs, saved, agent, queue>>
      BY <3>1, <3>2, <2>5, <2>type DEF StartPort, Goto, TypeOK
    <3>3. CASE UNCHANGED <<specs, saved, agent, op, queue>>
      BY <3>1, <3>3, <2>5 DEF StartPort
    <3>4. CASE RecordFailed /\ Done(FALSE)
      BY <3>1, <3>4, <2>done, <2>type DEF RecordFailed
    <3> QED BY <2>5, <3>2, <3>3, <3>4 DEF StartPort
  <2>6. CASE StopPorts
    BY <2>6, <2>type DEF StopPorts, Goto, TypeOK
  <2>7. CASE SaveRuntime
    BY <2>7, <2>done, <2>type DEF SaveRuntime
  <2>8. CASE FinishRemove
    BY <2>8, <2>done, <2>type DEF FinishRemove
  <2>9. CASE Resync
    BY <2>9, <2>type DEF Resync, table, TypeOK
  <2>10. CASE ResyncRuntime
    <3>1. op.kind = "resync" /\ op.pc = "resync" /\ agent = "serving"
      BY <2>10 DEF ResyncRuntime, TypeOK, Kinds
    <3>2. CASE UNCHANGED <<specs, op, agent>>
      BY <3>1, <3>2
    <3>3. CASE \E ok \in BOOLEAN : Done(ok)
      BY <3>1, <3>3, IdleFields DEF Done
    <3> QED BY <2>10, <3>2, <3>3 DEF ResyncRuntime
  <2>11. CASE LoadNext
    BY <2>11, <2>begin DEF LoadNext, First
  <2>12. CASE LoadFailed
    BY <2>12, <2>exit DEF LoadFailed
  <2>13. CASE LoadRejected
    BY <2>13, <2>exit DEF LoadRejected
  <2>14. CASE Crash
    BY <2>14, <2>exit DEF Crash
  <2>15. CASE Restart
    BY <2>15 DEF Restart, table
  <2>16. CASE UNCHANGED vars
    BY <2>16 DEF vars, table
  <2> QED BY <2>1, <2>2, <2>3, <2>4, <2>5, <2>6, <2>7, <2>8, <2>9, <2>10,
             <2>11, <2>12, <2>13, <2>14, <2>15, <2>16 DEF Next
<1> QED BY <1>1, <1>2, TypeCorrect, PTL DEF Spec

-----------------------------------------------------------------------------
(* Failures are not forgotten *)

\* Every step keeps the record of the failures before it.
LEMMA FailuresStay ==
  ASSUME [Next]_vars
  PROVE  failed \subseteq failed'
<1> USE DEF failures
<1>fault. \A f : Happens(f) => failed \subseteq failed'
  BY DEF Happens
<1>begin. \A k, d : BeginApply(k, d) => failed \subseteq failed'
  BY DEF BeginApply
<1>1. ASSUME NEW k \in Keys, NEW d \in Docs, Apply(k, d) PROVE failed \subseteq failed'
  BY <1>1, <1>begin DEF Apply
<1>2. ASSUME NEW k \in Keys, Remove(k) PROVE failed' = failed
  BY <1>2 DEF Remove
<1>3. Provision => failed \subseteq failed'
  BY <1>fault DEF Provision
<1>4. InstallRoutes \/ StopPorts \/ Resync \/ Restart => failed' = failed
  BY DEF InstallRoutes, StopPorts, Resync, Restart
<1>5. StartPort \/ SaveRuntime \/ FinishRemove => failed \subseteq failed'
  BY <1>fault DEF StartPort, SaveRuntime, FinishRemove
<1>6. ResyncRuntime => failed \subseteq failed'
  BY <1>fault DEF ResyncRuntime
<1>7. LoadNext => failed \subseteq failed'
  BY <1>begin DEF LoadNext
<1>8. LoadFailed \/ LoadRejected \/ Crash => failed' = failed
  BY DEF LoadFailed, LoadRejected, Crash, Exit
<1>9. UNCHANGED vars => failed' = failed
  BY DEF vars
<1> QED BY <1>1, <1>2, <1>3, <1>4, <1>5, <1>6, <1>7, <1>8, <1>9 DEF Next

-----------------------------------------------------------------------------
(* Routes *)

\* Two Runtimes never have conflicting routes installed, whatever rollbacks,
\* refused ports, failed writes, failed removals and crashes happen, until an
\* Apply has failed between admission and reconcileDeployments or in the
\* endpoint refresh: admission is checked against m.specs, and this is why
\* that is enough for m.routes.
THEOREM RoutesIsolated == Spec => []RouteIsolation
<1> DEFINE Inv == RoutesDisjoint /\ RoutesAreClaimed
<1> DEFINE Clean == "provider" \notin failed
<1>1. Init => Inv
  BY DEF Init, RoutesDisjoint, RoutesAreClaimed
<1>2. TypeOK /\ Control /\ (Clean => Inv) /\ [Next]_vars => (Clean => Inv)'
  <2> SUFFICES ASSUME TypeOK, Control, Clean => Inv, [Next]_vars, Clean' PROVE Inv'
    OBVIOUS
  <2>clean. Clean /\ Inv
    BY FailuresStay
  <2> USE <2>clean
  <2>type. /\ op.key \in Keys /\ specs \in [Keys -> MaybeDoc]
           /\ routes \subseteq Route /\ \A r \in routes : r.key \in Keys
    BY DEF TypeOK, Route
  \* Routes that stay, under documents that stay, stay claimed.
  <2>keep. ASSUME routes' \subseteq routes,
                  \A r \in routes' : RoutedDoc(r.key)' = RoutedDoc(r.key)
           PROVE  Inv'
    BY <2>keep DEF RoutesDisjoint, RoutesAreClaimed
  <2>noclaim. ClaimsOf(NoDoc) = {}
    BY DEF ClaimsOf
  <2>begin. ASSUME NEW k \in Keys, NEW d, BeginApply(k, d), op.kind = "none"
            PROVE  Inv'
    <3>1. op.pc = "idle"
      BY <2>begin DEF Control
    <3>2. \A r \in routes : r.claim \in ClaimsOf(specs[r.key])
      BY <3>1 DEF RoutesAreClaimed, RoutedDoc
    <3>3. op'.key = k /\ op'.pc = "provision" /\ op'.prev = PreviousOf(k)
          /\ routes' = routes
      BY <2>begin DEF BeginApply, table
    <3>4. specs[k] # NoDoc => PreviousOf(k).doc = specs[k]
      BY DEF PreviousOf
    <3>5. \A j \in Keys : j # k => specs'[j] = specs[j]
      BY <2>begin, <2>type DEF BeginApply
    <3>6. ASSUME NEW r \in routes' PROVE r.claim \in ClaimsOf(RoutedDoc(r.key)')
      <4>1. r.claim \in ClaimsOf(specs[r.key]) /\ r.key \in Keys
        BY <3>2, <3>3, <3>6, <2>type
      <4>2. specs[r.key] # NoDoc
        BY <4>1, <2>noclaim
      <4> QED BY <4>1, <4>2, <3>3, <3>4, <3>5 DEF RoutedDoc
    <3> QED BY <3>3, <3>6 DEF RoutesDisjoint, RoutesAreClaimed
  <2>exit. Exit => Inv'
    BY DEF Exit, RoutesDisjoint, RoutesAreClaimed
  \* An operation that returns and leaves the routes alone.
  <2>done. ASSUME NEW ok, Done(ok), routes' = routes,
                  \A k \in Keys : ClaimsOf(RoutedDoc(k)) \subseteq ClaimsOf(specs'[k])
           PROVE  Inv'
    <3>1. op'.pc = "idle"
      BY <2>done, IdleFields DEF Done
    <3>2. \A k \in Keys : RoutedDoc(k)' = specs'[k]
      BY <3>1 DEF RoutedDoc
    <3> QED BY <2>done, <2>type, <3>2 DEF RoutesDisjoint, RoutesAreClaimed
  <2>1. ASSUME NEW k \in Keys, NEW d \in Docs, Apply(k, d) PROVE Inv'
    BY <2>1, <2>begin DEF Apply
  <2>2. ASSUME NEW k \in Keys, Remove(k) PROVE Inv'
    <3>1. op.pc = "idle" /\ op'.pc = "removeOwned"
      BY <2>2 DEF Remove, Control, Idle
    <3>2. \A j \in Keys : j # k => specs'[j] = specs[j]
      BY <2>2, <2>type DEF Remove
    <3>3. routes' \subseteq routes /\ \A r \in routes' : r.key # k
      BY <2>2 DEF Remove, OthersRoutes
    <3> QED BY <2>keep, <2>type, <3>1, <3>2, <3>3 DEF RoutedDoc
  <2>3. CASE Provision
    <3>1. op.pc = "provision" /\ op.kind = "apply" /\ routes' = routes
      BY <2>3 DEF Provision, Control, table
    <3>2. CASE Goto("install") /\ UNCHANGED specs
      <4>1. op'.pc = "install" /\ op'.key = op.key /\ op'.prev = op.prev
        BY <3>2 DEF Goto, TypeOK
      <4> QED BY <2>keep, <3>1, <3>2, <4>1 DEF RoutedDoc
    <3>3. CASE op.prev.doc # NoDoc /\ RestorePrevious /\ Done(FALSE)
      <4>1. \A k \in Keys : specs'[k] = RoutedDoc(k)
        BY <3>1, <3>3, <2>type DEF RestorePrevious, RoutedDoc
      <4> QED BY <2>done, <3>1, <3>3, <4>1
    <3>4. CASE op.prev.doc = NoDoc /\ RecordFailed /\ Done(FALSE)
      <4>1. \A k \in Keys \ {op.key} : specs'[k] = RoutedDoc(k)
        BY <3>1, <3>4, <2>type DEF RecordFailed, RoutedDoc
      <4>2. ClaimsOf(RoutedDoc(op.key)) = {}
        BY <3>1, <3>4, <2>noclaim DEF RoutedDoc
      <4> QED BY <2>done, <3>1, <3>4, <4>1, <4>2
    <3> QED BY <2>3, <3>2, <3>3, <3>4 DEF Provision, Happens
  <2>4. CASE InstallRoutes
    <3>1. op.pc = "install" /\ op.kind = "apply" /\ specs[op.key] = op.doc
      BY <2>4 DEF InstallRoutes, Control
    <3>2. op'.pc = "start" /\ specs' = specs
      BY <2>4, <3>1, <2>type DEF InstallRoutes, Goto, TypeOK
    <3>3. routes' = OthersRoutes(op.key) \cup RoutesOf(op.key, op.doc)
      BY <2>4 DEF InstallRoutes
    <3>4. \A r \in OthersRoutes(op.key) :
            r \in routes /\ r.key \in Keys \ {op.key} /\ r.claim \in ClaimsOf(specs[r.key])
      BY <3>1, <2>type DEF OthersRoutes, RoutesAreClaimed, RoutedDoc
    <3>5. \A r \in RoutesOf(op.key, op.doc) :
            r.key = op.key /\ r.claim \in ClaimsOf(specs[r.key])
      BY <3>1 DEF RoutesOf
    <3>6. RoutesAreClaimed'
      BY <3>2, <3>3, <3>4, <3>5 DEF RoutesAreClaimed, RoutedDoc
    <3>7. ASSUME NEW r \in RoutesOf(op.key, op.doc), NEW q \in OthersRoutes(op.key)
          PROVE  ~Conflict(r.claim, q.claim) /\ ~Conflict(q.claim, r.claim)
      <4>1. Compatible(op.doc, specs[q.key]) /\ Compatible(specs[q.key], op.doc)
        BY <3>1, <3>4, <3>7, CompatibleSymmetric DEF Control
      <4> QED BY <3>1, <3>4, <3>5, <3>7, <4>1 DEF Compatible
    <3>8. RoutesDisjoint'
      BY <3>3, <3>4, <3>5, <3>7 DEF RoutesDisjoint
    <3> QED BY <3>6, <3>8
  <2>5. CASE StartPort
    <3>1. op.pc = "start" /\ specs[op.key] = op.doc /\ routes' = routes
      BY <2>5 DEF StartPort, Control
    <3>2. \A k \in Keys : RoutedDoc(k) = specs[k]
      BY <3>1 DEF RoutedDoc
    <3>3. CASE op'.pc \in {"start", "stop"} /\ UNCHANGED specs
      BY <2>keep, <2>type, <3>1, <3>2, <3>3 DEF RoutedDoc
    <3>4. CASE RecordFailed /\ Done(FALSE)
      <4>1. \A k \in Keys : specs'[k] = RoutedDoc(k)
        BY <3>1, <3>2, <3>4, <2>type DEF RecordFailed
      <4> QED BY <2>done, <3>1, <3>4, <4>1
    <3>5. Goto("stop") => op'.pc = "stop"
      BY DEF Goto, TypeOK
    <3> QED BY <2>5, <3>1, <3>3, <3>4, <3>5 DEF StartPort
  <2>6. CASE StopPorts
    <3>1. op.pc = "stop" /\ op'.pc = "save" /\ routes' = routes /\ specs' = specs
      BY <2>6 DEF StopPorts, Goto, TypeOK
    <3> QED BY <3>1, <2>keep DEF RoutedDoc
  <2>7. CASE SaveRuntime
    <3>1. op.pc = "save" /\ routes' = routes /\ specs' = specs
      BY <2>7 DEF SaveRuntime, table
    <3> QED BY <2>7, <3>1, <2>done DEF SaveRuntime, RoutedDoc
  <2>8. CASE FinishRemove
    <3>1. op.pc = "removeOwned" /\ routes' = routes /\ specs' = specs
      BY <2>8 DEF FinishRemove, table
    <3> QED BY <2>8, <3>1, <2>done DEF FinishRemove, RoutedDoc
  <2>9. CASE Resync
    <3>1. op.pc = "idle" /\ op'.pc = "resync" /\ routes' = routes /\ specs' = specs
      BY <2>9 DEF Resync, table, Control, TypeOK
    <3> QED BY <3>1, <2>keep DEF RoutedDoc
  <2>10. CASE ResyncRuntime
    <3>1. op.pc = "resync" /\ routes' = routes /\ specs' = specs
      BY <2>10 DEF ResyncRuntime, table
    <3>2. CASE op' = op
      BY <3>1, <3>2, <2>keep DEF RoutedDoc
    <3>3. CASE \E ok \in BOOLEAN : Done(ok)
      BY <3>1, <3>3, <2>done DEF RoutedDoc
    <3> QED BY <2>10, <3>2, <3>3 DEF ResyncRuntime
  <2>11. CASE LoadNext
    BY <2>11, <2>begin DEF LoadNext
  <2>12. CASE LoadFailed
    BY <2>12, <2>exit DEF LoadFailed
  <2>13. CASE LoadRejected
    BY <2>13, <2>exit DEF LoadRejected
  <2>14. CASE Crash
    BY <2>14, <2>exit DEF Crash
  <2>15. CASE Restart
    BY <2>15, <2>keep DEF Restart, table, RoutedDoc
  <2>16. CASE UNCHANGED vars
    BY <2>16, <2>keep DEF vars, table, RoutedDoc
  <2> QED BY <2>1, <2>2, <2>3, <2>4, <2>5, <2>6, <2>7, <2>8, <2>9, <2>10,
             <2>11, <2>12, <2>13, <2>14, <2>15, <2>16 DEF Next
<1>3. (Clean => Inv) => RouteIsolation
  BY DEF RouteIsolation
<1> QED BY <1>1, <1>2, <1>3, TypeCorrect, ControlInvariant, PTL DEF Spec

-----------------------------------------------------------------------------
(* Documents in memory *)

\* Unless Remove has failed half way, what a rollback restores was in memory just
\* before: only what is still to be loaded, or is being removed, is on disk alone.
THEOREM NothingIsForgotten ==
  Spec => []("rm" \notin failed => SpecsCompatible /\ NothingForgotten)
<1> DEFINE Inv == SpecsCompatible /\ NothingForgotten
<1> DEFINE Clean == "rm" \notin failed
<1>1. Init => Inv
  <2> SUFFICES ASSUME Init PROVE Inv
    OBVIOUS
  <2>1. \A k \in Keys : specs[k] = NoDoc /\ saved[k] = NoDoc
    BY DEF Init
  <2>2. op.pc = "idle"
    BY IdleFields DEF Init
  <2> QED BY <2>1, <2>2, NoDocCompatible DEF SpecsCompatible, NothingForgotten
<1>2. TypeOK /\ Control /\ (Clean => Inv) /\ [Next]_vars => (Clean => Inv)'
  <2> SUFFICES ASSUME TypeOK, Control, Clean => Inv, [Next]_vars, Clean' PROVE Inv'
    OBVIOUS
  <2>clean. Clean /\ Inv
    BY FailuresStay
  <2> USE <2>clean
  <2>type. /\ op.key \in Keys /\ specs \in [Keys -> MaybeDoc]
           /\ saved \in [Keys -> MaybeDoc]
    BY DEF TypeOK
  \* One document is replaced by one compatible with the rest.
  <2>swap. ASSUME NEW k \in Keys,
                  \A j \in Keys \ {k} : specs'[j] = specs[j] /\ Compatible(specs'[k], specs[j])
           PROVE  SpecsCompatible'
    BY <2>swap, CompatibleSymmetric DEF SpecsCompatible
  <2>begin. ASSUME NEW k \in Keys, NEW d, BeginApply(k, d), op.kind = "none",
                   \/ agent = "serving" /\ queue' = queue /\ d # NoDoc
                   \/ agent = "loading" /\ k \in queue /\ d = saved[k] /\ queue' = queue \ {k}
            PROVE  Inv'
    <3>1. /\ op'.key = k /\ op'.pc = "provision" /\ op'.prev = PreviousOf(k)
          /\ agent' = agent /\ saved' = saved
      BY <2>begin DEF BeginApply
    <3>2. specs'[k] = d /\ \A j \in Keys \ {k} : specs'[j] = specs[j]
      BY <2>begin, <2>type DEF BeginApply
    <3>3. \A j \in Keys \ {k} : Compatible(d, specs[j])
      BY <2>begin DEF BeginApply, Admissible
    <3>4. op.pc = "idle"
      BY <2>begin DEF Control
    <3>5. \A j \in Keys \ {k} : Compatible(PreviousOf(k).doc, specs[j])
      <4>1. CASE specs[k] # NoDoc
        BY <4>1 DEF PreviousOf, SpecsCompatible
      <4>2. CASE specs[k] = NoDoc /\ agent = "serving"
        <5>1. saved[k] = NoDoc
          BY <4>2, <3>4 DEF NothingForgotten
        <5> QED BY <4>2, <5>1, NoDocCompatible DEF PreviousOf
      <4>3. CASE specs[k] = NoDoc /\ agent = "loading"
        BY <4>3, <3>3, <2>begin DEF PreviousOf
      <4> QED BY <2>begin, <4>1, <4>2, <4>3
    <3>6. SpecsCompatible'
      BY <2>swap, <3>2, <3>3
    <3>7. ASSUME NEW j \in Keys, specs'[j] = NoDoc, saved'[j] # NoDoc
          PROVE  agent = "loading" /\ j \in queue'
      <4>1. j # k
        BY <3>1, <3>2, <3>7, <2>begin DEF Control
      <4> QED BY <4>1, <3>1, <3>2, <3>4, <3>7, <2>begin DEF NothingForgotten
    <3> QED BY <3>1, <3>2, <3>5, <3>6, <3>7 DEF NothingForgotten
  <2>exit. Exit => Inv'
    <3> SUFFICES ASSUME Exit PROVE Inv'
      OBVIOUS
    <3>1. \A k \in Keys : specs'[k] = NoDoc
      BY DEF Exit
    <3>2. op'.pc = "idle" /\ agent' = "down"
      BY IdleFields DEF Exit
    <3> QED BY <3>1, <3>2, NoDocCompatible DEF SpecsCompatible, NothingForgotten
  \* An operation returns: k is the only Runtime it may have changed, and of
  \* that one nothing is forgotten.
  <2>done. ASSUME NEW ok, NEW k \in Keys, Done(ok), op.kind # "none",
                  \A j \in Keys \ {k} : specs'[j] = specs[j] /\ saved'[j] = saved[j],
                  specs'[k] = NoDoc => saved'[k] = NoDoc,
                  op.pc = "removeOwned" => k = op.key
           PROVE  NothingForgotten'
    <3>1. op'.pc = "idle"
      BY <2>done, IdleFields DEF Done
    <3>2. agent \in {"serving", "loading"}
      BY <2>done DEF Control, TypeOK
    <3>3. agent' = "loading" => agent = "loading" /\ queue' = queue
      BY <2>done, <3>2 DEF Done, Control
    <3>4. agent' = "serving" => agent = "serving" \/ queue = {}
      BY <2>done, <3>2 DEF Done
    <3> QED BY <2>done, <3>1, <3>2, <3>3, <3>4 DEF NothingForgotten
  <2>1. ASSUME NEW k \in Keys, NEW d \in Docs, Apply(k, d) PROVE Inv'
    BY <2>1, <2>begin, ConstantsAssumption DEF Apply
  <2>2. ASSUME NEW k \in Keys, Remove(k) PROVE Inv'
    <3>1. op'.pc = "removeOwned" /\ op'.key = k /\ saved' = saved /\ agent' = agent
          /\ queue' = queue /\ op.pc = "idle"
      BY <2>2 DEF Remove, Control, Idle
    <3>2. specs'[k] = NoDoc /\ \A j \in Keys \ {k} : specs'[j] = specs[j]
      BY <2>2, <2>type DEF Remove
    <3>3. SpecsCompatible'
      BY <2>swap, <3>2, NoDocCompatible
    <3> QED BY <3>1, <3>2, <3>3 DEF NothingForgotten
  <2>3. CASE Provision
    <3>1. op.pc = "provision" /\ op.kind = "apply" /\ specs[op.key] = op.doc
      BY <2>3 DEF Provision, Control
    <3>2. CASE Goto("install") /\ UNCHANGED <<specs, saved, agent, queue>>
      <4>1. op'.pc = "install" /\ op'.key = op.key
        BY <3>2 DEF Goto, TypeOK
      <4> QED BY <3>1, <3>2, <4>1 DEF SpecsCompatible, NothingForgotten
    <3>3. CASE RecordFailed /\ Done(FALSE)
      <4>1. specs' = specs /\ saved'[op.key] = op.doc
            /\ \A j \in Keys \ {op.key} : saved'[j] = saved[j]
        BY <3>1, <3>3, <2>type DEF RecordFailed
      <4> QED BY <2>done, <2>type, <3>1, <3>3, <4>1 DEF SpecsCompatible
    <3>4. CASE RestorePrevious /\ Done(FALSE)
      <4>1. /\ specs'[op.key] = op.prev.doc /\ saved'[op.key] = op.prev.doc
            /\ \A j \in Keys \ {op.key} : saved'[j] = saved[j] /\ specs'[j] = specs[j]
        BY <3>1, <3>4, <2>type DEF RestorePrevious
      <4>2. \A j \in Keys \ {op.key} : Compatible(specs'[op.key], specs[j])
        BY <3>1, <4>1 DEF NothingForgotten
      <4>3. SpecsCompatible'
        BY <2>swap, <2>type, <4>1, <4>2
      <4>4. NothingForgotten'
        BY <2>done, <2>type, <3>1, <3>4, <4>1
      <4> QED BY <4>3, <4>4
    <3> QED BY <2>3, <3>2, <3>3, <3>4 DEF Provision
  <2>4. CASE InstallRoutes
    <3>1. op'.pc = "start" /\ op.pc = "install" /\ op'.key = op.key
          /\ UNCHANGED <<saved, agent, queue>>
      BY <2>4 DEF InstallRoutes, Goto, TypeOK
    <3>2. specs' = specs
      BY <2>4, <3>1, <2>type DEF InstallRoutes, Control
    <3> QED BY <3>1, <3>2 DEF SpecsCompatible, NothingForgotten
  <2>5. CASE StartPort
    <3>1. op.pc = "start" /\ op.kind = "apply" /\ specs[op.key] = op.doc
      BY <2>5 DEF StartPort, Control
    <3>2. CASE op'.pc \in {"start", "stop"} /\ UNCHANGED <<specs, saved, agent, queue>>
      BY <3>1, <3>2 DEF SpecsCompatible, NothingForgotten
    <3>3. CASE RecordFailed /\ Done(FALSE)
      <4>1. specs' = specs /\ saved'[op.key] = op.doc
            /\ \A j \in Keys \ {op.key} : saved'[j] = saved[j]
        BY <3>1, <3>3, <2>type DEF RecordFailed
      <4> QED BY <2>done, <2>type, <3>1, <3>3, <4>1 DEF SpecsCompatible
    <3>4. Goto("stop") => op'.pc = "stop"
      BY DEF Goto, TypeOK
    <3> QED BY <2>5, <3>1, <3>2, <3>3, <3>4 DEF StartPort
  <2>6. CASE StopPorts
    <3>1. op.pc = "stop" /\ op'.pc = "save" /\ UNCHANGED <<specs, saved, agent, queue>>
      BY <2>6 DEF StopPorts, Goto, TypeOK
    <3> QED BY <3>1 DEF SpecsCompatible, NothingForgotten
  <2>7. CASE SaveRuntime
    <3>1. op.pc = "save" /\ op.kind = "apply" /\ specs[op.key] = op.doc /\ specs' = specs
      BY <2>7 DEF SaveRuntime, Control
    <3>2. saved'[op.key] \in {saved[op.key], op.doc}
          /\ \A j \in Keys \ {op.key} : saved'[j] = saved[j]
      BY <2>7, <2>type DEF SaveRuntime
    <3>3. specs[op.key] # NoDoc
      BY <3>1 DEF Control
    <3> QED BY <2>7, <2>done, <2>type, <3>1, <3>2, <3>3 DEF SaveRuntime, SpecsCompatible
  <2>8. CASE FinishRemove
    <3>1. op.pc = "removeOwned" /\ op.kind # "none" /\ specs' = specs
      BY <2>8 DEF FinishRemove, Control
    <3>2. saved'[op.key] = NoDoc /\ \A j \in Keys \ {op.key} : saved'[j] = saved[j]
      BY <2>8, <2>type DEF FinishRemove, Happens
    <3> QED BY <2>8, <2>done, <2>type, <3>1, <3>2 DEF FinishRemove, SpecsCompatible
  <2>9. CASE Resync
    <3>1. op.pc = "idle" /\ op'.pc = "resync" /\ agent = "serving"
          /\ UNCHANGED <<specs, saved, agent>>
      BY <2>9 DEF Resync, Control, TypeOK
    <3> QED BY <3>1 DEF SpecsCompatible, NothingForgotten
  <2>10. CASE ResyncRuntime
    <3>1. op.pc = "resync" /\ op.kind # "none" /\ specs' = specs
      BY <2>10 DEF ResyncRuntime, Control
    <3>2. PICK k \in Keys :
            \/ saved' = saved /\ Done(TRUE)
            \/ saved' = saved /\ queue' = queue \ {k} /\ agent' = agent /\ op' = op
            \/ saved' = [saved EXCEPT ![k] = specs[k]] /\ Done(FALSE)
      BY <2>10 DEF ResyncRuntime
    <3>3. SpecsCompatible' /\ op.pc = "resync" /\ agent = "serving"
      BY <3>1 DEF SpecsCompatible, Control, TypeOK, Kinds
    <3>4. specs[k] = NoDoc => saved[k] = NoDoc
      BY <3>3 DEF NothingForgotten
    <3>5. CASE saved' = saved /\ Done(TRUE)
      <4>1. NothingForgotten'
        BY <2>done, <3>1, <3>4, <3>5
      <4> QED BY <3>3, <4>1
    <3>6. CASE saved' = saved /\ queue' = queue \ {k} /\ agent' = agent /\ op' = op
      BY <3>1, <3>3, <3>6 DEF NothingForgotten
    <3>7. CASE saved' = [saved EXCEPT ![k] = specs[k]] /\ Done(FALSE)
      <4>1. saved'[k] = specs[k] /\ \A j \in Keys \ {k} : saved'[j] = saved[j]
        BY <3>7, <2>type
      <4>2. NothingForgotten'
        BY <2>done, <3>1, <3>7, <4>1
      <4> QED BY <3>3, <4>2
    <3> QED BY <3>2, <3>5, <3>6, <3>7
  <2>11. CASE LoadNext
    BY <2>11, <2>begin DEF LoadNext, First
  <2>12. CASE LoadFailed
    BY <2>12, <2>exit DEF LoadFailed
  <2>13. CASE LoadRejected
    BY <2>13, <2>exit DEF LoadRejected
  <2>14. CASE Crash
    BY <2>14, <2>exit DEF Crash
  <2>15. CASE Restart
    BY <2>15 DEF Restart, SpecsCompatible, NothingForgotten, Control
  <2>16. CASE UNCHANGED vars
    BY <2>16 DEF vars, SpecsCompatible, NothingForgotten
  <2> QED BY <2>1, <2>2, <2>3, <2>4, <2>5, <2>6, <2>7, <2>8, <2>9, <2>10,
             <2>11, <2>12, <2>13, <2>14, <2>15, <2>16 DEF Next
<1> QED BY <1>1, <1>2, TypeCorrect, ControlInvariant, PTL DEF Spec

\* The Runtimes in memory never claim the same listener or route, although a
\* rollback restores a document without admitting it again.
THEOREM RuntimesCompatible == Spec => []ClaimsDisjoint
<1>1. ("rm" \notin failed => SpecsCompatible /\ NothingForgotten) => ClaimsDisjoint
  BY DEF ClaimsDisjoint
<1> QED BY <1>1, NothingIsForgotten, PTL

-----------------------------------------------------------------------------
(* Documents on disk *)

\* Until a write has failed or Remove has failed half way, memory and disk agree on
\* every Runtime but the one being worked on and those still to be loaded.
THEOREM DiskMatchesMemory ==
  Spec => []({"rm", "save"} \cap failed = {} => FilesCompatible /\ InSync)
<1> DEFINE Inv == FilesCompatible /\ InSync
<1> DEFINE Clean == {"rm", "save"} \cap failed = {}
<1>1. Init => Inv
  <2> SUFFICES ASSUME Init PROVE Inv
    OBVIOUS
  <2>1. \A k \in Keys : specs[k] = NoDoc /\ saved[k] = NoDoc
    BY DEF Init
  <2>2. op.pc = "idle" /\ op.kind = "none"
    BY IdleFields DEF Init
  <2> QED BY <2>1, <2>2, NoDocCompatible DEF FilesCompatible, InSync
<1>2. TypeOK /\ Control /\ (Clean => Inv) /\ [Next]_vars => (Clean => Inv)'
  <2> SUFFICES ASSUME TypeOK, Control, Clean => Inv, [Next]_vars, Clean' PROVE Inv'
    OBVIOUS
  <2>clean. Clean /\ Inv
    BY FailuresStay
  <2> USE <2>clean
  <2>type. /\ op.key \in Keys /\ specs \in [Keys -> MaybeDoc]
           /\ saved \in [Keys -> MaybeDoc]
    BY DEF TypeOK
  \* One file is replaced by a document compatible with the other files.
  <2>swap. ASSUME NEW k \in Keys,
                  \A j \in Keys \ {k} : saved'[j] = saved[j] /\ Compatible(saved'[k], saved[j])
           PROVE  FilesCompatible'
    BY <2>swap, CompatibleSymmetric DEF FilesCompatible
  <2>same. saved' = saved => FilesCompatible'
    BY DEF FilesCompatible
  <2>begin. ASSUME NEW k \in Keys, NEW d, BeginApply(k, d), op.kind = "none",
                   \/ agent = "serving" /\ queue' = queue
                   \/ agent = "loading" /\ k \in queue /\ d = saved[k] /\ queue' = queue \ {k}
            PROVE  Inv'
    <3>1. /\ op'.key = k /\ op'.doc = d /\ op'.kind = "apply" /\ op'.pc = "provision"
          /\ op'.prev = PreviousOf(k) /\ agent' = agent /\ saved' = saved
      BY <2>begin DEF BeginApply
    <3>2. \A j \in Keys \ {k} : specs'[j] = specs[j]
      BY <2>begin, <2>type DEF BeginApply
    <3>3. PreviousOf(k).doc = saved[k]
      BY <2>begin DEF PreviousOf, InSync, Control
    <3> QED BY <2>begin, <2>same, <3>1, <3>2, <3>3 DEF InSync
  <2>exit. Exit => Inv'
    <3> SUFFICES ASSUME Exit PROVE Inv'
      OBVIOUS
    <3>1. op'.pc = "idle" /\ op'.kind = "none" /\ agent' = "down" /\ saved' = saved
      BY IdleFields DEF Exit
    <3> QED BY <3>1, <2>same DEF InSync
  \* An operation on k returns with memory and disk agreeing on k.
  <2>done. ASSUME NEW ok, NEW k \in Keys, Done(ok), op.kind # "none",
                  op.kind # "resync" => k = op.key,
                  \A j \in Keys \ {k} : specs'[j] = specs[j] /\ saved'[j] = saved[j],
                  specs'[k] = saved'[k]
           PROVE  InSync'
    <3>1. op'.pc = "idle" /\ op'.kind = "none"
      BY <2>done, IdleFields DEF Done
    <3>2. agent \in {"serving", "loading"}
      BY <2>done DEF Control, TypeOK
    <3>3. agent' = "loading" => agent = "loading" /\ queue' = queue
      BY <2>done, <3>2 DEF Done, Control
    <3>4. agent' = "serving" => agent = "serving" \/ queue = {}
      BY <2>done, <3>2 DEF Done
    <3> QED BY <2>done, <3>1, <3>2, <3>3, <3>4 DEF InSync
  \* The document of an Apply may be written at any time.
  <2>fits. op.kind = "apply" => \A j \in Keys \ {op.key} : Compatible(op.doc, saved[j])
    <3> SUFFICES ASSUME op.kind = "apply", NEW j \in Keys \ {op.key}
                 PROVE  Compatible(op.doc, saved[j])
      OBVIOUS
    <3>1. agent \in {"serving", "loading"}
      BY DEF Control, TypeOK
    <3>2. CASE agent = "serving"
      <4>1. specs[j] = saved[j]
        BY <3>2 DEF InSync
      <4> QED BY <4>1 DEF Control
    <3>3. CASE agent = "loading"
      BY <3>3, <2>type DEF InSync, FilesCompatible
    <3> QED BY <3>1, <3>2, <3>3
  <2>write. ASSUME op.kind = "apply", specs'[op.key] = op.doc,
                   saved' = [saved EXCEPT ![op.key] = op.doc],
                   \A j \in Keys \ {op.key} : specs'[j] = specs[j],
                   NEW ok, Done(ok)
            PROVE  Inv'
    <3>1. saved'[op.key] = op.doc /\ \A j \in Keys \ {op.key} : saved'[j] = saved[j]
      BY <2>write, <2>type
    <3>2. FilesCompatible'
      BY <2>swap, <2>type, <2>fits, <2>write, <3>1
    <3>3. InSync'
      BY <2>done, <2>type, <2>write, <3>1
    <3> QED BY <3>2, <3>3
  <2>1. ASSUME NEW k \in Keys, NEW d \in Docs, Apply(k, d) PROVE Inv'
    BY <2>1, <2>begin DEF Apply
  <2>2. ASSUME NEW k \in Keys, Remove(k) PROVE Inv'
    <3>1. op'.kind = "remove" /\ op'.pc = "removeOwned" /\ op'.key = k /\ saved' = saved
          /\ agent = "serving" /\ agent' = agent /\ op.kind = "none"
      BY <2>2 DEF Remove, Idle
    <3>2. \A j \in Keys \ {k} : specs'[j] = specs[j]
      BY <2>2, <2>type DEF Remove
    <3> QED BY <2>same, <3>1, <3>2 DEF InSync
  <2>3. CASE Provision
    <3>1. op.pc = "provision" /\ op.kind = "apply" /\ specs[op.key] = op.doc
      BY <2>3 DEF Provision, Control
    <3>2. CASE Goto("install") /\ UNCHANGED <<specs, saved, agent, queue>>
      <4>1. op'.pc = "install" /\ op'.key = op.key /\ op'.kind = op.kind /\ op'.doc = op.doc
        BY <3>2 DEF Goto, TypeOK
      <4> QED BY <2>same, <3>1, <3>2, <4>1 DEF InSync
    <3>3. CASE RecordFailed /\ Done(FALSE)
      <4>1. specs' = specs
        BY <3>1, <3>3, <2>type DEF RecordFailed
      <4> QED BY <2>write, <3>1, <3>3, <4>1 DEF RecordFailed
    <3>4. CASE RestorePrevious /\ Done(FALSE)
      <4>1. /\ specs'[op.key] = op.prev.doc /\ saved'[op.key] = op.prev.doc
            /\ \A j \in Keys \ {op.key} : saved'[j] = saved[j] /\ specs'[j] = specs[j]
        BY <3>1, <3>4, <2>type DEF RestorePrevious
      <4>2. saved' = saved
        BY <3>1, <3>4, <2>type DEF RestorePrevious, InSync
      <4>3. InSync'
        BY <2>done, <2>type, <3>1, <3>4, <4>1
      <4> QED BY <2>same, <4>2, <4>3
    <3> QED BY <2>3, <3>2, <3>3, <3>4 DEF Provision
  <2>4. CASE InstallRoutes
    <3>1. op'.pc = "start" /\ op.pc = "install" /\ op'.key = op.key /\ op'.kind = op.kind
          /\ op'.doc = op.doc /\ UNCHANGED <<saved, agent, queue>>
      BY <2>4 DEF InstallRoutes, Goto, TypeOK
    <3>2. specs' = specs
      BY <2>4, <3>1, <2>type DEF InstallRoutes, Control
    <3> QED BY <2>same, <3>1, <3>2 DEF InSync
  <2>5. CASE StartPort
    <3>1. op.pc = "start" /\ op.kind = "apply" /\ specs[op.key] = op.doc
      BY <2>5 DEF StartPort, Control
    <3>2. CASE op' = op /\ UNCHANGED <<specs, saved, agent, queue>>
      BY <2>same, <3>1, <3>2 DEF InSync
    <3>3. CASE Goto("stop") /\ UNCHANGED <<specs, saved, agent, queue>>
      <4>1. op'.pc = "stop" /\ op'.key = op.key /\ op'.kind = op.kind /\ op'.doc = op.doc
        BY <3>3 DEF Goto, TypeOK
      <4> QED BY <2>same, <3>1, <3>3, <4>1 DEF InSync
    <3>4. CASE RecordFailed /\ Done(FALSE)
      <4>1. specs' = specs
        BY <3>1, <3>4, <2>type DEF RecordFailed
      <4> QED BY <2>write, <3>1, <3>4, <4>1 DEF RecordFailed
    <3> QED BY <2>5, <3>2, <3>3, <3>4 DEF StartPort
  <2>6. CASE StopPorts
    <3>1. op'.pc = "save" /\ op.pc = "stop" /\ op'.key = op.key /\ op'.kind = op.kind
          /\ op'.doc = op.doc /\ UNCHANGED <<specs, saved, agent, queue>>
      BY <2>6 DEF StopPorts, Goto, TypeOK
    <3> QED BY <2>same, <3>1 DEF InSync
  <2>7. CASE SaveRuntime
    <3>1. op.kind = "apply" /\ specs[op.key] = op.doc /\ specs' = specs
      BY <2>7 DEF SaveRuntime, Control
    <3> QED BY <2>7, <2>write, <3>1 DEF SaveRuntime, Happens
  <2>8. CASE FinishRemove
    <3>1. op.kind = "remove" /\ agent = "serving" /\ specs' = specs
      BY <2>8 DEF FinishRemove, Control
    <3>2. saved'[op.key] = NoDoc /\ \A j \in Keys \ {op.key} : saved'[j] = saved[j]
      BY <2>8, <2>type DEF FinishRemove, Happens
    <3>3. FilesCompatible'
      BY <2>swap, <2>type, <3>2, NoDocCompatible
    <3>4. op'.pc = "idle" /\ op'.kind = "none"
      BY <2>8, IdleFields DEF FinishRemove, Done
    <3>5. agent' = "serving"
      BY <2>8, <3>1 DEF FinishRemove, Done
    <3>6. specs[op.key] = NoDoc
      BY <3>1 DEF Control
    <3> QED BY <3>1, <3>2, <3>3, <3>4, <3>5, <3>6 DEF InSync
  <2>9. CASE Resync
    <3>1. op.kind = "none" /\ op'.pc = "resync" /\ op'.kind = "resync" /\ agent = "serving"
          /\ UNCHANGED <<specs, saved, agent>>
      BY <2>9 DEF Resync, TypeOK
    <3> QED BY <2>same, <3>1 DEF InSync
  <2>10. CASE ResyncRuntime
    <3>1. op.pc = "resync" /\ op.kind = "resync" /\ agent = "serving" /\ specs' = specs
      BY <2>10 DEF ResyncRuntime, Control, TypeOK, Kinds
    <3>2. \A k \in Keys : specs[k] = saved[k]
      BY <3>1 DEF InSync
    <3>3. PICK k \in Keys :
            \/ saved' = saved /\ Done(TRUE)
            \/ saved' = saved /\ agent' = agent /\ op' = op
            \/ saved' = [saved EXCEPT ![k] = specs[k]] /\ Done(FALSE)
      BY <2>10 DEF ResyncRuntime
    <3>4. saved' = saved
      <4>1. [saved EXCEPT ![k] = saved[k]] = saved
        BY <2>type
      <4> QED BY <3>2, <3>3, <4>1
    <3>5. CASE \E ok \in BOOLEAN : Done(ok)
      <4>1. InSync'
        BY <2>done, <3>1, <3>2, <3>4, <3>5
      <4> QED BY <2>same, <3>4, <4>1
    <3>6. CASE agent' = agent /\ op' = op
      BY <2>same, <3>1, <3>4, <3>6 DEF InSync
    <3> QED BY <3>3, <3>5, <3>6
  <2>11. CASE LoadNext
    BY <2>11, <2>begin DEF LoadNext, First
  <2>12. CASE LoadFailed
    BY <2>12, <2>exit DEF LoadFailed
  <2>13. CASE LoadRejected
    BY <2>13, <2>exit DEF LoadRejected
  <2>14. CASE Crash
    BY <2>14, <2>exit DEF Crash
  <2>15. CASE Restart
    <3>1. op.kind = "none" /\ op.pc = "idle" /\ op' = op /\ saved' = saved /\ specs' = specs
          /\ \A k \in Keys : specs[k] = NoDoc
      BY <2>15 DEF Restart, Control
    <3>2. \A k \in Keys : saved[k] # NoDoc => k \in queue' /\ agent' = "loading"
      BY <2>15 DEF Restart
    <3> QED BY <2>same, <3>1, <3>2 DEF InSync
  <2>16. CASE UNCHANGED vars
    BY <2>16, <2>same DEF vars, InSync
  <2> QED BY <2>1, <2>2, <2>3, <2>4, <2>5, <2>6, <2>7, <2>8, <2>9, <2>10,
             <2>11, <2>12, <2>13, <2>14, <2>15, <2>16 DEF Next
<1> QED BY <1>1, <1>2, TypeCorrect, ControlInvariant, PTL DEF Spec

\* Whenever the agent crashes, Load admits every spec file it finds: the files of
\* two Runtimes never claim the same listener or route.
THEOREM DiskStaysLoadable == Spec => []DiskLoadable
<1>1. ({"rm", "save"} \cap failed = {} => FilesCompatible /\ InSync) => DiskLoadable
  BY DEF DiskLoadable
<1> QED BY <1>1, DiskMatchesMemory, PTL

-----------------------------------------------------------------------------
(* Listeners *)

\* The ports of two sets of routes together.
LEMMA RoutedPortsUnion ==
  ASSUME NEW R, NEW S
  PROVE  RoutedPorts(R \cup S) = RoutedPorts(R) \cup RoutedPorts(S)
BY DEF RoutedPorts

\* What is left of the listeners when those of k are orphaned.
LEMMA OrphanedLeaves ==
  ASSUME NEW k, servers = RoutedPorts(routes)
  PROVE  servers \ Orphaned(k) = RoutedPorts(OthersRoutes(k))
<1>1. RoutedPorts(OthersRoutes(k)) \subseteq RoutedPorts(routes)
  BY DEF OthersRoutes, RoutedPorts
<1> QED BY <1>1 DEF Orphaned

\* While no port has been refused, the listeners are those of the routes at every
\* moment, but for the ports of the Apply in progress.
THEOREM ListenersTracked == Spec => []("listen" \notin failed => ListenersTrack)
<1> DEFINE Clean == "listen" \notin failed
<1>1. Init => ListenersTrack
  BY IdleFields DEF Init, ListenersTrack, RoutedPorts
<1>2. TypeOK /\ Control /\ (Clean => ListenersTrack) /\ [Next]_vars
      => (Clean => ListenersTrack)'
  <2> SUFFICES ASSUME TypeOK, Control, Clean => ListenersTrack, [Next]_vars, Clean'
               PROVE  ListenersTrack'
    OBVIOUS
  <2>clean. Clean /\ ListenersTrack
    BY FailuresStay
  <2> USE <2>clean
  <2>keep. ASSUME routes' = routes, servers' = servers,
                  op.pc \notin {"start", "stop"}, op'.pc \notin {"start", "stop"}
           PROVE  ListenersTrack'
    BY <2>keep DEF ListenersTrack
  <2>begin. ASSUME NEW k \in Keys, NEW d, BeginApply(k, d), op.kind = "none"
            PROVE  ListenersTrack'
    BY <2>begin, <2>keep DEF BeginApply, table, Control
  <2>done. ASSUME NEW ok, Done(ok), UNCHANGED table, op.pc \notin {"start", "stop"}
           PROVE  ListenersTrack'
    BY <2>done, <2>keep, IdleFields DEF Done, table
  <2>exit. Exit => ListenersTrack'
    BY IdleFields DEF Exit, ListenersTrack, RoutedPorts
  <2>1. ASSUME NEW k \in Keys, NEW d \in Docs, Apply(k, d) PROVE ListenersTrack'
    BY <2>1, <2>begin DEF Apply
  <2>2. ASSUME NEW k \in Keys, Remove(k) PROVE ListenersTrack'
    <3>1. op.pc = "idle" /\ op'.pc = "removeOwned" /\ servers' = servers \ Orphaned(k)
          /\ routes' = OthersRoutes(k)
      BY <2>2, IdleFields DEF Remove, Control, Idle
    <3>2. servers = RoutedPorts(routes)
      BY <3>1 DEF ListenersTrack
    <3> QED BY <3>1, <3>2, OrphanedLeaves DEF ListenersTrack
  <2>3. CASE Provision
    <3>1. op.pc = "provision" /\ UNCHANGED table
      BY <2>3 DEF Provision
    <3>2. Goto("install") => op'.pc = "install"
      BY DEF Goto, TypeOK
    <3> QED BY <2>3, <3>1, <3>2, <2>keep, <2>done DEF Provision, table
  <2>4. CASE InstallRoutes
    <3> DEFINE new == RoutesOf(op.key, op.doc)
               Others == OthersRoutes(op.key)
    <3>1. op'.pc = "start" /\ servers' = servers /\ servers = RoutedPorts(routes)
      BY <2>4 DEF InstallRoutes, Goto, TypeOK, ListenersTrack
    <3>2. RoutedPorts(routes') = RoutedPorts(Others) \cup RoutedPorts(new)
      BY <2>4, RoutedPortsUnion DEF InstallRoutes
    <3>3. starts' = RoutedPorts(new) \ servers
          /\ stops' = Orphaned(op.key) \ RoutedPorts(new)
      BY <2>4 DEF InstallRoutes
    <3>4. servers \ Orphaned(op.key) = RoutedPorts(Others)
      BY <3>1, OrphanedLeaves
    <3>5. Orphaned(op.key) \subseteq servers
      BY DEF Orphaned
    <3> HIDE DEF new, Others
    <3>6. RoutedPorts(routes') = (servers' \ stops') \cup starts'
      BY <3>1, <3>2, <3>3, <3>4, <3>5
    <3>7. starts' \cap stops' = {}
      BY <3>3
    <3> QED BY <3>1, <3>6, <3>7 DEF ListenersTrack
  <2>5. CASE StartPort
    <3>1. op.pc = "start" /\ routes' = routes
      BY <2>5 DEF StartPort
    <3>2. RoutedPorts(routes) = (servers \ stops) \cup starts /\ starts \cap stops = {}
      BY <3>1 DEF ListenersTrack
    <3>3. CASE starts = {} /\ Goto("stop") /\ UNCHANGED <<servers, starts, stops>>
      <4>1. op'.pc = "stop"
        BY <3>3 DEF Goto, TypeOK
      <4> QED BY <3>1, <3>2, <3>3, <4>1 DEF ListenersTrack
    <3>4. CASE \E p \in Ports :
                 /\ First(starts, p) /\ servers' = servers \cup {p}
                 /\ starts' = starts \ {p} /\ UNCHANGED <<op, stops>>
      <4>1. PICK p \in starts : servers' = servers \cup {p} /\ starts' = starts \ {p}
                                /\ stops' = stops /\ op' = op
        BY <3>4 DEF First
      <4>2. RoutedPorts(routes') = (servers' \ stops') \cup starts'
        BY <3>1, <3>2, <4>1
      <4>3. starts' \cap stops' = {}
        BY <3>2, <4>1
      <4> QED BY <3>1, <4>1, <4>2, <4>3 DEF ListenersTrack
    <3>5. ~Happens("listen")
      BY DEF Happens
    <3> QED BY <2>5, <3>3, <3>4, <3>5 DEF StartPort
  <2>6. CASE StopPorts
    <3>1. op.pc = "stop" /\ op'.pc = "save" /\ routes' = routes /\ servers' = servers \ stops
      BY <2>6 DEF StopPorts, Goto, TypeOK
    <3> QED BY <3>1 DEF ListenersTrack
  <2>7. CASE SaveRuntime
    BY <2>7, <2>done DEF SaveRuntime
  <2>8. CASE FinishRemove
    BY <2>8, <2>done DEF FinishRemove
  <2>9. CASE Resync
    <3>1. op.pc = "idle" /\ op'.pc = "resync"
      BY <2>9 DEF Resync, Control, TypeOK
    <3> QED BY <2>9, <3>1, <2>keep DEF Resync, table
  <2>10. CASE ResyncRuntime
    BY <2>10, <2>done, <2>keep DEF ResyncRuntime, table
  <2>11. CASE LoadNext
    BY <2>11, <2>begin DEF LoadNext
  <2>12. CASE LoadFailed
    BY <2>12, <2>exit DEF LoadFailed
  <2>13. CASE LoadRejected
    BY <2>13, <2>exit DEF LoadRejected
  <2>14. CASE Crash
    BY <2>14, <2>exit DEF Crash
  <2>15. CASE Restart
    BY <2>15, <2>keep DEF Restart, table, Control
  <2>16. CASE UNCHANGED vars
    BY <2>16 DEF vars, table, ListenersTrack
  <2> QED BY <2>1, <2>2, <2>3, <2>4, <2>5, <2>6, <2>7, <2>8, <2>9, <2>10,
             <2>11, <2>12, <2>13, <2>14, <2>15, <2>16 DEF Next
<1> QED BY <1>1, <1>2, TypeCorrect, ControlInvariant, PTL DEF Spec

\* Between operations the agent listens on exactly the ports it has routes for,
\* for any Runtimes, until a port it wants could not be bound.
THEOREM ListenersAreRoutes == Spec => []ListenersMatchRoutes
<1>1. Control /\ ("listen" \notin failed => ListenersTrack) => ListenersMatchRoutes
  BY DEF Control, ListenersTrack, ListenersMatchRoutes
<1> QED BY <1>1, ControlInvariant, ListenersTracked, PTL

-----------------------------------------------------------------------------
(* Running Runtimes are reachable *)

\* A document's ports are those of its routes.
LEMMA PortsOfRoutes ==
  ASSUME NEW k, NEW d, RoutesOf(k, d) \subseteq routes
  PROVE  PortsOf(d) \subseteq RoutedPorts(routes)
<1> SUFFICES ASSUME NEW c \in ClaimsOf(d) PROVE c.port \in RoutedPorts(routes)
  BY DEF PortsOf
<1>1. [key |-> k, claim |-> c] \in routes
  BY DEF RoutesOf
<1> QED BY <1>1 DEF RoutedPorts

\* The routes of every Runtime in memory are installed until an Apply fails, but
\* for the Runtime that an Apply in progress has not come to the routes of; so
\* that Resync, which calls every Runtime in memory Running, is right.
THEOREM RuntimesRouted ==
  Spec => []({"provider", "deploy", "listen"} \cap failed = {} => AllRouted)
<1> DEFINE Clean == {"provider", "deploy", "listen"} \cap failed = {}
<1>none. \A k : RoutesOf(k, NoDoc) = {}
  BY DEF RoutesOf, ClaimsOf
<1>1. Init => AllRouted
  BY <1>none DEF Init, AllRouted
<1>2. TypeOK /\ Control /\ (Clean => AllRouted) /\ [Next]_vars => (Clean => AllRouted)'
  <2> SUFFICES ASSUME TypeOK, Control, Clean => AllRouted, [Next]_vars, Clean'
               PROVE  AllRouted'
    OBVIOUS
  <2>clean. Clean /\ AllRouted
    BY FailuresStay
  <2> USE <2>clean
  <2>type. op.key \in Keys /\ specs \in [Keys -> MaybeDoc]
    BY DEF TypeOK
  \* Nothing happens to the routes of j.
  <2>others. ASSUME NEW k, NEW j, j # k, RoutesOf(j, specs[j]) \subseteq routes
             PROVE  RoutesOf(j, specs[j]) \subseteq OthersRoutes(k)
    BY <2>others DEF RoutesOf, OthersRoutes
  <2>keep. ASSUME routes' = routes, specs' = specs, op.pc \notin {"provision", "install"}
           PROVE  AllRouted'
    BY <2>keep DEF AllRouted
  <2>begin. ASSUME NEW k \in Keys, NEW d, BeginApply(k, d), op.kind = "none"
            PROVE  AllRouted'
    <3>1. op.pc = "idle" /\ op'.pc = "provision" /\ op'.key = k /\ routes' = routes
      BY <2>begin DEF BeginApply, table, Control
    <3>2. \A j \in Keys \ {k} : specs'[j] = specs[j]
      BY <2>begin, <2>type DEF BeginApply
    <3> QED BY <3>1, <3>2 DEF AllRouted
  <2>exit. Exit => AllRouted'
    BY <1>none DEF Exit, AllRouted
  <2>clear. ~Happens("provider") /\ ~Happens("deploy") /\ ~Happens("listen")
    BY DEF Happens
  <2>1. ASSUME NEW k \in Keys, NEW d \in Docs, Apply(k, d) PROVE AllRouted'
    BY <2>1, <2>begin DEF Apply
  <2>2. ASSUME NEW k \in Keys, Remove(k) PROVE AllRouted'
    <3>1. op.pc = "idle" /\ routes' = OthersRoutes(k)
      BY <2>2 DEF Remove, Control
    <3>2. specs'[k] = NoDoc /\ \A j \in Keys \ {k} : specs'[j] = specs[j]
      BY <2>2, <2>type DEF Remove
    <3>3. \A j \in Keys \ {k} : RoutesOf(j, specs[j]) \subseteq OthersRoutes(k)
      BY <3>1, <2>others DEF AllRouted
    <3> QED BY <3>1, <3>2, <3>3, <1>none DEF AllRouted
  <2>3. CASE Provision
    <3>1. op.pc = "provision" /\ routes' = routes /\ specs' = specs /\ Goto("install")
      BY <2>3, <2>clear DEF Provision, table
    <3>2. op'.pc = "install" /\ op'.key = op.key
      BY <3>1 DEF Goto, TypeOK
    <3> QED BY <3>1, <3>2 DEF AllRouted
  <2>4. CASE InstallRoutes
    <3>1. op.pc = "install" /\ specs[op.key] = op.doc
          /\ routes' = OthersRoutes(op.key) \cup RoutesOf(op.key, op.doc)
      BY <2>4 DEF InstallRoutes, Control
    <3>2. specs' = specs
      BY <2>4, <3>1, <2>type DEF InstallRoutes
    <3>3. \A j \in Keys \ {op.key} : RoutesOf(j, specs[j]) \subseteq OthersRoutes(op.key)
      BY <3>1, <2>others DEF AllRouted
    <3> QED BY <3>1, <3>2, <3>3 DEF AllRouted
  <2>5. CASE StartPort
    BY <2>5, <2>clear, <2>keep DEF StartPort
  <2>6. CASE StopPorts
    BY <2>6, <2>keep DEF StopPorts
  <2>7. CASE SaveRuntime
    BY <2>7, <2>keep DEF SaveRuntime, table
  <2>8. CASE FinishRemove
    BY <2>8, <2>keep DEF FinishRemove, table
  <2>9. CASE Resync
    BY <2>9, <2>keep DEF Resync, table, Control
  <2>10. CASE ResyncRuntime
    BY <2>10, <2>keep DEF ResyncRuntime, table
  <2>11. CASE LoadNext
    BY <2>11, <2>begin DEF LoadNext
  <2>12. CASE LoadFailed
    BY <2>12, <2>exit DEF LoadFailed
  <2>13. CASE LoadRejected
    BY <2>13, <2>exit DEF LoadRejected
  <2>14. CASE Crash
    BY <2>14, <2>exit DEF Crash
  <2>15. CASE Restart
    BY <2>15, <2>keep DEF Restart, table, Control
  <2>16. CASE UNCHANGED vars
    BY <2>16 DEF vars, table, AllRouted
  <2> QED BY <2>1, <2>2, <2>3, <2>4, <2>5, <2>6, <2>7, <2>8, <2>9, <2>10,
             <2>11, <2>12, <2>13, <2>14, <2>15, <2>16 DEF Next
<1> QED BY <1>1, <1>2, TypeCorrect, ControlInvariant, PTL DEF Spec

\* Between operations a Runtime that is Running has its routes installed and its
\* ports served, for any Runtimes, unless an Apply has failed.
THEOREM RunningReachable == Spec => []RunningIsRouted
<1>1. /\ Control
      /\ "listen" \notin failed => ListenersTrack
      /\ {"provider", "deploy", "listen"} \cap failed = {} => AllRouted
      => RunningIsRouted
  <2> SUFFICES ASSUME Control, "listen" \notin failed => ListenersTrack,
                      {"provider", "deploy", "listen"} \cap failed = {} => AllRouted,
                      {"provider", "deploy", "listen"} \cap failed = {}, op.kind = "none",
                      NEW k \in Keys
               PROVE  RoutesOf(k, specs[k]) \subseteq routes /\ PortsOf(specs[k]) \subseteq servers
    BY DEF RunningIsRouted
  <2>1. op.pc = "idle" /\ "listen" \notin failed
    BY DEF Control
  <2>2. RoutesOf(k, specs[k]) \subseteq routes /\ servers = RoutedPorts(routes)
    BY <2>1 DEF AllRouted, ListenersTrack
  <2> QED BY <2>2, PortsOfRoutes
<1> QED BY <1>1, ControlInvariant, ListenersTracked, RuntimesRouted, PTL

-----------------------------------------------------------------------------
(* Capacity *)

\* A sum over a finite domain counts finitely many units.
LEMMA UnitsFinite ==
  ASSUME NEW f, IsFiniteSet(DOMAIN f), \A x \in DOMAIN f : f[x] \in Nat
  PROVE  IsFiniteSet(UNION {{x} \X (1..f[x]) : x \in DOMAIN f})
<1> DEFINE U(x) == {x} \X (1..f[x])
<1>1. \A x \in DOMAIN f : IsFiniteSet(U(x))
  <2> SUFFICES ASSUME NEW x \in DOMAIN f PROVE IsFiniteSet(U(x))
    OBVIOUS
  <2>1. IsFiniteSet({x})
    BY FS_Singleton
  <2>2. IsFiniteSet(1..f[x])
    BY FS_Interval
  <2> QED BY <2>1, <2>2, FS_Product
<1> HIDE DEF U
<1>2. IsFiniteSet({U(x) : x \in DOMAIN f})
  <2> DEFINE T == {U(x) : x \in DOMAIN f}
             g == [x \in DOMAIN f |-> U(x)]
  <2>1. g \in Surjection(DOMAIN f, T)
    BY DEF Surjection
  <2> HIDE DEF T, g
  <2>2. IsFiniteSet(T)
    BY <2>1, FS_Surjection
  <2> QED BY <2>2 DEF T
<1>3. IsFiniteSet(UNION {U(x) : x \in DOMAIN f})
  BY <1>1, <1>2, FS_UNION
<1> QED BY <1>3 DEF U

\* A sum of naturals is one.
LEMMA TotalIsNat ==
  ASSUME NEW f, IsFiniteSet(DOMAIN f), \A x \in DOMAIN f : f[x] \in Nat
  PROVE  Total(f) \in Nat
BY UnitsFinite, FS_CardinalityType DEF Total

\* A sum grows with its terms.
LEMMA TotalMonotone ==
  ASSUME NEW f, NEW g, IsFiniteSet(DOMAIN g), DOMAIN f \subseteq DOMAIN g,
         \A x \in DOMAIN g : g[x] \in Nat,
         \A x \in DOMAIN f : f[x] \in Nat /\ f[x] <= g[x]
  PROVE  Total(f) <= Total(g)
<1> DEFINE F == UNION {{x} \X (1..f[x]) : x \in DOMAIN f}
           G == UNION {{x} \X (1..g[x]) : x \in DOMAIN g}
<1>1. F \subseteq G
  OBVIOUS
<1>2. IsFiniteSet(G)
  BY UnitsFinite
<1> HIDE DEF F, G
<1>3. Cardinality(F) <= Cardinality(G)
  BY <1>1, <1>2, FS_Subset
<1> QED BY <1>3 DEF Total, F, G

\* A term is no more than the sum.
LEMMA TermBelowTotal ==
  ASSUME NEW f, IsFiniteSet(DOMAIN f), \A x \in DOMAIN f : f[x] \in Nat, NEW y \in DOMAIN f
  PROVE  f[y] <= Total(f)
<1> DEFINE F == UNION {{x} \X (1..f[x]) : x \in DOMAIN f}
           S == {y} \X (1..f[y])
<1>1. S \subseteq F
  OBVIOUS
<1>2. IsFiniteSet(F)
  BY UnitsFinite
<1>3. IsFiniteSet({y}) /\ Cardinality({y}) = 1
  BY FS_Singleton
<1>4. IsFiniteSet(1..f[y]) /\ Cardinality(1..f[y]) = f[y]
  BY FS_Interval
<1>5. Cardinality(S) = f[y]
  <2>1. PICK A : A = {y}
    OBVIOUS
  <2>2. PICK B : B = 1..f[y]
    OBVIOUS
  <2>3. Cardinality(A \X B) = Cardinality(A) * Cardinality(B)
    BY <1>3, <1>4, <2>1, <2>2, FS_Product
  <2> QED BY <1>3, <1>4, <2>1, <2>2, <2>3
<1> HIDE DEF F, S
<1>6. Cardinality(S) <= Cardinality(F)
  BY <1>1, <1>2, FS_Subset
<1> QED BY <1>5, <1>6 DEF Total, F

\* What a document asks for is a sum of naturals.
LEMMA DemandType ==
  ASSUME NEW d \in Docs, NEW r \in Resources
  PROVE  /\ IsFiniteSet(DOMAIN Demands[d])
         /\ \A i \in DOMAIN Demands[d] :
              /\ Demands[d][i].each[r] \in Nat /\ Demands[d][i].replicas \in Nat
              /\ Demands[d][i].each[r] * Demands[d][i].replicas \in Nat
         /\ TrueRequest(d, r) \in Nat
<1>1. IsFiniteSet(DOMAIN Demands[d])
  BY CapacityAssumption, ConstantsAssumption
<1>2. ASSUME NEW i \in DOMAIN Demands[d]
      PROVE  /\ Demands[d][i].each[r] \in Nat /\ Demands[d][i].replicas \in Nat
             /\ Demands[d][i].each[r] * Demands[d][i].replicas \in Nat
  <2>1. Demands[d][i].each \in [Resources -> Nat] /\ Demands[d][i].replicas \in Nat
    BY CapacityAssumption, ConstantsAssumption DEF Amounts
  <2>2. \A m, n \in Nat : m * n \in Nat
    OBVIOUS
  <2> QED BY <2>1, <2>2
<1> DEFINE f == [i \in DOMAIN Demands[d] |->
                   Demands[d][i].each[r] * Demands[d][i].replicas]
<1>3. IsFiniteSet(DOMAIN f) /\ \A i \in DOMAIN f : f[i] \in Nat
  BY <1>1, <1>2
<1> HIDE DEF f
<1>4. Total(f) \in Nat
  BY <1>3, TotalIsNat
<1> QED BY <1>1, <1>2, <1>4 DEF f, TrueRequest

\* When what a document asks for fits int64, no amount of it is dropped.
LEMMA NothingDropped ==
  ASSUME NEW d \in Docs, NEW r \in Resources, TrueRequest(d, r) <= MaxInt
  PROVE  RuntimeResourceRequest(d, r) = TrueRequest(d, r)
<1> DEFINE f == [i \in DOMAIN Demands[d] |->
                   Demands[d][i].each[r] * Demands[d][i].replicas]
           g == [i \in DOMAIN Demands[d] |->
                   Parse(r, Demands[d][i].each[r]) * Demands[d][i].replicas]
<1>1. IsFiniteSet(DOMAIN f) /\ \A i \in DOMAIN f : f[i] \in Nat
  BY DemandType
<1>2. ASSUME NEW i \in DOMAIN Demands[d]
      PROVE  Parse(r, Demands[d][i].each[r]) * Demands[d][i].replicas
               = Demands[d][i].each[r] * Demands[d][i].replicas
  <2>1. PICK n \in Nat : n = Demands[d][i].each[r]
    BY DemandType
  <2>2. PICK m \in Nat : m = Demands[d][i].replicas
    BY DemandType
  <2>3. PICK u \in Nat \ {0} : u = Unit[r]
    BY CapacityAssumption
  <2>4. MaxInt \in Nat
    BY CapacityAssumption
  <2>5. n * m <= MaxInt
    <3> HIDE DEF f
    <3>1. f[i] <= Total(f)
      BY <1>1, TermBelowTotal DEF f
    <3>2. f[i] = n * m /\ Total(f) = TrueRequest(d, r)
      BY <2>1, <2>2 DEF f, TrueRequest
    <3> QED BY <3>1, <3>2, DemandType, <2>4
  <2>6. CASE m = 0
    <3>1. \A x \in Nat : x * 0 = 0
      OBVIOUS
    <3> QED BY <2>1, <2>2, <2>6, <3>1 DEF Parse
  <2>7. CASE m # 0
    <3>1. n <= n * m
      <4>1. PICK l \in Nat : m = l + 1
        BY <2>7, m - 1 \in Nat
      <4>2. n * (l + 1) = n * l + n /\ n * l \in Nat
        OBVIOUS
      <4> QED BY <4>1, <4>2
    <3>2. n <= MaxInt
      BY <2>4, <2>5, <3>1, n * m \in Nat
    <3>3. n \div u <= MaxInt \div u
      <4>1. \A x \in Nat : x \div u \in Nat /\ u * (x \div u) <= x /\ x < u * (x \div u) + u
        OBVIOUS
      <4>2. SUFFICES ASSUME n \div u > MaxInt \div u PROVE FALSE
        BY <2>4, <4>1
      <4>3. PICK a \in Nat : a = n \div u
        BY <4>1
      <4>4. PICK b \in Nat : b = MaxInt \div u
        BY <2>4, <4>1
      <4>5. PICK c \in Nat : a = b + 1 + c
        BY <4>2, <4>3, <4>4, a - b - 1 \in Nat
      <4>6. u * a = u * b + u + u * c /\ u * c \in Nat /\ u * b \in Nat
        BY <4>5
      <4>7. u * a <= n
        BY <4>1, <4>3
      <4>8. MaxInt < u * b + u
        BY <4>1, <4>4, <2>4
      <4> QED BY <4>6, <4>7, <4>8, <3>2, <2>4
    <3>4. Parse(r, n) = n
      <4>1. n \div u \in Int /\ MaxInt \div u \in Int
        BY <2>4
      <4> QED BY <2>3, <3>3, <4>1 DEF Parse
    <3> QED BY <2>1, <3>4
  <2> QED BY <2>6, <2>7
<1>3. f = g
  BY <1>2
<1> QED BY <1>3 DEF TrueRequest, RuntimeResourceRequest

\* What a node's Runtimes ask for together is a sum of naturals.
LEMMA TrueTerms ==
  ASSUME NEW docs \in [Keys -> MaybeDoc], NEW r \in Resources
  PROVE  /\ \A k \in Keys : (IF docs[k] \in DOMAIN Demands THEN TrueRequest(docs[k], r) ELSE 0) \in Nat
         /\ TrueTotal(docs, r) \in Nat
<1> DEFINE f == [k \in DOMAIN docs |->
                   IF docs[k] \in DOMAIN Demands THEN TrueRequest(docs[k], r) ELSE 0]
<1>1. \A k \in Keys : (IF docs[k] \in DOMAIN Demands THEN TrueRequest(docs[k], r) ELSE 0) \in Nat
  <2> TAKE k \in Keys
  <2>1. CASE docs[k] \in DOMAIN Demands
    <3>1. docs[k] \in Docs
      BY <2>1, ConstantsAssumption
    <3>2. TrueRequest(docs[k], r) \in Nat
      BY <3>1, DemandType
    <3> QED BY <2>1, <3>2
  <2>2. CASE docs[k] \notin DOMAIN Demands
    BY <2>2
  <2> QED BY <2>1, <2>2
<1>2. IsFiniteSet(DOMAIN f) /\ \A k \in DOMAIN f : f[k] \in Nat
  BY <1>1, ConstantsAssumption
<1> HIDE DEF f
<1>3. Total(f) \in Nat
  BY <1>2, TotalIsNat
<1> QED BY <1>1, <1>3 DEF f, TrueTotal

\* A number that int64 holds does not wrap.
LEMMA WrapSmall ==
  ASSUME NEW n \in Nat, n <= MaxInt
  PROVE  Wrap(n) = n
<1>1. PICK m \in Nat : m = MaxInt
  BY CapacityAssumption
<1>2. \A x, y \in Nat : x < y => x % y = x
  OBVIOUS
<1>3. (n + m + 1) % (2 * m + 2) = n + m + 1
  <2>1. n + m + 1 \in Nat /\ 2 * m + 2 \in Nat /\ n + m + 1 < 2 * m + 2
    BY <1>1
  <2> QED BY <1>2, <2>1
<1> QED BY <1>1, <1>3 DEF Wrap

\* When what the Runtimes ask for fits int64, resourceSnapshotFor computes it.
LEMMA RequestedIsTrue ==
  ASSUME NEW docs \in [Keys -> MaybeDoc], NEW r \in Resources, TrueTotal(docs, r) <= MaxInt
  PROVE  Requested(docs, r) = TrueTotal(docs, r)
<1> DEFINE f == [k \in DOMAIN docs |->
                   IF docs[k] \in DOMAIN Demands THEN TrueRequest(docs[k], r) ELSE 0]
           g == [k \in DOMAIN docs |->
                   IF docs[k] \in DOMAIN Demands THEN RuntimeResourceRequest(docs[k], r) ELSE 0]
<1>1. IsFiniteSet(DOMAIN f) /\ \A k \in DOMAIN f : f[k] \in Nat
  BY TrueTerms, ConstantsAssumption
<1>2. ASSUME NEW k \in Keys, docs[k] \in DOMAIN Demands
      PROVE  RuntimeResourceRequest(docs[k], r) = TrueRequest(docs[k], r)
  <2>1. docs[k] \in Docs
    BY <1>2, ConstantsAssumption
  <2>2. TrueRequest(docs[k], r) <= MaxInt
    <3>1. f[k] = TrueRequest(docs[k], r) /\ Total(f) = TrueTotal(docs, r) /\ k \in DOMAIN f
      BY <1>2 DEF TrueTotal
    <3>2. TrueTotal(docs, r) \in Nat /\ TrueRequest(docs[k], r) \in Nat /\ MaxInt \in Nat
      BY <2>1, TrueTerms, DemandType, CapacityAssumption
    <3> HIDE DEF f
    <3>3. f[k] <= Total(f)
      BY <1>1, <3>1, TermBelowTotal
    <3> QED BY <3>1, <3>2, <3>3
  <2> QED BY <2>1, <2>2, NothingDropped
<1>3. f = g
  BY <1>2
<1>4. Wrap(TrueTotal(docs, r)) = TrueTotal(docs, r)
  BY TrueTerms, WrapSmall
<1> QED BY <1>3, <1>4 DEF Requested, TrueTotal

\* Admission keeps the node's capacity, unless a sum is too large for int64.
LEMMA AdmittedFits ==
  ASSUME NEW docs \in [Keys -> MaybeDoc], WithinCapacity(docs), ~Overflows(docs)
  PROVE  Fits(docs)
<1> SUFFICES ASSUME NEW r \in Resources, NodeAllocatable[r] > 0
             PROVE  TrueTotal(docs, r) <= NodeAllocatable[r]
  BY DEF Fits
<1>1. TrueTotal(docs, r) \in Nat /\ MaxInt \in Nat
  BY TrueTerms, CapacityAssumption
<1>2. TrueTotal(docs, r) <= MaxInt
  BY <1>1 DEF Overflows
<1>3. Requested(docs, r) = TrueTotal(docs, r)
  BY <1>2, RequestedIsTrue
<1> QED BY <1>3 DEF WithinCapacity

\* Runtimes that fit also fit when some of them are gone.
LEMMA FewerFit ==
  ASSUME NEW docs \in [Keys -> MaybeDoc], NEW fewer \in [Keys -> MaybeDoc],
         \A k \in Keys : fewer[k] \in {docs[k], NoDoc}, Fits(docs)
  PROVE  Fits(fewer)
<1> SUFFICES ASSUME NEW r \in Resources, NodeAllocatable[r] > 0
             PROVE  TrueTotal(fewer, r) <= NodeAllocatable[r]
  BY DEF Fits
<1> DEFINE f == [k \in DOMAIN fewer |->
                   IF fewer[k] \in DOMAIN Demands THEN TrueRequest(fewer[k], r) ELSE 0]
           g == [k \in DOMAIN docs |->
                   IF docs[k] \in DOMAIN Demands THEN TrueRequest(docs[k], r) ELSE 0]
<1>1. IsFiniteSet(DOMAIN g) /\ DOMAIN f = Keys /\ DOMAIN g = Keys
  BY ConstantsAssumption
<1>2. \A k \in Keys : f[k] \in Nat /\ g[k] \in Nat
  BY TrueTerms
<1>3. NoDoc \notin DOMAIN Demands
  BY ConstantsAssumption
<1>4. \A k \in Keys : f[k] \in {g[k], 0}
  BY <1>3
<1>5. Total(f) = TrueTotal(fewer, r) /\ Total(g) = TrueTotal(docs, r)
  BY DEF TrueTotal
<1> HIDE DEF f, g
<1>6. \A k \in Keys : f[k] <= g[k]
  BY <1>2, <1>4
<1>7. Total(f) <= Total(g)
  BY <1>1, <1>2, <1>6, TotalMonotone
<1>8. TrueTotal(docs, r) <= NodeAllocatable[r]
  BY DEF Fits
<1>9. TrueTotal(docs, r) \in Nat /\ TrueTotal(fewer, r) \in Nat /\ NodeAllocatable[r] \in Nat
  BY TrueTerms, CapacityAssumption DEF NodeAllocatable, Amounts
<1> QED BY <1>5, <1>7, <1>8, <1>9

\* A node without Runtimes has room for them.
LEMMA NothingFits ==
  ASSUME NEW docs \in [Keys -> MaybeDoc], \A k \in Keys : docs[k] = NoDoc
  PROVE  Fits(docs)
<1> SUFFICES ASSUME NEW r \in Resources, NodeAllocatable[r] > 0
             PROVE  TrueTotal(docs, r) <= NodeAllocatable[r]
  BY DEF Fits
<1> DEFINE f == [k \in DOMAIN docs |->
                   IF docs[k] \in DOMAIN Demands THEN TrueRequest(docs[k], r) ELSE 0]
<1>1. \A k \in Keys : f[k] = 0
  BY ConstantsAssumption
<1>2. UNION {{k} \X (1..f[k]) : k \in DOMAIN f} = {}
  BY <1>1
<1>3. TrueTotal(docs, r) = 0
  BY <1>2, FS_EmptySet DEF TrueTotal, Total
<1>4. NodeAllocatable[r] \in Nat
  BY CapacityAssumption DEF NodeAllocatable, Amounts
<1> QED BY <1>3, <1>4

\* No Runtime the agent holds, nor what a rollback would put back, asks for more
\* than is left on the node, until a sum has wrapped or Remove failed half way.
THEOREM CapacityKept ==
  Spec => []({"rm", "overflow"} \cap failed = {} => Fits(specs) /\ RollbackFits)
<1> DEFINE Clean == {"rm", "overflow"} \cap failed = {}
           Inv == Fits(specs) /\ RollbackFits
<1>1. Init => Inv
  <2> SUFFICES ASSUME Init PROVE Inv
    OBVIOUS
  <2>1. specs \in [Keys -> MaybeDoc] /\ \A k \in Keys : specs[k] = NoDoc
    BY DEF Init, MaybeDoc
  <2>2. op.pc = "idle"
    BY IdleFields DEF Init
  <2> QED BY <2>1, <2>2, NothingFits DEF RollbackFits
<1>2. TypeOK /\ TypeOK' /\ Control /\ ("rm" \notin failed => SpecsCompatible /\ NothingForgotten)
        /\ (Clean => Inv) /\ [Next]_vars => (Clean => Inv)'
  <2> SUFFICES ASSUME TypeOK, TypeOK', Control, [Next]_vars, Clean', Clean => Inv,
                      "rm" \notin failed => SpecsCompatible /\ NothingForgotten
               PROVE  Inv'
    OBVIOUS
  <2>clean. Clean /\ Inv /\ NothingForgotten
    BY FailuresStay
  <2> USE <2>clean
  <2>type. /\ op.key \in Keys /\ specs \in [Keys -> MaybeDoc] /\ saved \in [Keys -> MaybeDoc]
           /\ op.doc \in MaybeDoc /\ op.prev.doc \in MaybeDoc /\ specs' \in [Keys -> MaybeDoc]
    BY DEF TypeOK, Previous
  <2>same. specs' = specs /\ op'.pc # "provision" => Inv'
    BY DEF RollbackFits, Fits, TrueTotal
  <2>fewer. ASSUME \A k \in Keys : specs'[k] \in {specs[k], NoDoc}, op'.pc # "provision"
            PROVE  Inv'
    <3>1. Fits(specs')
      BY <2>fewer, <2>type, FewerFit
    <3> QED BY <2>fewer, <3>1 DEF RollbackFits, Fits, TrueTotal
  <2>begin. ASSUME NEW k \in Keys, NEW d \in MaybeDoc, BeginApply(k, d), op.kind = "none",
                   \/ agent = "serving"
                   \/ agent = "loading" /\ k \in queue /\ d = saved[k]
            PROVE  Inv'
    <3>1. /\ op'.key = k /\ op'.prev = PreviousOf(k) /\ specs' = [specs EXCEPT ![k] = d]
          /\ specs' = With(k, d)
      BY <2>begin DEF BeginApply, With
    <3>2. ~Overflows(With(k, d))
      BY <2>begin DEF BeginApply
    <3>3. Fits(specs')
      <4>1. WithinCapacity(With(k, d))
        BY <2>begin DEF BeginApply, Admissible
      <4> QED BY <3>1, <3>2, <4>1, <2>type, AdmittedFits
    <3> DEFINE back == [specs' EXCEPT ![k] = PreviousOf(k).doc]
    <3>4. Fits(back)
      <4>1. CASE specs[k] # NoDoc
        <5>1. back = specs
          BY <3>1, <4>1, <2>type DEF PreviousOf
        <5> QED BY <5>1
      <4>2. CASE specs[k] = NoDoc /\ agent = "serving"
        <5>1. saved[k] = NoDoc
          BY <4>2, <2>begin DEF NothingForgotten, Control
        <5>2. back = specs
          BY <3>1, <4>2, <5>1, <2>type DEF PreviousOf
        <5> QED BY <5>2
      <4>3. CASE specs[k] = NoDoc /\ agent = "loading"
        <5>1. d = saved[k]
          BY <4>3, <2>begin
        <5>2. back = specs'
          BY <3>1, <4>3, <5>1, <2>type DEF PreviousOf
        <5> QED BY <3>3, <5>2
      <4> QED BY <2>begin, <4>1, <4>2, <4>3
    <3>5. With(op.key, op.prev.doc)' = back
      BY <3>1 DEF With
    <3>6. Fits(With(op.key, op.prev.doc))'
      BY <3>4, <3>5 DEF Fits, TrueTotal
    <3>7. Fits(specs)'
      BY <3>3 DEF Fits, TrueTotal
    <3> QED BY <3>6, <3>7 DEF RollbackFits
  <2>exit. Exit => Inv'
    <3> SUFFICES ASSUME Exit PROVE Inv'
      OBVIOUS
    <3>1. \A k \in Keys : specs'[k] = NoDoc
      BY DEF Exit
    <3>2. op'.pc = "idle"
      BY IdleFields DEF Exit
    <3> QED BY <3>1, <3>2, <2>fewer
  <2>done. \A ok : Done(ok) => op'.pc # "provision"
    BY IdleFields DEF Done
  <2>goto. \A l : Goto(l) => op'.pc = l
    BY DEF Goto, TypeOK
  \* A document that is in memory already is written again.
  <2>again. specs[op.key] = op.doc => [specs EXCEPT ![op.key] = op.doc] = specs
    BY <2>type
  <2>1. ASSUME NEW k \in Keys, NEW d \in Docs, Apply(k, d) PROVE Inv'
    BY <2>1, <2>begin DEF Apply, MaybeDoc
  <2>2. ASSUME NEW k \in Keys, Remove(k) PROVE Inv'
    <3>1. op'.pc = "removeOwned"
      BY <2>2 DEF Remove, Idle
    <3>2. \A j \in Keys : specs'[j] \in {specs[j], NoDoc}
      BY <2>2, <2>type DEF Remove
    <3> QED BY <2>fewer, <3>1, <3>2
  <2>3. CASE Provision
    <3>1. op.pc = "provision" /\ specs[op.key] = op.doc
      BY <2>3 DEF Provision, Control
    <3>2. CASE Goto("install") /\ UNCHANGED specs
      BY <3>2, <2>goto, <2>same
    <3>3. CASE RecordFailed /\ Done(FALSE)
      BY <3>1, <3>3, <2>done, <2>same, <2>again DEF RecordFailed
    <3>4. CASE RestorePrevious /\ Done(FALSE)
      <4>1. specs' = With(op.key, op.prev.doc)
        BY <3>4 DEF RestorePrevious, With
      <4>2. Fits(specs')
        BY <3>1, <4>1 DEF RollbackFits
      <4>3. op'.pc # "provision"
        BY <3>4, <2>done
      <4> QED BY <4>2, <4>3 DEF RollbackFits, Fits, TrueTotal
    <3> QED BY <2>3, <3>2, <3>3, <3>4 DEF Provision
  <2>4. CASE InstallRoutes
    <3>1. specs[op.key] = op.doc /\ specs' = [specs EXCEPT ![op.key] = op.doc]
      BY <2>4 DEF InstallRoutes, Control
    <3>2. op'.pc = "start"
      BY <2>4, <2>goto DEF InstallRoutes
    <3> QED BY <2>again, <2>same, <3>1, <3>2
  <2>5. CASE StartPort
    <3>1. op.pc = "start" /\ specs[op.key] = op.doc
      BY <2>5 DEF StartPort, Control
    <3>2. specs' = specs
      BY <2>5, <2>again, <3>1 DEF StartPort, RecordFailed
    <3>3. op'.pc # "provision"
      BY <2>5, <2>done, <2>goto, <3>1 DEF StartPort
    <3> QED BY <2>same, <3>2, <3>3
  <2>6. CASE StopPorts
    BY <2>6, <2>goto, <2>same DEF StopPorts
  <2>7. CASE SaveRuntime
    BY <2>7, <2>done, <2>same DEF SaveRuntime
  <2>8. CASE FinishRemove
    BY <2>8, <2>done, <2>same DEF FinishRemove
  <2>9. CASE Resync
    <3>1. op'.pc = "resync" /\ specs' = specs
      BY <2>9 DEF Resync, TypeOK
    <3> QED BY <2>same, <3>1
  <2>10. CASE ResyncRuntime
    <3>1. op.pc = "resync" /\ specs' = specs
      BY <2>10 DEF ResyncRuntime
    <3>2. op' = op \/ \E ok : Done(ok)
      BY <2>10 DEF ResyncRuntime
    <3> QED BY <2>done, <2>same, <3>1, <3>2
  <2>11. CASE LoadNext
    BY <2>11, <2>begin, <2>type DEF LoadNext, First
  <2>12. CASE LoadFailed
    BY <2>12, <2>exit DEF LoadFailed
  <2>13. CASE LoadRejected
    BY <2>13, <2>exit DEF LoadRejected
  <2>14. CASE Crash
    BY <2>14, <2>exit DEF Crash
  <2>15. CASE Restart
    <3>1. op.pc = "idle" /\ op' = op /\ specs' = specs
      BY <2>15 DEF Restart, Control
    <3> QED BY <2>same, <3>1
  <2>16. CASE UNCHANGED vars
    BY <2>16 DEF vars, RollbackFits, Fits, TrueTotal, With
  <2> QED BY <2>1, <2>2, <2>3, <2>4, <2>5, <2>6, <2>7, <2>8, <2>9, <2>10,
             <2>11, <2>12, <2>13, <2>14, <2>15, <2>16 DEF Next
<1> QED BY <1>1, <1>2, TypeCorrect, ControlInvariant, NothingIsForgotten, PTL DEF Spec

\* Until a write has failed as well, the documents on disk fit on the node: Load
\* admits each of them whenever the agent crashes.
THEOREM NeverOvercommitted == Spec => []NotOvercommitted
<1> DEFINE Fine == {"rm", "overflow"} \cap failed = {}
           Clean == {"rm", "save", "overflow"} \cap failed = {}
<1>1. Init => Fits(saved)
  <2> SUFFICES ASSUME Init PROVE Fits(saved)
    OBVIOUS
  <2>1. saved \in [Keys -> MaybeDoc] /\ \A k \in Keys : saved[k] = NoDoc
    BY DEF Init, MaybeDoc
  <2> QED BY <2>1, NothingFits
<1>2. TypeOK /\ TypeOK' /\ Control /\ (Fine => Fits(specs) /\ RollbackFits)
        /\ ({"rm", "save"} \cap failed = {} => FilesCompatible /\ InSync)
        /\ (Clean => Fits(saved)) /\ [Next]_vars => (Clean => Fits(saved))'
  <2> SUFFICES ASSUME TypeOK, TypeOK', Control, [Next]_vars, Clean', Clean => Fits(saved),
                      Fine => Fits(specs) /\ RollbackFits,
                      {"rm", "save"} \cap failed = {} => FilesCompatible /\ InSync
               PROVE  Fits(saved)'
    OBVIOUS
  <2>clean. Fits(saved) /\ Fits(specs) /\ InSync
    BY FailuresStay
  <2>type. /\ op.key \in Keys /\ specs \in [Keys -> MaybeDoc] /\ saved \in [Keys -> MaybeDoc]
           /\ saved' \in [Keys -> MaybeDoc] /\ agent \in {"down", "loading", "serving", "exiting"}
    BY DEF TypeOK
  <2> SUFFICES Fits(saved')
    BY DEF Fits, TrueTotal
  <2>same. saved' = saved => Fits(saved')
    BY <2>clean
  \* The document of an Apply may be written at any time: it is in memory, where
  \* it fits, or it is the one loaded from this file.
  <2>write. ASSUME op.kind = "apply", saved' = [saved EXCEPT ![op.key] = op.doc]
            PROVE  Fits(saved')
    <3>1. specs[op.key] = op.doc /\ agent \in {"serving", "loading"}
      BY <2>write, <2>type DEF Control
    <3>2. CASE agent = "serving"
      <4>1. \A k \in Keys \ {op.key} : specs[k] = saved[k]
        BY <2>clean, <3>2 DEF InSync
      <4>2. saved' = specs
        BY <2>type, <2>write, <3>1, <4>1
      <4> QED BY <2>clean, <4>2
    <3>3. CASE agent = "loading"
      <4>1. op.doc = saved[op.key]
        BY <2>clean, <2>write, <3>3 DEF InSync
      <4>2. saved' = saved
        BY <2>type, <2>write, <4>1
      <4> QED BY <2>same, <4>2
    <3> QED BY <3>1, <3>2, <3>3
  <2>1. ASSUME NEW k \in Keys, NEW d \in Docs, Apply(k, d) PROVE saved' = saved
    BY <2>1 DEF Apply, BeginApply
  <2>2. ASSUME NEW k \in Keys, Remove(k) PROVE saved' = saved
    BY <2>2 DEF Remove
  <2>3. ASSUME Provision PROVE Fits(saved')
    <3>1. op.pc = "provision" /\ op.kind = "apply"
      BY <2>3 DEF Provision, Control
    <3>2. CASE RecordFailed
      BY <2>write, <3>1, <3>2 DEF RecordFailed
    <3>3. CASE RestorePrevious
      <4>1. op.prev.doc = saved[op.key]
        BY <2>clean, <3>1 DEF InSync
      <4>2. saved' = saved
        BY <2>type, <3>3, <4>1 DEF RestorePrevious
      <4> QED BY <2>same, <4>2
    <3> QED BY <2>3, <2>same, <3>2, <3>3 DEF Provision
  <2>4. InstallRoutes \/ StopPorts \/ Resync \/ LoadNext \/ Restart => saved' = saved
    BY DEF InstallRoutes, StopPorts, Resync, LoadNext, BeginApply, Restart
  <2>5. ASSUME StartPort PROVE Fits(saved')
    <3>1. op.kind = "apply"
      BY <2>5 DEF StartPort, Control
    <3> QED BY <2>5, <2>same, <2>write, <3>1 DEF StartPort, RecordFailed
  <2>6. ASSUME SaveRuntime PROVE Fits(saved')
    <3>1. op.kind = "apply"
      BY <2>6 DEF SaveRuntime, Control
    <3> QED BY <2>6, <2>same, <2>write, <3>1 DEF SaveRuntime
  <2>7. ASSUME FinishRemove PROVE Fits(saved')
    <3>1. \A k \in Keys : saved'[k] \in {saved[k], NoDoc}
      BY <2>7, <2>type DEF FinishRemove
    <3> QED BY <2>clean, <2>type, <3>1, FewerFit
  <2>8. ASSUME ResyncRuntime PROVE saved' = saved
    <3>1. op.kind = "resync" /\ agent = "serving"
      BY <2>8 DEF ResyncRuntime, Control, TypeOK, Kinds
    <3>2. \A k \in Keys : specs[k] = saved[k]
      BY <2>clean, <3>1 DEF InSync
    <3>3. PICK k \in Keys : saved' = saved \/ saved' = [saved EXCEPT ![k] = specs[k]]
      BY <2>8 DEF ResyncRuntime
    <3> QED BY <2>type, <3>2, <3>3
  <2>9. LoadFailed \/ LoadRejected \/ Crash => saved' = saved
    BY DEF LoadFailed, LoadRejected, Crash, Exit
  <2>10. UNCHANGED vars => saved' = saved
    BY DEF vars
  <2> QED BY <2>same, <2>1, <2>2, <2>3, <2>4, <2>5, <2>6, <2>7, <2>8, <2>9, <2>10 DEF Next
<1>3. (Fine => Fits(specs) /\ RollbackFits) /\ (Clean => Fits(saved)) => NotOvercommitted
  BY DEF NotOvercommitted
<1> QED BY <1>1, <1>2, <1>3, TypeCorrect, ControlInvariant, CapacityKept, DiskMatchesMemory,
           PTL DEF Spec

=============================================================================
