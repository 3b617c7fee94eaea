------------------------------ MODULE SelfHeal ------------------------------
(***************************************************************************)
(* Self-healing of the replicas of one deployment while the agent runs:    *)
(* every operation visits the replicas in order (ensureDeployment), starts *)
(* the missing ones, restarts the ones that are down as far as the limit   *)
(* and the backoff of their restart record allow, and returns at the first *)
(* error, leaving the replicas after it to the next Resync.                *)
(*                                                                         *)
(* Records are kept by container name in memory: they outlive the Runtime  *)
(* and not the agent, so an agent that starts is the initial state.  Time  *)
(* passes in units of the backoff's resolution; a record keeps how long it *)
(* is until NextAttempt.                                                   *)
(*                                                                         *)
(* Abstractions: the document does not change (replacing drifted           *)
(* containers is in module Rollout); Count only tells zero from more.      *)
(***************************************************************************)
EXTENDS Integers, FiniteSets

CONSTANTS
  N,            \* replicas
  MaxRestarts,  \* selfHeal.maxRestarts
  Backoff,      \* selfHeal.backoff, in ticks
  MaxStops,     \* bound on containers that go down or are revived by Docker
  MaxFaults,    \* bound on failing Docker commands
  MaxRemoves    \* bound on removals of the Runtime

\* NormalizeRuntimeConfig replaces limits and backoffs that are not positive.
ASSUME ConstantsAssumption ==
  /\ {N, MaxRestarts, Backoff} \subseteq Nat \ {0}
  /\ {MaxStops, MaxFaults, MaxRemoves} \subseteq Nat

Replicas == 1..N
MaxWait == MaxRestarts * Backoff

VARIABLES
  con,       \* the container of each replica
  rec,       \* m.restarts
  present,   \* the Runtime is in m.specs
  pc, at,    \* the operation in progress and the replica it is at
  enabled,   \* selfHeal.enabled
  broken,    \* replicas whose containers never become ready
  seen,      \* auxiliary: the last operation that visited found it ready
  heals,     \* auxiliary: restarts begun since it was last found ready
  since,     \* auxiliary: time since the last restart began
  gap,       \* auxiliary: its number in the row, times the backoff
  used       \* how much of each bound is used up

history == <<seen, heals, since, gap>>
vars == <<con, rec, present, pc, at, enabled, broken, history, used>>

-----------------------------------------------------------------------------

\* containerRuntimeState as far as Ready and NeedsRestart look at it: starting
\* is running and not yet healthy, down is exited or unhealthy.
States == {"absent", "starting", "ready", "down"}
NoMessage == ""
Reasons == {NoMessage, "disabled", "restarting", "backoff", "limit"}
NoRecord == [count |-> 0, streak |-> 0, wait |-> 0, reason |-> NoMessage]

TypeOK ==
  /\ con \in [Replicas -> States]
  /\ rec \in [Replicas -> [count : 0..1, streak : 0..MaxRestarts, wait : 0..MaxWait,
                           reason : Reasons]]
  /\ present \in BOOLEAN /\ enabled \in BOOLEAN /\ broken \subseteq Replicas
  /\ pc \in {"idle", "visit", "rm", "run", "wait"} /\ at \in Replicas
  /\ seen \in [Replicas -> BOOLEAN]
  /\ heals \in [Replicas -> Nat]
  /\ since \in [Replicas -> 0..MaxWait] /\ gap \in [Replicas -> Nat]
  /\ used \in [stops : 0..MaxStops, faults : 0..MaxFaults, removes : 0..MaxRemoves]

Uses(what) == used' = [used EXCEPT ![what] = @ + 1]
Goto(label) == pc' = label /\ at' = at
Lesser(a, b) == IF a < b THEN a ELSE b

-----------------------------------------------------------------------------
(* The operations.                                                         *)

\* An operation ends with an error or after the last replica, and goes on to
\* the next replica otherwise.
Abort == pc' = "idle" /\ at' = 1
NextReplica == IF at = N THEN Abort ELSE pc' = "visit" /\ at' = at + 1

\* Resync, every interval and after Docker events, for a Runtime in memory.
Resync ==
  /\ pc = "idle" /\ present
  /\ pc' = "visit" /\ at' = 1
  /\ UNCHANGED <<con, rec, present, enabled, broken, history, used>>

\* The Runtime is applied again after it was removed.
Apply ==
  /\ pc = "idle" /\ ~present
  /\ present' = TRUE /\ pc' = "visit" /\ at' = 1
  /\ UNCHANGED <<con, rec, enabled, broken, history, used>>

\* Mutant: removing the Runtime starts the row of restarts anew.
RemoveResets ==
  /\ pc = "idle" /\ present /\ used.removes < MaxRemoves /\ Uses("removes")
  /\ present' = FALSE
  /\ con' = [i \in Replicas |-> "absent"]
  /\ rec' = [i \in Replicas |-> [rec[i] EXCEPT !.streak = 0]]
  /\ UNCHANGED <<pc, at, enabled, broken, history>>

\* Remove leaves the restart records behind.
Remove ==
  /\ pc = "idle" /\ present /\ used.removes < MaxRemoves /\ Uses("removes")
  /\ present' = FALSE
  /\ con' = [i \in Replicas |-> "absent"]
  /\ UNCHANGED <<rec, pc, at, enabled, broken, history>>

VisitAbsent ==
  /\ pc = "visit" /\ con[at] = "absent"
  /\ Goto("run")
  /\ UNCHANGED <<con, rec, present, enabled, broken, history, used>>

\* Mutant: a healthy container keeps the message of its last failure.
KeepsReason(r) == IF r.count = 0 /\ r.streak = 0 THEN r ELSE [r EXCEPT !.streak = 0]

\* markRestartHealthy
Healthy(r) ==
  IF r.count = 0 /\ r.streak = 0 THEN r ELSE [r EXCEPT !.streak = 0, !.reason = NoMessage]

\* A container that is ready, or that is still starting and left alone.
VisitUp ==
  /\ pc = "visit" /\ con[at] \in {"ready", "starting"}
  /\ NextReplica
  /\ IF con[at] = "ready"
     THEN /\ rec' = [rec EXCEPT ![at] = Healthy(@)]
          /\ seen' = [seen EXCEPT ![at] = TRUE]
          /\ heals' = [heals EXCEPT ![at] = 0]
     ELSE /\ seen' = [seen EXCEPT ![at] = FALSE]
          /\ UNCHANGED <<rec, heals>>
  /\ UNCHANGED <<con, present, enabled, broken, since, gap, used>>

\* Mutant: one restart more than the limit.
OneMore(r) == r.streak > MaxRestarts
\* Mutant: every restart waits as long as the first.
ConstantBackoff(r) == Backoff

LimitExceeded(r) == r.streak >= MaxRestarts
NextBackoff(r) == (r.streak + 1) * Backoff

\* The record of an attempt, kept before the container is removed.
Attempted(r) ==
  [count |-> 1, streak |-> r.streak + 1, wait |-> NextBackoff(r), reason |-> "restarting"]

\* Mutant: a restart that is declined ends the operation.
DeclinesAll(reason) ==
  /\ rec' = [rec EXCEPT ![at].reason = reason]
  /\ Abort
  /\ UNCHANGED <<heals, since, gap>>

\* setRestartMessage, and on to the next replica.
Declines(reason) ==
  /\ rec' = [rec EXCEPT ![at].reason = reason]
  /\ NextReplica
  /\ UNCHANGED <<heals, since, gap>>

\* healContainer of a container that is down.
Heal ==
  /\ pc = "visit" /\ con[at] = "down"
  /\ seen' = [seen EXCEPT ![at] = FALSE]
  /\ \/ ~enabled /\ Declines("disabled")
     \/ enabled /\ LimitExceeded(rec[at]) /\ Declines("limit")
     \/ enabled /\ ~LimitExceeded(rec[at]) /\ rec[at].wait > 0 /\ Declines("backoff")
     \/ /\ enabled /\ ~LimitExceeded(rec[at]) /\ rec[at].wait = 0
        /\ rec' = [rec EXCEPT ![at] = Attempted(@)]
        /\ heals' = [heals EXCEPT ![at] = @ + 1]
        /\ since' = [since EXCEPT ![at] = 0]
        /\ gap' = [gap EXCEPT ![at] = heals'[at] * Backoff]
        /\ Goto("rm")
  /\ UNCHANGED <<con, present, enabled, broken, used>>

RemoveContainer ==
  /\ pc = "rm"
  /\ con' = [con EXCEPT ![at] = "absent"]
  /\ Goto("run")
  /\ UNCHANGED <<rec, present, enabled, broken, history, used>>

RunContainer ==
  /\ pc = "run"
  /\ con' = [con EXCEPT ![at] = "starting"]
  /\ Goto("wait")
  /\ UNCHANGED <<rec, present, enabled, broken, history, used>>

\* waitContainerReady: until the container is ready, or the deadline passes.
WaitReady ==
  /\ pc = "wait"
  /\ IF con[at] = "ready" THEN NextReplica ELSE Abort
  /\ UNCHANGED <<con, rec, present, enabled, broken, history, used>>

\* An inspect, rm, pull or run that fails ends the operation.
Fault ==
  /\ pc \in {"visit", "rm", "run"} /\ used.faults < MaxFaults /\ Uses("faults")
  /\ Abort
  /\ UNCHANGED <<con, rec, present, enabled, broken, history>>

-----------------------------------------------------------------------------
(* Docker and time.                                                        *)

\* A container that starts becomes ready, or goes down if it is broken; Docker's
\* restart policy may bring one that is down back by itself.
Becomes(i) ==
  /\ con[i] = "starting"
  /\ con' = [con EXCEPT ![i] = IF i \in broken THEN "down" ELSE "ready"]
  /\ UNCHANGED <<rec, present, pc, at, enabled, broken, history, used>>

Revives(i) ==
  /\ con[i] = "down" /\ used.stops < MaxStops /\ Uses("stops")
  /\ con' = [con EXCEPT ![i] = "starting"]
  /\ UNCHANGED <<rec, present, pc, at, enabled, broken, history>>

Stops(i) ==
  /\ con[i] = "ready" /\ used.stops < MaxStops /\ Uses("stops")
  /\ con' = [con EXCEPT ![i] = "down"]
  /\ UNCHANGED <<rec, present, pc, at, enabled, broken, history>>

Tick ==
  /\ \E i \in Replicas : rec[i].wait > 0 \/ since[i] < MaxWait
  /\ rec' = [i \in Replicas |-> [rec[i] EXCEPT !.wait = IF @ > 0 THEN @ - 1 ELSE 0]]
  /\ since' = [i \in Replicas |-> Lesser(since[i] + 1, MaxWait)]
  /\ UNCHANGED <<con, present, pc, at, enabled, broken, seen, heals, gap, used>>

-----------------------------------------------------------------------------

Init ==
  /\ con \in [Replicas -> {"absent", "ready", "down"}]
  /\ rec = [i \in Replicas |-> NoRecord]
  /\ present = TRUE /\ pc = "idle" /\ at = 1
  /\ enabled \in BOOLEAN /\ broken \in SUBSET Replicas
  /\ \A i \in broken : con[i] # "ready"
  /\ seen = [i \in Replicas |-> FALSE]
  /\ heals = [i \in Replicas |-> 0] /\ gap = heals
  /\ since = [i \in Replicas |-> MaxWait]
  /\ used = [stops |-> 0, faults |-> 0, removes |-> 0]

Works == VisitAbsent \/ VisitUp \/ Heal \/ RemoveContainer \/ RunContainer \/ WaitReady
Docker == \E i \in Replicas : Becomes(i)
Next ==
  \/ Resync \/ Apply \/ Remove \/ Works \/ Fault \/ Tick \/ Docker
  \/ \E i \in Replicas : Revives(i) \/ Stops(i)

\* The ticker of StartRuntimeResync keeps calling Resync, an operation that has
\* begun goes on, time passes, and a container that starts comes to something.
Fairness == WF_vars(Resync) /\ WF_vars(Works) /\ WF_vars(Tick) /\ WF_vars(Docker)

Spec == Init /\ [][Next]_vars /\ Fairness

-----------------------------------------------------------------------------

(* However its restarts fail, and through removals of the Runtime, a       *)
(* container is removed by self-heal at most MaxRestarts times between two *)
(* visits that find it ready: healContainer keeps the attempt before it    *)
(* makes it (config-reference: "Maximum restart attempts").                *)
HealsBounded == \A i \in Replicas : heals[i] <= MaxRestarts

(* A restart waits attempt * backoff after the one before it, also when a  *)
(* visit has found the container ready in between or the Runtime was       *)
(* removed and applied again: NextAttempt in healContainer.                *)
BackoffHonoured ==
  [][\A i \in Replicas : heals'[i] > heals[i] => since[i] >= gap[i]]_vars

(* With self-heal enabled, a container found ready by the last operation   *)
(* that visited it carries no message of an earlier failure into the       *)
(* status: markRestartHealthy and restartMessagesByDeployment.             *)
ReadyHasNoMessage ==
  \A i \in Replicas : enabled /\ seen[i] => rec[i].reason = NoMessage

(* With self-heal enabled, every container of a Runtime that is down is    *)
(* sooner or later ready or given up, or the Runtime is removed, although an       *)
(* operation returns at its first error: a replica that never becomes      *)
(* ready uses up its limit and then no longer keeps the operations from    *)
(* the replicas after it.                                                  *)
DownIsHandled ==
  \A i \in Replicas :
    enabled /\ present /\ con[i] = "down"
      ~> con[i] = "ready" \/ rec[i].reason = "limit" \/ ~present

-----------------------------------------------------------------------------
(* What the proofs in SelfHealProofs need to know besides: the inductive
   strengthenings of the properties above. *)

\* The record counts the restarts since the container was last found ready,
\* and one that was never attempted carries no message.
RecordsTell ==
  \A i \in Replicas :
    /\ heals[i] = rec[i].streak
    /\ enabled /\ rec[i].count = 0 =>
         rec[i].streak = 0 /\ rec[i].wait = 0 /\ rec[i].reason = NoMessage

\* What is left to wait and the time that has passed make up the backoff.
TimeIsKept ==
  \A i \in Replicas : gap[i] <= MaxWait /\ gap[i] <= rec[i].wait + since[i]
=============================================================================
