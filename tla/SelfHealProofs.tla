--------------------------- MODULE SelfHealProofs ---------------------------
(***************************************************************************)
(* Proofs about SelfHeal, for every number of replicas, limit and backoff  *)
(* and any number of faults, stops and removals.                           *)
(***************************************************************************)
EXTENDS SelfHeal, TLAPS

-----------------------------------------------------------------------------
(* Facts about the operators *)

\* The assumptions on the constants, one by one.
LEMMA Constants ==
  /\ N \in Nat /\ N >= 1 /\ MaxRestarts \in Nat /\ MaxRestarts >= 1
  /\ Backoff \in Nat /\ Backoff >= 1
  /\ MaxStops \in Nat /\ MaxFaults \in Nat /\ MaxRemoves \in Nat
BY ConstantsAssumption

\* The row of restarts bounds the backoff: no wait is longer than the last.
LEMMA BackoffBounded ==
  ASSUME NEW n \in Nat, n <= MaxRestarts
  PROVE  n * Backoff \in 0..MaxWait
<1>1. MaxRestarts \in Nat /\ Backoff \in Nat
  BY Constants
<1>2. n * Backoff \in Nat /\ n * Backoff <= MaxRestarts * Backoff
  BY <1>1
<1> QED BY <1>1, <1>2 DEF MaxWait

\* The longest backoff is a number, and there is a replica.
LEMMA MaxWaitType == MaxWait \in Nat /\ 1 \in Replicas
BY Constants DEF MaxWait, Replicas

\* The messages the self-heal writes are reasons a status may show.
LEMMA ReasonsIncluded ==
  /\ NoMessage \in Reasons /\ "disabled" \in Reasons /\ "restarting" \in Reasons
  /\ "backoff" \in Reasons /\ "limit" \in Reasons
BY Zenon DEF Reasons

\* An operation that goes on is at a replica.
LEMMA NextReplicaType ==
  ASSUME at \in Replicas, NextReplica \/ Abort
  PROVE  pc' \in {"idle", "visit"} /\ at' \in Replicas
BY Constants DEF NextReplica, Abort, Replicas

-----------------------------------------------------------------------------
(* Type correctness *)

\* Every reachable state is well formed: no restart record passes the limit,
\* and no wait the backoff of the last restart the limit allows.
THEOREM TypeCorrect == Spec => []TypeOK
<1>1. Init => TypeOK
  <2> SUFFICES ASSUME Init PROVE TypeOK
    OBVIOUS
  <2>1. con \in [Replicas -> States] /\ pc \in {"idle", "visit", "rm", "run", "wait"}
    BY DEF Init, States
  <2>2. rec \in [Replicas -> [count : 0..1, streak : 0..MaxRestarts, wait : 0..MaxWait,
                              reason : Reasons]]
    <3>1. NoRecord \in [count : 0..1, streak : 0..MaxRestarts, wait : 0..MaxWait,
                        reason : Reasons]
      BY MaxWaitType, Constants DEF NoRecord, Reasons
    <3> QED BY <3>1 DEF Init
  <2>3. heals \in [Replicas -> Nat] /\ gap \in [Replicas -> Nat]
        /\ since \in [Replicas -> 0..MaxWait] /\ seen \in [Replicas -> BOOLEAN]
    BY MaxWaitType DEF Init
  <2>4. used \in [stops : 0..MaxStops, faults : 0..MaxFaults, removes : 0..MaxRemoves]
    BY Constants DEF Init
  <2> QED BY <2>1, <2>2, <2>3, <2>4, MaxWaitType DEF Init, TypeOK
<1>2. TypeOK /\ [Next]_vars => TypeOK'
  <2> SUFFICES ASSUME TypeOK, [Next]_vars PROVE TypeOK'
    OBVIOUS
  <2> USE DEF TypeOK, history
  <2> DEFINE Record == [count : 0..1, streak : 0..MaxRestarts, wait : 0..MaxWait,
                        reason : Reasons]
  <2> DEFINE Used == [stops : 0..MaxStops, faults : 0..MaxFaults, removes : 0..MaxRemoves]
  <2>uses. /\ used.stops < MaxStops /\ Uses("stops") => used' \in Used
           /\ used.faults < MaxFaults /\ Uses("faults") => used' \in Used
           /\ used.removes < MaxRemoves /\ Uses("removes") => used' \in Used
    BY Constants DEF Uses
  <2>1. CASE Resync
    BY <2>1, MaxWaitType DEF Resync
  <2>2. CASE Apply
    BY <2>2, MaxWaitType DEF Apply
  <2>3. CASE Remove
    BY <2>3, <2>uses DEF Remove, States
  <2>4. CASE VisitAbsent
    BY <2>4 DEF VisitAbsent, Goto
  <2>5. CASE VisitUp
    <3>1. Healthy(rec[at]) \in Record
      <4>1. rec[at] \in Record /\ 0 \in 0..MaxRestarts
        BY Constants
      <4>2. [rec[at] EXCEPT !.streak = 0, !.reason = NoMessage] \in Record
        BY <4>1, ReasonsIncluded
      <4> QED BY <4>1, <4>2 DEF Healthy
    <3>2. rec' \in [Replicas -> Record]
      BY <2>5, <3>1 DEF VisitUp
    <3>3. seen' \in [Replicas -> BOOLEAN]
      BY <2>5, Zenon DEF VisitUp
    <3>4. heals' \in [Replicas -> Nat]
      BY <2>5 DEF VisitUp
    <3> QED BY <2>5, <3>2, <3>3, <3>4, NextReplicaType DEF VisitUp
  <2>6. CASE Heal
    <3>1. seen' \in [Replicas -> BOOLEAN]
          /\ UNCHANGED <<con, present, enabled, broken, used>>
      BY <2>6 DEF Heal
    <3>2. ASSUME NEW reason \in Reasons, Declines(reason) PROVE TypeOK'
      <4>1. rec' \in [Replicas -> Record]
        BY <3>2 DEF Declines
      <4> QED BY <3>1, <3>2, <4>1, NextReplicaType DEF Declines
    <3>3. ASSUME ~LimitExceeded(rec[at]), rec' = [rec EXCEPT ![at] = Attempted(@)],
                 heals' = [heals EXCEPT ![at] = @ + 1],
                 since' = [since EXCEPT ![at] = 0],
                 gap' = [gap EXCEPT ![at] = heals'[at] * Backoff], Goto("rm")
          PROVE  TypeOK'
      <4>1. rec[at].streak + 1 \in 0..MaxRestarts
        BY <3>3, Constants DEF LimitExceeded
      <4>2. NextBackoff(rec[at]) \in 0..MaxWait
        BY <4>1, BackoffBounded DEF NextBackoff
      <4>3. rec' \in [Replicas -> Record]
        <5>1. \A n \in 0..MaxRestarts, w \in 0..MaxWait :
                [count |-> 1, streak |-> n, wait |-> w, reason |-> "restarting"] \in Record
          <6>1. 1 \in 0..1
            OBVIOUS
          <6> QED BY <6>1, ReasonsIncluded, Zenon
        <5>2. Attempted(rec[at]) \in Record
          BY <4>1, <4>2, <5>1, Zenon DEF Attempted
        <5> QED BY <3>3, <5>2
      <4>4. heals' \in [Replicas -> Nat] /\ since' \in [Replicas -> 0..MaxWait]
        BY <3>3, MaxWaitType
      <4>5. gap' \in [Replicas -> Nat]
        <5>1. heals'[at] * Backoff \in Nat
          BY <4>4, Constants
        <5> QED BY <3>3, <5>1
      <4> QED BY <3>1, <3>3, <4>3, <4>4, <4>5 DEF Goto
    <3> QED BY <2>6, <3>2, <3>3, ReasonsIncluded DEF Heal
  <2>7. CASE RemoveContainer
    BY <2>7 DEF RemoveContainer, Goto, States
  <2>8. CASE RunContainer
    BY <2>8 DEF RunContainer, Goto, States
  <2>9. CASE WaitReady
    BY <2>9, NextReplicaType DEF WaitReady
  <2>10. CASE Fault
    BY <2>10, <2>uses, NextReplicaType DEF Fault
  <2>11. ASSUME NEW i \in Replicas, Becomes(i) PROVE TypeOK'
    BY <2>11 DEF Becomes, States
  <2>12. ASSUME NEW i \in Replicas, Revives(i) \/ Stops(i) PROVE TypeOK'
    BY <2>12, <2>uses DEF Revives, Stops, States
  <2>13. CASE Tick
    <3>1. \A i \in Replicas : [rec[i] EXCEPT !.wait = IF @ > 0 THEN @ - 1 ELSE 0] \in Record
      BY MaxWaitType
    <3>2. \A i \in Replicas : Lesser(since[i] + 1, MaxWait) \in 0..MaxWait
      BY MaxWaitType DEF Lesser
    <3>3. rec' \in [Replicas -> Record]
      BY <2>13, <3>1 DEF Tick
    <3>4. since' \in [Replicas -> 0..MaxWait]
      BY <2>13, <3>2 DEF Tick
    <3> QED BY <2>13, <3>3, <3>4 DEF Tick
  <2>14. CASE UNCHANGED vars
    BY <2>14 DEF vars
  <2> QED BY <2>1, <2>2, <2>3, <2>4, <2>5, <2>6, <2>7, <2>8, <2>9, <2>10,
             <2>11, <2>12, <2>13, <2>14 DEF Next, Works, Docker
<1> QED BY <1>1, <1>2, PTL DEF Spec

-----------------------------------------------------------------------------
(* The records *)

\* Steps that leave the records, and what is said of them, alone.
LEMMA RecordsUntouched ==
  ASSUME \/ Resync \/ Apply \/ Remove \/ VisitAbsent \/ RemoveContainer \/ RunContainer
         \/ WaitReady \/ Fault \/ Docker \/ (\E i \in Replicas : Revives(i) \/ Stops(i))
         \/ UNCHANGED vars
  PROVE  UNCHANGED <<rec, enabled, seen, heals, since, gap>>
<1> USE DEF history
<1>1. Resync \/ Apply \/ Remove \/ VisitAbsent \/ RemoveContainer \/ RunContainer \/ WaitReady
      => UNCHANGED <<rec, enabled, seen, heals, since, gap>>
  BY DEF Resync, Apply, Remove, VisitAbsent, RemoveContainer, RunContainer, WaitReady
<1>2. Fault \/ Docker => UNCHANGED <<rec, enabled, seen, heals, since, gap>>
  BY DEF Fault, Docker, Becomes
<1>3. (\E i \in Replicas : Revives(i) \/ Stops(i))
      => UNCHANGED <<rec, enabled, seen, heals, since, gap>>
  BY DEF Revives, Stops
<1>4. UNCHANGED vars => UNCHANGED <<rec, enabled, seen, heals, since, gap>>
  BY DEF vars
<1> QED BY <1>1, <1>2, <1>3, <1>4

\* What healContainer does to the record of the replica it is at: it is declined,
\* or the attempt is kept.
LEMMA HealCases ==
  ASSUME Heal, TypeOK
  PROVE  /\ at \in Replicas /\ enabled' = enabled
         /\ seen' = [seen EXCEPT ![at] = FALSE]
         /\ \/ /\ UNCHANGED <<heals, since, gap>>
               /\ \E reason \in Reasons : rec' = [rec EXCEPT ![at].reason = reason]
               /\ ~enabled \/ rec[at].streak >= MaxRestarts \/ rec[at].wait > 0
            \/ /\ enabled /\ rec[at].streak < MaxRestarts /\ rec[at].wait = 0
               /\ rec' = [rec EXCEPT ![at] = Attempted(@)]
               /\ heals' = [heals EXCEPT ![at] = @ + 1]
               /\ since' = [since EXCEPT ![at] = 0]
               /\ gap' = [gap EXCEPT ![at] = heals'[at] * Backoff]
<1>1. at \in Replicas /\ rec[at].streak \in 0..MaxRestarts
  BY DEF TypeOK
<1>2. LimitExceeded(rec[at]) <=> rec[at].streak >= MaxRestarts
  BY DEF LimitExceeded
<1>3. ~LimitExceeded(rec[at]) <=> rec[at].streak < MaxRestarts
  BY <1>1, <1>2, Constants
<1>4. \A reason \in Reasons : Declines(reason) =>
        UNCHANGED <<heals, since, gap>> /\ rec' = [rec EXCEPT ![at].reason = reason]
  BY DEF Declines
<1> QED BY <1>1, <1>2, <1>3, <1>4, ReasonsIncluded DEF Heal

\* The restart record of a container counts exactly the restarts since it was
\* last found ready, through faults and removals of the Runtime, and a record
\* without an attempt carries no message while self-heal is enabled.
THEOREM RecordsAreTrue == Spec => []RecordsTell
<1>1. Init => RecordsTell
  <2> SUFFICES ASSUME Init, NEW i \in Replicas
               PROVE  heals[i] = rec[i].streak /\ rec[i].wait = 0 /\ rec[i].streak = 0
                      /\ rec[i].reason = NoMessage
    BY DEF RecordsTell
  <2> QED BY DEF Init, NoRecord
<1>2. TypeOK /\ RecordsTell /\ [Next]_vars => RecordsTell'
  <2> SUFFICES ASSUME TypeOK, RecordsTell, [Next]_vars PROVE RecordsTell'
    OBVIOUS
  <2>type. /\ rec \in [Replicas -> [count : 0..1, streak : 0..MaxRestarts,
                                    wait : 0..MaxWait, reason : Reasons]]
           /\ heals \in [Replicas -> Nat] /\ at \in Replicas
    BY DEF TypeOK
  <2> USE DEF RecordsTell
  <2>1. CASE VisitUp
    <3>1. enabled' = enabled
      BY <2>1 DEF VisitUp
    <3>2. CASE UNCHANGED <<rec, heals>>
      BY <3>1, <3>2
    <3>3. CASE rec' = [rec EXCEPT ![at] = Healthy(@)] /\ heals' = [heals EXCEPT ![at] = 0]
      <4>1. \A i \in Replicas \ {at} : rec'[i] = rec[i] /\ heals'[i] = heals[i]
        BY <3>3, <2>type
      <4>2. rec'[at] = Healthy(rec[at]) /\ heals'[at] = 0
        BY <3>3, <2>type
      <4>3. CASE rec[at].count = 0 /\ rec[at].streak = 0
        BY <3>1, <4>1, <4>2, <4>3 DEF Healthy
      <4>4. CASE ~(rec[at].count = 0 /\ rec[at].streak = 0)
        <5>1. rec'[at] = [rec[at] EXCEPT !.streak = 0, !.reason = NoMessage]
          BY <4>2, <4>4, Zenon DEF Healthy
        <5>2. rec[at] \in [count : 0..1, streak : 0..MaxRestarts, wait : 0..MaxWait,
                           reason : Reasons]
          BY <2>type
        <5>3. rec'[at].streak = 0 /\ rec'[at].reason = NoMessage /\ rec'[at].count = rec[at].count
          BY <5>1, <5>2
        <5> QED BY <3>1, <4>1, <4>2, <4>4, <5>3
      <4> QED BY <4>3, <4>4
    <3> QED BY <2>1, <3>2, <3>3 DEF VisitUp
  <2>2. CASE Heal
    <3>1. CASE /\ UNCHANGED <<heals, since, gap>>
               /\ \E reason \in Reasons : rec' = [rec EXCEPT ![at].reason = reason]
               /\ ~enabled \/ rec[at].streak >= MaxRestarts \/ rec[at].wait > 0
      <4>1. \A i \in Replicas \ {at} : rec'[i] = rec[i]
        BY <3>1, <2>type
      <4>2. rec'[at].streak = rec[at].streak /\ rec'[at].count = rec[at].count
        BY <3>1, <2>type
      <4>3. ~(enabled /\ rec[at].count = 0)
        <5>1. enabled /\ rec[at].count = 0 => rec[at].streak = 0 /\ rec[at].wait = 0
          BY <2>type, Zenon
        <5>2. ~(0 >= MaxRestarts) /\ ~(0 > 0)
          BY Constants
        <5> QED BY <3>1, <5>1, <5>2
      <4>4. enabled' = enabled
        BY <2>2, HealCases
      <4> QED BY <3>1, <4>1, <4>2, <4>3, <4>4
    <3>2. CASE /\ rec' = [rec EXCEPT ![at] = Attempted(@)]
               /\ heals' = [heals EXCEPT ![at] = @ + 1]
      <4>1. \A i \in Replicas \ {at} : rec'[i] = rec[i] /\ heals'[i] = heals[i]
        BY <3>2, <2>type
      <4>2. rec'[at].streak = rec[at].streak + 1 /\ rec'[at].count = 1
        BY <3>2, <2>type DEF Attempted
      <4>3. heals'[at] = heals[at] + 1 /\ enabled' = enabled
        BY <3>2, <2>type, <2>2, HealCases
      <4>4. heals[at] = rec[at].streak
        BY <2>type, Zenon
      <4>5. heals'[at] = rec'[at].streak /\ rec'[at].count # 0
        BY <4>2, <4>3, <4>4
      <4> QED BY <4>1, <4>3, <4>5
    <3> QED BY <2>2, <3>1, <3>2, HealCases
  <2>3. CASE Tick
    <3>1. heals' = heals /\ enabled' = enabled
      BY <2>3 DEF Tick
    <3>2. \A i \in Replicas :
            /\ rec'[i].streak = rec[i].streak /\ rec'[i].count = rec[i].count
            /\ rec'[i].reason = rec[i].reason /\ (rec[i].wait = 0 => rec'[i].wait = 0)
      <4> SUFFICES ASSUME NEW i \in Replicas
                   PROVE  /\ rec'[i].streak = rec[i].streak /\ rec'[i].count = rec[i].count
                          /\ rec'[i].reason = rec[i].reason
                          /\ (rec[i].wait = 0 => rec'[i].wait = 0)
        OBVIOUS
      <4>1. rec'[i] = [rec[i] EXCEPT !.wait = IF @ > 0 THEN @ - 1 ELSE 0]
        BY <2>3 DEF Tick
      <4>2. rec[i] \in [count : 0..1, streak : 0..MaxRestarts, wait : 0..MaxWait,
                        reason : Reasons]
        BY <2>type
      <4>3. rec'[i].wait = IF rec[i].wait > 0 THEN rec[i].wait - 1 ELSE 0
        BY <4>1, <4>2
      <4>4. /\ rec'[i].streak = rec[i].streak /\ rec'[i].count = rec[i].count
            /\ rec'[i].reason = rec[i].reason
        BY <4>1, <4>2, Zenon
      <4>5. rec[i].wait = 0 => rec'[i].wait = 0
        BY <4>3
      <4> QED BY <4>4, <4>5
    <3> QED BY <3>1, <3>2
  <2>4. CASE UNCHANGED <<rec, enabled, seen, heals, since, gap>>
    BY <2>4
  <2> QED BY <2>1, <2>2, <2>3, <2>4, RecordsUntouched DEF Next, Works
<1> QED BY <1>1, <1>2, TypeCorrect, PTL DEF Spec

\* However restarts fail, self-heal removes a container at most MaxRestarts
\* times between two visits that find it ready, for every limit and backoff.
THEOREM RestartsBounded == Spec => []HealsBounded
<1>1. TypeOK /\ RecordsTell => HealsBounded
  <2> SUFFICES ASSUME TypeOK, RecordsTell, NEW i \in Replicas PROVE heals[i] <= MaxRestarts
    BY DEF HealsBounded
  <2>1. rec[i].streak \in 0..MaxRestarts
    BY DEF TypeOK
  <2>2. heals[i] = rec[i].streak
    BY DEF RecordsTell
  <2> QED BY <2>1, <2>2, Constants
<1> QED BY <1>1, TypeCorrect, RecordsAreTrue, PTL

-----------------------------------------------------------------------------
(* The message in the status *)

\* With self-heal enabled, a container that the last visit found ready carries
\* no message of an earlier failure: markRestartHealthy leaves a record without
\* attempts alone, and such a record has no message to clear.
THEOREM ReadyIsClean == Spec => []ReadyHasNoMessage
<1>1. Init => ReadyHasNoMessage
  BY DEF Init, ReadyHasNoMessage, NoRecord
<1>2. TypeOK /\ RecordsTell /\ ReadyHasNoMessage /\ [Next]_vars => ReadyHasNoMessage'
  <2> SUFFICES ASSUME TypeOK, RecordsTell, ReadyHasNoMessage, [Next]_vars
               PROVE  ReadyHasNoMessage'
    OBVIOUS
  <2>type. /\ rec \in [Replicas -> [count : 0..1, streak : 0..MaxRestarts,
                                    wait : 0..MaxWait, reason : Reasons]]
           /\ seen \in [Replicas -> BOOLEAN] /\ at \in Replicas
    BY DEF TypeOK
  <2> USE DEF ReadyHasNoMessage
  <2>1. CASE VisitUp
    <3>1. enabled' = enabled
      BY <2>1 DEF VisitUp
    <3>2. CASE rec' = [rec EXCEPT ![at] = Healthy(@)] /\ seen' = [seen EXCEPT ![at] = TRUE]
      <4>1. \A i \in Replicas \ {at} : rec'[i] = rec[i] /\ seen'[i] = seen[i]
        BY <3>2, <2>type
      <4>2. rec'[at] = Healthy(rec[at])
        BY <3>2, <2>type
      <4>3. rec[at].count = 0 /\ rec[at].streak = 0 /\ enabled => rec[at].reason = NoMessage
        BY <2>type DEF RecordsTell
      <4>4. [rec[at] EXCEPT !.streak = 0, !.reason = NoMessage].reason = NoMessage
        BY <2>type
      <4>5. enabled => rec'[at].reason = NoMessage
        BY <4>2, <4>3, <4>4, Zenon DEF Healthy
      <4> QED BY <3>1, <4>1, <4>5
    <3>3. CASE rec' = rec /\ seen' = [seen EXCEPT ![at] = FALSE]
      BY <3>1, <3>3, <2>type
    <3> QED BY <2>1, <3>2, <3>3 DEF VisitUp
  <2>2. CASE Heal
    <3>1. seen' = [seen EXCEPT ![at] = FALSE] /\ enabled' = enabled
      BY <2>2, HealCases
    <3>2. \A i \in Replicas \ {at} : rec'[i] = rec[i]
      BY <2>2, <2>type, HealCases
    <3> QED BY <3>1, <3>2, <2>type
  <2>3. CASE Tick
    <3>1. \A i \in Replicas : rec'[i].reason = rec[i].reason
      BY <2>3, <2>type DEF Tick
    <3> QED BY <2>3, <3>1 DEF Tick
  <2>4. CASE UNCHANGED <<rec, enabled, seen, heals, since, gap>>
    BY <2>4
  <2> QED BY <2>1, <2>2, <2>3, <2>4, RecordsUntouched DEF Next, Works
<1> QED BY <1>1, <1>2, TypeCorrect, RecordsAreTrue, PTL DEF Spec

-----------------------------------------------------------------------------
(* The backoff *)

\* What is left to wait and the time that has passed since the last restart
\* always make up the backoff of that restart, whatever happens in between.
THEOREM TimeKept == Spec => []TimeIsKept
<1>1. Init => TimeIsKept
  <2> SUFFICES ASSUME Init, NEW i \in Replicas
               PROVE  gap[i] <= MaxWait /\ gap[i] <= rec[i].wait + since[i]
    BY DEF TimeIsKept
  <2>1. gap[i] = 0 /\ rec[i].wait = 0 /\ since[i] = MaxWait
    BY DEF Init, NoRecord
  <2> QED BY <2>1, MaxWaitType
<1>2. TypeOK /\ RecordsTell /\ TimeIsKept /\ [Next]_vars => TimeIsKept'
  <2> SUFFICES ASSUME TypeOK, RecordsTell, TimeIsKept, [Next]_vars PROVE TimeIsKept'
    OBVIOUS
  <2>type. /\ rec \in [Replicas -> [count : 0..1, streak : 0..MaxRestarts,
                                    wait : 0..MaxWait, reason : Reasons]]
           /\ heals \in [Replicas -> Nat] /\ gap \in [Replicas -> Nat]
           /\ since \in [Replicas -> 0..MaxWait] /\ at \in Replicas
    BY DEF TypeOK
  \* Only the time left and the time passed matter.
  <2>keep. ASSUME \A i \in Replicas :
                    rec'[i].wait = rec[i].wait /\ since'[i] = since[i] /\ gap'[i] = gap[i]
           PROVE  TimeIsKept'
    BY <2>keep DEF TimeIsKept
  <2>1. CASE VisitUp
    <3>1. Healthy(rec[at]).wait = rec[at].wait
      BY <2>type DEF Healthy
    <3>2. \A i \in Replicas : rec'[i].wait = rec[i].wait
      BY <2>1, <2>type, <3>1 DEF VisitUp
    <3> QED BY <2>1, <2>keep, <3>2 DEF VisitUp
  <2>2. CASE Heal
    <3>1. CASE /\ UNCHANGED <<heals, since, gap>>
               /\ \E reason \in Reasons : rec' = [rec EXCEPT ![at].reason = reason]
      BY <3>1, <2>keep, <2>type
    <3>2. CASE /\ rec[at].streak < MaxRestarts
               /\ rec' = [rec EXCEPT ![at] = Attempted(@)]
               /\ heals' = [heals EXCEPT ![at] = @ + 1]
               /\ since' = [since EXCEPT ![at] = 0]
               /\ gap' = [gap EXCEPT ![at] = heals'[at] * Backoff]
      <4>1. \A i \in Replicas \ {at} :
              rec'[i] = rec[i] /\ since'[i] = since[i] /\ gap'[i] = gap[i]
        BY <3>2, <2>type
      <4>2. heals[at] = rec[at].streak /\ rec[at].streak \in 0..MaxRestarts
        BY <2>type DEF RecordsTell
      <4>3. rec'[at].wait = (heals[at] + 1) * Backoff
        BY <3>2, <4>2, <2>type DEF Attempted, NextBackoff
      <4>4. gap'[at] = (heals[at] + 1) * Backoff /\ since'[at] = 0
        BY <3>2, <2>type
      <4>5. (heals[at] + 1) * Backoff \in 0..MaxWait
        BY <3>2, <4>2, Constants, BackoffBounded
      <4>6. gap'[at] <= MaxWait /\ gap'[at] <= rec'[at].wait + since'[at]
        BY <4>3, <4>4, <4>5, MaxWaitType
      <4> QED BY <4>1, <4>6 DEF TimeIsKept
    <3> QED BY <2>2, <3>1, <3>2, HealCases
  <2>3. CASE Tick
    <3> SUFFICES ASSUME NEW i \in Replicas
                 PROVE  gap'[i] <= MaxWait /\ gap'[i] <= rec'[i].wait + since'[i]
      BY DEF TimeIsKept
    <3>1. rec'[i].wait = IF rec[i].wait > 0 THEN rec[i].wait - 1 ELSE 0
      BY <2>3, <2>type DEF Tick
    <3>2. since'[i] = IF since[i] + 1 < MaxWait THEN since[i] + 1 ELSE MaxWait
      BY <2>3 DEF Tick, Lesser
    <3>3. gap' = gap /\ gap[i] <= MaxWait /\ gap[i] <= rec[i].wait + since[i]
      BY <2>3 DEF Tick, TimeIsKept
    <3>4. rec[i].wait \in 0..MaxWait /\ since[i] \in 0..MaxWait /\ gap[i] \in Nat
      BY <2>type
    <3> QED BY <3>1, <3>2, <3>3, <3>4, MaxWaitType
  <2>4. CASE UNCHANGED <<rec, enabled, seen, heals, since, gap>>
    BY <2>4, <2>keep
  <2> QED BY <2>1, <2>2, <2>3, <2>4, RecordsUntouched DEF Next, Works
<1> QED BY <1>1, <1>2, TypeCorrect, RecordsAreTrue, PTL DEF Spec

\* A restart begins only when the backoff of the one before it has passed, also
\* when the container was ready or the Runtime removed in between.
THEOREM RestartsWait == Spec => BackoffHonoured
<1> DEFINE Waits == \A i \in Replicas : heals'[i] > heals[i] => since[i] >= gap[i]
<1>1. TypeOK /\ TimeIsKept /\ [Next]_vars => [Waits]_vars
  <2> SUFFICES ASSUME TypeOK, TimeIsKept, [Next]_vars, NEW i \in Replicas,
                      heals'[i] > heals[i]
               PROVE  since[i] >= gap[i]
    OBVIOUS
  <2>type. /\ heals \in [Replicas -> Nat] /\ at \in Replicas
           /\ rec[i].wait \in 0..MaxWait /\ since[i] \in 0..MaxWait /\ gap[i] \in Nat
    BY DEF TypeOK
  <2>1. CASE VisitUp
    BY <2>1, <2>type DEF VisitUp
  <2>2. CASE Heal
    <3>1. i = at /\ rec[at].wait = 0
      BY <2>2, <2>type, HealCases
    <3>2. gap[i] <= rec[i].wait + since[i]
      BY DEF TimeIsKept
    <3> QED BY <3>1, <3>2, <2>type
  <2>3. CASE heals' = heals
    BY <2>3, <2>type
  <2>4. Tick => heals' = heals
    BY DEF Tick
  <2> QED BY <2>1, <2>2, <2>3, <2>4, RecordsUntouched DEF Next, Works
<1> QED BY <1>1, TypeCorrect, TimeKept, PTL DEF Spec, BackoffHonoured
=============================================================================
