--------------------------- MODULE AuditLogProofs ---------------------------
(***************************************************************************)
(* What the audit log keeps, for every number of processes, size of file   *)
(* and number of backups: the types, the space it takes, and that the      *)
(* files hold the latest events without gaps and enough of them.           *)
(*                                                                         *)
(* A process takes part in the proofs through its control point, the path  *)
(* it is at and the file it has open.  Becomes says how a step changes     *)
(* those; each action is shown to be one of its cases first, and nothing   *)
(* below looks at the records again.                                       *)
(***************************************************************************)
EXTENDS AuditLog, RankingProofs, FiniteSetTheorems, TLAPS

\* Every process is described by a record of the five fields.
Shaped ==
  proc = [p \in Procs |->
            [pc |-> proc[p].pc, path |-> proc[p].path, fd |-> proc[p].fd,
             query |-> proc[p].query, events |-> proc[p].events]]

\* Process p goes to the control point c, path t and open file f.
Becomes(p, c, t, f) ==
  /\ proc'[p].pc = c /\ proc'[p].path = t /\ proc'[p].fd = f
  /\ \A q \in Procs \ {p} : proc'[q].pc = proc[q].pc /\ proc'[q].path = proc[q].path

\* The other processes keep their open files, or find them moved from i to j.
KeepFiles(p) == \A q \in Procs \ {p} : proc'[q].fd = proc[q].fd
MoveFiles(p, i, j) ==
  \A q \in Procs \ {p} :
    proc'[q].fd = IF proc[q].fd = i THEN j ELSE IF proc[q].fd = j THEN Gone ELSE proc[q].fd

\* Process p's query and what it has found are r and e; the others' stay.
Finds(p, r, e) ==
  /\ proc'[p].query = r /\ proc'[p].events = e
  /\ \A q \in Procs \ {p} : proc'[q].query = proc[q].query /\ proc'[q].events = proc[q].events

Queries == [tail : Tails \cup {0}, actor : Procs]
QueriesOK == \A p \in Procs : proc[p].query \in Queries

\* A process that goes on from a state to an explicit next one (Append and Read
\* step by step) changes nothing of the others.
LEMMA DoesStep ==
  ASSUME Shaped, QueriesOK, NEW p \in Procs, NEW c, NEW t, NEW f, NEW r \in Queries, NEW e,
         Does(p, [pc |-> c, path |-> t, fd |-> f, query |-> r, events |-> e])
  PROVE  Shaped' /\ QueriesOK' /\ Becomes(p, c, t, f) /\ KeepFiles(p) /\ Finds(p, r, e)
<1> DEFINE s == [pc |-> c, path |-> t, fd |-> f, query |-> r, events |-> e]
<1>1. proc' = [proc EXCEPT ![p] = s] /\ DOMAIN proc = Procs
  BY DEF Does, Shaped
<1>2. proc'[p] = s /\ \A q \in Procs \ {p} : proc'[q] = proc[q]
  BY <1>1
<1>3. s.pc = c /\ s.path = t /\ s.fd = f /\ s.query = r /\ s.events = e
  OBVIOUS
<1>4. Becomes(p, c, t, f) /\ KeepFiles(p) /\ Finds(p, r, e)
  BY <1>2, <1>3 DEF Becomes, KeepFiles, Finds
<1>5. \A q \in Procs : proc'[q] = [pc |-> proc'[q].pc, path |-> proc'[q].path, fd |-> proc'[q].fd,
                                   query |-> proc'[q].query, events |-> proc'[q].events]
  BY <1>2, <1>3 DEF Shaped
<1>6. DOMAIN proc' = Procs /\ proc' = [q \in DOMAIN proc' |-> proc'[q]]
  BY <1>1
<1>7. Shaped'
  BY <1>5, <1>6 DEF Shaped
<1>8. QueriesOK'
  BY <1>4 DEF QueriesOK, Finds
<1> QED BY <1>4, <1>7, <1>8

\* The same for a system call on the directory, which moves open files (the
\* renames and removals of rotateIfNeeded).
LEMMA DoesMoveStep ==
  ASSUME Shaped, QueriesOK, NEW p \in Procs, NEW c, NEW t, NEW f, NEW r \in Queries, NEW e, NEW i, NEW j,
         DoesAndMoves(p, [pc |-> c, path |-> t, fd |-> f, query |-> r, events |-> e], i, j)
  PROVE  Shaped' /\ QueriesOK' /\ Becomes(p, c, t, f) /\ MoveFiles(p, i, j) /\ Finds(p, r, e)
<1> DEFINE s == [pc |-> c, path |-> t, fd |-> f, query |-> r, events |-> e]
<1> DEFINE moved(h) == IF h = i THEN j ELSE IF h = j THEN Gone ELSE h
<1> DEFINE next(q) == [pc |-> proc[q].pc, path |-> proc[q].path, fd |-> moved(proc[q].fd),
                       query |-> proc[q].query, events |-> proc[q].events]
<1>1. \A q \in Procs : [proc[q] EXCEPT !.fd = moved(@)] = next(q)
  <2> TAKE q \in Procs
  <2>1. PICK b : b = proc[q]
    OBVIOUS
  <2>2. b = [pc |-> b.pc, path |-> b.path, fd |-> b.fd, query |-> b.query, events |-> b.events]
    BY <2>1 DEF Shaped
  <2>3. [b EXCEPT !.fd = moved(@)] = [pc |-> b.pc, path |-> b.path, fd |-> moved(b.fd),
                                     query |-> b.query, events |-> b.events]
    BY <2>2
  <2> QED BY <2>1, <2>3
<1>2. proc' = [q \in Procs |-> IF q = p THEN s ELSE [proc[q] EXCEPT !.fd = moved(@)]]
  BY DEF DoesAndMoves
<1>3. DOMAIN proc' = Procs /\ proc' = [q \in DOMAIN proc' |-> proc'[q]] /\ proc'[p] = s
  BY <1>2
<1>4. \A q \in Procs \ {p} : proc'[q] = next(q)
  BY <1>1, <1>2
<1>5. s.pc = c /\ s.path = t /\ s.fd = f /\ s.query = r /\ s.events = e
  OBVIOUS
<1>6. \A q \in Procs : /\ next(q).pc = proc[q].pc /\ next(q).path = proc[q].path
                       /\ next(q).fd = moved(proc[q].fd)
                       /\ next(q).query = proc[q].query /\ next(q).events = proc[q].events
  OBVIOUS
<1>7. Becomes(p, c, t, f) /\ MoveFiles(p, i, j) /\ Finds(p, r, e)
  BY <1>3, <1>4, <1>5, <1>6 DEF Becomes, MoveFiles, Finds
<1>8. \A q \in Procs : proc'[q] = [pc |-> proc'[q].pc, path |-> proc'[q].path, fd |-> proc'[q].fd,
                                   query |-> proc'[q].query, events |-> proc'[q].events]
  BY <1>3, <1>4, <1>5, <1>6
<1>9. Shaped'
  BY <1>3, <1>8 DEF Shaped
<1>10. QueriesOK'
  BY <1>7 DEF QueriesOK, Finds
<1> QED BY <1>7, <1>9, <1>10

\* What an EXCEPT of a process' record is (the statements of Append).
LEMMA Fields ==
  ASSUME Shaped, NEW p \in Procs
  PROVE  /\ \A c : [proc[p] EXCEPT !.pc = c] =
              [pc |-> c, path |-> proc[p].path, fd |-> proc[p].fd,
               query |-> proc[p].query, events |-> proc[p].events]
         /\ \A c, t : [proc[p] EXCEPT !.pc = c, !.path = t] =
              [pc |-> c, path |-> t, fd |-> proc[p].fd,
               query |-> proc[p].query, events |-> proc[p].events]
         /\ \A c, f : [proc[p] EXCEPT !.pc = c, !.fd = f] =
              [pc |-> c, path |-> proc[p].path, fd |-> f,
               query |-> proc[p].query, events |-> proc[p].events]
         /\ \A t, g : [proc[p] EXCEPT !.path = t, !.events = g] =
              [pc |-> proc[p].pc, path |-> t, fd |-> proc[p].fd,
               query |-> proc[p].query, events |-> g]
<1>1. PICK c0, t0, f0, q0, e0 :
        proc[p] = [pc |-> c0, path |-> t0, fd |-> f0, query |-> q0, events |-> e0]
  <2>1. proc[p] = [pc |-> proc[p].pc, path |-> proc[p].path, fd |-> proc[p].fd,
                   query |-> proc[p].query, events |-> proc[p].events]
    BY DEF Shaped
  <2> QED BY ONLY <2>1
<1> DEFINE b == [pc |-> c0, path |-> t0, fd |-> f0, query |-> q0, events |-> e0]
<1>2. /\ proc[p] = b /\ proc[p].pc = c0 /\ proc[p].path = t0 /\ proc[p].fd = f0
      /\ proc[p].query = q0 /\ proc[p].events = e0
  BY <1>1
<1>3. \A c : [b EXCEPT !.pc = c] =
        [pc |-> c, path |-> t0, fd |-> f0, query |-> q0, events |-> e0]
  <2> TAKE c
  <2> QED OBVIOUS
<1>4. \A c, t : [b EXCEPT !.pc = c, !.path = t] =
        [pc |-> c, path |-> t, fd |-> f0, query |-> q0, events |-> e0]
  <2> TAKE c, t
  <2>1. [b EXCEPT !.pc = c, !.path = t] = [[b EXCEPT !.pc = c] EXCEPT !.path = t]
    OBVIOUS
  <2>2. [b EXCEPT !.pc = c] = [pc |-> c, path |-> t0, fd |-> f0, query |-> q0, events |-> e0]
    OBVIOUS
  <2>3. [[pc |-> c, path |-> t0, fd |-> f0, query |-> q0, events |-> e0] EXCEPT !.path = t] =
          [pc |-> c, path |-> t, fd |-> f0, query |-> q0, events |-> e0]
    OBVIOUS
  <2> QED BY <2>1, <2>2, <2>3
<1>5. \A c, f : [b EXCEPT !.pc = c, !.fd = f] =
        [pc |-> c, path |-> t0, fd |-> f, query |-> q0, events |-> e0]
  <2> TAKE c, f
  <2>1. [b EXCEPT !.pc = c, !.fd = f] = [[b EXCEPT !.pc = c] EXCEPT !.fd = f]
    OBVIOUS
  <2>2. [b EXCEPT !.pc = c] = [pc |-> c, path |-> t0, fd |-> f0, query |-> q0, events |-> e0]
    OBVIOUS
  <2>3. [[pc |-> c, path |-> t0, fd |-> f0, query |-> q0, events |-> e0] EXCEPT !.fd = f] =
          [pc |-> c, path |-> t0, fd |-> f, query |-> q0, events |-> e0]
    OBVIOUS
  <2> QED BY <2>1, <2>2, <2>3
<1>6. \A t, g : [b EXCEPT !.path = t, !.events = g] =
        [pc |-> c0, path |-> t, fd |-> f0, query |-> q0, events |-> g]
  <2> TAKE t, g
  <2>1. [b EXCEPT !.path = t, !.events = g] = [[b EXCEPT !.path = t] EXCEPT !.events = g]
    OBVIOUS
  <2>2. [b EXCEPT !.path = t] = [pc |-> c0, path |-> t, fd |-> f0, query |-> q0, events |-> e0]
    OBVIOUS
  <2>3. [[pc |-> c0, path |-> t, fd |-> f0, query |-> q0, events |-> e0] EXCEPT !.events = g] =
          [pc |-> c0, path |-> t, fd |-> f0, query |-> q0, events |-> g]
    OBVIOUS
  <2> QED BY <2>1, <2>2, <2>3
<1> HIDE DEF b
<1>7. \A c : [proc[p] EXCEPT !.pc = c] =
        [pc |-> c, path |-> proc[p].path, fd |-> proc[p].fd,
         query |-> proc[p].query, events |-> proc[p].events]
  BY <1>2, <1>3
<1>8. \A c, t : [proc[p] EXCEPT !.pc = c, !.path = t] =
        [pc |-> c, path |-> t, fd |-> proc[p].fd,
         query |-> proc[p].query, events |-> proc[p].events]
  BY <1>2, <1>4
<1>9. \A c, f : [proc[p] EXCEPT !.pc = c, !.fd = f] =
        [pc |-> c, path |-> proc[p].path, fd |-> f,
         query |-> proc[p].query, events |-> proc[p].events]
  BY <1>2, <1>5
<1>10. \A t, g : [proc[p] EXCEPT !.path = t, !.events = g] =
         [pc |-> proc[p].pc, path |-> t, fd |-> proc[p].fd,
          query |-> proc[p].query, events |-> g]
  BY <1>2, <1>6
<1> QED BY <1>7, <1>8, <1>9, <1>10

\* The next iteration of the rotation, or the end of it.
NextPc(t) == IF t = 0 THEN "open" ELSE "shift"
NextT(t) == IF t = 0 THEN 0 ELSE t - 1

\* The loop of rotateIfNeeded goes down one path, or on to open the log.
LEMMA NextPathIs ==
  ASSUME Shaped, NEW p \in Procs
  PROVE  NextPath(proc[p]) =
           [pc |-> NextPc(proc[p].path), path |-> NextT(proc[p].path), fd |-> proc[p].fd,
            query |-> proc[p].query, events |-> proc[p].events]
<1>1. CASE proc[p].path = 0
  BY <1>1, Fields DEF NextPath, NextPc, NextT
<1>2. CASE proc[p].path # 0
  <2>1. NextPath(proc[p]) = [proc[p] EXCEPT !.pc = "shift", !.path = proc[p].path - 1]
    BY <1>2 DEF NextPath
  <2> QED BY <1>2, <2>1, Fields DEF NextPc, NextT
<1> QED BY <1>1, <1>2

-----------------------------------------------------------------------------
(* What each action does to the processes *)

\* A call of Append begins at the look at the log.
LEMMA BeginAppendDoes ==
  ASSUME Shaped, QueriesOK, NEW p \in Procs, BeginAppend(p)
  PROVE  /\ Shaped' /\ QueriesOK' /\ Finds(p, proc[p].query, proc[p].events)
         /\ Becomes(p, "stat", proc[p].path, proc[p].fd) /\ KeepFiles(p)
<1>1. proc[p].query \in Queries
  BY DEF QueriesOK
<1>2. Does(p, [pc |-> "stat", path |-> proc[p].path, fd |-> proc[p].fd,
               query |-> proc[p].query, events |-> proc[p].events])
  BY Fields DEF BeginAppend
<1> QED BY <1>1, <1>2, DoesStep

\* rotateIfNeeded rotates a full log and leaves any other alone.
LEMMA StatLogDoes ==
  ASSUME Shaped, QueriesOK, NEW p \in Procs, StatLog(p)
  PROVE  /\ Shaped' /\ QueriesOK' /\ Finds(p, proc[p].query, proc[p].events) /\ KeepFiles(p)
         /\ Becomes(p, IF IsFull THEN "shift" ELSE "open",
                       IF IsFull THEN MaxBackups ELSE proc[p].path, proc[p].fd)
<1>1. proc[p].query \in Queries
  BY DEF QueriesOK
<1>2. CASE IsFull
  <2>1. Does(p, [pc |-> "shift", path |-> MaxBackups, fd |-> proc[p].fd,
                 query |-> proc[p].query, events |-> proc[p].events])
    <3>1. Does(p, [proc[p] EXCEPT !.pc = "shift", !.path = MaxBackups])
      BY <1>2 DEF StatLog
    <3>2. [proc[p] EXCEPT !.pc = "shift", !.path = MaxBackups] =
            [pc |-> "shift", path |-> MaxBackups, fd |-> proc[p].fd,
             query |-> proc[p].query, events |-> proc[p].events]
      BY Fields
    <3> QED BY <3>1, <3>2
  <2> QED BY <1>1, <1>2, <2>1, DoesStep
<1>3. CASE ~IsFull
  <2>1. Does(p, [pc |-> "open", path |-> proc[p].path, fd |-> proc[p].fd,
                 query |-> proc[p].query, events |-> proc[p].events])
    BY <1>3, Fields, ZenonT(40) DEF StatLog
  <2> QED BY <1>1, <1>3, <2>1, DoesStep
<1> QED BY <1>2, <1>3

\* The loop removes the oldest backup and goes on to the one before it.
LEMMA RemoveOldestDoes ==
  ASSUME Shaped, QueriesOK, NEW p \in Procs, RemoveOldest(p)
  PROVE  /\ Shaped' /\ QueriesOK' /\ Finds(p, proc[p].query, proc[p].events) /\ MoveFiles(p, MaxBackups, Gone)
         /\ Becomes(p, "shift", MaxBackups - 1, proc[p].fd)
<1>1. proc[p].query \in Queries
  BY DEF QueriesOK
<1>2. proc[p].path = MaxBackups /\ MaxBackups # 0
  BY ConstantsAssumption DEF RemoveOldest
<1>3. DoesAndMoves(p, [pc |-> "shift", path |-> MaxBackups - 1, fd |-> proc[p].fd,
               query |-> proc[p].query, events |-> proc[p].events], MaxBackups, Gone)
  BY <1>2, NextPathIs DEF RemoveOldest, NextPc, NextT
<1> QED BY <1>1, <1>3, DoesMoveStep

\* renameIfExists skips a path that does not exist.
LEMMA StatSourceDoes ==
  ASSUME Shaped, QueriesOK, NEW p \in Procs, StatSource(p)
  PROVE  /\ Shaped' /\ QueriesOK' /\ Finds(p, proc[p].query, proc[p].events) /\ KeepFiles(p)
         /\ proc[p].path \in DOMAIN files => Becomes(p, "unlink", proc[p].path, proc[p].fd)
         /\ proc[p].path \notin DOMAIN files =>
              Becomes(p, NextPc(proc[p].path), NextT(proc[p].path), proc[p].fd)
<1>1. proc[p].query \in Queries
  BY DEF QueriesOK
<1>2. CASE proc[p].path \in DOMAIN files
  <2>1. Does(p, [pc |-> "unlink", path |-> proc[p].path, fd |-> proc[p].fd,
                 query |-> proc[p].query, events |-> proc[p].events])
    <3>1. Does(p, [proc[p] EXCEPT !.pc = "unlink"])
      BY <1>2 DEF StatSource
    <3>2. [proc[p] EXCEPT !.pc = "unlink"] =
            [pc |-> "unlink", path |-> proc[p].path, fd |-> proc[p].fd,
             query |-> proc[p].query, events |-> proc[p].events]
      BY Fields
    <3> QED BY <3>1, <3>2
  <2> QED BY <1>1, <1>2, <2>1, DoesStep
<1>3. CASE proc[p].path \notin DOMAIN files
  <2>1. Does(p, [pc |-> NextPc(proc[p].path), path |-> NextT(proc[p].path), fd |-> proc[p].fd,
                 query |-> proc[p].query, events |-> proc[p].events])
    BY <1>3, NextPathIs DEF StatSource
  <2> QED BY <1>1, <1>3, <2>1, DoesStep
<1> QED BY <1>2, <1>3

\* removeIfExists takes the target of the rename away.
LEMMA RemoveTargetDoes ==
  ASSUME Shaped, QueriesOK, NEW p \in Procs, RemoveTarget(p)
  PROVE  /\ Shaped' /\ QueriesOK' /\ Finds(p, proc[p].query, proc[p].events) /\ MoveFiles(p, proc[p].path + 1, Gone)
         /\ Becomes(p, "rename", proc[p].path, proc[p].fd)
<1>1. proc[p].query \in Queries
  BY DEF QueriesOK
<1>2. DoesAndMoves(p, [pc |-> "rename", path |-> proc[p].path, fd |-> proc[p].fd,
               query |-> proc[p].query, events |-> proc[p].events], proc[p].path + 1, Gone)
  BY Fields DEF RemoveTarget
<1> QED BY <1>1, <1>2, DoesMoveStep

\* The record of a process that is in no call.
LEMMA AtRestIs ==
  /\ AtRest = [pc |-> "idle", path |-> 0, fd |-> Gone, query |-> NoQuery, events |-> << >>]
  /\ NoQuery \in Queries
BY DEF AtRest, NoQuery, Queries, Procs

\* A process that goes back to rest (the end of Append and Read, a kill).
LEMMA RestDoes ==
  ASSUME Shaped, QueriesOK, NEW p \in Procs, Does(p, AtRest)
  PROVE  Shaped' /\ QueriesOK' /\ Becomes(p, "idle", 0, Gone) /\ KeepFiles(p)
         /\ Finds(p, NoQuery, << >>)
<1>1. Does(p, [pc |-> "idle", path |-> 0, fd |-> Gone, query |-> NoQuery, events |-> << >>])
  BY AtRestIs
<1> QED BY <1>1, AtRestIs, DoesStep

\* The rename moves the file for everybody who has it open.
LEMMA RenameDoes ==
  ASSUME Shaped, QueriesOK, NEW p \in Procs, Rename(p)
  PROVE  /\ Shaped' /\ QueriesOK'
         /\ \/ /\ proc[p].path \in DOMAIN files
               /\ files' = Moved(proc[p].path, proc[p].path + 1)
               /\ MoveFiles(p, proc[p].path, proc[p].path + 1)
               /\ Becomes(p, NextPc(proc[p].path), NextT(proc[p].path), proc[p].fd)
               /\ Finds(p, proc[p].query, proc[p].events)
            \/ /\ proc[p].path \notin DOMAIN files /\ files' = files
               /\ Becomes(p, "idle", 0, Gone) /\ KeepFiles(p)
               /\ Finds(p, NoQuery, << >>)
<1>1. proc[p].query \in Queries
  BY DEF QueriesOK
<1>2. CASE proc[p].path \in DOMAIN files
  <2>1. DoesAndMoves(p, [pc |-> NextPc(proc[p].path), path |-> NextT(proc[p].path),
                         fd |-> proc[p].fd, query |-> proc[p].query,
                         events |-> proc[p].events], proc[p].path, proc[p].path + 1)
    BY <1>2, NextPathIs DEF Rename
  <2>2. files' = Moved(proc[p].path, proc[p].path + 1)
    BY <1>2 DEF Rename
  <2> QED BY <1>1, <1>2, <2>1, <2>2, DoesMoveStep
<1>3. CASE proc[p].path \notin DOMAIN files
  <2>1. Does(p, AtRest) /\ files' = files
    BY <1>3 DEF Rename
  <2> QED BY <1>3, <2>1, RestDoes
<1> QED BY <1>2, <1>3

\* The log is open at path 0.
LEMMA OpenLogDoes ==
  ASSUME Shaped, QueriesOK, NEW p \in Procs, OpenLog(p)
  PROVE  Shaped' /\ QueriesOK' /\ Becomes(p, "write", proc[p].path, 0) /\ KeepFiles(p)
         /\ Finds(p, proc[p].query, proc[p].events)
<1>1. proc[p].query \in Queries
  BY DEF QueriesOK
<1>2. Does(p, [pc |-> "write", path |-> proc[p].path, fd |-> 0,
               query |-> proc[p].query, events |-> proc[p].events])
  <2>1. Does(p, [proc[p] EXCEPT !.pc = "write", !.fd = 0])
    BY DEF OpenLog
  <2>2. [proc[p] EXCEPT !.pc = "write", !.fd = 0] =
          [pc |-> "write", path |-> proc[p].path, fd |-> 0,
           query |-> proc[p].query, events |-> proc[p].events]
    <3>1. \A c, f : [proc[p] EXCEPT !.pc = c, !.fd = f] =
            [pc |-> c, path |-> proc[p].path, fd |-> f,
             query |-> proc[p].query, events |-> proc[p].events]
      BY Fields
    <3> QED BY ONLY <3>1, Zenon
  <2> QED BY <2>1, <2>2
<1> QED BY <1>1, <1>2, DoesStep

\* A query goes through the paths from the oldest backup on.
LEMMA BeginReadDoes ==
  ASSUME Shaped, QueriesOK, NEW r \in Queries, BeginRead(r)
  PROVE  Shaped' /\ QueriesOK' /\ Becomes(Agent, "read", MaxBackups, Gone) /\ KeepFiles(Agent)
         /\ Finds(Agent, r, << >>)
<1>1. [AtRest EXCEPT !.pc = "read", !.path = MaxBackups, !.query = r] =
        [pc |-> "read", path |-> MaxBackups, fd |-> Gone, query |-> r, events |-> << >>]
  <2> DEFINE a == [pc |-> "idle", path |-> 0, fd |-> Gone, query |-> NoQuery, events |-> << >>]
             b == [pc |-> "read", path |-> 0, fd |-> Gone, query |-> NoQuery, events |-> << >>]
             c == [pc |-> "read", path |-> MaxBackups, fd |-> Gone, query |-> NoQuery,
                   events |-> << >>]
  <2>1. [AtRest EXCEPT !.pc = "read", !.path = MaxBackups, !.query = r] =
          [[[a EXCEPT !.pc = "read"] EXCEPT !.path = MaxBackups] EXCEPT !.query = r]
    BY DEF AtRest
  <2>2. [a EXCEPT !.pc = "read"] = b
    OBVIOUS
  <2>3. [b EXCEPT !.path = MaxBackups] = c
    OBVIOUS
  <2>4. [c EXCEPT !.query = r] =
          [pc |-> "read", path |-> MaxBackups, fd |-> Gone, query |-> r, events |-> << >>]
    OBVIOUS
  <2> QED BY <2>1, <2>2, <2>3, <2>4
<1>2. Does(Agent, [pc |-> "read", path |-> MaxBackups, fd |-> Gone, query |-> r, events |-> << >>])
  BY <1>1 DEF BeginRead
<1>3. Agent \in Procs
  BY DEF Procs
<1> QED BY <1>2, <1>3, DoesStep

\* One file is read and the next one is next.
LEMMA ReadFileDoes ==
  ASSUME Shaped, QueriesOK, ReadFile
  PROVE  /\ Shaped' /\ QueriesOK' /\ KeepFiles(Agent)
         /\ Finds(Agent, proc[Agent].query, ReadFound(proc[Agent]))
         /\ Becomes(Agent, "read", proc[Agent].path - 1, proc[Agent].fd)
<1>1. Agent \in Procs /\ proc[Agent].query \in Queries
  BY DEF Procs, QueriesOK
<1>2. proc[Agent].pc = "read"
  BY DEF ReadFile
<1>3. PICK g : g = ReadFound(proc[Agent])
  OBVIOUS
<1>4. Does(Agent, [proc[Agent] EXCEPT !.path = proc[Agent].path - 1, !.events = g])
  BY <1>3 DEF ReadFile
<1>5. Does(Agent, [pc |-> "read", path |-> proc[Agent].path - 1, fd |-> proc[Agent].fd,
                   query |-> proc[Agent].query, events |-> g])
  <2>1. [proc[Agent] EXCEPT !.path = proc[Agent].path - 1, !.events = g] =
          [pc |-> proc[Agent].pc, path |-> proc[Agent].path - 1, fd |-> proc[Agent].fd,
           query |-> proc[Agent].query, events |-> g]
    BY <1>1, Fields
  <2> QED BY <1>2, <1>4, <2>1
<1> QED BY <1>1, <1>3, <1>5, DoesStep

-----------------------------------------------------------------------------
(* Types and space *)

FilesOK == DOMAIN files \subseteq Paths /\ files \in [DOMAIN files -> Seq(Events)]
WrittenOK == written \in Seq(Procs) /\ RoomForEvents

PCs == {"idle", "stat", "shift", "unlink", "rename", "open", "write", "read"}
ControlOK ==
  \A p \in Procs :
    /\ proc[p].pc \in PCs /\ proc[p].path \in Paths /\ proc[p].fd \in Paths \cup {Gone}
    /\ proc[p].pc \in {"unlink", "rename"} => proc[p].path < MaxBackups

\* The inductive invariant: a call in progress has its place in the bound on
\* events, and one that will write has its place in the file it will write to.
SpaceInv ==
  /\ Shaped /\ QueriesOK /\ ControlOK /\ FilesOK /\ WrittenOK /\ RoomForWriters
  /\ overlapped \in BOOLEAN /\ crashes \in 0..MaxCrashes

\* The constants are natural numbers and there are finitely many processes.
LEMMA Constants ==
  /\ MaxBackups \in Nat \ {0} /\ MaxFileSize \in Nat \ {0} /\ MaxEvents \in Nat
  /\ MaxCrashes \in Nat
  /\ IsFiniteSet(Procs) /\ Agent \in Procs /\ Cardinality(Procs) \in Nat \ {0}
  /\ Paths = 0..MaxBackups /\ 0 \in Paths /\ MaxBackups \in Paths /\ Gone \notin Paths
<1>1. /\ MaxBackups \in Nat \ {0} /\ MaxFileSize \in Nat \ {0} /\ MaxEvents \in Nat
      /\ MaxCrashes \in Nat /\ IsFiniteSet(Commands)
  BY ConstantsAssumption
<1>2. IsFiniteSet(Procs) /\ Agent \in Procs
  BY <1>1, FS_AddElement, FS_Singleton, FS_Union DEF Procs
<1>3. Cardinality(Procs) \in Nat /\ Cardinality(Procs) # 0
  BY <1>2, FS_CardinalityType, FS_EmptySet
<1>4. Paths = 0..MaxBackups /\ 0 \in Paths /\ MaxBackups \in Paths /\ Gone \notin Paths
  BY <1>1 DEF Paths, Gone
<1> QED BY <1>1, <1>2, <1>3, <1>4

\* Sets of processes are finite and no larger than the set of all.
LEMMA ProcsCounted ==
  ASSUME NEW S \in SUBSET Procs, NEW T \in SUBSET S
  PROVE  /\ IsFiniteSet(S) /\ Cardinality(S) \in Nat /\ Cardinality(S) <= Cardinality(Procs)
         /\ IsFiniteSet(T) /\ Cardinality(T) \in Nat /\ Cardinality(T) <= Cardinality(S)
BY Constants, FS_Subset, FS_CardinalityType

\* What a step does to the files it is about: the control of every process stays
\* in its range.
LEMMA ControlStep ==
  ASSUME ControlOK, NEW p \in Procs, NEW c \in PCs, NEW t \in Paths,
         NEW f \in Paths \cup {Gone}, Becomes(p, c, t, f),
         c \in {"unlink", "rename"} => t < MaxBackups,
         KeepFiles(p) \/ \E i, j : j \in Paths \cup {Gone} /\ MoveFiles(p, i, j)
  PROVE  ControlOK'
<1>1. \A q \in Procs \ {p} : proc'[q].fd \in Paths \cup {Gone}
  BY DEF ControlOK, KeepFiles, MoveFiles, Gone
<1> QED BY <1>1 DEF ControlOK, Becomes, Paths

\* A step that writes no event keeps the events' bound if nobody but a new call
\* with room for its event starts to append (BeginAppend).
LEMMA WrittenStep ==
  ASSUME WrittenOK, written' = written, NEW p \in Procs,
         \/ Appending' \subseteq Appending
         \/ /\ Appending' \subseteq Appending \cup {p}
            /\ Len(written) + Cardinality(Appending) < MaxEvents
  PROVE  WrittenOK'
<1>1. Appending \in SUBSET Procs /\ Appending' \in SUBSET Procs
  BY DEF Appending
<1>2. Len(written) \in Nat
  BY DEF WrittenOK
<1>3. CASE Appending' \subseteq Appending
  <2>1. /\ Cardinality(Appending') <= Cardinality(Appending)
        /\ Cardinality(Appending') \in Nat /\ Cardinality(Appending) \in Nat
    BY <1>1, <1>3, ProcsCounted
  <2>2. Len(written) + Cardinality(Appending') <= MaxEvents
    BY <1>2, <2>1, Constants DEF WrittenOK, RoomForEvents
  <2> QED BY <2>2 DEF WrittenOK, RoomForEvents
<1>4. CASE /\ Appending' \subseteq Appending \cup {p}
           /\ Len(written) + Cardinality(Appending) < MaxEvents
  <2>1. IsFiniteSet(Appending) /\ Cardinality(Appending) \in Nat
    BY <1>1, ProcsCounted
  <2>2. /\ Cardinality(Appending \cup {p}) <= Cardinality(Appending) + 1
        /\ Appending \cup {p} \in SUBSET Procs
    <3>1. \/ Cardinality(Appending \cup {p}) = Cardinality(Appending)
          \/ Cardinality(Appending \cup {p}) = Cardinality(Appending) + 1
      BY <2>1, FS_AddElement
    <3>2. Appending \cup {p} \in SUBSET Procs
      BY <1>1
    <3> QED BY <2>1, <3>1, <3>2
  <2>3. /\ Cardinality(Appending') <= Cardinality(Appending \cup {p})
        /\ Cardinality(Appending') \in Nat /\ Cardinality(Appending \cup {p}) \in Nat
    BY <1>4, <2>2, ProcsCounted
  <2>4. Len(written) + Cardinality(Appending') <= MaxEvents
    BY <1>2, <1>4, <2>1, <2>2, <2>3, Constants
  <2> QED BY <2>4 DEF WrittenOK, RoomForEvents
<1> QED BY <1>3, <1>4

\* Every file is one there was before, with no more writers, or one that is not
\* full: then all processes may write to it.
LEMMA RoomStep ==
  ASSUME RoomForWriters,
         \A i \in DOMAIN files' :
           \/ \E j \in DOMAIN files : /\ files'[i] = files[j] /\ Len(files[j]) \in Nat
                                      /\ Writers(i)' \subseteq Writers(j)
           \/ Len(files'[i]) \in Nat /\ Len(files'[i]) < MaxFileSize
  PROVE  RoomForWriters'
<1> SUFFICES ASSUME NEW i \in DOMAIN files'
             PROVE  Len(files'[i]) + Cardinality(Writers(i)') < MaxFileSize + Cardinality(Procs)
  BY DEF RoomForWriters
<1>1. Writers(i)' \in SUBSET Procs
  BY DEF Writers
<1>2. Cardinality(Writers(i)') \in Nat /\ Cardinality(Writers(i)') <= Cardinality(Procs)
  BY <1>1, ProcsCounted
<1>3. CASE Len(files'[i]) \in Nat /\ Len(files'[i]) < MaxFileSize
  BY <1>2, <1>3, Constants
<1>4. ASSUME NEW j \in DOMAIN files, files'[i] = files[j], Len(files[j]) \in Nat,
             Writers(i)' \subseteq Writers(j)
      PROVE  Len(files'[i]) + Cardinality(Writers(i)') < MaxFileSize + Cardinality(Procs)
  <2>1. Writers(j) \in SUBSET Procs
    BY DEF Writers
  <2>2. /\ Cardinality(Writers(i)') <= Cardinality(Writers(j))
        /\ Cardinality(Writers(j)) \in Nat
    BY <1>4, <2>1, ProcsCounted
  <2>3. Len(files[j]) + Cardinality(Writers(j)) < MaxFileSize + Cardinality(Procs)
    BY DEF RoomForWriters
  <2> QED BY <1>2, <1>4, <2>2, <2>3, Constants
<1> QED BY <1>3, <1>4

\* Nobody but p can start to append, and p only from rest.
LEMMA AppendingStep ==
  ASSUME NEW p \in Procs, NEW c, NEW t, NEW f, Becomes(p, c, t, f)
  PROVE  /\ Appending' \subseteq Appending \cup {p}
         /\ c \in {"idle", "read"} \/ proc[p].pc \notin {"idle", "read"} =>
              Appending' \subseteq Appending
BY DEF Appending, Becomes

\* A path gets a new writer only when one opens the log there.
LEMMA WritersStep ==
  ASSUME NEW p \in Procs, NEW c, NEW t, NEW f, Becomes(p, c, t, f), NEW i \in Paths,
         KeepFiles(p) \/ \E j : MoveFiles(p, j, Gone),
         \/ c # "write" /\ (c = "open" => i # 0)
         \/ c = "write" /\ f = 0 /\ proc[p].pc = "open"
  PROVE  Writers(i)' \subseteq Writers(i)
<1>1. i # Gone
  BY Constants
<1>2. \A q \in Procs \ {p} : proc'[q].fd = i => proc[q].fd = i
  BY <1>1 DEF KeepFiles, MoveFiles
<1>3. \A q \in Procs \ {p} : q \in Writers(i)' => q \in Writers(i)
  BY <1>2 DEF Writers, Becomes
<1>4. p \in Writers(i)' => p \in Writers(i)
  BY DEF Writers, Becomes
<1>5. Writers(i)' \subseteq Procs
  BY DEF Writers
<1> QED BY <1>3, <1>4, <1>5

\* A step that leaves the files alone, or removes one, and writes no event.
LEMMA QuietStep ==
  ASSUME SpaceInv, Shaped', QueriesOK', written' = written,
         overlapped' \in BOOLEAN, crashes' \in 0..MaxCrashes,
         NEW p \in Procs, NEW c \in PCs, NEW t \in Paths, NEW f \in Paths \cup {Gone},
         Becomes(p, c, t, f), c # "write", c \in {"unlink", "rename"} => t < MaxBackups,
         c = "open" => 0 \notin DOMAIN files \/ Len(files[0]) < MaxFileSize,
         \/ c \in {"idle", "read"} \/ proc[p].pc \notin {"idle", "read"}
         \/ Len(written) + Cardinality(Appending) < MaxEvents,
         \/ files' = files /\ KeepFiles(p)
         \/ c # "open" /\ \E j : files' = Unlink(j) /\ MoveFiles(p, j, Gone)
  PROVE  SpaceInv'
<1>1. KeepFiles(p) \/ \E j : MoveFiles(p, j, Gone)
  OBVIOUS
<1>2. ControlOK'
  BY <1>1, ControlStep DEF SpaceInv
<1>3. WrittenOK'
  BY AppendingStep, WrittenStep DEF SpaceInv
<1>4. \A i \in DOMAIN files' : i \in DOMAIN files /\ files'[i] = files[i]
  BY DEF Unlink
<1>5. files' = [i \in DOMAIN files' |-> files'[i]]
  BY DEF Unlink, SpaceInv, FilesOK
<1>6. Events' = Events
  BY DEF Events
<1>7. FilesOK'
  BY <1>4, <1>5, <1>6 DEF FilesOK, SpaceInv, Paths
<1>8. RoomForWriters'
  <2>1. ASSUME NEW i \in DOMAIN files'
        PROVE  \/ \E j \in DOMAIN files : /\ files'[i] = files[j] /\ Len(files[j]) \in Nat
                                          /\ Writers(i)' \subseteq Writers(j)
               \/ Len(files'[i]) \in Nat /\ Len(files'[i]) < MaxFileSize
    <3>1. i \in DOMAIN files /\ files'[i] = files[i] /\ i \in Paths
      BY <2>1, <1>4 DEF SpaceInv, FilesOK
    <3>2. Len(files[i]) \in Nat
      BY <3>1 DEF SpaceInv, FilesOK
    <3>3. CASE c = "open" /\ i = 0
      BY <3>1, <3>2, <3>3
    <3>4. CASE ~(c = "open" /\ i = 0)
      <4>1. Writers(i)' \subseteq Writers(i)
        BY <3>1, <3>4, <1>1, WritersStep
      <4> QED BY <3>1, <3>2, <4>1
    <3> QED BY <3>3, <3>4
  <2> QED BY <2>1, RoomStep DEF SpaceInv
<1> QED BY <1>2, <1>3, <1>7, <1>8 DEF SpaceInv

\* The actions of Append that write nothing yet (rotateIfNeeded and before it).
LEMMA RotationSpace ==
  ASSUME SpaceInv, NEW p \in Procs,
         BeginAppend(p) \/ StatLog(p) \/ RemoveOldest(p) \/ StatSource(p) \/ RemoveTarget(p)
  PROVE  SpaceInv'
<1>0. /\ Shaped /\ QueriesOK /\ ControlOK /\ overlapped \in BOOLEAN /\ crashes \in 0..MaxCrashes
      /\ proc[p].pc \in PCs /\ proc[p].path \in Paths /\ proc[p].fd \in Paths \cup {Gone}
  BY DEF SpaceInv, ControlOK
<1>1. CASE BeginAppend(p)
  <2>1. /\ Shaped' /\ QueriesOK' /\ Becomes(p, "stat", proc[p].path, proc[p].fd) /\ KeepFiles(p)
    BY <1>0, <1>1, BeginAppendDoes
  <2>2. /\ written' = written /\ files' = files /\ crashes' = crashes /\ overlapped' \in BOOLEAN
        /\ Len(written) + Cardinality(Appending) < MaxEvents
    BY <1>0, <1>1 DEF BeginAppend, Starts
  <2> QED BY <1>0, <2>1, <2>2, QuietStep DEF PCs
<1>2. CASE StatLog(p)
  <2>1. /\ Shaped' /\ QueriesOK' /\ KeepFiles(p)
        /\ Becomes(p, IF IsFull THEN "shift" ELSE "open",
                      IF IsFull THEN MaxBackups ELSE proc[p].path, proc[p].fd)
    BY <1>0, <1>2, StatLogDoes
  <2>2. /\ written' = written /\ files' = files /\ crashes' = crashes
        /\ overlapped' = overlapped /\ proc[p].pc = "stat"
    BY <1>2 DEF StatLog
  <2>3. CASE IsFull
    <3>1. Becomes(p, "shift", MaxBackups, proc[p].fd)
      BY <2>1, <2>3
    <3> QED BY <1>0, <2>1, <2>2, <3>1, Constants, QuietStep DEF PCs
  <2>4. CASE ~IsFull
    <3>1. Becomes(p, "open", proc[p].path, proc[p].fd)
      BY <2>1, <2>4
    <3>2. 0 \in DOMAIN files => Len(files[0]) \in Nat
      BY DEF SpaceInv, FilesOK
    <3>3. 0 \notin DOMAIN files \/ Len(files[0]) < MaxFileSize
      BY <2>4, <3>2, Constants DEF IsFull
    <3> QED BY <1>0, <2>1, <2>2, <3>1, <3>3, QuietStep DEF PCs
  <2> QED BY <2>3, <2>4
<1>3. CASE RemoveOldest(p)
  <2>1. /\ Shaped' /\ QueriesOK' /\ MoveFiles(p, MaxBackups, Gone)
        /\ Becomes(p, "shift", MaxBackups - 1, proc[p].fd)
    BY <1>0, <1>3, RemoveOldestDoes
  <2>2. /\ written' = written /\ files' = Unlink(MaxBackups) /\ crashes' = crashes
        /\ overlapped' = overlapped /\ proc[p].pc = "shift"
    BY <1>3 DEF RemoveOldest
  <2>3. MaxBackups - 1 \in Paths
    BY Constants
  <2>4. \E j : files' = Unlink(j) /\ MoveFiles(p, j, Gone)
    BY <2>1, <2>2
  <2> QED BY <1>0, <2>1, <2>2, <2>3, <2>4, QuietStep DEF PCs
<1>4. CASE StatSource(p)
  <2>1. /\ Shaped' /\ QueriesOK' /\ KeepFiles(p)
        /\ proc[p].path \in DOMAIN files => Becomes(p, "unlink", proc[p].path, proc[p].fd)
        /\ proc[p].path \notin DOMAIN files =>
             Becomes(p, NextPc(proc[p].path), NextT(proc[p].path), proc[p].fd)
    BY <1>0, <1>4, StatSourceDoes
  <2>2. /\ written' = written /\ files' = files /\ crashes' = crashes
        /\ overlapped' = overlapped /\ proc[p].pc = "shift" /\ proc[p].path < MaxBackups
    BY <1>4 DEF StatSource
  <2>3. CASE proc[p].path \in DOMAIN files
    BY <1>0, <2>1, <2>2, <2>3, QuietStep DEF PCs
  <2>4. CASE proc[p].path \notin DOMAIN files
    <3>1. NextPc(proc[p].path) \in PCs \ {"write", "unlink", "rename"} /\ NextT(proc[p].path) \in Paths
      BY <1>0, Constants DEF NextPc, NextT, PCs
    <3>2. NextPc(proc[p].path) = "open" => 0 \notin DOMAIN files
      BY <2>4 DEF NextPc
    <3> QED BY <1>0, <2>1, <2>2, <2>4, <3>1, <3>2, QuietStep
  <2> QED BY <2>3, <2>4
<1>5. CASE RemoveTarget(p)
  <2>1. /\ Shaped' /\ QueriesOK' /\ MoveFiles(p, proc[p].path + 1, Gone)
        /\ Becomes(p, "rename", proc[p].path, proc[p].fd)
    BY <1>0, <1>5, RemoveTargetDoes
  <2>2. /\ written' = written /\ files' = Unlink(proc[p].path + 1) /\ crashes' = crashes
        /\ overlapped' = overlapped /\ proc[p].pc = "unlink" /\ proc[p].path < MaxBackups
    BY <1>0, <1>5 DEF RemoveTarget, ControlOK
  <2>3. \E j : files' = Unlink(j) /\ MoveFiles(p, j, Gone)
    BY <2>1, <2>2
  <2> QED BY <1>0, <2>1, <2>2, <2>3, QuietStep DEF PCs
<1> QED BY <1>1, <1>2, <1>3, <1>4, <1>5

\* A kill, and the steps of a query (Read).
LEMMA OtherSpace ==
  ASSUME SpaceInv,
         \/ \E p \in Procs : Crash(p)
         \/ \E tail \in Tails, actor \in Procs : BeginRead([tail |-> tail, actor |-> actor])
         \/ ReadFile \/ EndRead
  PROVE  SpaceInv'
<1>0. /\ Shaped /\ QueriesOK /\ ControlOK /\ overlapped \in BOOLEAN /\ crashes \in 0..MaxCrashes
  BY DEF SpaceInv
<1>1. ASSUME NEW p \in Procs, Crash(p)
      PROVE  SpaceInv'
  <2>1. Shaped' /\ QueriesOK' /\ Becomes(p, "idle", 0, Gone) /\ KeepFiles(p)
    BY <1>0, <1>1, RestDoes DEF Crash
  <2>2. written' = written /\ files' = files /\ overlapped' = overlapped
    BY <1>1 DEF Crash
  <2>3. crashes' \in 0..MaxCrashes
    BY <1>0, <1>1, Constants DEF Crash
  <2> QED BY <1>0, <2>1, <2>2, <2>3, Constants, QuietStep DEF PCs
<1>2. ASSUME NEW tail \in Tails, NEW actor \in Procs,
             BeginRead([tail |-> tail, actor |-> actor])
      PROVE  SpaceInv'
  <2>1. [tail |-> tail, actor |-> actor] \in Queries
    BY DEF Queries
  <2>2. Shaped' /\ QueriesOK' /\ Becomes(Agent, "read", MaxBackups, Gone) /\ KeepFiles(Agent)
    BY <1>0, <1>2, <2>1, BeginReadDoes
  <2>3. written' = written /\ files' = files /\ crashes' = crashes /\ overlapped' \in BOOLEAN
    BY <1>0, <1>2 DEF BeginRead, Starts
  <2> QED BY <1>0, <2>2, <2>3, Constants, QuietStep DEF PCs
<1>3. CASE ReadFile
  <2>1. /\ Shaped' /\ QueriesOK' /\ KeepFiles(Agent)
        /\ Becomes(Agent, "read", proc[Agent].path - 1, proc[Agent].fd)
    BY <1>0, <1>3, ReadFileDoes
  <2>2. /\ written' = written /\ files' = files /\ crashes' = crashes /\ overlapped' = overlapped
        /\ proc[Agent].path > 0
    BY <1>3 DEF ReadFile
  <2>3. proc[Agent].path - 1 \in Paths /\ proc[Agent].fd \in Paths \cup {Gone}
    BY <1>0, <2>2, Constants DEF ControlOK
  <2> QED BY <1>0, <2>1, <2>2, <2>3, Constants, QuietStep DEF PCs
<1>4. CASE EndRead
  <2>1. Shaped' /\ QueriesOK' /\ Becomes(Agent, "idle", 0, Gone) /\ KeepFiles(Agent)
    BY <1>0, <1>4, Constants, RestDoes DEF EndRead
  <2>2. written' = written /\ files' = files /\ crashes' = crashes /\ overlapped' = overlapped
    BY <1>4 DEF EndRead
  <2> QED BY <1>0, <2>1, <2>2, Constants, QuietStep DEF PCs
<1> QED BY <1>1, <1>2, <1>3, <1>4

\* The rename of rotateIfNeeded takes the writers along; after the last one the
\* log does not exist.
LEMMA RenameSpace ==
  ASSUME SpaceInv, NEW p \in Procs, Rename(p)
  PROVE  SpaceInv'
<1>0. /\ Shaped /\ QueriesOK /\ ControlOK /\ overlapped \in BOOLEAN /\ crashes \in 0..MaxCrashes
      /\ proc[p].pc \in PCs /\ proc[p].path \in Paths /\ proc[p].fd \in Paths \cup {Gone}
  BY DEF SpaceInv, ControlOK
<1>1. /\ written' = written /\ crashes' = crashes
      /\ overlapped' = overlapped /\ proc[p].pc = "rename" /\ proc[p].path < MaxBackups
  BY <1>0 DEF Rename, ControlOK
<1>2. CASE /\ proc[p].path \notin DOMAIN files /\ files' = files
           /\ Becomes(p, "idle", 0, Gone) /\ KeepFiles(p) /\ Shaped' /\ QueriesOK'
  BY <1>0, <1>1, <1>2, Constants, QuietStep DEF PCs
<1>3. ASSUME NEW s, s = proc[p].path, s \in DOMAIN files, files' = Moved(s, s + 1),
             MoveFiles(p, s, s + 1), Becomes(p, NextPc(s), NextT(s), proc[p].fd),
             Shaped', QueriesOK'
      PROVE  SpaceInv'
  <2>0. s \in Paths /\ s + 1 \in Paths /\ s # s + 1 /\ s # Gone /\ s + 1 # Gone
    BY <1>0, <1>1, <1>3, Constants DEF Gone
  <2>1. /\ DOMAIN files' = (DOMAIN files \ {s}) \cup {s + 1} /\ files'[s + 1] = files[s]
        /\ \A i \in DOMAIN files' \ {s + 1} : i \in DOMAIN files /\ files'[i] = files[i]
        /\ files' = [i \in DOMAIN files' |-> files'[i]]
    BY <1>3 DEF Moved
  <2>2. NextPc(s) \in {"shift", "open"} /\ NextT(s) \in Paths /\ (NextPc(s) = "open" => s = 0)
    BY <1>0, <1>3, Constants DEF NextPc, NextT
  <2>3. ControlOK'
    BY <1>0, <1>3, <2>0, <2>2, ControlStep DEF PCs
  <2>4. WrittenOK'
    BY <1>1, <1>3, AppendingStep, WrittenStep DEF SpaceInv
  <2>5. Events' = Events /\ Paths' = Paths
    BY <1>1 DEF Events, Paths
  <2>6. FilesOK'
    <3>1. \A i \in DOMAIN files' : i \in Paths /\ files'[i] \in Seq(Events)
      BY <1>3, <2>0, <2>1 DEF SpaceInv, FilesOK
    <3> QED BY <2>1, <2>5, <3>1 DEF FilesOK
  <2>7. RoomForWriters'
    <3>1. ASSUME NEW i \in DOMAIN files'
          PROVE  \E j \in DOMAIN files : /\ files'[i] = files[j] /\ Len(files[j]) \in Nat
                                         /\ Writers(i)' \subseteq Writers(j)
      <4>1. CASE i = s + 1
        <5>1. \A q \in Procs \ {p} : proc'[q].fd = s + 1 => proc[q].fd = s
          BY <1>3, <2>0 DEF MoveFiles
        <5>2. s + 1 # 0
          BY <2>0, Constants
        <5>3. Writers(s + 1)' \subseteq Writers(s)
          BY <1>3, <2>2, <5>1, <5>2 DEF Writers, Becomes
        <5>4. Len(files[s]) \in Nat
          BY <1>3 DEF SpaceInv, FilesOK
        <5> QED BY <1>3, <2>1, <4>1, <5>3, <5>4
      <4>2. CASE i # s + 1
        <5>1. i \in DOMAIN files /\ i # s /\ files'[i] = files[i]
          BY <2>0, <2>1, <4>2
        <5>2. i # Gone /\ Len(files[i]) \in Nat
          BY <5>1, Constants DEF SpaceInv, FilesOK
        <5>3. \A q \in Procs \ {p} : proc'[q].fd = i => proc[q].fd = i
          BY <1>3, <4>2, <5>1, <5>2 DEF MoveFiles
        <5>4. Writers(i)' \subseteq Writers(i)
          BY <1>3, <2>2, <5>1, <5>3 DEF Writers, Becomes
        <5> QED BY <5>1, <5>2, <5>4
      <4> QED BY <4>1, <4>2
    <3> QED BY <3>1, RoomStep DEF SpaceInv
  <2> QED BY <1>0, <1>1, <1>3, <2>3, <2>4, <2>6, <2>7 DEF SpaceInv
<1> QED BY <1>0, <1>2, <1>3, RenameDoes

\* Append opens the log it decided to write to, or creates an empty one.
LEMMA OpenLogSpace ==
  ASSUME SpaceInv, NEW p \in Procs, OpenLog(p)
  PROVE  SpaceInv'
<1>0. /\ Shaped /\ QueriesOK /\ ControlOK /\ overlapped \in BOOLEAN /\ crashes \in 0..MaxCrashes
      /\ proc[p].path \in Paths
  BY DEF SpaceInv, ControlOK
<1>1. /\ written' = written /\ crashes' = crashes
      /\ overlapped' = overlapped /\ proc[p].pc = "open"
  BY DEF OpenLog
<1>2. Shaped' /\ QueriesOK' /\ Becomes(p, "write", proc[p].path, 0) /\ KeepFiles(p)
  BY <1>0, OpenLogDoes
<1>3. /\ DOMAIN files' = DOMAIN files \cup {0}
      /\ \A i \in DOMAIN files : files'[i] = files[i]
      /\ 0 \notin DOMAIN files => files'[0] = << >>
      /\ files' = [i \in DOMAIN files' |-> files'[i]]
  BY DEF OpenLog
<1>4. ControlOK'
  BY <1>0, <1>2, Constants, ControlStep DEF PCs
<1>5. WrittenOK'
  BY <1>1, <1>2, AppendingStep, WrittenStep DEF SpaceInv
<1>6. FilesOK'
  <2>1. \A i \in DOMAIN files' : i \in Paths /\ files'[i] \in Seq(Events)
    BY <1>3, Constants DEF SpaceInv, FilesOK
  <2>2. Events' = Events /\ Paths' = Paths
    BY <1>1 DEF Events, Paths
  <2> QED BY <1>3, <2>1, <2>2 DEF FilesOK
<1>7. RoomForWriters'
  <2>1. ASSUME NEW i \in DOMAIN files'
        PROVE  \/ \E j \in DOMAIN files : /\ files'[i] = files[j] /\ Len(files[j]) \in Nat
                                          /\ Writers(i)' \subseteq Writers(j)
               \/ Len(files'[i]) \in Nat /\ Len(files'[i]) < MaxFileSize
    <3>1. CASE i \in DOMAIN files
      <4>1. i \in Paths /\ Len(files[i]) \in Nat /\ files'[i] = files[i]
        BY <1>3, <3>1 DEF SpaceInv, FilesOK
      <4>2. Writers(i)' \subseteq Writers(i)
        BY <1>1, <1>2, <4>1, WritersStep
      <4> QED BY <3>1, <4>1, <4>2
    <3>2. CASE i \notin DOMAIN files
      <4>1. Len(files'[i]) = 0
        BY <1>3, <2>1, <3>2
      <4> QED BY <4>1, Constants
    <3> QED BY <3>1, <3>2
  <2> QED BY <2>1, RoomStep DEF SpaceInv
<1> QED BY <1>0, <1>1, <1>2, <1>4, <1>5, <1>6, <1>7 DEF SpaceInv

\* The writer takes its place in the file and among the events (WriteEvent).
LEMMA WriteEventSpace ==
  ASSUME SpaceInv, NEW p \in Procs, WriteEvent(p)
  PROVE  SpaceInv'
<1> DEFINE n == Len(written) + 1
<1>0. /\ Shaped /\ QueriesOK /\ ControlOK /\ overlapped \in BOOLEAN /\ crashes \in 0..MaxCrashes
      /\ Len(written) \in Nat /\ written \in Seq(Procs)
  BY DEF SpaceInv, WrittenOK
<1>1. /\ written' = Append(written, p) /\ crashes' = crashes
      /\ overlapped' = overlapped /\ proc[p].pc = "write"
  BY DEF WriteEvent
<1>2. Shaped' /\ QueriesOK' /\ Becomes(p, "idle", 0, Gone) /\ KeepFiles(p)
  BY <1>0, RestDoes DEF WriteEvent
<1>3. /\ DOMAIN files' = DOMAIN files
      /\ \A i \in DOMAIN files :
           files'[i] = IF i = proc[p].fd THEN Append(files[i], n) ELSE files[i]
      /\ files' = [i \in DOMAIN files' |-> files'[i]]
  BY DEF WriteEvent
<1>4. Len(written') = n /\ written' \in Seq(Procs)
  BY <1>0, <1>1
<1>5. ControlOK'
  BY <1>0, <1>2, Constants, ControlStep DEF PCs
<1>6. WrittenOK'
  <2>1. Appending' = Appending \ {p} /\ p \in Appending
    BY <1>1, <1>2 DEF Appending, Becomes
  <2>2. Appending \in SUBSET Procs
    BY DEF Appending
  <2>3. IsFiniteSet(Appending) /\ Cardinality(Appending) \in Nat
    BY <2>2, ProcsCounted
  <2>4. Cardinality(Appending') = Cardinality(Appending) - 1
    BY <2>1, <2>3, FS_RemoveElement
  <2>5. Len(written) + Cardinality(Appending) <= MaxEvents
    BY DEF SpaceInv, WrittenOK, RoomForEvents
  <2>6. Len(written') + Cardinality(Appending') <= MaxEvents
    BY <1>0, <1>4, <2>3, <2>4, <2>5, Constants
  <2> QED BY <1>4, <2>6 DEF WrittenOK, RoomForEvents
<1>7. FilesOK'
  <2>1. Events' = 1..n /\ Events = 1..Len(written) /\ Paths' = Paths
    BY <1>4 DEF Events, Paths
  <2>2. ASSUME NEW i \in DOMAIN files
        PROVE  i \in Paths /\ files'[i] \in Seq(1..n)
    <3>1. i \in Paths /\ files[i] \in Seq(1..Len(written))
      BY <2>1 DEF SpaceInv, FilesOK
    <3>2. files[i] \in Seq(1..n) /\ n \in 1..n
      BY <1>0, <3>1
    <3>3. Append(files[i], n) \in Seq(1..n)
      BY <3>2
    <3> QED BY <1>3, <3>1, <3>2, <3>3
  <2> QED BY <1>3, <2>1, <2>2 DEF FilesOK
<1>8. RoomForWriters'
  <2> SUFFICES ASSUME NEW i \in DOMAIN files
               PROVE  Len(files'[i]) + Cardinality(Writers(i)') <
                        MaxFileSize + Cardinality(Procs)
    BY <1>3 DEF RoomForWriters
  <2>1. i \in Paths /\ files[i] \in Seq(Events) /\ Len(files[i]) \in Nat
    BY DEF SpaceInv, FilesOK
  <2>2. Writers(i)' \subseteq Writers(i)
    BY <1>2, <2>1, WritersStep
  <2>3. Writers(i) \in SUBSET Procs
    BY DEF Writers
  <2>4. /\ IsFiniteSet(Writers(i)) /\ Cardinality(Writers(i)) \in Nat
        /\ Cardinality(Writers(i)') \in Nat
        /\ Cardinality(Writers(i)') <= Cardinality(Writers(i))
    BY <2>2, <2>3, ProcsCounted
  <2>5. Len(files[i]) + Cardinality(Writers(i)) < MaxFileSize + Cardinality(Procs)
    BY DEF SpaceInv, RoomForWriters
  <2>6. CASE i # proc[p].fd
    <3>1. files'[i] = files[i]
      BY <1>3, <2>6
    <3> QED BY <2>1, <2>4, <2>5, <3>1, Constants
  <2>7. CASE i = proc[p].fd
    <3>1. p \in Writers(i) /\ p \notin Writers(i)'
      BY <1>1, <1>2, <2>7 DEF Writers, Becomes
    <3>2. Writers(i)' \subseteq Writers(i) \ {p} /\ Writers(i) \ {p} \in SUBSET Procs
      BY <2>2, <2>3, <3>1
    <3>3. /\ Cardinality(Writers(i)') <= Cardinality(Writers(i) \ {p})
          /\ Cardinality(Writers(i) \ {p}) = Cardinality(Writers(i)) - 1
      BY <2>4, <3>1, <3>2, ProcsCounted, FS_RemoveElement
    <3>4. Len(files'[i]) = Len(files[i]) + 1
      BY <1>3, <2>1, <2>7
    <3> QED BY <2>1, <2>4, <2>5, <3>3, <3>4, Constants
  <2> QED BY <2>6, <2>7
<1> QED BY <1>0, <1>1, <1>2, <1>5, <1>6, <1>7, <1>8 DEF SpaceInv

\* At the start there is no file and nobody is in a call.
LEMMA InitSpace == Init => SpaceInv
<1> SUFFICES ASSUME Init PROVE SpaceInv
  OBVIOUS
<1>1. /\ files = << >> /\ written = << >> /\ overlapped = FALSE /\ crashes = 0
      /\ proc = [p \in Procs |-> AtRest]
  BY DEF Init
<1>2. \A p \in Procs : proc[p] = AtRest
  BY <1>1
<1>3. Shaped /\ QueriesOK /\ ControlOK
  BY <1>1, <1>2, AtRestIs, Constants DEF Shaped, QueriesOK, ControlOK, PCs
<1>4. DOMAIN files = {} /\ Len(written) = 0
  BY <1>1
<1>5. FilesOK /\ RoomForWriters
  BY <1>1, <1>4 DEF FilesOK, RoomForWriters
<1>6. WrittenOK
  <2>1. Appending = {}
    BY <1>2, AtRestIs DEF Appending
  <2>2. Cardinality(Appending) = 0
    BY <2>1, FS_EmptySet
  <2> QED BY <1>1, <1>4, <2>2, Constants DEF WrittenOK, RoomForEvents
<1>7. overlapped \in BOOLEAN
  BY <1>1
<1>8. crashes \in 0..MaxCrashes
  BY <1>1, Constants
<1> QED BY <1>3, <1>5, <1>6, <1>7, <1>8 DEF SpaceInv

\* A stuttering step changes nothing.
LEMMA StutterSpace ==
  ASSUME SpaceInv, UNCHANGED vars
  PROVE  SpaceInv'
BY DEF SpaceInv, vars, Shaped, QueriesOK, ControlOK, FilesOK, WrittenOK, RoomForWriters,
       RoomForEvents, Appending, Writers, Events, Paths

\* Every action of every process keeps the space invariant.
LEMMA NextSpace ==
  ASSUME SpaceInv, [Next]_vars
  PROVE  SpaceInv'
<1>1. CASE \E p \in Procs : BeginAppend(p) \/ StatLog(p) \/ RemoveOldest(p) \/ StatSource(p)
                            \/ RemoveTarget(p)
  BY <1>1, RotationSpace
<1>2. CASE \E p \in Procs : Rename(p)
  BY <1>2, RenameSpace
<1>3. CASE \E p \in Procs : OpenLog(p)
  BY <1>3, OpenLogSpace
<1>4. CASE \E p \in Procs : WriteEvent(p)
  BY <1>4, WriteEventSpace
<1>5. CASE \/ \E p \in Procs : Crash(p)
           \/ \E tail \in Tails, actor \in Procs : BeginRead([tail |-> tail, actor |-> actor])
           \/ ReadFile \/ EndRead
  BY <1>5, OtherSpace
<1>6. CASE UNCHANGED vars
  BY <1>6, StutterSpace
<1> QED BY <1>1, <1>2, <1>3, <1>4, <1>5, <1>6 DEF Next

\* The space invariant holds in every reachable state.
THEOREM SpaceAlways == Spec => []SpaceInv
<1> QED BY InitSpace, NextSpace, PTL DEF Spec

\* However many processes race through rotateIfNeeded and the write behind it, no
\* file exceeds maxFileSize by more than one event for each other process.
THEOREM SpaceIsBounded == Spec => []FilesBounded
<1>1. SpaceInv => FilesBounded
  <2> SUFFICES ASSUME SpaceInv, NEW i \in DOMAIN files
               PROVE  Len(files[i]) < MaxFileSize + Cardinality(Procs)
    BY DEF FilesBounded
  <2>1. Len(files[i]) + Cardinality(Writers(i)) < MaxFileSize + Cardinality(Procs)
    BY DEF SpaceInv, RoomForWriters
  <2>2. Len(files[i]) \in Nat
    BY DEF SpaceInv, FilesOK
  <2>3. Cardinality(Writers(i)) \in Nat
    BY ProcsCounted DEF Writers
  <2> QED BY <2>1, <2>2, <2>3, Constants
<1> QED BY <1>1, SpaceAlways, PTL

-----------------------------------------------------------------------------
(* What the files hold *)

\* The files hold events in order and without gaps.
InOrder == Consecutive /\ OlderBehind /\ NewerKept

\* What is in a file is the number of an event that has been written.
LEMMA FileHolds ==
  ASSUME FilesOK, WrittenOK, NEW i \in DOMAIN files
  PROVE  /\ i \in Int /\ 0 <= i /\ i <= MaxBackups
         /\ Len(files[i]) \in Nat /\ Len(written) \in Nat
         /\ \A k \in 1..Len(files[i]) : /\ files[i][k] \in Int /\ 1 <= files[i][k]
                                        /\ files[i][k] <= Len(written)
<1>1. i \in Paths /\ files[i] \in Seq(1..Len(written)) /\ Len(written) \in Nat
  BY DEF FilesOK, WrittenOK, Events
<1>2. \A k \in 1..Len(files[i]) : files[i][k] \in 1..Len(written)
  BY <1>1
<1> QED BY <1>1, <1>2, Constants

\* The oldest file may be removed: the events in it are older than all others
\* (RemoveOldest).
LEMMA UnlinkInOrder ==
  ASSUME FilesOK, WrittenOK, InOrder, written' = written,
         NEW j, files' = Unlink(j), \A i \in DOMAIN files : i # j => i < j
  PROVE  InOrder'
<1>1. DOMAIN files' = DOMAIN files \ {j} /\ \A i \in DOMAIN files' : files'[i] = files[i]
  BY DEF Unlink
<1>2. Consecutive' /\ OlderBehind'
  BY <1>1 DEF InOrder, Consecutive, OlderBehind
<1>3. NewerKept'
  <2> SUFFICES ASSUME NEW n \in Events', IsKept(n)', NEW m \in n..Len(written')
               PROVE  IsKept(m)'
    BY DEF NewerKept
  <2>1. PICK i \in DOMAIN files' : \E k \in 1..Len(files'[i]) : files'[i][k] = n
    BY DEF IsKept
  <2>2. PICK k \in 1..Len(files'[i]) : files'[i][k] = n
    BY <2>1
  <2>3. n \in Events /\ IsKept(n) /\ m \in n..Len(written)
    BY <1>1, <2>1, <2>2 DEF IsKept, Events
  <2>4. IsKept(m)
    BY <2>3 DEF InOrder, NewerKept
  <2>5. PICK h \in DOMAIN files : \E l \in 1..Len(files[h]) : files[h][l] = m
    BY <2>4 DEF IsKept
  <2>6. PICK l \in 1..Len(files[h]) : files[h][l] = m
    BY <2>5
  <2>7. h # j
    <3> SUFFICES ASSUME h = j PROVE FALSE
      OBVIOUS
    <3>1. i \in DOMAIN files /\ i < h /\ k \in 1..Len(files[i]) /\ files[i][k] = n
      BY <1>1, <2>1, <2>2
    <3>2. m < n
      BY <3>1, <2>5, <2>6 DEF InOrder, OlderBehind
    <3> QED BY <2>3, <3>2 DEF Events
  <2> QED BY <1>1, <2>5, <2>6, <2>7 DEF IsKept
<1> QED BY <1>2, <1>3 DEF InOrder

\* A rename onto a free path right behind keeps the order of the files.
LEMMA MovedInOrder ==
  ASSUME FilesOK, WrittenOK, InOrder, written' = written,
         NEW s \in DOMAIN files, files' = Moved(s, s + 1), s + 1 \notin DOMAIN files
  PROVE  InOrder' /\ \A n : IsKept(n)' <=> IsKept(n)
<1> DEFINE was(i) == IF i = s + 1 THEN s ELSE i
<1>0. s \in Int
  BY FileHolds
<1>1. /\ DOMAIN files' = (DOMAIN files \ {s}) \cup {s + 1}
      /\ \A i \in DOMAIN files' : was(i) \in DOMAIN files /\ files'[i] = files[was(i)]
      /\ \A i \in DOMAIN files : i # s => i \in DOMAIN files' /\ was(i) = i
      /\ was(s + 1) = s /\ s + 1 \in DOMAIN files'
  BY <1>0 DEF Moved
<1>2. \A i, j \in DOMAIN files' : i < j => was(i) < was(j)
  <2> TAKE i, j \in DOMAIN files'
  <2>1. i \in Int /\ j \in Int
    BY <1>0, <1>1, FileHolds
  <2>2. (i # s + 1 => i # s) /\ (j # s + 1 => j # s)
    BY <1>0, <1>1
  <2> QED BY <1>0, <2>1, <2>2
<1>3. Consecutive'
  BY <1>1 DEF InOrder, Consecutive
<1>4. OlderBehind'
  <2> SUFFICES ASSUME NEW i \in DOMAIN files', NEW j \in DOMAIN files', i < j,
                      NEW k \in 1..Len(files'[i]), NEW l \in 1..Len(files'[j])
               PROVE  files'[j][l] < files'[i][k]
    BY DEF OlderBehind
  <2>1. was(i) < was(j) /\ files'[i] = files[was(i)] /\ files'[j] = files[was(j)]
        /\ was(i) \in DOMAIN files /\ was(j) \in DOMAIN files
    BY <1>1, <1>2
  <2> HIDE DEF was
  <2> QED BY <2>1 DEF InOrder, OlderBehind
<1>5. \A n : IsKept(n)' <=> IsKept(n)
  <2> TAKE n
  <2>1. IsKept(n)' => IsKept(n)
    <3> HIDE DEF was
    <3> QED BY <1>1 DEF IsKept
  <2>2. IsKept(n) => IsKept(n)'
    <3> SUFFICES ASSUME NEW i \in DOMAIN files, NEW k \in 1..Len(files[i]), files[i][k] = n
                 PROVE  IsKept(n)'
      BY DEF IsKept
    <3>1. CASE i = s
      <4>1. s + 1 \in DOMAIN files' /\ files'[s + 1] = files[s]
        BY <1>1
      <4> QED BY <3>1, <4>1 DEF IsKept
    <3>2. CASE i # s
      <4>1. i \in DOMAIN files' /\ files'[i] = files[i]
        BY <1>1, <3>2
      <4> QED BY <4>1 DEF IsKept
    <3> QED BY <3>1, <3>2
  <2> QED BY <2>1, <2>2
<1>6. NewerKept'
  BY <1>5 DEF InOrder, NewerKept, Events
<1>7. InOrder'
  BY <1>3, <1>4, <1>6 DEF InOrder
<1> QED BY <1>5, <1>7

\* An empty log holds nothing (OpenLog).
LEMMA OpenedInOrder ==
  ASSUME FilesOK, WrittenOK, InOrder, NEW p, OpenLog(p)
  PROVE  InOrder' /\ \A n : IsKept(n)' <=> IsKept(n)
<1>1. /\ DOMAIN files' = DOMAIN files \cup {0}
      /\ \A i \in DOMAIN files : files'[i] = files[i]
      /\ written' = written
  BY DEF OpenLog
<1>2. 0 \notin DOMAIN files => files'[0] = << >> /\ Len(files'[0]) = 0
  BY DEF OpenLog
<1>3. \A i \in DOMAIN files' : \A k : k \in 1..Len(files'[i]) =>
        i \in DOMAIN files /\ files'[i] = files[i]
  BY <1>1, <1>2
<1>4. Consecutive' /\ OlderBehind'
  BY <1>3 DEF InOrder, Consecutive, OlderBehind
<1>5. \A n : IsKept(n)' <=> IsKept(n)
  BY <1>1, <1>3 DEF IsKept
<1>6. NewerKept'
  BY <1>1, <1>5 DEF InOrder, NewerKept, Events
<1>7. InOrder'
  BY <1>4, <1>6 DEF InOrder
<1> QED BY <1>5, <1>7

\* The newest event of the log is the last one written, unless the log is empty.
LEMMA LogEndsLast ==
  ASSUME FilesOK, WrittenOK, InOrder, 0 \in DOMAIN files, Len(files[0]) > 0
  PROVE  files[0][1] + Len(files[0]) - 1 = Len(written)
<1> DEFINE len == Len(files[0])
<1>1. /\ len \in Nat /\ len > 0 /\ Len(written) \in Nat
      /\ \A k \in 1..len : /\ files[0][k] \in Int /\ 1 <= files[0][k]
                           /\ files[0][k] <= Len(written)
  BY FileHolds
<1>2. \A k \in 1..len : files[0][k] = files[0][1] + k - 1
  BY DEF InOrder, Consecutive
<1>3. len \in 1..len /\ 1 \in 1..len
  BY <1>1
<1>4. /\ files[0][len] = files[0][1] + len - 1
      /\ files[0][len] \in Int /\ 1 <= files[0][len] /\ files[0][len] <= Len(written)
      /\ files[0][1] \in Int
  BY <1>1, <1>2, <1>3
<1>5. IsKept(files[0][len])
  BY <1>3 DEF IsKept
<1>6. IsKept(Len(written))
  <2>1. files[0][len] \in Events /\ Len(written) \in files[0][len]..Len(written)
    BY <1>1, <1>4 DEF Events
  <2> QED BY <1>5, <2>1 DEF InOrder, NewerKept
<1>7. PICK h \in DOMAIN files : \E l \in 1..Len(files[h]) : files[h][l] = Len(written)
  BY <1>6 DEF IsKept
<1>8. PICK l \in 1..Len(files[h]) : files[h][l] = Len(written)
  BY <1>7
<1>9. h \in Int /\ 0 <= h
  BY FileHolds
<1>10. CASE h = 0
  <2>1. l \in 1..len /\ files[0][l] = files[0][1] + l - 1
    BY <1>2, <1>10
  <2> QED BY <1>1, <1>4, <1>8, <1>10, <2>1
<1>11. CASE h # 0
  <2>1. 0 < h
    BY <1>9, <1>11
  <2>2. files[h][l] < files[0][len]
    BY <1>3, <1>8, <2>1 DEF InOrder, OlderBehind
  <2> QED BY <1>1, <1>4, <1>8, <2>2
<1> QED BY <1>10, <1>11

\* An event appended to the log is next there (WriteEvent).
LEMMA WrittenInOrder ==
  ASSUME FilesOK, WrittenOK, InOrder, NEW p, WriteEvent(p), proc[p].fd = 0, 0 \in DOMAIN files
  PROVE  /\ InOrder'
         /\ \A n \in Events' : IsKept(n)' <=> IsKept(n) \/ n = Len(written')
<1>0. PICK new, len : new = Len(written) + 1 /\ len = Len(files[0])
  OBVIOUS
<1>1. /\ len \in Nat /\ Len(written) \in Nat /\ files[0] \in Seq(1..Len(written))
      /\ written \in Seq(Procs)
  BY <1>0, FileHolds DEF FilesOK, WrittenOK, Events
<1>2. /\ DOMAIN files' = DOMAIN files /\ files'[0] = Append(files[0], new)
      /\ \A i \in DOMAIN files : i # 0 => files'[i] = files[i]
      /\ written' = Append(written, p)
  BY <1>0 DEF WriteEvent
<1>3. /\ Len(files'[0]) = len + 1 /\ files'[0][len + 1] = new
      /\ \A k \in 1..len : files'[0][k] = files[0][k]
      /\ Len(written') = new
  BY <1>0, <1>1, <1>2
<1>4. /\ Len(files'[0]) \in Nat /\ len + 1 \in 1..Len(files'[0])
      /\ \A k \in 1..Len(files'[0]) : k \in 1..len \/ k = len + 1
  BY <1>1, <1>3
<1>5. \A i \in DOMAIN files : \A k \in 1..Len(files[i]) :
        files[i][k] \in Int /\ files[i][k] < new /\ 0 <= i
  BY <1>0, <1>1, FileHolds
<1>6. Consecutive'
  <2> SUFFICES ASSUME NEW i \in DOMAIN files, NEW k \in 1..Len(files'[i])
               PROVE  files'[i][k] = files'[i][1] + k - 1
    BY <1>2 DEF Consecutive
  <2>1. CASE i # 0
    BY <1>2, <2>1 DEF InOrder, Consecutive
  <2>2. CASE i = 0 /\ len = 0
    BY <1>1, <1>3, <1>4, <2>2
  <2>3. CASE i = 0 /\ len > 0
    <3>1. files'[0][1] = files[0][1] /\ files[0][1] \in Int
      BY <1>0, <1>1, <1>3, <1>5, <2>3
    <3>2. files[0][1] + len - 1 = Len(written)
      BY <1>0, <2>3, LogEndsLast
    <3>3. CASE k = len + 1
      <4>1. new = files[0][1] + k - 1
        <5>1. PICK f, w : f = files[0][1] /\ w = Len(written) /\ f \in Int /\ w \in Nat
          BY <1>1, <3>1
        <5>2. f + len - 1 = w /\ new = w + 1 /\ k = len + 1 /\ len \in Nat
          BY <1>0, <1>1, <3>2, <3>3, <5>1
        <5> QED BY <5>1, <5>2
      <4> QED BY <1>3, <2>3, <3>1, <3>3, <4>1
    <3>4. CASE k \in 1..len
      <4>1. files[0][k] = files[0][1] + k - 1
        BY <1>0, <3>4 DEF InOrder, Consecutive
      <4> QED BY <1>3, <2>3, <3>1, <3>4, <4>1
    <3> QED BY <1>4, <2>3, <3>3, <3>4
  <2> QED BY <1>1, <2>1, <2>2, <2>3
<1>7. OlderBehind'
  <2> SUFFICES ASSUME NEW i \in DOMAIN files, NEW j \in DOMAIN files, i < j,
                      NEW k \in 1..Len(files'[i]), NEW l \in 1..Len(files'[j])
               PROVE  files'[j][l] < files'[i][k]
    BY <1>2 DEF OlderBehind
  <2>1. i \in Int /\ j \in Int /\ 0 <= i
    BY FileHolds
  <2>2. files'[j] = files[j] /\ l \in 1..Len(files[j])
    BY <1>2, <2>1
  <2>3. CASE i # 0
    BY <1>2, <2>2, <2>3 DEF InOrder, OlderBehind
  <2>4. CASE i = 0 /\ k \in 1..len
    <3>1. files[j][l] < files[0][k]
      BY <1>0, <2>2, <2>4 DEF InOrder, OlderBehind
    <3> QED BY <1>3, <2>2, <2>4, <3>1
  <2>5. CASE i = 0 /\ k = len + 1
    BY <1>3, <1>5, <2>2, <2>5
  <2> QED BY <1>4, <2>3, <2>4, <2>5
<1>8. \A n : IsKept(n) => IsKept(n)'
  <2> SUFFICES ASSUME NEW n, NEW i \in DOMAIN files, NEW k \in 1..Len(files[i]),
                      files[i][k] = n
               PROVE  IsKept(n)'
    BY DEF IsKept
  <2>1. CASE i # 0
    BY <1>2, <2>1 DEF IsKept
  <2>2. CASE i = 0
    <3>1. k \in 1..Len(files'[0]) /\ files'[0][k] = n
      BY <1>0, <1>1, <1>3, <2>2
    <3> QED BY <1>2, <2>2, <3>1 DEF IsKept
  <2> QED BY <2>1, <2>2
<1>9. IsKept(new)'
  BY <1>2, <1>3, <1>4 DEF IsKept
<1>10. ASSUME NEW n, IsKept(n)', n # new
       PROVE  IsKept(n)
  <2>3. PICK i \in DOMAIN files' : \E k \in 1..Len(files'[i]) : files'[i][k] = n
    BY <1>10 DEF IsKept
  <2>4. PICK k \in 1..Len(files'[i]) : files'[i][k] = n
    BY <2>3
  <2>5. i \in DOMAIN files
    BY <1>2
  <2>1. CASE i # 0
    <3>1. files'[i] = files[i]
      BY <1>2, <2>1
    <3>2. k \in 1..Len(files[i]) /\ files[i][k] = n
      BY <2>4, <3>1
    <3> QED BY <2>5, <3>2 DEF IsKept
  <2>2. CASE i = 0
    <3>1. k \in 1..len
      BY <1>3, <1>4, <1>10, <2>2, <2>4
    <3>2. files[0][k] = n
      BY <1>3, <2>2, <2>4, <3>1
    <3> QED BY <1>0, <2>2, <2>5, <3>1, <3>2 DEF IsKept
  <2> QED BY <2>1, <2>2
<1>11. NewerKept'
  <2> SUFFICES ASSUME NEW n \in 1..new, IsKept(n)', NEW m \in n..new
               PROVE  IsKept(m)'
    <3>1. Events' = 1..new /\ Len(written') = new
      BY <1>3 DEF Events
    <3> QED BY <3>1 DEF NewerKept
  <2>1. CASE m = new
    BY <1>9, <2>1
  <2>2. CASE m # new
    <3>1. n \in Events /\ n # new /\ m \in n..Len(written)
      BY <1>0, <1>1, <2>2 DEF Events
    <3>2. IsKept(m)
      BY <1>10, <3>1 DEF InOrder, NewerKept
    <3> QED BY <1>8, <3>2
  <2> QED BY <2>1, <2>2
<1>12. \A n \in Events' : IsKept(n)' <=> IsKept(n) \/ n = Len(written')
  BY <1>3, <1>8, <1>9, <1>10
<1>13. InOrder'
  BY <1>6, <1>7, <1>11 DEF InOrder
<1> QED BY <1>12, <1>13

\* Unless two processes have been in the log at once, the one that is there knows
\* what the paths hold, and the files are in order.
OrderInv == ~overlapped => Alone /\ Emptied /\ InOrder

OthersRest(p) == \A q \in Procs \ {p} : proc[q].pc = "idle"

\* A process that is in a call is alone there; one that enters the log finds the
\* others at rest, or two of them are in it from then on.
LEMMA OthersAtRest ==
  ASSUME Alone, NEW p \in Procs, proc[p].pc # "idle"
  PROVE  OthersRest(p)
BY DEF Alone, OthersRest

\* What the only process in the log has to know after its step.
LEMMA AloneStep ==
  ASSUME NEW p \in Procs, NEW c, NEW t, NEW f, Becomes(p, c, t, f), OthersRest(p),
         c \in {"shift", "unlink", "rename"} /\ t < MaxBackups => t + 1 \notin DOMAIN files',
         c \in {"unlink", "rename"} => t \in DOMAIN files',
         c = "write" => f = 0 /\ 0 \in DOMAIN files'
  PROVE  Alone' /\ Emptied'
<1>1. \A q \in Procs \ {p} : proc'[q].pc = "idle"
  BY DEF OthersRest, Becomes
<1>2. proc'[p].pc = c /\ proc'[p].path = t /\ proc'[p].fd = f
  BY DEF Becomes
<1>3. Alone'
  BY <1>1 DEF Alone
<1>4. Emptied'
  <2> SUFFICES ASSUME NEW q \in Procs
               PROVE  /\ Rotating(q)' /\ proc'[q].path < MaxBackups =>
                           proc'[q].path + 1 \notin DOMAIN files'
                      /\ proc'[q].pc \in {"unlink", "rename"} => proc'[q].path \in DOMAIN files'
                      /\ proc'[q].pc = "write" => proc'[q].fd = 0 /\ 0 \in DOMAIN files'
    BY DEF Emptied
  <2>1. CASE q = p
    BY <1>2, <2>1 DEF Rotating
  <2>2. CASE q # p
    BY <1>1, <2>2 DEF Rotating
  <2> QED BY <2>1, <2>2
<1> QED BY <1>3, <1>4

\* The order is about the files and the events only.
LEMMA SameInOrder ==
  ASSUME InOrder, files' = files, written' = written
  PROVE  InOrder'
<1>1. \A n : IsKept(n)' <=> IsKept(n)
  BY DEF IsKept
<1>2. NewerKept'
  BY <1>1 DEF InOrder, NewerKept, Events
<1>3. Consecutive' /\ OlderBehind'
  BY DEF InOrder, Consecutive, OlderBehind
<1> QED BY <1>2, <1>3 DEF InOrder

\* The entry into the log, by Append or by Read.
LEMMA EnterOrder ==
  ASSUME SpaceInv, OrderInv, NEW p \in Procs, Starts(p),
         NEW c \in {"stat", "read"}, NEW t, NEW f, Becomes(p, c, t, f),
         files' = files, written' = written
  PROVE  OrderInv'
<1> SUFFICES ASSUME ~overlapped' PROVE Alone' /\ Emptied' /\ InOrder'
  BY DEF OrderInv
<1>1. ~overlapped /\ OthersRest(p)
  BY DEF Starts, OthersRest
<1>2. InOrder'
  BY <1>1, SameInOrder DEF OrderInv
<1>3. Alone' /\ Emptied'
  BY <1>1, AloneStep
<1> QED BY <1>2, <1>3

\* A step of a process that is in the log and leaves the files as they are.
LEMMA LookOrder ==
  ASSUME SpaceInv, OrderInv, NEW p \in Procs, proc[p].pc # "idle",
         NEW c, NEW t, NEW f, Becomes(p, c, t, f),
         files' = files, written' = written, overlapped' = overlapped,
         ~overlapped /\ Emptied =>
           /\ c \in {"shift", "unlink", "rename"} /\ t < MaxBackups => t + 1 \notin DOMAIN files
           /\ c \in {"unlink", "rename"} => t \in DOMAIN files
           /\ c # "write"
  PROVE  OrderInv'
<1> SUFFICES ASSUME ~overlapped' PROVE Alone' /\ Emptied' /\ InOrder'
  BY DEF OrderInv
<1>1. ~overlapped /\ Alone /\ Emptied /\ InOrder
  BY DEF OrderInv
<1>2. InOrder'
  BY <1>1, SameInOrder
<1>3. Alone' /\ Emptied'
  BY <1>1, OthersAtRest, AloneStep
<1> QED BY <1>2, <1>3

\* Every action of every process keeps the files in order.
LEMMA NextOrder ==
  ASSUME SpaceInv, OrderInv, [Next]_vars
  PROVE  OrderInv'
<1>0. Shaped /\ QueriesOK /\ ControlOK /\ FilesOK /\ WrittenOK
  BY DEF SpaceInv
<1>1. ASSUME NEW p \in Procs, BeginAppend(p)
      PROVE  OrderInv'
  <2>1. Becomes(p, "stat", proc[p].path, proc[p].fd)
    BY <1>0, <1>1, BeginAppendDoes
  <2>2. Starts(p) /\ files' = files /\ written' = written
    BY <1>1 DEF BeginAppend
  <2> QED BY <2>1, <2>2, EnterOrder
<1>2. ASSUME NEW p \in Procs, StatLog(p)
      PROVE  OrderInv'
  <2>1. Becomes(p, IF IsFull THEN "shift" ELSE "open",
                   IF IsFull THEN MaxBackups ELSE proc[p].path, proc[p].fd)
    BY <1>0, <1>2, StatLogDoes
  <2>2. /\ proc[p].pc # "idle" /\ files' = files /\ written' = written
        /\ overlapped' = overlapped
    BY <1>2 DEF StatLog
  <2>3. CASE IsFull
    <3>1. Becomes(p, "shift", MaxBackups, proc[p].fd) /\ ~(MaxBackups < MaxBackups)
      BY <2>1, <2>3, Constants
    <3> QED BY <2>2, <3>1, LookOrder
  <2>4. CASE ~IsFull
    <3>1. Becomes(p, "open", proc[p].path, proc[p].fd)
      BY <2>1, <2>4
    <3> QED BY <2>2, <3>1, LookOrder
  <2> QED BY <2>3, <2>4
<1>3. ASSUME NEW p \in Procs, RemoveOldest(p)
      PROVE  OrderInv'
  <2>1. Becomes(p, "shift", MaxBackups - 1, proc[p].fd)
    BY <1>0, <1>3, RemoveOldestDoes
  <2>2. /\ proc[p].pc # "idle" /\ files' = Unlink(MaxBackups) /\ written' = written
        /\ overlapped' = overlapped
    BY <1>3 DEF RemoveOldest
  <2> SUFFICES ASSUME ~overlapped' PROVE Alone' /\ Emptied' /\ InOrder'
    BY DEF OrderInv
  <2>3. Alone /\ Emptied /\ InOrder
    BY <2>2 DEF OrderInv
  <2>4. \A i \in DOMAIN files : i # MaxBackups => i < MaxBackups
    BY <1>0, FileHolds, Constants
  <2>5. InOrder'
    BY <1>0, <2>2, <2>3, <2>4, UnlinkInOrder
  <2>6. MaxBackups - 1 + 1 \notin DOMAIN files'
    BY <2>2, Constants DEF Unlink
  <2> QED BY <2>1, <2>2, <2>3, <2>5, <2>6, OthersAtRest, AloneStep
<1>4. ASSUME NEW p \in Procs, StatSource(p)
      PROVE  OrderInv'
  <2>1. /\ proc[p].path \in DOMAIN files => Becomes(p, "unlink", proc[p].path, proc[p].fd)
        /\ proc[p].path \notin DOMAIN files =>
             Becomes(p, NextPc(proc[p].path), NextT(proc[p].path), proc[p].fd)
    BY <1>0, <1>4, StatSourceDoes
  <2>2. /\ proc[p].pc = "shift" /\ proc[p].path < MaxBackups /\ files' = files
        /\ written' = written /\ overlapped' = overlapped
    BY <1>4 DEF StatSource
  <2>3. CASE proc[p].path \in DOMAIN files
    <3>1. Emptied => proc[p].path + 1 \notin DOMAIN files
      BY <2>2 DEF Emptied, Rotating
    <3> QED BY <2>1, <2>2, <2>3, <3>1, LookOrder
  <2>4. CASE proc[p].path \notin DOMAIN files
    <3>1. /\ NextPc(proc[p].path) \in {"shift", "open"}
          /\ NextPc(proc[p].path) = "shift" => NextT(proc[p].path) + 1 = proc[p].path
      BY <1>0, Constants DEF NextPc, NextT, ControlOK
    <3> QED BY <2>1, <2>2, <2>4, <3>1, LookOrder
  <2> QED BY <2>3, <2>4
<1>5. ASSUME NEW p \in Procs, RemoveTarget(p)
      PROVE  OrderInv'
  <2>1. Becomes(p, "rename", proc[p].path, proc[p].fd)
    BY <1>0, <1>5, RemoveTargetDoes
  <2>2. /\ proc[p].pc = "unlink" /\ files' = Unlink(proc[p].path + 1) /\ written' = written
        /\ overlapped' = overlapped /\ proc[p].path < MaxBackups
    BY <1>0, <1>5 DEF RemoveTarget, ControlOK
  <2> SUFFICES ASSUME ~overlapped' PROVE Alone' /\ Emptied' /\ InOrder'
    BY DEF OrderInv
  <2>3. Alone /\ Emptied /\ InOrder
    BY <2>2 DEF OrderInv
  <2>4. proc[p].path + 1 \notin DOMAIN files /\ proc[p].path \in DOMAIN files
    BY <2>2, <2>3 DEF Emptied, Rotating
  <2>5. files' = files
    BY <1>0, <2>2, <2>4 DEF Unlink, FilesOK
  <2>6. InOrder'
    BY <2>2, <2>3, <2>5, SameInOrder
  <2> QED BY <2>1, <2>2, <2>3, <2>4, <2>5, <2>6, OthersAtRest, AloneStep
<1>6. ASSUME NEW p \in Procs, Rename(p)
      PROVE  OrderInv'
  <2>1. \/ /\ proc[p].path \in DOMAIN files
           /\ files' = Moved(proc[p].path, proc[p].path + 1)
           /\ Becomes(p, NextPc(proc[p].path), NextT(proc[p].path), proc[p].fd)
        \/ proc[p].path \notin DOMAIN files
    BY <1>0, <1>6, RenameDoes
  <2>2. /\ proc[p].pc = "rename" /\ written' = written
        /\ overlapped' = overlapped /\ proc[p].path < MaxBackups /\ proc[p].path \in Paths
    BY <1>0, <1>6 DEF Rename, ControlOK
  <2> SUFFICES ASSUME ~overlapped' PROVE Alone' /\ Emptied' /\ InOrder'
    BY DEF OrderInv
  <2>3. Alone /\ Emptied /\ InOrder
    BY <2>2 DEF OrderInv
  <2>4. proc[p].path + 1 \notin DOMAIN files /\ proc[p].path \in DOMAIN files
    BY <2>2, <2>3 DEF Emptied, Rotating
  <2>5. InOrder'
    BY <1>0, <2>1, <2>2, <2>3, <2>4, MovedInOrder
  <2>6. PICK s : s = proc[p].path
    OBVIOUS
  <2>7. s \notin DOMAIN files'
    BY <2>1, <2>2, <2>4, <2>6, Constants DEF Moved
  <2>8. /\ NextPc(s) \in {"shift", "open"} /\ (NextPc(s) = "shift" => NextT(s) + 1 = s)
        /\ Becomes(p, NextPc(s), NextT(s), proc[p].fd)
    BY <2>1, <2>2, <2>4, <2>6, Constants DEF NextPc, NextT
  <2>9. NextPc(s) \notin {"unlink", "rename", "write"}
    BY <2>8
  <2>10. OthersRest(p)
    BY <2>2, <2>3, OthersAtRest
  <2> QED BY <2>5, <2>7, <2>8, <2>9, <2>10, AloneStep
<1>7. ASSUME NEW p \in Procs, OpenLog(p)
      PROVE  OrderInv'
  <2>1. Becomes(p, "write", proc[p].path, 0)
    BY <1>0, <1>7, OpenLogDoes
  <2>2. proc[p].pc # "idle" /\ overlapped' = overlapped /\ 0 \in DOMAIN files'
    BY <1>7 DEF OpenLog
  <2> SUFFICES ASSUME ~overlapped' PROVE Alone' /\ Emptied' /\ InOrder'
    BY DEF OrderInv
  <2>3. Alone /\ Emptied /\ InOrder
    BY <2>2 DEF OrderInv
  <2>4. InOrder'
    BY <1>0, <1>7, <2>3, OpenedInOrder
  <2> QED BY <2>1, <2>2, <2>3, <2>4, OthersAtRest, AloneStep
<1>8. ASSUME NEW p \in Procs, WriteEvent(p)
      PROVE  OrderInv'
  <2>1. Becomes(p, "idle", 0, Gone)
    BY <1>0, <1>8, RestDoes DEF WriteEvent
  <2>2. proc[p].pc = "write" /\ overlapped' = overlapped
    BY <1>8 DEF WriteEvent
  <2> SUFFICES ASSUME ~overlapped' PROVE Alone' /\ Emptied' /\ InOrder'
    BY DEF OrderInv
  <2>3. Alone /\ Emptied /\ InOrder
    BY <2>2 DEF OrderInv
  <2>4. proc[p].fd = 0 /\ 0 \in DOMAIN files
    BY <2>2, <2>3 DEF Emptied
  <2>5. InOrder'
    BY <1>0, <1>8, <2>3, <2>4, WrittenInOrder
  <2> QED BY <2>1, <2>2, <2>3, <2>5, OthersAtRest, AloneStep
<1>9. ASSUME NEW p \in Procs, Crash(p) \/ (p = Agent /\ (ReadFile \/ EndRead))
      PROVE  OrderInv'
  <2>1. PICK c, t, f : c \in {"idle", "read"} /\ Becomes(p, c, t, f)
    BY <1>0, <1>9, RestDoes, ReadFileDoes DEF Crash, EndRead
  <2>2. /\ proc[p].pc # "idle" /\ files' = files /\ written' = written
        /\ overlapped' = overlapped
    BY <1>9 DEF Crash, ReadFile, EndRead
  <2> QED BY <2>1, <2>2, LookOrder
<1>10. ASSUME NEW tail \in Tails, NEW actor \in Procs,
              BeginRead([tail |-> tail, actor |-> actor])
       PROVE  OrderInv'
  <2>1. [tail |-> tail, actor |-> actor] \in Queries
    BY DEF Queries
  <2>2. Becomes(Agent, "read", MaxBackups, Gone)
    BY <1>0, <1>10, <2>1, BeginReadDoes
  <2>3. Starts(Agent) /\ files' = files /\ written' = written
    BY <1>10 DEF BeginRead
  <2> QED BY <2>2, <2>3, Constants, EnterOrder
<1>11. CASE UNCHANGED vars
  <2> SUFFICES ASSUME ~overlapped' PROVE Alone' /\ Emptied' /\ InOrder'
    BY DEF OrderInv
  <2>1. Alone /\ Emptied /\ InOrder
    BY <1>11 DEF OrderInv, vars
  <2>2. InOrder'
    BY <1>11, <2>1, SameInOrder DEF vars
  <2> QED BY <1>11, <2>1, <2>2 DEF vars, Alone, Emptied, Rotating
<1> QED BY <1>1, <1>2, <1>3, <1>4, <1>5, <1>6, <1>7, <1>8, <1>9, <1>10, <1>11, Constants DEF Next

-----------------------------------------------------------------------------
(* How much the files hold *)

Rotations == {"shift", "unlink", "rename"}

\* Packed and Deep, for a log in which only one process is, at control point c
\* and path t.
PackedAt(c, t) ==
  /\ \A i \in DOMAIN files : i > 0 => Len(files[i]) > 0
  /\ c \notin Rotations => \A i \in DOMAIN files : i >= 2 => i - 1 \in DOMAIN files
  /\ c \in Rotations =>
       /\ IsFull
       /\ \A i \in DOMAIN files : i >= 1 /\ i # t + 2 => i - 1 \in DOMAIN files
       /\ t + 2 \in DOMAIN files => t \in DOMAIN files

DeepAt(c, t) ==
  \A i \in DOMAIN files : Len(files[i]) > 0 =>
    /\ files[i][1] + i * MaxFileSize <= Len(written) + 1
    /\ \/ c \in Rotations /\ t < i
       \/ 0 \notin DOMAIN files
       \/ files[i][1] + i * MaxFileSize + Len(files[0]) <= Len(written) + 1

\* The inductive invariant of the number of events kept.
KeepInv == ~overlapped /\ crashes = 0 => Packed /\ Deep /\ EnoughKept

\* The others do not count.
LEMMA OnlyOne ==
  ASSUME NEW p \in Procs, OthersRest(p)
  PROVE  /\ Packed <=> PackedAt(proc[p].pc, proc[p].path)
         /\ Deep <=> DeepAt(proc[p].pc, proc[p].path)
<1>1. \A q \in Procs : Rotating(q) <=> q = p /\ proc[p].pc \in Rotations
  BY DEF OthersRest, Rotating, Rotations
<1>2. Packed <=> PackedAt(proc[p].pc, proc[p].path)
  BY <1>1 DEF Packed, PackedAt
<1>3. Deep <=> DeepAt(proc[p].pc, proc[p].path)
  BY <1>1 DEF Deep, DeepAt
<1> QED BY <1>2, <1>3

\* ... and neither do they after a step of p.
LEMMA OnlyOneNext ==
  ASSUME NEW p \in Procs, OthersRest(p), NEW c, NEW t, NEW f, Becomes(p, c, t, f)
  PROVE  /\ Packed' <=> PackedAt(c, t)'
         /\ Deep' <=> DeepAt(c, t)'
<1>1. \A q \in Procs : Rotating(q)' <=> q = p /\ c \in Rotations
  BY DEF OthersRest, Rotating, Rotations, Becomes
<1>2. \A q \in Procs : Rotating(q)' => proc'[q].path = t
  BY <1>1 DEF Becomes
<1>3. Packed' <=> PackedAt(c, t)'
  BY <1>1, <1>2 DEF Packed, PackedAt
<1>4. Deep' <=> DeepAt(c, t)'
  BY <1>1, <1>2 DEF Deep, DeepAt
<1> QED BY <1>3, <1>4

\* The events of one more full file.
LEMMA Times ==
  ASSUME NEW s \in Int
  PROVE  s * MaxFileSize \in Int /\ (s + 1) * MaxFileSize = s * MaxFileSize + MaxFileSize
BY Constants

\* The look at a log that is full, for the beginning of a rotation.
LEMMA StartKeeps ==
  ASSUME FilesOK, NEW c, NEW t, c \notin Rotations, PackedAt(c, t), DeepAt(c, t), IsFull
  PROVE  PackedAt("shift", MaxBackups) /\ DeepAt("shift", MaxBackups)
<1>1. \A i \in DOMAIN files : i \in Int /\ 0 <= i /\ i <= MaxBackups
  BY Constants DEF FilesOK
<1>2. 0 \in DOMAIN files
  BY DEF IsFull
<1>3. PackedAt("shift", MaxBackups)
  <2>1. \A i \in DOMAIN files : i >= 1 => i - 1 \in DOMAIN files
    BY <1>1, <1>2 DEF PackedAt
  <2>2. MaxBackups + 2 \notin DOMAIN files
    BY <1>1, Constants
  <2> QED BY <2>1, <2>2 DEF PackedAt, Rotations
<1>4. DeepAt("shift", MaxBackups)
  BY DEF DeepAt, Rotations
<1> QED BY <1>3, <1>4

\* A path without a file is passed by (renameIfExists).
LEMMA SkipKeeps ==
  ASSUME FilesOK, NEW c \in Rotations, NEW s \in Paths, s \notin DOMAIN files,
         s + 1 \notin DOMAIN files, PackedAt(c, s), DeepAt(c, s)
  PROVE  s # 0 /\ PackedAt("shift", s - 1) /\ DeepAt("shift", s - 1)
<1>1. s \in Int /\ \A i \in DOMAIN files : i \in Int
  BY Constants DEF FilesOK
<1>2. IsFull /\ s # 0
  BY DEF PackedAt, IsFull
<1>3. s - 1 + 2 = s + 1
  BY <1>1
<1>4. \A i \in DOMAIN files : i >= 1 => i - 1 \in DOMAIN files
  BY DEF PackedAt
<1>5. PackedAt("shift", s - 1)
  BY <1>2, <1>3, <1>4 DEF PackedAt, Rotations
<1>6. DeepAt("shift", s - 1)
  BY <1>1 DEF DeepAt, Rotations
<1> QED BY <1>2, <1>5, <1>6

\* What the oldest backup held is dropped when full files are newer at every
\* other path (RemoveOldest).
LEMMA UnlinkKeeps ==
  ASSUME FilesOK, WrittenOK, InOrder, PackedAt("shift", MaxBackups),
         DeepAt("shift", MaxBackups), EnoughKept,
         files' = Unlink(MaxBackups), written' = written
  PROVE  /\ PackedAt("shift", MaxBackups - 1)' /\ DeepAt("shift", MaxBackups - 1)'
         /\ EnoughKept'
<1>0. PICK B : B = MaxBackups /\ B \in Nat \ {0}
  BY Constants
<1>1. /\ DOMAIN files' = DOMAIN files \ {B}
      /\ \A i \in DOMAIN files' : i \in DOMAIN files /\ files'[i] = files[i]
      /\ Len(written') = Len(written)
  BY <1>0 DEF Unlink
<1>2. \A i \in DOMAIN files : i \in Int /\ 0 <= i /\ i <= B
  BY <1>0, FileHolds
<1>3. /\ 0 \in DOMAIN files /\ 0 \in DOMAIN files' /\ files'[0] = files[0]
      /\ Len(files[0]) >= MaxFileSize /\ Len(files[0]) \in Nat
  BY <1>0, <1>1, FileHolds DEF PackedAt, IsFull, Rotations
<1>4. \A i \in DOMAIN files : i >= 1 => i - 1 \in DOMAIN files
  BY <1>0, <1>2 DEF PackedAt, Rotations
<1>5. PackedAt("shift", B - 1)'
  <2>1. \A i \in DOMAIN files' : i > 0 => Len(files'[i]) > 0
    BY <1>1 DEF PackedAt
  <2>2. IsFull'
    BY <1>3 DEF IsFull
  <2>3. \A i \in DOMAIN files' : i >= 1 => i - 1 \in DOMAIN files'
    BY <1>0, <1>1, <1>2, <1>4
  <2>4. B - 1 + 2 \notin DOMAIN files'
    BY <1>0, <1>1, <1>2
  <2> QED BY <2>1, <2>2, <2>3, <2>4 DEF PackedAt, Rotations
<1>6. DeepAt("shift", B - 1)'
  <2> SUFFICES ASSUME NEW i \in DOMAIN files', Len(files'[i]) > 0
               PROVE  /\ files'[i][1] + i * MaxFileSize <= Len(written') + 1
                      /\ files'[i][1] + i * MaxFileSize + Len(files'[0]) <= Len(written') + 1
    BY DEF DeepAt
  <2>1. i \in DOMAIN files /\ files'[i] = files[i] /\ ~(B < i)
    BY <1>0, <1>1, <1>2
  <2> QED BY <1>0, <1>1, <1>3, <2>1 DEF DeepAt
<1>7. EnoughKept'
  <2> SUFFICES ASSUME NEW n \in Events, ~IsKept(n)'
               PROVE  n + B * MaxFileSize <= Len(written)
    <3>1. Events' = Events
      BY <1>1 DEF Events
    <3> QED BY <1>0, <1>1, <3>1 DEF EnoughKept
  <2>1. CASE ~IsKept(n)
    BY <1>0, <2>1 DEF EnoughKept
  <2>2. CASE IsKept(n)
    <3>1. PICK i \in DOMAIN files : \E k \in 1..Len(files[i]) : files[i][k] = n
      BY <2>2 DEF IsKept
    <3>2. PICK k \in 1..Len(files[i]) : files[i][k] = n
      BY <3>1
    <3>3. i = B
      BY <1>1, <3>1, <3>2 DEF IsKept
    <3>4. B - 1 \in DOMAIN files /\ B - 1 < B /\ B - 1 \in Int
      <4>1. B \in DOMAIN files /\ B >= 1 /\ B - 1 < B /\ B - 1 \in Int
        BY <1>0, <3>1, <3>3
      <4> QED BY <1>4, <4>1
    <3>5. Len(files[B - 1]) > 0 /\ Len(files[B - 1]) \in Nat
      <4>1. CASE B = 1
        <5>1. B - 1 = 0
          BY <4>1
        <5> QED BY <1>3, <5>1, Constants
      <4>2. CASE B # 1
        <5>1. B - 1 > 0
          BY <1>0, <4>2
        <5> QED BY <3>4, <5>1, FileHolds DEF PackedAt
      <4> QED BY <4>1, <4>2
    <3>6. PICK g : g = files[B - 1][1]
      OBVIOUS
    <3>7. g \in Int /\ n < g /\ n \in Int
      <4>1. 1 \in 1..Len(files[B - 1])
        BY <3>5
      <4>2. files[B][k] < files[B - 1][1]
        BY <3>1, <3>2, <3>3, <3>4, <4>1 DEF InOrder, OlderBehind
      <4> QED BY <3>1, <3>2, <3>3, <3>4, <3>6, <4>1, <4>2, FileHolds
    <3>8. g + (B - 1) * MaxFileSize + Len(files[0]) <= Len(written) + 1
      <4>1. ~(B < B - 1)
        BY <1>0
      <4> QED BY <1>0, <1>3, <3>4, <3>5, <3>6, <4>1 DEF DeepAt
    <3>9. PICK v, w : /\ v = (B - 1) * MaxFileSize /\ w = B * MaxFileSize /\ v \in Int
                      /\ w = v + MaxFileSize
      <4>1. B - 1 \in Int /\ B - 1 + 1 = B
        BY <1>0
      <4> QED BY <4>1, Times
    <3>10. Len(written) \in Nat
      BY <3>1, FileHolds
    <3>11. n + w <= Len(written)
      <4>1. PICK l, last : /\ l = Len(files[0]) /\ last = Len(written)
                           /\ l \in Nat /\ last \in Nat /\ l >= MaxFileSize
        BY <1>3, <3>10
      <4>2. g + v + l <= last + 1
        <5>1. g + v + Len(files[0]) <= Len(written) + 1
          BY <1>0, <3>7, <3>8, <3>9, Constants
        <5> QED BY <4>1, <5>1
      <4>3. n + w <= last
        <5>1. /\ n \in Int /\ g \in Int /\ v \in Int /\ l \in Int /\ last \in Int
              /\ MaxFileSize \in Int /\ n + 1 <= g /\ w = v + MaxFileSize /\ l >= MaxFileSize
          BY <3>7, <3>9, <4>1, Constants
        <5> QED BY ONLY <4>2, <5>1
      <4> QED BY <4>1, <4>3
    <3> QED BY <3>9, <3>11
  <2> QED BY <2>1, <2>2
<1> QED BY <1>0, <1>5, <1>6, <1>7

\* A file that moves one path on has the events of a full log newer than what it
\* had before (Rename).
LEMMA RenameKeeps ==
  ASSUME FilesOK, WrittenOK, InOrder, NEW c \in Rotations, NEW s \in DOMAIN files,
         s < MaxBackups, s + 1 \notin DOMAIN files, PackedAt(c, s), DeepAt(c, s), EnoughKept,
         files' = Moved(s, s + 1), written' = written
  PROVE  PackedAt(NextPc(s), NextT(s))' /\ DeepAt(NextPc(s), NextT(s))' /\ EnoughKept'
<1>0. s \in Int /\ 0 <= s /\ s # s + 1 /\ \A i \in DOMAIN files : i \in Int /\ 0 <= i
  BY FileHolds
<1>1. /\ DOMAIN files' = (DOMAIN files \ {s}) \cup {s + 1} /\ files'[s + 1] = files[s]
      /\ \A i \in DOMAIN files' : i # s + 1 => i \in DOMAIN files /\ i # s /\ files'[i] = files[i]
      /\ \A i \in DOMAIN files : i # s => i \in DOMAIN files' /\ files'[i] = files[i]
      /\ Len(written') = Len(written)
  BY <1>0 DEF Moved
<1>2. /\ 0 \in DOMAIN files /\ Len(files[0]) >= MaxFileSize /\ Len(files[0]) \in Nat
  BY FileHolds DEF PackedAt, IsFull
<1>3. Len(files[s]) > 0
  <2>1. CASE s = 0
    BY <1>2, <2>1, Constants
  <2>2. CASE s # 0
    BY <1>0, <2>2 DEF PackedAt
  <2> QED BY <2>1, <2>2
<1>4. /\ \A i \in DOMAIN files : i >= 1 /\ i # s + 2 => i - 1 \in DOMAIN files
      /\ \A i \in DOMAIN files' : i > 0 => Len(files'[i]) > 0
  BY <1>0, <1>1, <1>3 DEF PackedAt
<1>5. PackedAt(NextPc(s), NextT(s))'
  <2>1. CASE s = 0
    <3>1. NextPc(s) \notin Rotations
      BY <2>1 DEF NextPc, Rotations
    <3>2. ASSUME NEW i \in DOMAIN files', i >= 2
          PROVE  i - 1 \in DOMAIN files'
      <4>1. i \in DOMAIN files /\ i # s + 1 /\ i \in Int
        BY <1>0, <1>1, <2>1, <3>2
      <4>2. CASE i = 2
        BY <1>1, <2>1, <4>2
      <4>3. CASE i # 2
        <5>1. i - 1 \in DOMAIN files /\ i - 1 # s
          BY <1>4, <2>1, <3>2, <4>1, <4>3
        <5> QED BY <1>1, <5>1
      <4> QED BY <4>2, <4>3
    <3> QED BY <1>4, <3>1, <3>2 DEF PackedAt
  <2>2. CASE s # 0
    <3>1. NextPc(s) \in Rotations /\ NextT(s) = s - 1 /\ s > 0
      BY <1>0, <2>2 DEF NextPc, NextT, Rotations
    <3>2. IsFull'
      <4>1. 0 \in DOMAIN files' /\ files'[0] = files[0]
        BY <1>1, <1>2, <2>2
      <4> QED BY <1>2, <4>1 DEF IsFull
    <3>3. ASSUME NEW i \in DOMAIN files', i >= 1, i # NextT(s) + 2
          PROVE  i - 1 \in DOMAIN files'
      <4>1. i \in DOMAIN files /\ i # s + 1 /\ i \in Int /\ i # s
        BY <1>0, <1>1, <3>1, <3>3
      <4>2. CASE i = s + 2
        <5>1. i - 1 = s + 1
          BY <1>0, <4>2
        <5> QED BY <1>1, <5>1
      <4>3. CASE i # s + 2
        <5>1. i - 1 \in DOMAIN files /\ i - 1 # s
          BY <1>0, <1>4, <3>3, <4>1, <4>3
        <5> QED BY <1>1, <5>1
      <4> QED BY <4>2, <4>3
    <3>4. NextT(s) \in DOMAIN files'
      <4>1. s - 1 \in DOMAIN files /\ s - 1 # s
        BY <1>0, <1>4, <3>1
      <4> QED BY <1>1, <3>1, <4>1
    <3> QED BY <1>4, <3>1, <3>2, <3>3, <3>4 DEF PackedAt
  <2> QED BY <2>1, <2>2
<1>6. DeepAt(NextPc(s), NextT(s))'
  <2> SUFFICES ASSUME NEW i \in DOMAIN files', Len(files'[i]) > 0
               PROVE  /\ files'[i][1] + i * MaxFileSize <= Len(written') + 1
                      /\ \/ NextPc(s) \in Rotations /\ NextT(s) < i
                         \/ 0 \notin DOMAIN files'
                         \/ files'[i][1] + i * MaxFileSize + Len(files'[0]) <= Len(written') + 1
    BY DEF DeepAt, NextPc, NextT
  <2>1. s = 0 => 0 \notin DOMAIN files'
    BY <1>0, <1>1
  <2>2. s # 0 => /\ NextPc(s) \in Rotations /\ NextT(s) = s - 1
                 /\ 0 \in DOMAIN files' /\ files'[0] = files[0]
    BY <1>0, <1>1, <1>2 DEF NextPc, NextT, Rotations
  <2>3. CASE i = s + 1
    <3>1. s # 0 => NextT(s) < i
      BY <1>0, <2>2, <2>3
    <3>2. files[s][1] + s * MaxFileSize + Len(files[0]) <= Len(written) + 1
      BY <1>0, <1>2, <1>3 DEF DeepAt
    <3>3. PICK g, v, w, l, last :
            /\ g = files[s][1] /\ v = s * MaxFileSize /\ w = (s + 1) * MaxFileSize
            /\ l = Len(files[0]) /\ last = Len(written)
            /\ g \in Int /\ v \in Int /\ l \in Int /\ last \in Int
            /\ w = v + MaxFileSize /\ l >= MaxFileSize
      <4>1. files[s][1] \in Int /\ Len(written) \in Int
        <5>1. 1 \in 1..Len(files[s])
          BY <1>3, FileHolds
        <5> QED BY <5>1, FileHolds
      <4>2. /\ s * MaxFileSize \in Int
            /\ (s + 1) * MaxFileSize = s * MaxFileSize + MaxFileSize
        BY <1>0, Times
      <4>3. Len(files[0]) \in Int
        BY <1>2
      <4>4. PICK v, w : /\ v = s * MaxFileSize /\ w = (s + 1) * MaxFileSize
                        /\ v \in Int /\ w = v + MaxFileSize
        BY ONLY <4>2
      <4> QED BY ONLY <1>2, <4>1, <4>3, <4>4
    <3>4. g + v + l <= last + 1
      BY <1>0, <3>2, <3>3, Constants
    <3>5. g + w <= last + 1
      <4>1. MaxFileSize \in Int /\ g \in Int /\ v \in Int /\ l \in Int /\ last \in Int
            /\ w = v + MaxFileSize /\ l >= MaxFileSize
        BY <3>3, Constants
      <4> QED BY ONLY <3>4, <4>1
    <3>6. files'[i][1] + i * MaxFileSize <= Len(written') + 1
      BY <1>1, <2>3, <3>3, <3>5
    <3> QED BY <2>1, <2>2, <3>1, <3>6
  <2>4. CASE i # s + 1
    <3>1. i \in DOMAIN files /\ i # s /\ i \in Int /\ files'[i] = files[i]
      BY <1>0, <1>1, <2>4
    <3>2. files'[i][1] + i * MaxFileSize <= Len(written') + 1
      BY <1>1, <3>1 DEF DeepAt
    <3>3. CASE s = 0
      BY <2>1, <3>2, <3>3
    <3>4. CASE s # 0 /\ s < i
      <4>1. NextT(s) < i
        BY <1>0, <2>2, <3>1, <3>4
      <4> QED BY <2>2, <3>2, <3>4, <4>1
    <3>5. CASE s # 0 /\ ~(s < i)
      <4>1. files[i][1] + i * MaxFileSize + Len(files[0]) <= Len(written) + 1
        BY <1>2, <3>1, <3>5 DEF DeepAt
      <4>2. files'[i][1] + i * MaxFileSize + Len(files'[0]) <= Len(written') + 1
        BY <1>1, <2>2, <3>1, <3>5, <4>1
      <4> QED BY <3>2, <4>2
    <3> QED BY <3>3, <3>4, <3>5
  <2> QED BY <2>3, <2>4
<1>7. EnoughKept'
  <2>1. \A n : IsKept(n)' <=> IsKept(n)
    BY MovedInOrder
  <2>2. Events' = Events
    BY <1>1 DEF Events
  <2> QED BY <1>1, <2>1, <2>2 DEF EnoughKept
<1> QED BY <1>5, <1>6, <1>7

\* Opening the log adds nothing that counts (OpenLog).
LEMMA OpenKeeps ==
  ASSUME FilesOK, WrittenOK, InOrder, NEW p, OpenLog(p), NEW t, NEW u,
         PackedAt("open", t), DeepAt("open", t), EnoughKept
  PROVE  PackedAt("write", u)' /\ DeepAt("write", u)' /\ EnoughKept'
<1>1. /\ DOMAIN files' = DOMAIN files \cup {0} /\ 0 \in DOMAIN files'
      /\ \A i \in DOMAIN files : files'[i] = files[i]
      /\ 0 \notin DOMAIN files => Len(files'[0]) = 0
      /\ written' = written
  BY DEF OpenLog
<1>2. PackedAt("write", u)'
  <2>1. \A i \in DOMAIN files' : i > 0 => i \in DOMAIN files /\ files'[i] = files[i]
    BY <1>1
  <2>2. \A i \in DOMAIN files' : i > 0 => Len(files'[i]) > 0
    BY <2>1 DEF PackedAt
  <2>3. \A i \in DOMAIN files' : i >= 2 => i - 1 \in DOMAIN files'
    BY <1>1, <2>1 DEF PackedAt, Rotations
  <2> QED BY <2>2, <2>3 DEF PackedAt, Rotations
<1>3. DeepAt("write", u)'
  <2> SUFFICES ASSUME NEW i \in DOMAIN files', Len(files'[i]) > 0
               PROVE  /\ files'[i][1] + i * MaxFileSize <= Len(written') + 1
                      /\ files'[i][1] + i * MaxFileSize + Len(files'[0]) <= Len(written') + 1
    BY DEF DeepAt
  <2>1. i \in DOMAIN files /\ files'[i] = files[i]
    BY <1>1
  <2>2. files[i][1] + i * MaxFileSize <= Len(written) + 1
    BY <2>1 DEF DeepAt
  <2>3. CASE 0 \in DOMAIN files
    <3>1. files'[0] = files[0]
      BY <1>1, <2>3
    <3>2. files[i][1] + i * MaxFileSize + Len(files[0]) <= Len(written) + 1
      BY <2>1, <2>3 DEF DeepAt, Rotations
    <3> QED BY <1>1, <2>1, <2>2, <3>1, <3>2
  <2>4. CASE 0 \notin DOMAIN files
    <3>1. files[i][1] \in Int /\ i \in Int
      <4>1. 1 \in 1..Len(files[i])
        BY <2>1, FileHolds
      <4> QED BY <2>1, <4>1, FileHolds
    <3>2. i * MaxFileSize \in Int
      BY <3>1, Times
    <3>3. files[i][1] + i * MaxFileSize \in Int
      BY <3>1, <3>2
    <3>4. files[i][1] + i * MaxFileSize + 0 = files[i][1] + i * MaxFileSize
      BY <3>3
    <3> QED BY <1>1, <2>1, <2>2, <2>4, <3>4
  <2> QED BY <2>3, <2>4
<1>4. EnoughKept'
  <2>1. \A n : IsKept(n)' <=> IsKept(n)
    BY OpenedInOrder
  <2>2. Events' = Events
    BY <1>1 DEF Events
  <2> QED BY <1>1, <2>1, <2>2 DEF EnoughKept
<1> QED BY <1>2, <1>3, <1>4

\* An event written to the log is one more that is newer than every backup
\* (WriteEvent).
LEMMA WriteKeeps ==
  ASSUME FilesOK, WrittenOK, InOrder, NEW p, WriteEvent(p), proc[p].fd = 0, 0 \in DOMAIN files,
         NEW t, NEW u, PackedAt("write", t), DeepAt("write", t), EnoughKept
  PROVE  PackedAt("idle", u)' /\ DeepAt("idle", u)' /\ EnoughKept'
<1>0. PICK last, len : /\ last = Len(written) /\ len = Len(files[0])
                       /\ last \in Nat /\ len \in Nat
  BY FileHolds
<1>1. /\ DOMAIN files' = DOMAIN files /\ files'[0] = Append(files[0], last + 1)
      /\ \A i \in DOMAIN files : i # 0 => files'[i] = files[i]
      /\ written' = Append(written, p)
  BY <1>0 DEF WriteEvent
<1>2. /\ files[0] \in Seq(1..last) /\ written \in Seq(Procs)
  BY <1>0 DEF FilesOK, WrittenOK, Events
<1>3. /\ Len(files'[0]) = len + 1 /\ Len(written') = last + 1
      /\ len = 0 => files'[0][1] = last + 1
      /\ len > 0 => files'[0][1] = files[0][1]
  BY <1>0, <1>1, <1>2
<1>4. \A i \in DOMAIN files : i \in Int /\ 0 <= i
  BY FileHolds
<1>5. PackedAt("idle", u)'
  <2>1. \A i \in DOMAIN files' : i > 0 => Len(files'[i]) > 0
    BY <1>1, <1>4 DEF PackedAt
  <2>2. \A i \in DOMAIN files' : i >= 2 => i - 1 \in DOMAIN files'
    BY <1>1 DEF PackedAt, Rotations
  <2> QED BY <2>1, <2>2 DEF PackedAt, Rotations
<1>6. DeepAt("idle", u)'
  <2> SUFFICES ASSUME NEW i \in DOMAIN files, Len(files'[i]) > 0
               PROVE  /\ files'[i][1] + i * MaxFileSize <= last + 2
                      /\ files'[i][1] + i * MaxFileSize + (len + 1) <= last + 2
    <3>1. Len(written') + 1 = last + 2
      BY <1>0, <1>3
    <3> QED BY <1>1, <1>3, <3>1 DEF DeepAt
  <2>0. PICK v : v = i * MaxFileSize /\ v \in Int /\ (i = 0 => v = 0)
    BY <1>4, Times, Constants
  <2>1. CASE i # 0
    <3>1. files'[i] = files[i] /\ Len(files[i]) > 0 /\ Len(files[i]) \in Nat
      BY <1>1, <2>1, FileHolds
    <3>2. 1 \in 1..Len(files[i])
      BY <3>1
    <3>3. PICK g : g = files[i][1] /\ g \in Int
      BY <3>2, FileHolds
    <3>4. /\ files[i][1] + i * MaxFileSize <= Len(written) + 1
          /\ files[i][1] + i * MaxFileSize + Len(files[0]) <= Len(written) + 1
      BY <3>1 DEF DeepAt, Rotations
    <3>5. g + i * MaxFileSize <= last + 1 /\ g + i * MaxFileSize + len <= last + 1
      BY <1>0, <3>3, <3>4
    <3>6. g + v <= last + 1 /\ g + v + len <= last + 1
      BY <1>4, <2>0, <3>5, Constants
    <3>7. g + v <= last + 2 /\ g + v + (len + 1) <= last + 2
      BY ONLY <1>0, <2>0, <3>3, <3>6, SMTT(30)
    <3> QED BY <2>0, <3>1, <3>3, <3>7
  <2>2. CASE i = 0 /\ len = 0
    <3>1. files'[i][1] = last + 1 /\ v = 0
      BY <1>3, <2>0, <2>2
    <3>2. (last + 1) + v <= last + 2 /\ (last + 1) + v + (len + 1) <= last + 2
      BY <1>0, <2>2, <3>1
    <3> QED BY <2>0, <3>1, <3>2
  <2>3. CASE i = 0 /\ len > 0
    <3>1. 1 \in 1..Len(files[0])
      BY <1>0, <2>3
    <3>2. PICK g : g = files[0][1] /\ g \in Int
      BY <3>1, FileHolds
    <3>3. g + len - 1 = last
      BY <1>0, <2>3, <3>2, LogEndsLast
    <3>4. g + v <= last + 2 /\ g + v + (len + 1) <= last + 2
      BY ONLY <1>0, <2>0, <2>3, <3>2, <3>3
    <3>5. files'[i][1] = g
      BY <1>3, <2>3, <3>2
    <3> QED BY <2>0, <3>4, <3>5
  <2> QED BY <1>0, <2>1, <2>2, <2>3
<1>7. EnoughKept'
  <2>1. \A n \in Events' : IsKept(n)' <=> IsKept(n) \/ n = Len(written')
    BY WrittenInOrder
  <2>2. PICK m : m = MaxBackups * MaxFileSize
    OBVIOUS
  <2>3. ASSUME NEW n \in Events', ~IsKept(n)'
        PROVE  n + m <= Len(written')
    <3>1. n \in 1..(last + 1) /\ n # last + 1 /\ ~IsKept(n)
      BY <1>3, <2>1, <2>3 DEF Events
    <3>2. n \in Events
      BY <1>0, <3>1 DEF Events
    <3>3. n + m <= last
      BY <1>0, <2>2, <3>1, <3>2 DEF EnoughKept
    <3>4. m \in Int
      BY <2>2, Constants
    <3>5. n + m <= last + 1
      BY <1>0, <3>1, <3>3, <3>4
    <3> QED BY <1>3, <3>5
  <2> QED BY <2>2, <2>3 DEF EnoughKept
<1> QED BY <1>5, <1>6, <1>7

\* What is kept is about the files and the events only.
LEMMA SameKeeps ==
  ASSUME NEW c, NEW t, files' = files, written' = written,
         PackedAt(c, t), DeepAt(c, t), EnoughKept
  PROVE  PackedAt(c, t)' /\ DeepAt(c, t)' /\ EnoughKept'
<1>1. PackedAt(c, t)'
  BY DEF PackedAt, IsFull
<1>2. DeepAt(c, t)'
  BY DEF DeepAt
<1>3. \A n : IsKept(n)' <=> IsKept(n)
  BY DEF IsKept
<1>4. EnoughKept'
  BY <1>3 DEF EnoughKept, Events
<1> QED BY <1>1, <1>2, <1>4

\* Outside a rotation it does not matter where a process is.
LEMMA ElsewhereKeeps ==
  ASSUME NEW c, NEW t, c \notin Rotations, PackedAt(c, t), DeepAt(c, t),
         NEW d, NEW u, d \notin Rotations
  PROVE  PackedAt(d, u) /\ DeepAt(d, u)
BY DEF PackedAt, DeepAt

\* What a step has to show: the invariant at the point the only process in the
\* log comes to, from the invariant at the point it comes from.
LEMMA KeepStep ==
  ASSUME OrderInv, KeepInv, NEW p \in Procs, NEW c, NEW t, NEW f, Becomes(p, c, t, f),
         ~overlapped' /\ crashes' = 0 => ~overlapped /\ crashes = 0 /\ OthersRest(p),
         /\ ~overlapped /\ crashes = 0 /\ Emptied /\ InOrder /\ EnoughKept
         /\ PackedAt(proc[p].pc, proc[p].path) /\ DeepAt(proc[p].pc, proc[p].path)
         => PackedAt(c, t)' /\ DeepAt(c, t)' /\ EnoughKept'
  PROVE  KeepInv'
<1> SUFFICES ASSUME ~overlapped', crashes' = 0 PROVE Packed' /\ Deep' /\ EnoughKept'
  BY DEF KeepInv
<1>1. ~overlapped /\ crashes = 0 /\ OthersRest(p)
  OBVIOUS
<1>2. Packed /\ Deep /\ EnoughKept /\ Emptied /\ InOrder
  BY <1>1 DEF KeepInv, OrderInv
<1>3. PackedAt(proc[p].pc, proc[p].path) /\ DeepAt(proc[p].pc, proc[p].path)
  BY <1>1, <1>2, OnlyOne
<1>4. PackedAt(c, t)' /\ DeepAt(c, t)' /\ EnoughKept'
  BY <1>1, <1>2, <1>3
<1> QED BY <1>1, <1>4, OnlyOneNext

\* Every action of every process keeps enough events.
LEMMA NextKeep ==
  ASSUME SpaceInv, OrderInv, KeepInv, [Next]_vars
  PROVE  KeepInv'
<1>0. Shaped /\ QueriesOK /\ ControlOK /\ FilesOK /\ WrittenOK
  BY DEF SpaceInv
<1>00. ASSUME NEW p \in Procs, proc[p].pc # "idle", overlapped' = overlapped, crashes' = crashes
       PROVE  ~overlapped' /\ crashes' = 0 => ~overlapped /\ crashes = 0 /\ OthersRest(p)
  BY <1>00, OthersAtRest DEF OrderInv
<1>1. ASSUME NEW p \in Procs, Starts(p), NEW c \in {"stat", "read"}, NEW t, NEW f,
             Becomes(p, c, t, f), files' = files, written' = written, crashes' = crashes
      PROVE  KeepInv'
  <2>1. ~overlapped' /\ crashes' = 0 => ~overlapped /\ crashes = 0 /\ OthersRest(p)
    BY <1>1 DEF Starts, OthersRest
  <2>2. proc[p].pc \notin Rotations /\ c \notin Rotations
    BY <1>1 DEF Starts, Rotations
  <2>3. ASSUME EnoughKept, PackedAt(proc[p].pc, proc[p].path), DeepAt(proc[p].pc, proc[p].path)
        PROVE  PackedAt(c, t)' /\ DeepAt(c, t)' /\ EnoughKept'
    BY <1>1, <2>2, <2>3, ElsewhereKeeps, SameKeeps
  <2> QED BY <1>1, <2>1, <2>3, KeepStep
<1>2. ASSUME NEW p \in Procs, BeginAppend(p)
      PROVE  KeepInv'
  <2>1. Becomes(p, "stat", proc[p].path, proc[p].fd)
    BY <1>0, <1>2, BeginAppendDoes
  <2>2. Starts(p) /\ files' = files /\ written' = written /\ crashes' = crashes
    BY <1>2 DEF BeginAppend
  <2> QED BY <1>1, <2>1, <2>2
<1>3. ASSUME NEW tail \in Tails, NEW actor \in Procs,
             BeginRead([tail |-> tail, actor |-> actor])
      PROVE  KeepInv'
  <2>1. [tail |-> tail, actor |-> actor] \in Queries
    BY DEF Queries
  <2>2. Becomes(Agent, "read", MaxBackups, Gone)
    BY <1>0, <1>3, <2>1, BeginReadDoes
  <2>3. Starts(Agent) /\ files' = files /\ written' = written /\ crashes' = crashes
    BY <1>3 DEF BeginRead
  <2> QED BY <1>1, <2>2, <2>3, Constants
<1>4. ASSUME NEW p \in Procs, StatLog(p)
      PROVE  KeepInv'
  <2>1. Becomes(p, IF IsFull THEN "shift" ELSE "open",
                   IF IsFull THEN MaxBackups ELSE proc[p].path, proc[p].fd)
    BY <1>0, <1>4, StatLogDoes
  <2>2. /\ proc[p].pc = "stat" /\ files' = files /\ written' = written
        /\ overlapped' = overlapped /\ crashes' = crashes
    BY <1>4 DEF StatLog
  <2>3. PICK c, t : Becomes(p, c, t, proc[p].fd) /\
                    ((c = "shift" /\ t = MaxBackups /\ IsFull) \/ c = "open")
    BY <2>1
  <2>4. ASSUME EnoughKept, PackedAt(proc[p].pc, proc[p].path), DeepAt(proc[p].pc, proc[p].path)
        PROVE  PackedAt(c, t)' /\ DeepAt(c, t)' /\ EnoughKept'
    <3>1. proc[p].pc \notin Rotations
      BY <2>2 DEF Rotations
    <3>2. "open" \notin Rotations
      BY DEF Rotations
    <3>3. PackedAt(c, t) /\ DeepAt(c, t)
      BY <1>0, <2>3, <2>4, <3>1, <3>2, StartKeeps, ElsewhereKeeps
    <3> QED BY <2>2, <2>4, <3>3, SameKeeps
  <2> QED BY <1>00, <2>2, <2>3, <2>4, KeepStep
<1>5. ASSUME NEW p \in Procs, RemoveOldest(p)
      PROVE  KeepInv'
  <2>1. Becomes(p, "shift", MaxBackups - 1, proc[p].fd)
    BY <1>0, <1>5, RemoveOldestDoes
  <2>2. /\ proc[p].pc = "shift" /\ proc[p].path = MaxBackups /\ files' = Unlink(MaxBackups)
        /\ written' = written /\ overlapped' = overlapped /\ crashes' = crashes
    BY <1>5 DEF RemoveOldest
  <2>3. ASSUME InOrder, EnoughKept, PackedAt(proc[p].pc, proc[p].path),
               DeepAt(proc[p].pc, proc[p].path)
        PROVE  /\ PackedAt("shift", MaxBackups - 1)' /\ DeepAt("shift", MaxBackups - 1)'
               /\ EnoughKept'
    BY <1>0, <2>2, <2>3, UnlinkKeeps
  <2>4. MaxBackups' = MaxBackups
    OBVIOUS
  <2> QED BY <1>00, <2>1, <2>2, <2>3, KeepStep
<1>6. ASSUME NEW p \in Procs, StatSource(p)
      PROVE  KeepInv'
  <2>1. /\ proc[p].path \in DOMAIN files => Becomes(p, "unlink", proc[p].path, proc[p].fd)
        /\ proc[p].path \notin DOMAIN files =>
             Becomes(p, NextPc(proc[p].path), NextT(proc[p].path), proc[p].fd)
    BY <1>0, <1>6, StatSourceDoes
  <2>2. /\ proc[p].pc = "shift" /\ proc[p].path < MaxBackups /\ files' = files
        /\ written' = written /\ overlapped' = overlapped /\ crashes' = crashes
    BY <1>6 DEF StatSource
  <2>3. PICK s : s = proc[p].path /\ s \in Paths
    BY <1>0 DEF ControlOK
  <2>4. CASE s \in DOMAIN files
    <3>1. ASSUME EnoughKept, PackedAt(proc[p].pc, proc[p].path),
                 DeepAt(proc[p].pc, proc[p].path)
          PROVE  PackedAt("unlink", s)' /\ DeepAt("unlink", s)' /\ EnoughKept'
      <4>1. PackedAt("unlink", s) /\ DeepAt("unlink", s)
        BY <2>2, <2>3, <3>1 DEF PackedAt, DeepAt, Rotations
      <4> QED BY <2>2, <3>1, <4>1, SameKeeps
    <3> QED BY <1>00, <2>1, <2>2, <2>3, <2>4, <3>1, KeepStep
  <2>5. CASE s \notin DOMAIN files
    <3>1. ASSUME Emptied, EnoughKept, PackedAt(proc[p].pc, proc[p].path),
                 DeepAt(proc[p].pc, proc[p].path)
          PROVE  PackedAt(NextPc(s), NextT(s))' /\ DeepAt(NextPc(s), NextT(s))' /\ EnoughKept'
      <4>1. s + 1 \notin DOMAIN files
        BY <2>2, <2>3, <3>1 DEF Emptied, Rotating
      <4>2. s # 0 /\ PackedAt("shift", s - 1) /\ DeepAt("shift", s - 1)
        BY <1>0, <2>2, <2>3, <2>5, <3>1, <4>1, SkipKeeps DEF Rotations
      <4>3. PackedAt(NextPc(s), NextT(s)) /\ DeepAt(NextPc(s), NextT(s))
        BY <4>2 DEF NextPc, NextT
      <4> QED BY <2>2, <3>1, <4>3, SameKeeps
    <3>2. Becomes(p, NextPc(s), NextT(s), proc[p].fd)
      BY <2>1, <2>3, <2>5
    <3> QED BY <1>00, <2>2, <2>3, <3>1, <3>2, KeepStep
  <2> QED BY <2>4, <2>5
<1>7. ASSUME NEW p \in Procs, RemoveTarget(p)
      PROVE  KeepInv'
  <2>1. PICK s : s = proc[p].path /\ Becomes(p, "rename", s, proc[p].fd)
    BY <1>0, <1>7, RemoveTargetDoes
  <2>2. /\ proc[p].pc = "unlink" /\ files' = Unlink(s + 1) /\ s < MaxBackups
        /\ written' = written /\ overlapped' = overlapped /\ crashes' = crashes
    BY <1>0, <1>7, <2>1 DEF RemoveTarget, ControlOK
  <2>3. ASSUME Emptied, EnoughKept, PackedAt(proc[p].pc, proc[p].path),
               DeepAt(proc[p].pc, proc[p].path)
        PROVE  PackedAt("rename", s)' /\ DeepAt("rename", s)' /\ EnoughKept'
    <3>1. s + 1 \notin DOMAIN files
      BY <2>1, <2>2, <2>3 DEF Emptied, Rotating
    <3>2. files' = files
      BY <1>0, <2>2, <3>1 DEF Unlink, FilesOK
    <3>3. PackedAt("rename", s) /\ DeepAt("rename", s)
      BY <2>1, <2>2, <2>3 DEF PackedAt, DeepAt, Rotations
    <3> QED BY <2>2, <2>3, <3>2, <3>3, SameKeeps
  <2> QED BY <1>00, <2>1, <2>2, <2>3, KeepStep
<1>8. ASSUME NEW p \in Procs, Rename(p)
      PROVE  KeepInv'
  <2>1. PICK s : s = proc[p].path /\ s \in Paths
    BY <1>0 DEF ControlOK
  <2>2. /\ proc[p].pc = "rename" /\ s < MaxBackups
        /\ written' = written /\ overlapped' = overlapped /\ crashes' = crashes
    BY <1>0, <1>8, <2>1 DEF Rename, ControlOK
  <2>3. \/ /\ s \in DOMAIN files /\ files' = Moved(s, s + 1)
           /\ Becomes(p, NextPc(s), NextT(s), proc[p].fd)
        \/ s \notin DOMAIN files /\ Becomes(p, "idle", 0, Gone)
    BY <1>0, <1>8, <2>1, RenameDoes
  <2>4. Emptied => s \in DOMAIN files /\ s + 1 \notin DOMAIN files
    BY <2>1, <2>2 DEF Emptied, Rotating
  <2>5. CASE s \in DOMAIN files
    <3>1. ASSUME Emptied, InOrder, EnoughKept, PackedAt(proc[p].pc, proc[p].path),
                 DeepAt(proc[p].pc, proc[p].path)
          PROVE  PackedAt(NextPc(s), NextT(s))' /\ DeepAt(NextPc(s), NextT(s))' /\ EnoughKept'
      <4>1. "rename" \in Rotations
        BY DEF Rotations
      <4> QED BY <1>0, <2>1, <2>2, <2>3, <2>4, <2>5, <3>1, <4>1, RenameKeeps
    <3>2. Becomes(p, NextPc(s), NextT(s), proc[p].fd)
      BY <2>3, <2>5
    <3> QED BY <1>00, <2>2, <3>1, <3>2, KeepStep
  <2>6. CASE s \notin DOMAIN files
    <3>1. Becomes(p, "idle", 0, Gone)
      BY <2>3, <2>6
    <3> QED BY <1>00, <2>2, <2>4, <2>6, <3>1, KeepStep
  <2> QED BY <2>5, <2>6
<1>9. ASSUME NEW p \in Procs, OpenLog(p)
      PROVE  KeepInv'
  <2>1. PICK s : s = proc[p].path /\ Becomes(p, "write", s, 0)
    BY <1>0, <1>9, OpenLogDoes
  <2>2. proc[p].pc = "open" /\ overlapped' = overlapped /\ crashes' = crashes
    BY <1>9 DEF OpenLog
  <2>3. ASSUME InOrder, EnoughKept, PackedAt(proc[p].pc, proc[p].path),
               DeepAt(proc[p].pc, proc[p].path)
        PROVE  PackedAt("write", s)' /\ DeepAt("write", s)' /\ EnoughKept'
    <3>1. PackedAt("open", s) /\ DeepAt("open", s)
      BY <2>1, <2>2, <2>3
    <3> QED BY <1>0, <1>9, <2>3, <3>1, OpenKeeps
  <2> QED BY <1>00, <2>1, <2>2, <2>3, KeepStep
<1>10. ASSUME NEW p \in Procs, WriteEvent(p)
       PROVE  KeepInv'
  <2>1. Becomes(p, "idle", 0, Gone)
    BY <1>0, <1>10, RestDoes DEF WriteEvent
  <2>2. proc[p].pc = "write" /\ overlapped' = overlapped /\ crashes' = crashes
    BY <1>10 DEF WriteEvent
  <2>3. PICK s : s = proc[p].path
    OBVIOUS
  <2>4. ASSUME Emptied, InOrder, EnoughKept, PackedAt(proc[p].pc, proc[p].path),
               DeepAt(proc[p].pc, proc[p].path)
        PROVE  PackedAt("idle", 0)' /\ DeepAt("idle", 0)' /\ EnoughKept'
    <3>1. PackedAt("write", s) /\ DeepAt("write", s)
      BY <2>2, <2>3, <2>4
    <3>2. proc[p].fd = 0 /\ 0 \in DOMAIN files
      BY <2>2, <2>4 DEF Emptied
    <3> QED BY <1>0, <1>10, <2>4, <3>1, <3>2, WriteKeeps
  <2> QED BY <1>00, <2>1, <2>2, <2>4, KeepStep
<1>11. ASSUME NEW p \in Procs, Crash(p)
       PROVE  KeepInv'
  <2>1. crashes' # 0
    BY <1>11 DEF Crash, SpaceInv
  <2> QED BY <2>1 DEF KeepInv
<1>12. ASSUME ReadFile \/ EndRead
       PROVE  KeepInv'
  <2>1. PICK c, t, f : c \in {"idle", "read"} /\ Becomes(Agent, c, t, f)
    BY <1>0, <1>12, Constants, RestDoes, ReadFileDoes DEF EndRead
  <2>2. /\ proc[Agent].pc = "read" /\ files' = files /\ written' = written
        /\ overlapped' = overlapped /\ crashes' = crashes
    BY <1>12 DEF ReadFile, EndRead
  <2>3. ASSUME EnoughKept, PackedAt(proc[Agent].pc, proc[Agent].path),
               DeepAt(proc[Agent].pc, proc[Agent].path)
        PROVE  PackedAt(c, t)' /\ DeepAt(c, t)' /\ EnoughKept'
    <3>1. proc[Agent].pc \notin Rotations /\ c \notin Rotations
      BY <2>1, <2>2 DEF Rotations
    <3> QED BY <2>2, <2>3, <3>1, ElsewhereKeeps, SameKeeps
  <2> QED BY <1>00, <2>1, <2>2, <2>3, Constants, KeepStep
<1>13. CASE UNCHANGED vars
  <2>1. files' = files /\ written' = written /\ proc' = proc
        /\ overlapped' = overlapped /\ crashes' = crashes
    BY <1>13 DEF vars
  <2>2. \A n : IsKept(n)' <=> IsKept(n)
    BY <2>1 DEF IsKept
  <2>3. EnoughKept => EnoughKept'
    BY <2>1, <2>2 DEF EnoughKept, Events
  <2>4. Packed => Packed'
    BY <2>1 DEF Packed, Rotating, IsFull
  <2>5. Deep => Deep'
    BY <2>1 DEF Deep, Rotating
  <2> QED BY <2>1, <2>3, <2>4, <2>5 DEF KeepInv
<1> QED BY <1>2, <1>3, <1>4, <1>5, <1>6, <1>7, <1>8, <1>9, <1>10, <1>11, <1>12, <1>13 DEF Next

\* At the start there is nothing to keep.
LEMMA InitKept == Init => OrderInv /\ KeepInv
<1> SUFFICES ASSUME Init PROVE OrderInv /\ KeepInv
  OBVIOUS
<1>1. files = << >> /\ written = << >> /\ \A p \in Procs : proc[p] = AtRest
  BY DEF Init
<1>2. DOMAIN files = {} /\ Len(written) = 0 /\ Events = {}
  BY <1>1 DEF Events
<1>3. \A p \in Procs : proc[p].pc = "idle"
  BY <1>1, AtRestIs
<1>4. Alone /\ Emptied
  BY <1>3 DEF Alone, Emptied, Rotating
<1>5. InOrder
  BY <1>2 DEF InOrder, Consecutive, OlderBehind, NewerKept
<1>6. Packed /\ Deep
  BY <1>2, <1>3 DEF Packed, Deep, Rotating
<1>7. EnoughKept
  BY <1>2 DEF EnoughKept
<1> QED BY <1>4, <1>5, <1>6, <1>7 DEF OrderInv, KeepInv

\* The order of the files and what they keep, with what the process in the log
\* knows, hold in every reachable state.
THEOREM KeptAlways == Spec => [](OrderInv /\ KeepInv)
<1>1. Init => SpaceInv /\ OrderInv /\ KeepInv
  BY InitSpace, InitKept
<1>2. SpaceInv /\ OrderInv /\ KeepInv /\ [Next]_vars => SpaceInv' /\ OrderInv' /\ KeepInv'
  BY NextSpace, NextOrder, NextKeep
<1> QED BY <1>1, <1>2, PTL DEF Spec

\* Unless two processes have been in the log at once, the files hold the latest
\* events in the order of writing and without gaps, at every moment of a rotation
\* and whenever a process is killed in one (rotateIfNeeded).
THEOREM OrderKept == Spec => []NoGaps
<1>1. OrderInv => NoGaps
  BY DEF OrderInv, NoGaps, InOrder
<1> QED BY <1>1, KeptAlways, PTL

\* Unless two processes have been in the log at once or one was killed, an event
\* that is gone has maxBackups times maxFileSize newer ones (rotateIfNeeded, for
\* every value of both).
THEOREM RotationKeepsEnough == Spec => []RotationKeeps
<1>1. KeepInv => RotationKeeps
  BY DEF KeepInv, RotationKeeps
<1> QED BY <1>1, KeptAlways, PTL

-----------------------------------------------------------------------------
(* What a query finds *)

\* readAuditFile keeps the events of a file that match, in their order.
LEMMA MatchingFacts ==
  ASSUME NEW events \in Seq(Events), NEW actor
  PROVE  /\ Matching(events, actor) \in Seq(Events)
         /\ \A x : x \in Range(Matching(events, actor)) <=>
                     \E i \in 1..Len(events) : x = events[i] /\ written[x] = actor
         /\ (\A i, j \in 1..Len(events) : i < j => events[i] < events[j]) =>
              \A i, j \in DOMAIN Matching(events, actor) :
                i < j => Matching(events, actor)[i] < Matching(events, actor)[j]
<1> DEFINE I == {i \in DOMAIN events : written[events[i]] = actor}
<1>1. /\ Len(events) \in Nat /\ DOMAIN events = 1..Len(events)
      /\ I \in SUBSET (1..Len(events)) /\ I \in SUBSET Nat
  OBVIOUS
<1>2. IsFiniteSet(I)
  <2>1. IsFiniteSet(1..Len(events))
    BY <1>1, FS_Interval
  <2> HIDE DEF I
  <2> QED BY <1>1, <2>1, FS_Subset
<1>3. PICK at, N : at = Ranked(I, Ascending) /\ N = Cardinality(I)
  OBVIOUS
<1> HIDE DEF I
<1>4. /\ N \in Nat /\ at \in [1..N -> I]
      /\ \A i \in I : \E n \in 1..N : at[n] = i
      /\ \A m, n \in 1..N : m < n => at[m] < at[n]
  BY <1>1, <1>2, <1>3, AscendingFacts
<1>5. /\ Along(events, at) \in Seq(Events)
      /\ \A x : x \in Range(Along(events, at)) <=> \E i \in I : x = events[i]
  <2>1. PICK E : E = Events
    OBVIOUS
  <2>2. PICK J : J = I
    OBVIOUS
  <2>3. PICK s : s = events
    OBVIOUS
  <2>4. s \in Seq(E) /\ J \in SUBSET (1..Len(s)) /\ N \in Nat
    BY <1>1, <1>4, <2>1, <2>2, <2>3
  <2>5. at \in [1..N -> J] /\ \A i \in J : \E n \in 1..N : at[n] = i
    BY <1>4, <2>2
  <2>6. /\ Along(s, at) \in Seq(E)
        /\ \A x : x \in Range(Along(s, at)) <=> \E i \in J : x = s[i]
    BY ONLY <2>4, <2>5, AlongFacts, SMTT(60)
  <2> QED BY <2>1, <2>2, <2>3, <2>6
<1>6. Matching(events, actor) = Along(events, at)
  BY <1>3 DEF Matching, I
<1>7. \A x : (\E i \in I : x = events[i]) <=>
               \E i \in 1..Len(events) : x = events[i] /\ written[x] = actor
  BY <1>1 DEF I
<1>8. ASSUME \A i, j \in 1..Len(events) : i < j => events[i] < events[j],
             NEW m \in DOMAIN Along(events, at), NEW n \in DOMAIN Along(events, at), m < n
      PROVE  Along(events, at)[m] < Along(events, at)[n]
  <2>1. m \in 1..N /\ n \in 1..N
    BY <1>4 DEF Along
  <2>2. at[m] \in 1..Len(events) /\ at[n] \in 1..Len(events) /\ at[m] < at[n]
    BY <1>1, <1>4, <1>8, <2>1
  <2>3. Along(events, at)[m] = events[at[m]] /\ Along(events, at)[n] = events[at[n]]
    BY <1>4, <2>1 DEF Along
  <2> QED BY <1>8, <2>2, <2>3
<1> QED BY <1>5, <1>6, <1>7, <1>8

\* What exceeds tail is dropped from the front.
LEMMA LastEventsFacts ==
  ASSUME NEW S, NEW u \in Seq(S), NEW tail \in Nat
  PROVE  /\ LastEvents(u, tail) \in Seq(S)
         /\ tail = 0 \/ Len(u) <= tail => LastEvents(u, tail) = u
         /\ tail > 0 /\ Len(u) > tail =>
              /\ Len(LastEvents(u, tail)) = tail
              /\ \A i \in 1..tail : LastEvents(u, tail)[i] = u[Len(u) - tail + i]
<1>1. CASE tail > 0 /\ Len(u) > tail
  <2>1. LastEvents(u, tail) = SubSeq(u, Len(u) - tail + 1, Len(u))
    BY <1>1 DEF LastEvents
  <2>2. PICK l \in Nat : l = Len(u)
    OBVIOUS
  <2>3. l - tail + 1 \in 1..(l + 1) /\ l \in 0..l
    BY <1>1, <2>2
  <2>4. /\ SubSeq(u, l - tail + 1, l) \in Seq(S)
        /\ Len(SubSeq(u, l - tail + 1, l)) = tail
        /\ \A i \in 1..tail : SubSeq(u, l - tail + 1, l)[i] = u[l - tail + i]
    BY <1>1, <2>2, <2>3
  <2> QED BY <1>1, <2>1, <2>2, <2>4
<1>2. CASE ~(tail > 0 /\ Len(u) > tail)
  BY <1>2 DEF LastEvents
<1> QED BY <1>1, <1>2

\* The latest of the older files, followed by what a newer file has, and cut again,
\* are the latest of both.
LEMMA LatestStep ==
  ASSUME NEW A \in SUBSET Nat, NEW B \in SUBSET Nat, NEW s \in Seq(Nat), NEW q \in Seq(Nat),
         NEW tail \in Nat, Latest(s, A, tail), Range(q) = B,
         \A i, j \in DOMAIN q : i < j => q[i] < q[j],
         \A a \in A, b \in B : a < b
  PROVE  Latest(LastEvents(s \o q, tail), A \cup B, tail)
<1>1. PICK u : u = s \o q
  OBVIOUS
<1>2. PICK m, n \in Nat : m = Len(s) /\ n = Len(q)
  OBVIOUS
<1>3. /\ u \in Seq(Nat) /\ Len(u) = m + n
      /\ \A i \in 1..m : u[i] = s[i]
      /\ \A i \in 1..n : u[m + i] = q[i]
  BY <1>1, <1>2
<1>4. /\ DOMAIN s = 1..m /\ DOMAIN q = 1..n
      /\ \A i \in 1..m : s[i] \in A
      /\ \A i \in 1..n : q[i] \in B
      /\ \A b \in B : \E i \in 1..n : q[i] = b
  <2>1. DOMAIN s = 1..m /\ DOMAIN q = 1..n
    BY <1>2
  <2>2. \A i \in 1..m : s[i] \in A
    BY <2>1 DEF Latest
  <2>3. \A b : b \in B <=> \E i \in DOMAIN q : q[i] = b
    BY DEF Range
  <2> QED BY <2>1, <2>2, <2>3
<1>5. ASSUME NEW i \in 1..(m + n)
      PROVE  \/ i \in 1..m /\ u[i] = s[i] /\ u[i] \in A
             \/ i - m \in 1..n /\ u[i] = q[i - m] /\ u[i] \in B
  <2>1. CASE i <= m
    BY <1>3, <1>4, <2>1
  <2>2. CASE i > m
    <3>1. PICK j \in 1..n : i = m + j
      BY <2>2, i - m \in 1..n
    <3>2. i - m = j /\ u[i] = q[j] /\ q[j] \in B
      BY <1>3, <1>4, <3>1
    <3> QED BY <3>2
  <2> QED BY <2>1, <2>2
<1>6. ASSUME NEW i \in 1..(m + n), NEW j \in 1..(m + n), i < j
      PROVE  u[i] < u[j]
  <2>1. CASE j \in 1..m
    <3>1. i \in 1..m
      BY <1>6, <2>1
    <3> QED BY <1>3, <1>4, <1>6, <2>1, <3>1 DEF Latest
  <2>2. CASE i \in 1..m /\ j - m \in 1..n
    <3>1. PICK k \in 1..n : j = m + k
      BY <2>2
    <3> QED BY <1>3, <1>4, <2>2, <3>1
  <2>3. CASE i - m \in 1..n /\ j - m \in 1..n
    <3>1. PICK k \in 1..n : i = m + k
      BY <2>3
    <3>2. PICK l \in 1..n : j = m + l
      BY <2>3
    <3>3. k < l
      BY <1>6, <3>1, <3>2
    <3>4. k \in DOMAIN q /\ l \in DOMAIN q
      BY <1>4
    <3>5. q[k] < q[l]
      BY <3>3, <3>4
    <3>6. u[i] = q[k] /\ u[j] = q[l]
      BY <1>3, <3>1, <3>2
    <3> QED BY <3>5, <3>6
  <2> QED BY <1>5, <2>1, <2>2, <2>3
<1>7. PICK r : r = LastEvents(u, tail)
  OBVIOUS
<1>8. /\ tail = 0 \/ m + n <= tail => r = u
      /\ tail > 0 /\ m + n > tail =>
           /\ r \in Seq(Nat) /\ Len(r) = tail
           /\ \A i \in 1..tail : r[i] = u[(m + n) - tail + i]
  <2>1. PICK S : S = Nat
    OBVIOUS
  <2>2. /\ LastEvents(u, tail) \in Seq(S)
        /\ tail = 0 \/ Len(u) <= tail => LastEvents(u, tail) = u
        /\ tail > 0 /\ Len(u) > tail =>
             /\ Len(LastEvents(u, tail)) = tail
             /\ \A i \in 1..tail : LastEvents(u, tail)[i] = u[Len(u) - tail + i]
    <3>1. u \in Seq(S)
      BY <1>3, <2>1
    <3> QED BY ONLY <3>1, tail \in Nat, LastEventsFacts
  <2> QED BY <1>3, <1>7, <2>1, <2>2
\* An event asked for is among u, or was left out of s.
<1>9. ASSUME NEW x \in A \cup B
      PROVE  \/ \E i \in 1..(m + n) : u[i] = x
             \/ tail > 0 /\ m = tail /\ \A i \in 1..(m + n) : x < u[i]
  <2>1. CASE x \in B
    <3>1. PICK i \in 1..n : q[i] = x
      BY <1>4, <2>1
    <3>2. m + i \in 1..(m + n) /\ u[m + i] = x
      BY <1>3, <3>1
    <3> QED BY <3>2
  <2>2. CASE x \in A /\ \E i \in 1..m : s[i] = x
    <3>1. PICK i \in 1..m : s[i] = x
      BY <2>2
    <3> QED BY <1>3, <3>1, i \in 1..(m + n)
  <2>3. CASE x \in A /\ ~\E i \in 1..m : s[i] = x
    <3>1. tail > 0 /\ m = tail /\ \A i \in 1..m : x < s[i]
      BY <1>2, <1>4, <2>3 DEF Latest
    <3>2. ASSUME NEW i \in 1..(m + n) PROVE x < u[i]
      BY <1>5, <2>3, <3>1
    <3> QED BY <3>1, <3>2
  <2> QED BY <2>1, <2>2, <2>3
<1>10. CASE tail = 0 \/ m + n <= tail
  <2>1. r = u /\ DOMAIN u = 1..(m + n) /\ Len(u) = m + n
    BY <1>3, <1>8, <1>10
  <2>2. \A i \in DOMAIN r : r[i] \in A \cup B
    BY <1>5, <2>1
  <2>3. \A i, j \in DOMAIN r : i < j => r[i] < r[j]
    BY <1>6, <2>1
  <2>4. ASSUME NEW x \in A \cup B
        PROVE  \/ \E i \in DOMAIN r : r[i] = x
               \/ tail > 0 /\ Len(r) = tail /\ \A i \in DOMAIN r : x < r[i]
    <3>1. tail > 0 /\ m = tail => m + n = tail
      BY <1>10
    <3> QED BY <1>9, <2>1, <3>1
  <2>5. tail > 0 => Len(r) <= tail
    BY <1>10, <2>1
  <2> QED BY <1>1, <1>7, <2>2, <2>3, <2>4, <2>5 DEF Latest
<1>11. CASE tail > 0 /\ m + n > tail
  <2>1. PICK d \in Nat : d = (m + n) - tail
    BY <1>11, (m + n) - tail \in Nat
  <2>2. /\ DOMAIN r = 1..tail /\ Len(r) = tail
        /\ \A i \in 1..tail : r[i] = u[d + i] /\ d + i \in 1..(m + n)
    BY <1>8, <1>11, <2>1
  <2>3. \A i \in DOMAIN r : r[i] \in A \cup B
    BY <1>5, <2>2
  <2>4. ASSUME NEW i \in DOMAIN r, NEW j \in DOMAIN r, i < j PROVE r[i] < r[j]
    <3>1. d + i \in 1..(m + n) /\ d + j \in 1..(m + n) /\ d + i < d + j
      BY <2>2, <2>4
    <3> QED BY <1>6, <2>2, <3>1
  <2>5. ASSUME NEW x \in A \cup B
        PROVE  \/ \E i \in DOMAIN r : r[i] = x
               \/ tail > 0 /\ Len(r) = tail /\ \A i \in DOMAIN r : x < r[i]
    <3>1. CASE \E i \in 1..(m + n) : u[i] = x
      <4>1. PICK i \in 1..(m + n) : u[i] = x
        BY <3>1
      <4>2. CASE i > d
        <5>1. PICK j \in 1..tail : i = d + j
          BY <2>1, <4>2, i - d \in 1..tail
        <5> QED BY <2>2, <4>1, <5>1
      <4>3. CASE i <= d
        <5>1. ASSUME NEW j \in DOMAIN r PROVE x < r[j]
          <6>1. i < d + j /\ d + j \in 1..(m + n)
            BY <2>2, <4>3
          <6> QED BY <1>6, <2>2, <4>1, <6>1
        <5> QED BY <1>11, <2>2, <5>1
      <4> QED BY <4>2, <4>3
    <3>2. CASE \A i \in 1..(m + n) : x < u[i]
      BY <1>11, <2>2, <3>2
    <3> QED BY <1>9, <3>1, <3>2
  <2>6. tail > 0 => Len(r) <= tail
    BY <2>2
  <2>7. \A i, j \in DOMAIN r : i < j => r[i] < r[j]
    BY <2>4
  <2>8. Latest(r, A \cup B, tail)
    BY <2>3, <2>5, <2>6, <2>7 DEF Latest
  <2> QED BY <1>1, <1>7, <2>8
<1> QED BY <1>10, <1>11

\* What every query has found so far are events that have been written.
EventsOK == \A p \in Procs : proc[p].events \in Seq(Events)

\* Events are numbered by their place in the order of writing.
LEMMA EventsAre ==
  ASSUME WrittenOK
  PROVE  /\ Len(written) \in Nat /\ Events = 1..Len(written)
         /\ Events \in SUBSET Nat /\ Events' = 1..Len(written')
         /\ \A m, n \in Nat : \A s : m <= n /\ s \in Seq(1..m) => s \in Seq(1..n)
<1>1. Len(written) \in Nat
  BY DEF WrittenOK
<1>2. \A m, n \in Nat : \A s : m <= n /\ s \in Seq(1..m) => s \in Seq(1..n)
  OBVIOUS
<1> QED BY <1>1, <1>2 DEF Events

\* Nothing found is forgotten by a step of the log.
LEMMA FindsStep ==
  ASSUME WrittenOK, EventsOK, NEW p \in Procs, NEW r, NEW e, Finds(p, r, e),
         written' = written \/ \E q \in Procs : written' = Append(written, q),
         e \in Seq(Events)
  PROVE  EventsOK'
<1>1. Len(written') \in Nat /\ Len(written) <= Len(written')
  BY DEF WrittenOK
<1>2. \A s \in Seq(Events) : s \in Seq(Events')
  BY <1>1, EventsAre
<1>3. proc'[p].events \in Seq(Events')
  BY <1>2 DEF Finds
<1>4. \A q \in Procs \ {p} : proc'[q].events \in Seq(Events')
  BY <1>2 DEF Finds, EventsOK
<1> QED BY <1>3, <1>4 DEF EventsOK

\* The file a query reads next adds matching events, if it is there.
NextFile(s) == IF s.path \in DOMAIN files THEN Matching(files[s.path], s.query.actor) ELSE << >>

\* One file of a query: its matching events are put behind what has been found and
\* what exceeds tail is dropped (readAuditFile and the loop of Read).
LEMMA ReadFoundIs ==
  ASSUME SpaceInv, EventsOK
  PROVE  /\ proc[Agent].events \in Seq(Events) /\ NextFile(proc[Agent]) \in Seq(Events)
         /\ proc[Agent].query.tail \in Nat /\ proc[Agent].path \in 0..MaxBackups
         /\ ReadFound(proc[Agent]) =
              LastEvents(proc[Agent].events \o NextFile(proc[Agent]), proc[Agent].query.tail)
         /\ ReadFound(proc[Agent]) \in Seq(Events)
<1>1. PICK s : s = proc[Agent]
  OBVIOUS
<1>2. s.events \in Seq(Events) /\ s.query.tail \in Nat /\ s.path \in 0..MaxBackups
  <2>1. Agent \in Procs /\ s.query \in Queries /\ s.path \in Paths
    BY <1>1, Constants DEF SpaceInv, QueriesOK, ControlOK
  <2>2. Tails \subseteq Nat /\ Paths = 0..MaxBackups
    BY ConstantsAssumption, Constants
  <2>3. s.query.tail \in Tails \cup {0}
    BY <2>1 DEF Queries
  <2>4. s.events \in Seq(Events)
    BY <1>1, <2>1 DEF EventsOK
  <2>5. s.query.tail \in Nat
    <3>1. PICK x : x = s.query.tail
      OBVIOUS
    <3>2. x \in Tails \/ x = 0
      BY <2>3, <3>1
    <3>3. 0 \in Nat
      OBVIOUS
    <3>4. x \in Nat
      BY <2>2, <3>2, <3>3, Zenon
    <3> QED BY <3>1, <3>4
  <2>6. s.path \in 0..MaxBackups
    BY <2>1, <2>2
  <2> QED BY <2>4, <2>5, <2>6
<1>3. NextFile(s) \in Seq(Events)
  <2>1. CASE s.path \in DOMAIN files
    <3>1. files[s.path] \in Seq(Events)
      BY <2>1 DEF SpaceInv, FilesOK
    <3> QED BY <2>1, <3>1, MatchingFacts DEF NextFile
  <2>2. CASE s.path \notin DOMAIN files
    BY <2>2 DEF NextFile
  <2> QED BY <2>1, <2>2
<1>4. ReadFound(s) = LastEvents(s.events \o NextFile(s), s.query.tail)
  <2>1. CASE s.path \in DOMAIN files
    BY <2>1 DEF ReadFound, NextFile
  <2>2. CASE s.path \notin DOMAIN files
    <3>1. s.events \o << >> = s.events
      BY <1>2
    <3> QED BY <2>2, <3>1 DEF ReadFound, NextFile
  <2> QED BY <2>1, <2>2
<1>5. ReadFound(s) \in Seq(Events)
  <2>1. PICK u, E : u = s.events \o NextFile(s) /\ E = Events
    OBVIOUS
  <2>2. u \in Seq(E)
    BY <1>2, <1>3, <2>1
  <2>3. LastEvents(u, s.query.tail) \in Seq(E)
    BY <1>2, <2>2, LastEventsFacts
  <2> QED BY <1>4, <2>1, <2>3
<1> QED BY <1>1, <1>2, <1>3, <1>4, <1>5

\* What queries find stays well formed in every step.
LEMMA NextEvents ==
  ASSUME SpaceInv, EventsOK, [Next]_vars
  PROVE  EventsOK'
<1>0. /\ Shaped /\ QueriesOK /\ WrittenOK /\ Agent \in Procs /\ << >> \in Seq(Events)
      /\ \A p \in Procs : proc[p].events \in Seq(Events)
  BY Constants DEF SpaceInv, EventsOK
<1>1. ASSUME NEW p \in Procs, BeginAppend(p) PROVE EventsOK'
  <2>1. Finds(p, proc[p].query, proc[p].events) /\ written' = written
    BY <1>0, <1>1, BeginAppendDoes DEF BeginAppend
  <2> QED BY <1>0, <2>1, FindsStep
<1>2. ASSUME NEW p \in Procs, StatLog(p) PROVE EventsOK'
  <2>1. Finds(p, proc[p].query, proc[p].events) /\ written' = written
    BY <1>0, <1>2, StatLogDoes DEF StatLog
  <2> QED BY <1>0, <2>1, FindsStep
<1>3. ASSUME NEW p \in Procs, RemoveOldest(p) PROVE EventsOK'
  <2>1. Finds(p, proc[p].query, proc[p].events) /\ written' = written
    BY <1>0, <1>3, RemoveOldestDoes DEF RemoveOldest
  <2> QED BY <1>0, <2>1, FindsStep
<1>4. ASSUME NEW p \in Procs, StatSource(p) PROVE EventsOK'
  <2>1. Finds(p, proc[p].query, proc[p].events) /\ written' = written
    BY <1>0, <1>4, StatSourceDoes DEF StatSource
  <2> QED BY <1>0, <2>1, FindsStep
<1>5. ASSUME NEW p \in Procs, RemoveTarget(p) PROVE EventsOK'
  <2>1. Finds(p, proc[p].query, proc[p].events) /\ written' = written
    BY <1>0, <1>5, RemoveTargetDoes DEF RemoveTarget
  <2> QED BY <1>0, <2>1, FindsStep
<1>6. ASSUME NEW p \in Procs, Rename(p) PROVE EventsOK'
  <2>1. Finds(p, proc[p].query, proc[p].events) \/ Finds(p, NoQuery, << >>)
    BY <1>0, <1>6, RenameDoes
  <2>2. written' = written
    BY <1>6 DEF Rename
  <2> QED BY <1>0, <2>1, <2>2, FindsStep
<1>7. ASSUME NEW p \in Procs, OpenLog(p) PROVE EventsOK'
  <2>1. Finds(p, proc[p].query, proc[p].events) /\ written' = written
    BY <1>0, <1>7, OpenLogDoes DEF OpenLog
  <2> QED BY <1>0, <2>1, FindsStep
<1>8. ASSUME NEW p \in Procs, WriteEvent(p) PROVE EventsOK'
  <2>1. Finds(p, NoQuery, << >>) /\ written' = Append(written, p)
    BY <1>0, <1>8, RestDoes DEF WriteEvent
  <2> QED BY <1>0, <2>1, FindsStep
<1>9. ASSUME NEW p \in Procs, Crash(p) PROVE EventsOK'
  <2>1. Finds(p, NoQuery, << >>) /\ written' = written
    BY <1>0, <1>9, RestDoes DEF Crash
  <2> QED BY <1>0, <2>1, FindsStep
<1>10. ASSUME NEW r \in Queries, BeginRead(r) PROVE EventsOK'
  <2>1. Finds(Agent, r, << >>) /\ written' = written
    BY <1>0, <1>10, BeginReadDoes DEF BeginRead
  <2> QED BY <1>0, <2>1, FindsStep
<1>11. ASSUME ReadFile PROVE EventsOK'
  <2>1. Finds(Agent, proc[Agent].query, ReadFound(proc[Agent])) /\ written' = written
    BY <1>0, <1>11, ReadFileDoes DEF ReadFile
  <2>2. PICK e, r : e = ReadFound(proc[Agent]) /\ r = proc[Agent].query
    OBVIOUS
  <2>3. e \in Seq(Events)
    BY <2>2, ReadFoundIs
  <2> QED BY <1>0, <2>1, <2>2, <2>3, FindsStep
<1>12. ASSUME EndRead PROVE EventsOK'
  <2>1. Finds(Agent, NoQuery, << >>) /\ written' = written
    BY <1>0, <1>12, RestDoes DEF EndRead
  <2> QED BY <1>0, <2>1, FindsStep
<1>13. ASSUME UNCHANGED vars PROVE EventsOK'
  BY <1>13 DEF vars, EventsOK, Events
<1>14. \A tail \in Tails, actor \in Procs : [tail |-> tail, actor |-> actor] \in Queries
  BY DEF Queries
<1> QED BY <1>1, <1>2, <1>3, <1>4, <1>5, <1>6, <1>7, <1>8, <1>9, <1>10, <1>11, <1>12, <1>13,
           <1>14 DEF Next

\* A step of another kind than Read's, by a process that is alone in the log or
\* has just entered it: no query is in progress there.
LEMMA ElsewhereFound ==
  ASSUME OrderInv, NEW p \in Procs, NEW c, NEW t, NEW f, Becomes(p, c, t, f), c # "read",
         Starts(p) \/ (proc[p].pc # "idle" /\ overlapped' = overlapped)
  PROVE  FoundSoFar'
<1> SUFFICES ASSUME ~overlapped', proc'[Agent].pc = "read" PROVE FALSE
  BY DEF FoundSoFar
<1>1. Agent \in Procs /\ Agent # p /\ proc[Agent].pc = "read"
  BY Constants DEF Becomes
<1>2. CASE Starts(p)
  BY <1>1, <1>2 DEF Starts
<1>3. CASE proc[p].pc # "idle" /\ overlapped' = overlapped
  BY <1>1, <1>3 DEF OrderInv, Alone
<1> QED BY <1>2, <1>3

\* What a query finds depends on the files, the events and the actors only.
LEMMA KeptBehindSame ==
  ASSUME files' = files, written' = written
  PROVE  \A t, a : KeptBehind(t, a)' = KeptBehind(t, a)
BY DEF KeptBehind, Events

\* The file at the next path has the events between those of the paths behind it
\* and those of the paths before it, in their order.
LEMMA NextFileFacts ==
  ASSUME SpaceInv, InOrder, NEW s, s.path \in 0..MaxBackups
  PROVE  /\ KeptBehind(s.path, s.query.actor) \in SUBSET Nat
         /\ Range(NextFile(s)) \in SUBSET Nat
         /\ KeptBehind(s.path - 1, s.query.actor) =
              KeptBehind(s.path, s.query.actor) \cup Range(NextFile(s))
         /\ \A i, j \in DOMAIN NextFile(s) : i < j => NextFile(s)[i] < NextFile(s)[j]
         /\ \A a \in KeptBehind(s.path, s.query.actor), b \in Range(NextFile(s)) : a < b
<1> DEFINE A == KeptBehind(s.path, s.query.actor)
           q == NextFile(s)
<1>0. FilesOK /\ WrittenOK /\ Events \in SUBSET Nat
  BY EventsAre DEF SpaceInv
<1>1. PICK t \in 0..MaxBackups : t = s.path
  OBVIOUS
<1>2. PICK actor : actor = s.query.actor
  OBVIOUS
<1>3. A \in SUBSET Nat
  BY <1>0 DEF KeptBehind
<1>4. \A i \in DOMAIN files : i \in 0..MaxBackups
  BY <1>0, Constants DEF FilesOK
<1>5. CASE t \in DOMAIN files
  <2>1. PICK e : e = files[t]
    OBVIOUS
  <2>2. e \in Seq(Events)
    BY <1>0, <1>5, <2>1 DEF FilesOK
  <2>3. q = Matching(e, actor)
    BY <1>1, <1>2, <1>5, <2>1 DEF NextFile
  <2>4. \A k \in 1..Len(e) : e[k] = e[1] + k - 1 /\ e[k] \in Events
    BY <1>5, <2>1, <2>2 DEF InOrder, Consecutive
  <2>5. \A i, j \in 1..Len(e) : i < j => e[i] < e[j]
    <3> SUFFICES ASSUME NEW i \in 1..Len(e), NEW j \in 1..Len(e), i < j PROVE e[i] < e[j]
      OBVIOUS
    <3>1. Len(e) \in Nat
      BY <2>2
    <3>2. 1 \in 1..Len(e) /\ i \in Nat /\ j \in Nat
      BY <3>1
    <3>3. e[1] \in Nat
      BY <1>0, <2>4, <3>2
    <3> QED BY <2>4, <3>2, <3>3
  <2>6. /\ \A x : x \in Range(q) <=> \E i \in 1..Len(e) : x = e[i] /\ written[x] = actor
        /\ \A i, j \in DOMAIN q : i < j => q[i] < q[j]
    BY <2>2, <2>3, <2>5, MatchingFacts
  <2>7. Range(q) \in SUBSET Events
    BY <2>4, <2>6
  <2>8. \A a \in A, b \in Range(q) : a < b
    <3> SUFFICES ASSUME NEW a \in A, NEW b \in Range(q) PROVE a < b
      OBVIOUS
    <3>1. PICK l \in 1..Len(e) : b = e[l]
      BY <2>6
    <3>2. PICK i \in DOMAIN files : i > t /\ \E k \in 1..Len(files[i]) : files[i][k] = a
      BY <1>1 DEF KeptBehind
    <3>3. PICK k \in 1..Len(files[i]) : files[i][k] = a
      BY <3>2
    <3>4. files[i][k] < files[t][l]
      BY <1>4, <1>5, <2>1, <3>1, <3>2, <3>3 DEF InOrder, OlderBehind
    <3> QED BY <2>1, <3>1, <3>3, <3>4
  <2>9. KeptBehind(t - 1, actor) = KeptBehind(t, actor) \cup Range(q)
    <3>1. ASSUME NEW n \in KeptBehind(t - 1, actor)
          PROVE  n \in KeptBehind(t, actor) \cup Range(q)
      <4>1. n \in Events /\ written[n] = actor
        BY DEF KeptBehind
      <4>2. PICK i \in DOMAIN files : i > t - 1 /\ \E k \in 1..Len(files[i]) : files[i][k] = n
        BY DEF KeptBehind
      <4>3. CASE i = t
        BY <2>1, <2>6, <4>1, <4>2, <4>3
      <4>4. CASE i > t
        BY <4>1, <4>2, <4>4 DEF KeptBehind
      <4> QED BY <1>4, <4>2, <4>3, <4>4
    <3>2. ASSUME NEW n \in KeptBehind(t, actor) PROVE n \in KeptBehind(t - 1, actor)
      <4>1. \A i \in DOMAIN files : i > t => i > t - 1
        BY <1>4
      <4> QED BY <4>1 DEF KeptBehind
    <3>3. ASSUME NEW n \in Range(q) PROVE n \in KeptBehind(t - 1, actor)
      <4>1. PICK k \in 1..Len(e) : n = e[k] /\ written[n] = actor
        BY <2>6
      <4>2. n \in Events /\ t > t - 1 /\ files[t][k] = n /\ k \in 1..Len(files[t])
        BY <2>1, <2>7, <4>1
      <4> QED BY <1>5, <4>1, <4>2 DEF KeptBehind
    <3> QED BY <3>1, <3>2, <3>3
  <2> HIDE DEF q
  <2>10. Range(q) \in SUBSET Nat
    BY <1>0, <2>7
  <2> QED BY <1>1, <1>2, <1>3, <2>6, <2>8, <2>9, <2>10 DEF q
<1>6. CASE t \notin DOMAIN files
  <2>1. q = << >> /\ Range(q) = {} /\ DOMAIN q = {}
    BY <1>1, <1>6 DEF NextFile, Range
  <2>2. \A i \in DOMAIN files : i > t - 1 <=> i > t
    BY <1>4, <1>6
  <2>3. KeptBehind(t - 1, actor) = KeptBehind(t, actor)
    BY <2>2 DEF KeptBehind
  <2> QED BY <1>1, <1>2, <1>3, <2>1, <2>3
<1> QED BY <1>5, <1>6

\* A query that goes on to the next file has found the latest of those read.
LEMMA ReadFoundLatest ==
  ASSUME SpaceInv, OrderInv, EventsOK, FoundSoFar, ~overlapped, proc[Agent].pc = "read"
  PROVE  Latest(ReadFound(proc[Agent]),
                KeptBehind(proc[Agent].path - 1, proc[Agent].query.actor),
                proc[Agent].query.tail)
<1>1. PICK s : s = proc[Agent]
  OBVIOUS
<1>2. PICK A, q, u : /\ A = KeptBehind(s.path, s.query.actor)
                     /\ q = NextFile(s) /\ u = s.events
  OBVIOUS
<1>3. /\ s.events \in Seq(Events) /\ NextFile(s) \in Seq(Events)
      /\ s.query.tail \in Nat /\ s.path \in 0..MaxBackups
      /\ ReadFound(s) = LastEvents(s.events \o NextFile(s), s.query.tail)
  BY <1>1, ReadFoundIs
<1>4. u \in Seq(Nat) /\ q \in Seq(Nat)
  <2>1. WrittenOK
    BY DEF SpaceInv
  <2>2. Events \in SUBSET Nat
    BY <2>1, EventsAre
  <2>3. PICK E : E = Events
    OBVIOUS
  <2>4. u \in Seq(E) /\ q \in Seq(E) /\ E \in SUBSET Nat
    BY <1>2, <1>3, <2>2, <2>3
  <2>5. /\ Len(u) \in Nat /\ u \in [1..Len(u) -> E]
        /\ Len(q) \in Nat /\ q \in [1..Len(q) -> E]
    BY <2>4
  <2>6. u \in [1..Len(u) -> Nat] /\ q \in [1..Len(q) -> Nat]
    BY <2>4, <2>5
  <2> QED BY <2>5, <2>6
<1>5. Latest(u, A, s.query.tail)
  BY <1>1, <1>2 DEF FoundSoFar
<1>6. /\ A \in SUBSET Nat /\ Range(q) \in SUBSET Nat
      /\ KeptBehind(s.path - 1, s.query.actor) = A \cup Range(q)
      /\ \A i, j \in DOMAIN q : i < j => q[i] < q[j]
      /\ \A a \in A, b \in Range(q) : a < b
  <2>1. InOrder
    BY DEF OrderInv
  <2> QED BY <1>2, <1>3, <2>1, NextFileFacts
<1>7. Latest(LastEvents(u \o q, s.query.tail), A \cup Range(q), s.query.tail)
  <2>1. PICK B : B = Range(q)
    OBVIOUS
  <2> QED BY <1>3, <1>4, <1>5, <1>6, <2>1, LatestStep
<1> QED BY <1>1, <1>2, <1>3, <1>6, <1>7

\* Before the first file is read, nothing can be missing.
LEMMA NothingBehind ==
  ASSUME SpaceInv, NEW r \in Queries
  PROVE  Latest(<< >>, KeptBehind(MaxBackups, r.actor), r.tail)
<1>1. DOMAIN files \subseteq 0..MaxBackups
  BY Constants DEF SpaceInv, FilesOK
<1>2. \A i \in DOMAIN files : ~(i > MaxBackups)
  BY <1>1, Constants
<1>3. KeptBehind(MaxBackups, r.actor) = {}
  BY <1>2 DEF KeptBehind
<1>4. r.tail \in Nat
  <2>1. PICK x : x = r.tail
    OBVIOUS
  <2>2. x \in Tails \/ x = 0
    BY <2>1 DEF Queries
  <2>3. Tails \subseteq Nat /\ 0 \in Nat
    BY ConstantsAssumption
  <2>4. x \in Nat
    BY <2>2, <2>3, Zenon
  <2> QED BY <2>1, <2>4
<1>5. DOMAIN << >> = {} /\ Len(<< >>) = 0
  OBVIOUS
<1> QED BY <1>3, <1>4, <1>5 DEF Latest

\* Every action keeps what a query has found up with the files it has read.
LEMMA NextFound ==
  ASSUME SpaceInv, OrderInv, EventsOK, FoundSoFar, [Next]_vars
  PROVE  FoundSoFar'
<1>0. Shaped /\ QueriesOK /\ Agent \in Procs
  BY Constants DEF SpaceInv
<1>1. ASSUME NEW p \in Procs, BeginAppend(p) PROVE FoundSoFar'
  <2>1. Becomes(p, "stat", proc[p].path, proc[p].fd) /\ Starts(p)
    BY <1>0, <1>1, BeginAppendDoes DEF BeginAppend
  <2> QED BY <2>1, ElsewhereFound
<1>2. ASSUME NEW p \in Procs, StatLog(p) PROVE FoundSoFar'
  <2>1. PICK c, t : c \in {"shift", "open"} /\ Becomes(p, c, t, proc[p].fd)
    BY <1>0, <1>2, StatLogDoes
  <2>2. proc[p].pc # "idle" /\ overlapped' = overlapped
    BY <1>2 DEF StatLog
  <2> QED BY <2>1, <2>2, ElsewhereFound
<1>3. ASSUME NEW p \in Procs, RemoveOldest(p) PROVE FoundSoFar'
  <2>1. Becomes(p, "shift", MaxBackups - 1, proc[p].fd)
    BY <1>0, <1>3, RemoveOldestDoes
  <2>2. proc[p].pc # "idle" /\ overlapped' = overlapped
    BY <1>3 DEF RemoveOldest
  <2> QED BY <2>1, <2>2, ElsewhereFound
<1>4. ASSUME NEW p \in Procs, StatSource(p) PROVE FoundSoFar'
  <2>1. PICK c, t : c \in {"unlink", "shift", "open"} /\ Becomes(p, c, t, proc[p].fd)
    BY <1>0, <1>4, StatSourceDoes DEF NextPc
  <2>2. proc[p].pc # "idle" /\ overlapped' = overlapped
    BY <1>4 DEF StatSource
  <2> QED BY <2>1, <2>2, ElsewhereFound
<1>5. ASSUME NEW p \in Procs, RemoveTarget(p) PROVE FoundSoFar'
  <2>1. Becomes(p, "rename", proc[p].path, proc[p].fd)
    BY <1>0, <1>5, RemoveTargetDoes
  <2>2. proc[p].pc # "idle" /\ overlapped' = overlapped
    BY <1>5 DEF RemoveTarget
  <2> QED BY <2>1, <2>2, ElsewhereFound
<1>6. ASSUME NEW p \in Procs, Rename(p) PROVE FoundSoFar'
  <2>1. PICK c, t, f : c \in {"idle", "shift", "open"} /\ Becomes(p, c, t, f)
    BY <1>0, <1>6, RenameDoes DEF NextPc
  <2>2. proc[p].pc # "idle" /\ overlapped' = overlapped
    BY <1>6 DEF Rename
  <2> QED BY <2>1, <2>2, ElsewhereFound
<1>7. ASSUME NEW p \in Procs, OpenLog(p) PROVE FoundSoFar'
  <2>1. Becomes(p, "write", proc[p].path, 0)
    BY <1>0, <1>7, OpenLogDoes
  <2>2. proc[p].pc # "idle" /\ overlapped' = overlapped
    BY <1>7 DEF OpenLog
  <2> QED BY <2>1, <2>2, ElsewhereFound
<1>8. ASSUME NEW p \in Procs, WriteEvent(p) \/ Crash(p) \/ (p = Agent /\ EndRead)
      PROVE  FoundSoFar'
  <2>1. Becomes(p, "idle", 0, Gone)
    BY <1>0, <1>8, RestDoes DEF WriteEvent, Crash, EndRead
  <2>2. proc[p].pc # "idle" /\ overlapped' = overlapped
    BY <1>8 DEF WriteEvent, Crash, EndRead
  <2> QED BY <2>1, <2>2, ElsewhereFound
<1>9. ASSUME NEW r \in Queries, BeginRead(r) PROVE FoundSoFar'
  <2>1. Finds(Agent, r, << >>) /\ Becomes(Agent, "read", MaxBackups, Gone)
    BY <1>0, <1>9, BeginReadDoes
  <2>2. files' = files /\ written' = written
    BY <1>9 DEF BeginRead
  <2>3. KeptBehind(MaxBackups, r.actor)' = KeptBehind(MaxBackups, r.actor)
    BY <2>2 DEF KeptBehind, Events
  <2>4. Latest(<< >>, KeptBehind(MaxBackups, r.actor), r.tail)
    BY NothingBehind
  <2>5. /\ proc'[Agent].events = << >> /\ proc'[Agent].query = r
        /\ proc'[Agent].path = MaxBackups
    BY <2>1 DEF Finds, Becomes
  <2>6. PICK B : B = KeptBehind(MaxBackups, r.actor)
    OBVIOUS
  <2>7. KeptBehind(proc[Agent].path, proc[Agent].query.actor)' = B
    BY <2>2, <2>5, <2>6 DEF KeptBehind, Events
  <2>8. Latest(<< >>, B, r.tail)
    BY <2>4, <2>6
  <2>9. Latest(<< >>, B, r.tail) <=>
          Latest(proc[Agent].events, KeptBehind(proc[Agent].path, proc[Agent].query.actor),
                 proc[Agent].query.tail)'
    BY <2>5, <2>7 DEF Latest
  <2> QED BY <2>8, <2>9 DEF FoundSoFar
<1>10. ASSUME ReadFile PROVE FoundSoFar'
  <2> SUFFICES ASSUME ~overlapped'
               PROVE  Latest(proc[Agent].events,
                             KeptBehind(proc[Agent].path, proc[Agent].query.actor),
                             proc[Agent].query.tail)'
    BY DEF FoundSoFar
  <2>1. /\ Finds(Agent, proc[Agent].query, ReadFound(proc[Agent]))
        /\ Becomes(Agent, "read", proc[Agent].path - 1, proc[Agent].fd)
    BY <1>0, <1>10, ReadFileDoes
  <2>2. /\ files' = files /\ written' = written /\ overlapped' = overlapped
        /\ proc[Agent].pc = "read"
    BY <1>10 DEF ReadFile
  <2>3. PICK t, r, e : t = proc[Agent].path - 1 /\ r = proc[Agent].query
                       /\ e = ReadFound(proc[Agent])
    OBVIOUS
  <2>4. Latest(e, KeptBehind(t, r.actor), r.tail)
    BY <2>2, <2>3, ReadFoundLatest
  <2>5. proc'[Agent].events = e /\ proc'[Agent].query = r /\ proc'[Agent].path = t
    BY <2>1, <2>3 DEF Finds, Becomes
  <2>6. PICK B : B = KeptBehind(t, r.actor)
    OBVIOUS
  <2>7. KeptBehind(proc[Agent].path, proc[Agent].query.actor)' = B
    BY <2>2, <2>5, <2>6 DEF KeptBehind, Events
  <2> QED BY <2>4, <2>5, <2>6, <2>7 DEF Latest
<1>11. ASSUME UNCHANGED vars PROVE FoundSoFar'
  BY <1>11 DEF vars, FoundSoFar, Latest, KeptBehind, Events
<1>12. \A tail \in Tails, actor \in Procs : [tail |-> tail, actor |-> actor] \in Queries
  BY DEF Queries
<1> QED BY <1>0, <1>1, <1>2, <1>3, <1>4, <1>5, <1>6, <1>7, <1>8, <1>9, <1>10, <1>11, <1>12
        DEF Next

\* In every reachable state, a query in progress has found the latest matching events
\* of the files it has read (the loop of Read, which drops what exceeds tail after
\* every file), unless two processes have been in the log at once.
THEOREM QueriesFind == Spec => [](EventsOK /\ FoundSoFar)
<1>1. Init => EventsOK /\ FoundSoFar
  <2> SUFFICES ASSUME Init PROVE EventsOK /\ FoundSoFar
    OBVIOUS
  <2>1. \A p \in Procs : proc[p].pc = "idle" /\ proc[p].events = << >>
    BY AtRestIs DEF Init
  <2>2. << >> \in Seq(Events)
    OBVIOUS
  <2>3. EventsOK
    BY <2>1, <2>2, Zenon DEF EventsOK
  <2> QED BY <2>1, <2>3, Constants DEF FoundSoFar
<1>2. /\ SpaceInv /\ OrderInv /\ KeepInv /\ EventsOK /\ FoundSoFar /\ [Next]_vars
      => EventsOK' /\ FoundSoFar'
  BY NextEvents, NextFound
<1> QED BY <1>1, <1>2, SpaceAlways, KeptAlways, PTL DEF Spec

\* Paths stay between the log and the oldest backup, every file and every answer
\* holds events that have been written, and every process is at a statement of
\* Append or Read (the types of AuditLogger).
THEOREM TypeCorrect == Spec => []TypeOK
<1>1. SpaceInv /\ EventsOK => TypeOK
  <2> SUFFICES ASSUME SpaceInv, EventsOK PROVE TypeOK
    OBVIOUS
  <2>1. Cardinality(Appending) \in Nat
    BY ProcsCounted DEF Appending
  <2>2. Len(written) <= MaxEvents
    <3>1. Len(written) \in Nat /\ Len(written) + Cardinality(Appending) <= MaxEvents
      BY DEF SpaceInv, WrittenOK, RoomForEvents
    <3> QED BY <2>1, <3>1, Constants
  <2>3. /\ DOMAIN files \subseteq Paths /\ files \in [DOMAIN files -> Seq(Events)]
        /\ written \in Seq(Procs) /\ overlapped \in BOOLEAN /\ crashes \in 0..MaxCrashes
    BY DEF SpaceInv, FilesOK, WrittenOK
  <2>4. \A p \in Procs : /\ proc[p].pc \in {"idle", "stat", "shift", "unlink", "rename", "open",
                                             "write", "read"}
                         /\ proc[p].path \in Paths /\ proc[p].fd \in Paths \cup {Gone}
    BY DEF SpaceInv, ControlOK, PCs
  <2>5. \A p \in Procs : proc[p].query \in [tail : Tails \cup {0}, actor : Procs]
    BY DEF SpaceInv, QueriesOK, Queries
  <2>6. \A p \in Procs : proc[p].events \in Seq(Events)
    BY DEF EventsOK
  <2> HIDE DEF SpaceInv
  <2> QED BY <2>2, <2>3, <2>4, <2>5, <2>6, Zenon DEF TypeOK
<1> QED BY <1>1, SpaceAlways, QueriesFind, PTL

\* A query answers with the latest matching events of all the files, in order and
\* none left out before tail newer ones, for every number and size of files and every
\* tail (Read), unless two processes have been in the log at once.
THEOREM QueriesAnswerLatest == Spec => ReadsLatest
<1>1. ASSUME SpaceInv, OrderInv, EventsOK, FoundSoFar, EndRead, ~overlapped
      PROVE  LET query == proc[Agent].query
             IN Latest(ReadFound(proc[Agent]),
                       {n \in Events : IsKept(n) /\ written[n] = query.actor}, query.tail)
  <2>1. PICK r, e : r = proc[Agent].query /\ e = ReadFound(proc[Agent])
    OBVIOUS
  <2>2. proc[Agent].pc = "read" /\ proc[Agent].path = 0
    BY <1>1 DEF EndRead
  <2>3. Latest(e, KeptBehind(0 - 1, r.actor), r.tail)
    BY <1>1, <2>1, <2>2, ReadFoundLatest
  <2>4. \A i \in DOMAIN files : i > 0 - 1
    <3>1. DOMAIN files \subseteq 0..MaxBackups
      BY <1>1, Constants DEF SpaceInv, FilesOK
    <3> QED BY <3>1, Constants
  <2>5. KeptBehind(0 - 1, r.actor) = {n \in Events : IsKept(n) /\ written[n] = r.actor}
    BY <2>4 DEF KeptBehind, IsKept
  <2> QED BY <2>1, <2>3, <2>5
<1>2. /\ SpaceInv /\ OrderInv /\ KeepInv /\ EventsOK /\ FoundSoFar /\ [Next]_vars
      => [EndRead /\ ~overlapped =>
            LET query == proc[Agent].query
            IN Latest(ReadFound(proc[Agent]),
                      {n \in Events : IsKept(n) /\ written[n] = query.actor},
                      query.tail)]_vars
  BY <1>1
<1> QED BY <1>2, SpaceAlways, KeptAlways, QueriesFind, PTL DEF Spec, ReadsLatest

=============================================================================
