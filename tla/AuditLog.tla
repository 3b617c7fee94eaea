------------------------------ MODULE AuditLog ------------------------------
(***************************************************************************)
(* The audit log: one JSONL file and its rotated backups, appended to and  *)
(* rotated by every process that has an AuditLogger for the same path: the *)
(* agent after each request it audits, and the backup and restore commands *)
(* when they end.  A logger's mutex serialises the calls of one process;   *)
(* nothing serialises two processes, so one step is one system call.       *)
(*                                                                         *)
(* Path 0 is the log, path i its i-th backup.  An open file is named by    *)
(* the path it has now: a rename moves it, Gone is an unlinked one.        *)
(*                                                                         *)
(* Abstractions: an event is its number in the order of writing and its    *)
(* actor; every event has size 1; a query filters by actor.  System calls  *)
(* fail only for a path that does not exist.  Configuration never leaves   *)
(* MaxBackups below 1, so the truncating branch of rotateIfNeeded is left  *)
(* out.                                                                    *)
(***************************************************************************)
EXTENDS Integers, Sequences, FiniteSets, Ranking

CONSTANTS
  Agent,        \* the agent's process, the only one that reads
  Commands,     \* processes of the backup and restore commands
  MaxFileSize,  \* audit.maxFileSize, in events
  MaxBackups,   \* audit.maxBackups
  Tails,        \* values of the query parameter tail; 0 is "all"
  MaxEvents,    \* bound on events
  MaxCrashes    \* bound on processes that are killed

Procs == {Agent} \cup Commands

ASSUME ConstantsAssumption ==
  /\ Agent \notin Commands /\ IsFiniteSet(Commands)
  /\ MaxFileSize \in Nat \ {0} /\ MaxBackups \in Nat \ {0}
  /\ Tails \subseteq Nat /\ MaxEvents \in Nat /\ MaxCrashes \in Nat

VARIABLES
  files,       \* the paths that exist and the events in each
  written,     \* the actor of every event written, in order
  proc,        \* what each process is doing
  overlapped,  \* auxiliary: two processes have been in the log at once
  crashes

vars == <<files, written, proc, overlapped, crashes>>

-----------------------------------------------------------------------------

Paths == 0..MaxBackups
Gone == -1
Events == 1..Len(written)

NoQuery == [tail |-> 0, actor |-> Agent]
AtRest == [pc |-> "idle", path |-> 0, fd |-> Gone, query |-> NoQuery, events |-> <<>>]

TypeOK ==
  /\ DOMAIN files \subseteq Paths /\ files \in [DOMAIN files -> Seq(Events)]
  /\ written \in Seq(Procs) /\ Len(written) <= MaxEvents
  /\ \A p \in Procs :
       /\ proc[p].pc \in {"idle", "stat", "shift", "unlink", "rename", "open",
                          "write", "read"}
       /\ proc[p].path \in Paths /\ proc[p].fd \in Paths \cup {Gone}
       /\ proc[p].query \in [tail : Tails \cup {0}, actor : Procs]
       /\ proc[p].events \in Seq(Events)
  /\ overlapped \in BOOLEAN /\ crashes \in 0..MaxCrashes

\* Mutant: a file is copied to its new path and not removed.
Copied(i, j) ==
  [q \in DOMAIN files \cup {j} |-> IF q = j THEN files[i] ELSE files[q]]

\* removeIfExists and os.Rename, on the directory and on open files.
Unlink(i) == [q \in DOMAIN files \ {i} |-> files[q]]
Moved(i, j) ==
  [q \in (DOMAIN files \ {i}) \cup {j} |-> IF q = j THEN files[i] ELSE files[q]]

\* Process p goes on to state s; an open file of another one follows the path.
Does(p, s) == proc' = [proc EXCEPT ![p] = s]
DoesAndMoves(p, s, i, j) ==
  proc' = [q \in Procs |->
             IF q = p THEN s
             ELSE [proc[q] EXCEPT !.fd = IF @ = i THEN j ELSE IF @ = j THEN Gone ELSE @]]

\* Mutant: the loop goes past the log.
NextPathPastLog(s) == [s EXCEPT !.pc = "shift", !.path = @ - 1]

\* The next iteration of the loop of rotateIfNeeded; after path 0 it is done.
NextPath(s) ==
  IF s.path = 0 THEN [s EXCEPT !.pc = "open"]
  ELSE [s EXCEPT !.pc = "shift", !.path = @ - 1]

Starts(p) ==
  /\ proc[p].pc = "idle"
  /\ overlapped' = (overlapped \/ \E q \in Procs \ {p} : proc[q].pc # "idle")

-----------------------------------------------------------------------------
(* AuditLogger.Append *)

Appending == {p \in Procs : proc[p].pc \notin {"idle", "read"}}

\* withAPIAudit and appendLocalAudit call Append once the request or command
\* has been dealt with.
BeginAppend(p) ==
  /\ Starts(p)
  /\ Len(written) + Cardinality(Appending) < MaxEvents
  /\ Does(p, [proc[p] EXCEPT !.pc = "stat"])
  /\ UNCHANGED <<files, written, crashes>>

\* Mutants: rotation waits for one event more, or comes one event early.
RotatesLate == 0 \in DOMAIN files /\ Len(files[0]) > MaxFileSize
RotatesEarly == 0 \in DOMAIN files /\ Len(files[0]) + 1 >= MaxFileSize

\* The log exists and has reached maxFileSize.
IsFull == 0 \in DOMAIN files /\ Len(files[0]) >= MaxFileSize

StatLog(p) ==
  /\ proc[p].pc = "stat"
  /\ Does(p, IF IsFull
             THEN [proc[p] EXCEPT !.pc = "shift", !.path = MaxBackups]
             ELSE [proc[p] EXCEPT !.pc = "open"])
  /\ UNCHANGED <<files, written, overlapped, crashes>>

\* The first iteration removes the oldest backup.
RemoveOldest(p) ==
  /\ proc[p].pc = "shift" /\ proc[p].path = MaxBackups
  /\ files' = Unlink(MaxBackups)
  /\ DoesAndMoves(p, NextPath(proc[p]), MaxBackups, Gone)
  /\ UNCHANGED <<written, overlapped, crashes>>

\* The others, and the last rename of the log itself, are renameIfExists: stat
\* the source, remove the target, rename.
StatSource(p) ==
  /\ proc[p].pc = "shift" /\ proc[p].path < MaxBackups
  /\ Does(p, IF proc[p].path \in DOMAIN files
             THEN [proc[p] EXCEPT !.pc = "unlink"]
             ELSE NextPath(proc[p]))
  /\ UNCHANGED <<files, written, overlapped, crashes>>

RemoveTarget(p) ==
  LET target == proc[p].path + 1
  IN /\ proc[p].pc = "unlink"
     /\ files' = Unlink(target)
     /\ DoesAndMoves(p, [proc[p] EXCEPT !.pc = "rename"], target, Gone)
     /\ UNCHANGED <<written, overlapped, crashes>>

\* A source that has disappeared ends Append with an error, which its callers
\* ignore: the event is not written.
Rename(p) ==
  LET source == proc[p].path
  IN /\ proc[p].pc = "rename"
     /\ \/ /\ source \in DOMAIN files
           /\ files' = Moved(source, source + 1)
           /\ DoesAndMoves(p, NextPath(proc[p]), source, source + 1)
        \/ /\ source \notin DOMAIN files
           /\ Does(p, AtRest) /\ UNCHANGED files
     /\ UNCHANGED <<written, overlapped, crashes>>

\* O_CREATE and O_APPEND
OpenLog(p) ==
  /\ proc[p].pc = "open"
  /\ files' = [i \in DOMAIN files \cup {0} |->
                 IF i \in DOMAIN files THEN files[i] ELSE <<>>]
  /\ Does(p, [proc[p] EXCEPT !.pc = "write", !.fd = 0])
  /\ UNCHANGED <<written, overlapped, crashes>>

\* One write; the file may have been renamed or removed since it was opened.
WriteEvent(p) ==
  LET n == Len(written) + 1
  IN /\ proc[p].pc = "write"
     /\ written' = Append(written, p)
     /\ files' = [i \in DOMAIN files |->
                    IF i = proc[p].fd THEN Append(files[i], n) ELSE files[i]]
     /\ Does(p, AtRest)
     /\ UNCHANGED <<overlapped, crashes>>

-----------------------------------------------------------------------------
(* AuditLogger.Read *)

\* Mutant: the first events found are returned, not the last.
FirstEvents(events, tail) ==
  IF tail > 0 /\ Len(events) > tail THEN SubSeq(events, 1, tail) ELSE events

LastEvents(events, tail) ==
  IF tail > 0 /\ Len(events) > tail
  THEN SubSeq(events, Len(events) - tail + 1, Len(events)) ELSE events

\* auditEventMatches, for a query by actor
Matching(events, actor) ==
  Along(events, Ranked({i \in DOMAIN events : written[events[i]] = actor}, Ascending))

BeginRead(query) ==
  /\ Starts(Agent)
  /\ Does(Agent, [AtRest EXCEPT !.pc = "read", !.path = MaxBackups, !.query = query])
  /\ UNCHANGED <<files, written, crashes>>

\* readAuditFile on the oldest backup first; a path that does not exist is
\* skipped, and what exceeds tail is dropped after every file.
ReadFound(s) ==
  LastEvents(IF s.path \in DOMAIN files
             THEN s.events \o Matching(files[s.path], s.query.actor)
             ELSE s.events, s.query.tail)

ReadFile ==
  LET s == proc[Agent]
  IN /\ s.pc = "read" /\ s.path > 0
     /\ Does(Agent, [s EXCEPT !.path = @ - 1, !.events = ReadFound(s)])
     /\ UNCHANGED <<files, written, overlapped, crashes>>

\* The log itself is read last and the answer returned.
EndRead ==
  /\ proc[Agent].pc = "read" /\ proc[Agent].path = 0
  /\ Does(Agent, AtRest)
  /\ UNCHANGED <<files, written, overlapped, crashes>>

-----------------------------------------------------------------------------

\* A process is killed between two system calls.
Crash(p) ==
  /\ proc[p].pc # "idle" /\ crashes < MaxCrashes /\ crashes' = crashes + 1
  /\ Does(p, AtRest)
  /\ UNCHANGED <<files, written, overlapped>>

Init ==
  /\ files = <<>> /\ written = <<>> /\ proc = [p \in Procs |-> AtRest]
  /\ overlapped = FALSE /\ crashes = 0

Next ==
  \/ \E p \in Procs :
       \/ BeginAppend(p) \/ StatLog(p) \/ RemoveOldest(p) \/ StatSource(p)
       \/ RemoveTarget(p) \/ Rename(p) \/ OpenLog(p) \/ WriteEvent(p) \/ Crash(p)
  \/ \E tail \in Tails, actor \in Procs : BeginRead([tail |-> tail, actor |-> actor])
  \/ ReadFile \/ EndRead

Spec == Init /\ [][Next]_vars

-----------------------------------------------------------------------------
(* Properties *)

\* The log takes bounded space however many processes race for it: a file never
\* exceeds maxFileSize by more than one event for each other process.
FilesBounded ==
  \A i \in DOMAIN files : Len(files[i]) < MaxFileSize + Cardinality(Procs)

\* Event n is in one of the files.
IsKept(n) == \E i \in DOMAIN files : \E k \in 1..Len(files[i]) : files[i][k] = n

\* A file is a run of consecutive events, an older file holds older events, and
\* every event newer than a kept one is kept.
Consecutive ==
  \A i \in DOMAIN files : \A k \in 1..Len(files[i]) : files[i][k] = files[i][1] + k - 1
OlderBehind ==
  \A i, j \in DOMAIN files : i < j =>
    \A k \in 1..Len(files[i]), l \in 1..Len(files[j]) : files[j][l] < files[i][k]
NewerKept == \A n \in Events : IsKept(n) => \A m \in n..Len(written) : IsKept(m)

\* What the files hold is always the latest part of what was written, in
\* order and without gaps, also in the middle of a rotation and when a process
\* is killed there, as long as two processes are not in the log at once.
NoGaps == ~overlapped => Consecutive /\ OlderBehind /\ NewerKept

\* Rotation never drops an event before the events of maxBackups full files are
\* newer, if no process is killed and two are not in the log at once.
EnoughKept ==
  \A n \in Events : IsKept(n) \/ n + MaxBackups * MaxFileSize <= Len(written)
RotationKeeps == ~overlapped /\ crashes = 0 => EnoughKept

\* The events found are the latest of those asked for: in order, and one is left
\* out only if tail others are found, all of them newer.
Latest(found, asked, tail) ==
  /\ \A i, j \in DOMAIN found : i < j => found[i] < found[j]
  /\ \A i \in DOMAIN found : found[i] \in asked
  /\ tail > 0 => Len(found) <= tail
  /\ \A n \in asked :
       \/ \E i \in DOMAIN found : found[i] = n
       \/ tail > 0 /\ Len(found) = tail /\ \A i \in DOMAIN found : n < found[i]

\* A query reads one file after the other and drops what exceeds tail after each,
\* and still answers with the latest matching events of all the files.
ReadsLatest ==
  [][EndRead /\ ~overlapped =>
       LET query == proc[Agent].query
       IN Latest(ReadFound(proc[Agent]),
                 {n \in Events : IsKept(n) /\ written[n] = query.actor}, query.tail)]_vars

-----------------------------------------------------------------------------
(* Why these hold: parts of their inductive invariants *)

\* Those that will write to the file at path i without looking at it again.
Writers(i) ==
  {p \in Procs : \/ proc[p].pc = "write" /\ proc[p].fd = i
                 \/ proc[p].pc = "open" /\ i = 0}
RoomForWriters ==
  \A i \in DOMAIN files :
    Len(files[i]) + Cardinality(Writers(i)) < MaxFileSize + Cardinality(Procs)

\* Every call in progress still may write its event.
RoomForEvents == Len(written) + Cardinality(Appending) <= MaxEvents

Rotating(p) == proc[p].pc \in {"shift", "unlink", "rename"}
Alone == \A p, q \in Procs : proc[p].pc # "idle" /\ proc[q].pc # "idle" => p = q

\* A rotation has emptied the path behind the one it is at, and finds what it has
\* decided to move; a writer has the log.
Emptied ==
  \A p \in Procs :
    /\ Rotating(p) /\ proc[p].path < MaxBackups => proc[p].path + 1 \notin DOMAIN files
    /\ proc[p].pc \in {"unlink", "rename"} => proc[p].path \in DOMAIN files
    /\ proc[p].pc = "write" => proc[p].fd = 0 /\ 0 \in DOMAIN files

\* Backups are never empty; between two rotations none is missing, and one in
\* progress finds a full log and no gap but where it is.
Packed ==
  /\ \A i \in DOMAIN files : i > 0 => Len(files[i]) > 0
  /\ \/ \E p \in Procs : Rotating(p)
     \/ \A i \in DOMAIN files : i >= 2 => i - 1 \in DOMAIN files
  /\ \A p \in Procs : Rotating(p) =>
       /\ IsFull
       /\ \A i \in DOMAIN files : i >= 1 /\ i # proc[p].path + 2 => i - 1 \in DOMAIN files
       /\ proc[p].path + 2 \in DOMAIN files => proc[p].path \in DOMAIN files

\* A backup has a full file of newer events for each path before it, and the
\* log's besides unless the rotation in progress has moved it.
Deep ==
  \A i \in DOMAIN files : Len(files[i]) > 0 =>
    /\ files[i][1] + i * MaxFileSize <= Len(written) + 1
    /\ \/ \E p \in Procs : Rotating(p) /\ proc[p].path < i
       \/ 0 \notin DOMAIN files
       \/ files[i][1] + i * MaxFileSize + Len(files[0]) <= Len(written) + 1

\* What a query has found are the latest matching events of the files it has read.
KeptBehind(t, actor) ==
  {n \in Events : /\ written[n] = actor
                  /\ \E i \in DOMAIN files : /\ i > t
                                             /\ \E k \in 1..Len(files[i]) : files[i][k] = n}
FoundSoFar ==
  ~overlapped /\ proc[Agent].pc = "read" =>
    LET s == proc[Agent]
    IN Latest(s.events, KeptBehind(s.path, s.query.actor), s.query.tail)
=============================================================================
