----------------------------- MODULE StateStore -----------------------------
(***************************************************************************)
(* The file state backend: the spec, status and event files of every       *)
(* Runtime, written by the agent's operations one at a time (reconcileMu)  *)
(* or, with the agent stopped as the runbook asks, by the restore command, *)
(* and read file by file by the backup command while the agent works.      *)
(*                                                                         *)
(* One step is one system call.  os.WriteFile truncates and then writes,   *)
(* so that a process killed between the two, or a write that fails, leaves *)
(* an empty file, which no reader can parse (Torn).  The previous release  *)
(* kept one spec file per Runtime elsewhere; those files are only read     *)
(* (legacy).                                                               *)
(*                                                                         *)
(* Abstractions: a document is a model value and stands for its status as  *)
(* well; an operation saves the status of a phase once before it works and *)
(* once at its end, and appends the event that starts it or says it        *)
(* failed; lock files are never created; the proxy state is not read by    *)
(* anything.  A Load that fails ends the process, which leaves the same    *)
(* files as killing it.                                                    *)
(***************************************************************************)
EXTENDS Integers, Sequences

CONSTANTS
  Keys,         \* the keys of Runtimes, numbered in the order of their file names
  Docs,         \* documents
  Missing,      \* no such file
  Torn,         \* a file without its content
  Unknown,      \* nothing is known of what an operation left
  LegacyKeys,   \* keys that may have a file of the previous release
  MaxOps,       \* bound on operations of the agent
  MaxBackups,   \* bound on runs of the backup command
  MaxRestores,  \* bound on runs of the restore command
  MaxFaults,    \* bound on failing system calls
  MaxKills      \* bound on killed processes

ASSUME ConstantsAssumption ==
  /\ Keys \subseteq Nat /\ LegacyKeys \subseteq Keys
  /\ Missing # Torn /\ Missing # Unknown /\ Torn # Unknown
  /\ Docs \cap {Missing, Torn, Unknown} = {}
  /\ {MaxOps, MaxBackups, MaxRestores, MaxFaults, MaxKills} \subseteq Nat

VARIABLES
  spec,     \* specs/<namespace>/<name>.json
  status,   \* status/<namespace>/<name>.json
  events,   \* events/<namespace>/<name>.jsonl, the documents its lines are about
  legacy,   \* <name>/runtime-spec.json
  archive,  \* the file the backup command writes and restore reads
  up,       \* the agent serves
  specs,    \* m.specs
  op,       \* the operation in progress
  todo,     \* its calls of the store that are left, each a sequence of system calls
  cmd,      \* the backup command
  acked,    \* auxiliary: the document clients were last told a Runtime has
  before,   \* auxiliary: what the spec file being written held
  held,     \* auxiliary: what each spec file has held during the backup
  used      \* how much of each bound is used up

files == <<spec, status, events>>
vars == <<files, legacy, archive, up, specs, op, todo, cmd, acked, before, held, used>>

-----------------------------------------------------------------------------

Values == Docs \cup {Missing}
Held == Values \cup {Torn}
Everywhere(x) == [k \in Keys |-> x]
Only(k, S) == [j \in Keys |-> IF j = k THEN S ELSE {}]

\* An operation in progress: its kind, the documents it may store under each
\* key, the keys its caller is answered about and with what, and the keys it has
\* still to visit.
Operation(kind, grants, about, acks, rest) ==
  [kind |-> kind, grants |-> grants, about |-> about, acks |-> acks, rest |-> rest]
Idle == Operation("none", Everywhere({}), {}, Everywhere(Unknown), {})
NoBackup == [pc |-> "idle", names |-> {}, docs |-> Everywhere(Missing), vanished |-> FALSE]
SysCalls == {"open spec", "write spec", "unlink spec", "open status", "write status",
             "unlink status", "open events", "append event"}
SysCall == [do : SysCalls, key : Keys, value : Values]
StoreCall == [calls : Seq(SysCall), must : BOOLEAN]
Operations ==
  [kind : {"none", "client", "resync", "load", "restore"}, grants : [Keys -> SUBSET Values],
   about : SUBSET Keys, acks : [Keys -> Values \cup {Unknown}], rest : SUBSET Keys]
Archives == [docs : [Keys -> Values], statuses : [Keys -> Values], events : [Keys -> Seq(Docs)]]
Backups == [pc : {"idle", "read"}, names : SUBSET Keys, docs : [Keys -> Values],
            vanished : BOOLEAN]
Usage == [ops : 0..MaxOps, backups : 0..MaxBackups, restores : 0..MaxRestores,
          faults : 0..MaxFaults, kills : 0..MaxKills]

TypeOK ==
  /\ spec \in [Keys -> Held] /\ status \in [Keys -> Held] /\ events \in [Keys -> Seq(Docs)]
  /\ legacy \in [Keys -> Values] /\ specs \in [Keys -> Values] /\ up \in BOOLEAN
  /\ archive \in {Missing, Torn} \/ archive \in Archives
  /\ op \in Operations /\ todo \in Seq(StoreCall) /\ cmd \in Backups
  /\ acked \in [Keys -> Values \cup {Unknown}]
  /\ before \in Held /\ held \in [Keys -> SUBSET Held]
  /\ used \in Usage

First(S, x) == x \in S /\ \A y \in S : x <= y
Uses(what) == used' = [used EXCEPT ![what] = @ + 1]

-----------------------------------------------------------------------------
(* The store's functions, as the system calls they make.  A call of the    *)
(* store whose error the caller only logs is not a must.                   *)

Call(f, k, v) == [do |-> f, key |-> k, value |-> v]
Must(calls) == [calls |-> calls, must |-> TRUE]
Try(calls) == [calls |-> calls, must |-> FALSE]

\* Mutant: the old file is removed before the new one is written.
RemoveThenWrite(k, d) ==
  <<Call("unlink spec", k, Missing)>>
    \o <<Call("open spec", k, d), Call("write spec", k, d)>>

SaveRuntime(k, d) == <<Call("open spec", k, d), Call("write spec", k, d)>>
SaveStatus(k, d) == <<Call("open status", k, d), Call("write status", k, d)>>
AppendEvent(k, d) == <<Call("append event", k, d)>>
DeleteRuntime(k) == <<Call("unlink spec", k, Missing), Call("unlink status", k, Missing)>>

\* Mutant: events are appended to what the file holds.
AppendEvents(k, es) == [i \in 1..Len(es) |-> Call("append event", k, es[i])]

WriteEvents(k, es) ==
  <<Call("open events", k, Missing)>> \o [i \in 1..Len(es) |-> Call("append event", k, es[i])]

\* The effect of one system call that succeeds.
Effect(c) ==
  /\ spec' = CASE c.do = "open spec" -> [spec EXCEPT ![c.key] = Torn]
               [] c.do \in {"write spec", "unlink spec"} -> [spec EXCEPT ![c.key] = c.value]
               [] OTHER -> spec
  /\ status' = CASE c.do = "open status" -> [status EXCEPT ![c.key] = Torn]
                 [] c.do \in {"write status", "unlink status"} ->
                      [status EXCEPT ![c.key] = c.value]
                 [] OTHER -> status
  /\ events' = CASE c.do = "open events" -> [events EXCEPT ![c.key] = <<>>]
                 [] c.do = "append event" -> [events EXCEPT ![c.key] = Append(@, c.value)]
                 [] OTHER -> events
  /\ before' = IF c.do = "open spec" THEN spec[c.key] ELSE before

\* The operation makes its next system call, and drops the call of the store
\* that it completes.
Proceed ==
  /\ todo # <<>>
  /\ LET calls == Head(todo).calls IN
     /\ Effect(Head(calls))
     /\ todo' = IF Len(calls) = 1 THEN Tail(todo)
                ELSE <<[calls |-> Tail(calls), must |-> Head(todo).must]>> \o Tail(todo)
  /\ UNCHANGED <<legacy, archive, up, specs, op, cmd, acked, used>>

\* The operation ends and its caller is told acks.  Load runs before the agent
\* serves, a load that fails ends the process.
Ends(acks) ==
  /\ acked' = [k \in Keys |-> IF k \in op.about THEN acks[k] ELSE acked[k]]
  /\ op' = Idle /\ todo' = <<>>

\* The system call fails, without effect: an open leaves the file as it was, a
\* write leaves it truncated.  An error that is not only logged ends the operation.
Fail ==
  /\ todo # <<>> /\ used.faults < MaxFaults /\ Uses("faults")
  /\ IF Head(todo).must
     THEN /\ Ends(Everywhere(Unknown))
          /\ specs' = IF op.kind = "load" THEN Everywhere(Missing) ELSE specs
     ELSE /\ todo' = Tail(todo)
          /\ UNCHANGED <<op, specs, acked>>
  /\ UNCHANGED <<files, legacy, archive, up, cmd, before>>

Return ==
  /\ op.kind # "none" /\ todo = <<>> /\ op.rest = {}
  /\ Ends(op.acks)
  /\ up' = (up \/ op.kind = "load")
  /\ UNCHANGED <<files, legacy, archive, specs, cmd, before, used>>

\* An operation for a client, on Runtime k: it may store v, answers ack and
\* makes calls of the store.
Begins(k, v, ack, calls) ==
  /\ op' = Operation("client", Only(k, {v}), {k}, Everywhere(ack), {})
  /\ todo' = calls

\* An operation on several Runtimes, which visits them one after the other.
BeginsLoop(kind, grants, about, acks, rest) ==
  /\ op' = Operation(kind, grants, about, acks, rest)
  /\ todo' = <<>>

-----------------------------------------------------------------------------
(* The agent's operations.                                                 *)

\* Mutant: the error of saving the document is only logged.
ApplyLogsSave(k, d) ==
  <<Try(AppendEvent(k, d)), Try(SaveStatus(k, d)), Try(SaveRuntime(k, d)),
    Must(SaveStatus(k, d))>>

\* recordFailedStatus
RecordFailed(k, d) ==
  <<Try(SaveRuntime(k, d)), Try(SaveStatus(k, d)), Try(AppendEvent(k, d))>>

\* What Apply writes when it succeeds, when it fails with the new document
\* recorded as failed, and when it restores the previous document.
ApplyWrites(k, d) ==
  <<Try(AppendEvent(k, d)), Try(SaveStatus(k, d)), Must(SaveRuntime(k, d)),
    Must(SaveStatus(k, d))>>
FailedWrites(k, d) ==
  <<Try(AppendEvent(k, d)), Try(SaveStatus(k, d))>> \o RecordFailed(k, d)
RollbackWrites(k, d, previous) ==
  <<Try(AppendEvent(k, d)), Try(SaveStatus(k, d)), Must(SaveRuntime(k, previous)),
    Must(SaveStatus(k, previous))>>

\* The agent is serving, between two operations, with one more to do.
Serves == up /\ op.kind = "none" /\ used.ops < MaxOps /\ Uses("ops")

\* What previousRuntimeState finds: the document in memory, else the file's.
Previous(k) == IF specs[k] # Missing THEN specs[k] ELSE spec[k]

\* PUT of document d: it succeeds, is recorded as failed, or is rolled back.
Apply(k, d) ==
  /\ Serves
  /\ \/ /\ Begins(k, d, d, ApplyWrites(k, d))
        /\ specs' = [specs EXCEPT ![k] = d]
     \/ /\ Begins(k, d, Unknown, FailedWrites(k, d))
        /\ specs' = [specs EXCEPT ![k] = d]
     \/ /\ Previous(k) \in Docs
        /\ Begins(k, Previous(k), Previous(k), RollbackWrites(k, d, Previous(k)))
        /\ specs' = [specs EXCEPT ![k] = Previous(k)]
  /\ UNCHANGED <<files, legacy, archive, up, cmd, acked, before>>

\* DELETE: the status is saved as Terminating if the Runtime is known.
RemoveRuntime(k) ==
  /\ Serves
  /\ LET known == IF Previous(k) \in Docs THEN <<Try(SaveStatus(k, Previous(k)))>> ELSE <<>> IN
     Begins(k, Missing, Missing, known \o <<Must(DeleteRuntime(k))>>)
  /\ specs' = [specs EXCEPT ![k] = Missing]
  /\ UNCHANGED <<files, legacy, archive, up, cmd, acked, before>>

\* Resync visits every Runtime in memory.
Resync ==
  /\ Serves
  /\ LET known == {k \in Keys : specs[k] # Missing} IN
     known # {} /\ BeginsLoop("resync", [k \in Keys |-> {specs[k]} \ {Missing}], {},
                             Everywhere(Unknown), known)
  /\ UNCHANGED <<files, legacy, archive, up, specs, cmd, acked, before>>

\* Mutant: a file that cannot be parsed does not fail LoadAll.
AlwaysLoadable == TRUE

\* LoadAll fails on a file it cannot parse.  A file of the previous release
\* counts for a Runtime that has no spec file.
Loadable == \A k \in Keys : spec[k] # Torn
LoadAll == [k \in Keys |-> IF spec[k] # Missing THEN spec[k] ELSE legacy[k]]

\* The process starts and applies what LoadAll returns, writing every file again.
Start ==
  /\ ~up /\ op.kind = "none" /\ Loadable
  /\ specs' = LoadAll
  /\ LET known == {k \in Keys : LoadAll[k] # Missing} IN
     BeginsLoop("load", [k \in Keys |-> {LoadAll[k]} \ {Missing}], {}, Everywhere(Unknown), known)
  /\ UNCHANGED <<files, legacy, archive, up, cmd, acked, before, used>>

\* The agent or the restore command is killed, or the idle agent is stopped.
Kill ==
  /\ up \/ op.kind # "none"
  /\ used.kills < MaxKills /\ Uses("kills")
  /\ up' = FALSE
  /\ specs' = Everywhere(Missing)
  /\ Ends(Everywhere(Unknown))
  /\ UNCHANGED <<files, legacy, archive, cmd, before>>

-----------------------------------------------------------------------------
(* The backup command, beside the agent.                                   *)

Reads(c) ==
  /\ cmd' = c
  /\ UNCHANGED <<files, legacy, up, specs, op, todo, acked, before, used>>
Present(f) == {k \in Keys : f[k] # Missing}

\* os.Create truncates an archive of that name before anything is read; WalkDir
\* reads the directory, then visits the names it found.
BeginBackup ==
  /\ cmd.pc = "idle" /\ op.kind # "restore"
  /\ used.backups < MaxBackups /\ Uses("backups")
  /\ archive' = Torn
  /\ cmd' = [NoBackup EXCEPT !.pc = "read", !.names = Present(spec)]
  /\ UNCHANGED <<files, legacy, up, specs, op, todo, acked, before>>

\* Mutant: a file that cannot be parsed is skipped.
ReadSkipsTorn ==
  /\ cmd.pc = "read"
  /\ \E k \in Keys :
       /\ First(cmd.names, k)
       /\ Reads([cmd EXCEPT !.names = @ \ {k},
                            !.docs[k] = IF spec[k] \in Docs THEN spec[k] ELSE @])
  /\ UNCHANGED archive

\* One spec file.  One that cannot be parsed fails the backup; one that has
\* been removed since ends the walk, with an error that LoadAll ignores.
BackupRead ==
  /\ cmd.pc = "read"
  /\ \E k \in Keys :
       /\ First(cmd.names, k)
       /\ \/ /\ spec[k] \in Docs
             /\ Reads([cmd EXCEPT !.names = @ \ {k}, !.docs[k] = spec[k]])
          \/ /\ spec[k] = Missing
             /\ Reads([cmd EXCEPT !.names = {}, !.vanished = TRUE])
          \/ /\ spec[k] = Torn
             /\ Reads(NoBackup)
  /\ UNCHANGED archive

Archiving == cmd.pc = "read" /\ cmd.names = {}

\* The walk has ended: the files of the previous release are merged, for
\* Runtimes that were not found, and the archive is written with each Runtime's
\* status, if it can be read, and events.
Merged == [k \in Keys |-> IF cmd.docs[k] # Missing THEN cmd.docs[k] ELSE legacy[k]]
BackupWrite ==
  /\ Archiving
  /\ Reads(NoBackup)
  /\ archive' =
       [docs |-> Merged,
        statuses |-> [k \in Keys |-> IF Merged[k] # Missing /\ status[k] \in Docs THEN status[k]
                                     ELSE Missing],
        events |-> [k \in Keys |-> IF Merged[k] # Missing THEN events[k] ELSE <<>>]]

KillBackup ==
  /\ cmd.pc # "idle" /\ used.kills < MaxKills /\ Uses("kills")
  /\ cmd' = NoBackup
  /\ UNCHANGED <<files, legacy, archive, up, specs, op, todo, acked, before>>

\* The restore command, with the agent stopped; an archive that cannot be
\* decoded or holds no Runtime is refused.
StatusWrites(k) ==
  IF archive.statuses[k] # Missing THEN <<Must(SaveStatus(k, archive.statuses[k]))>> ELSE <<>>
EventWrites(k) ==
  IF archive.events[k] # <<>> THEN <<Must(WriteEvents(k, archive.events[k]))>> ELSE <<>>
RestoreWrites(k) ==
  <<Must(SaveRuntime(k, archive.docs[k]))>> \o (StatusWrites(k) \o EventWrites(k))

Restore ==
  /\ cmd.pc = "idle" /\ ~up /\ op.kind = "none"
  /\ used.restores < MaxRestores /\ Uses("restores")
  /\ archive \notin {Missing, Torn}
  /\ LET names == Present(archive.docs) IN
     /\ names # {}
     /\ BeginsLoop("restore", [k \in Keys |-> {archive.docs[k]} \ {Missing}],
                   names, archive.docs, names)
  /\ UNCHANGED <<files, legacy, archive, up, specs, cmd, acked, before>>

\* The loops of Resync, Load and RestoreFrom go on with the next Runtime.  Resync
\* saves its status, or records that it failed and returns.
NextRuntime ==
  /\ todo = <<>>
  /\ \E k \in Keys :
       /\ First(op.rest, k)
       /\ \/ /\ op' = [op EXCEPT !.rest = @ \ {k}]
             /\ todo' = CASE op.kind = "resync" -> <<Must(SaveStatus(k, specs[k]))>>
                          [] op.kind = "load" -> ApplyWrites(k, specs[k])
                          [] op.kind = "restore" -> RestoreWrites(k)
          \/ /\ op.kind = "resync"
             /\ op' = [op EXCEPT !.rest = {}]
             /\ todo' = RecordFailed(k, specs[k])
  /\ UNCHANGED <<files, legacy, archive, up, specs, cmd, acked, before, used>>

-----------------------------------------------------------------------------

Init ==
  /\ spec = Everywhere(Missing) /\ status = spec /\ specs = spec
  /\ events = Everywhere(<<>>)
  /\ legacy \in [Keys -> Values] /\ \A k \in Keys \ LegacyKeys : legacy[k] = Missing
  /\ archive = Missing /\ up = FALSE
  /\ op = Idle /\ todo = <<>> /\ cmd = NoBackup
  /\ acked = Everywhere(Unknown)
  /\ before = Missing /\ held = Everywhere({})
  /\ used = [ops |-> 0, backups |-> 0, restores |-> 0, faults |-> 0, kills |-> 0]

Agent == Start \/ Resync \/ \E k \in Keys : RemoveRuntime(k) \/ \E d \in Docs : Apply(k, d)
Backup == BeginBackup \/ BackupRead \/ BackupWrite
Step == Agent \/ NextRuntime \/ Proceed \/ Fail \/ Return \/ Kill \/ Backup \/ KillBackup \/ Restore

\* What LoadAll could have found of each file from the listing on.
Observe ==
  held' = IF cmd'.pc = "idle" THEN Everywhere({})
          ELSE [k \in Keys |-> held[k] \cup {spec'[k]}]

Next == Step /\ Observe

Spec == Init /\ [][Next]_vars

-----------------------------------------------------------------------------

\* The spec file that is open for writing holds, to the map, what it held before.
Writing(k) ==
  /\ todo # <<>>
  /\ Head(Head(todo).calls).do = "write spec" /\ Head(Head(todo).calls).key = k

Entries == [k \in Keys |-> IF Writing(k) THEN before ELSE spec[k]]

Map == INSTANCE DurableMap
         WITH None <- Missing, Lost <- Torn, entries <- Entries, granted <- op.grants

(* The spec files are a durable map: whatever operation of the agent or    *)
(* restore is in progress, whichever of its system calls fail and wherever *)
(* it is killed, files change only to the document the operation may store *)
(* under that key, and only a file being overwritten can be lost.          *)
ImplementsDurableMap == Map!Spec

(* A document a client was told is applied, rolled back to, restored or    *)
(* deleted is what the spec file holds until another operation on that     *)
(* Runtime ends, through restarts, failures and operations on others,      *)
(* unless a write was cut short; and it is what the agent has in memory    *)
(* after a restart.  Excepted is a deleted Runtime of which a file of the  *)
(* previous release exists: LoadAll brings it back.                        *)
Covered(k) == acked[k] # Unknown /\ (acked[k] = Missing => legacy[k] = Missing)
AckedSurvives ==
  \A k \in Keys :
    Covered(k) =>
      /\ spec[k] \in {acked[k], Torn} \/ k \in op.about
      /\ up /\ op.kind = "none" => specs[k] = acked[k]

\* What the archive about to be written has of k could be read from k's file,
\* or of the previous release's, since the files were listed.
Archived(k) ==
  IF Merged[k] # Missing THEN Merged[k] \in held[k] \cup {legacy[k]}
  ELSE Missing \in held[k]

(* A backup that succeeds while the agent works leaves out no Runtime whose *)
(* document was on disk all the time, and has no document that was not:     *)
(* LoadAll in BackupTo, as long as no listed file vanishes before its turn. *)
BackupComplete == Archiving /\ ~cmd.vanished => \A k \in Keys : Archived(k)

(* The same of every backup that succeeds.                                  *)
BackupHasAll == Archiving => \A k \in Keys : Archived(k)

(* A restore that succeeds has written the archive's document, status and   *)
(* events of every Runtime in it (RestoreFrom), whatever a restore that was *)
(* killed or failed had left before.                                        *)
RestoreBrings ==
  op.kind = "restore" /\ todo = <<>> /\ op.rest = {} =>
    \A k \in Present(archive.docs) :
      /\ spec[k] = archive.docs[k]
      /\ archive.statuses[k] # Missing => status[k] = archive.statuses[k]
      /\ archive.events[k] # <<>> => events[k] = archive.events[k]

-----------------------------------------------------------------------------
(* What the proofs in StateStoreProofs need to know besides: the inductive
   strengthenings of the properties above. *)

\* What an operation of each kind relies on: the loops store what is in memory
\* or in the archive, and nobody writes the archive while it is restored.
Control ==
  /\ op.kind = "none" => op = Idle /\ todo = <<>>
  /\ op.kind \in {"none", "client"} => op.rest = {}
  /\ op.kind \in {"client", "resync"} => up
  /\ op.kind \in {"load", "restore"} => ~up
  /\ op.kind \in {"load", "resync"} =>
       /\ op.about = {}
       /\ \A k \in Keys : op.grants[k] = {specs[k]} \ {Missing}
       /\ \A k \in op.rest : specs[k] # Missing
  /\ op.kind = "restore" =>
       /\ archive \notin {Missing, Torn} /\ cmd.pc = "idle"
       /\ op.about = Present(archive.docs) /\ op.acks = archive.docs
       /\ \A k \in Keys : op.grants[k] = {archive.docs[k]} \ {Missing}
       /\ op.rest \subseteq Present(archive.docs)

\* The system calls of a call of the store: spec files are touched only as
\* granted, and opened only to be written next.
Allowed(c, grants) ==
  /\ c.do \in {"open spec", "write spec", "unlink spec"} => c.value \in grants[c.key]
  /\ c.do \in {"open spec", "write spec", "append event"} => c.value \in Docs
Opens(c) == c.do = "open spec"
Writes(c) == c.do = "write spec"
Completes(c, b) == b = Call("write spec", c.key, c.value)
WellFormed(calls, grants) ==
  \A j \in DOMAIN calls :
    /\ Allowed(calls[j], grants)
    /\ Opens(calls[j]) => j + 1 \in DOMAIN calls /\ Completes(calls[j], calls[j + 1])
    /\ Writes(calls[j]) => j = 1 \/ Opens(calls[j - 1])

\* A call of the store that has made some of its system calls, or none.
Begun(grants) == {c \in StoreCall : c.calls # <<>> /\ WellFormed(c.calls, grants)}
Unbegun(grants) == {c \in Begun(grants) : ~Writes(Head(c.calls))}

CallsGranted ==
  todo # <<>> =>
    /\ Head(todo) \in Begun(op.grants)
    /\ Tail(todo) \in Seq(Unbegun(op.grants))
    /\ \A k \in Keys : Writing(k) => spec[k] = Torn

\* What clients were told is on disk and in memory, but for the Runtimes an
\* operation is about to answer for.
AckedKept ==
  \A k \in Keys : Covered(k) /\ k \notin op.about =>
    /\ spec[k] \in {acked[k], Torn}
    /\ up \/ op.kind = "load" => specs[k] = acked[k]

\* A call that has still to store something in k's spec file, and whose error
\* would not be ignored.
Elements(s) == {s[i] : i \in DOMAIN s}
Stores(c, k) == c.do \in {"write spec", "unlink spec"} /\ c.key = k
Delivers(group, k) == group.must /\ \E c \in Elements(group.calls) : Stores(c, k)
Pending(k) == \E group \in Elements(todo) : Delivers(group, k)

\* A call whose error is ignored does not open k's spec file.
Spares(group, k) ==
  \A c \in Elements(group.calls) : Opens(c) /\ c.key = k => group.must

\* What an operation will answer is what it stores, unless a call fails whose
\* error ends it.
AcksDelivered ==
  /\ op.kind = "client" => \A k \in Keys \ op.about : op.grants[k] = {}
  /\ \A k \in op.about : op.acks[k] # Unknown =>
       /\ op.grants[k] \subseteq {op.acks[k]}
       /\ op.kind = "client" => specs[k] = op.acks[k]
       /\ k \notin op.rest => spec[k] = op.acks[k] \/ Pending(k)
       /\ \A group \in Elements(todo) : Spares(group, k)

\* What the backup in progress has read was there, and what it has not found was
\* not there at some moment.
BackupSeen ==
  cmd.pc = "read" => \A k \in Keys :
    /\ cmd.docs[k] # Missing => cmd.docs[k] \in held[k]
    /\ ~cmd.vanished /\ k \notin cmd.names /\ cmd.docs[k] = Missing => Missing \in held[k]

\* What the restore command has done for k, and where it is when it writes k's
\* files: the document, then the status, then the events, of which it has
\* written m.
Appends(k, es, m) == [i \in 1..(Len(es) - m) |-> Call("append event", k, es[m + i])]
StatusRestored(k) == archive.statuses[k] # Missing => status[k] = archive.statuses[k]
Restored(k) == StatusRestored(k) /\ (archive.events[k] # <<>> => events[k] = archive.events[k])
AtSpec(k) ==
  \E calls \in {SaveRuntime(k, archive.docs[k]), <<Call("write spec", k, archive.docs[k])>>} :
    todo = <<Must(calls)>> \o (StatusWrites(k) \o EventWrites(k))
AtStatus(k) ==
  /\ archive.statuses[k] # Missing
  /\ \E calls \in {SaveStatus(k, archive.statuses[k]),
                   <<Call("write status", k, archive.statuses[k])>>} :
       todo = <<Must(calls)>> \o EventWrites(k)
AtEvents(k) ==
  /\ archive.events[k] # <<>> /\ StatusRestored(k)
  /\ \/ todo = <<Must(WriteEvents(k, archive.events[k]))>>
     \/ \E m \in 0..(Len(archive.events[k]) - 1) :
          /\ todo = <<Must(Appends(k, archive.events[k], m))>>
          /\ events[k] = SubSeq(archive.events[k], 1, m)
RestoreProgress ==
  op.kind = "restore" =>
    LET visited == Present(archive.docs) \ op.rest IN
    \/ todo = <<>> /\ \A j \in visited : Restored(j)
    \/ \E k \in visited : /\ AtSpec(k) \/ AtStatus(k) \/ AtEvents(k)
                          /\ \A j \in visited \ {k} : Restored(j)
=============================================================================
