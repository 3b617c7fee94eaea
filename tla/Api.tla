-------------------------------- MODULE Api --------------------------------
(***************************************************************************)
(* The HTTP API of the agent and its command line client: access policies, *)
(* request decoding, the handlers with the Manager calls they make, and    *)
(* the audit event written for a request when its handler has returned.    *)
(*                                                                         *)
(* Several requests are in progress at once.  Security and decoding look   *)
(* at nothing but the request, so they are one step; a Manager call is two *)
(* (admission publishes the document in m.specs, the end writes the spec   *)
(* file), the reads of GetRuntime are two, the audit event is one.         *)
(* reconcileMu lets one Apply, Remove or Resync run at a time.             *)
(*                                                                         *)
(* Of the Manager only the documents are here: what Docker does to an      *)
(* operation is its outcome (module Rollout), and a conflict of ports or   *)
(* capacity with other Runtimes is an admission that may be refused        *)
(* (module Listeners).  Response bodies are left out but for the document  *)
(* a GET answers with, and with them the errors of the readiness check and *)
(* of reading events, which change nothing.                                *)
(***************************************************************************)
EXTENDS Documents, FiniteSets

CONSTANTS
  Clients,          \* connections: one request at a time each
  None,             \* no client
  Policies,         \* the access policies, in order
  Credentials,      \* the tokens requests carry
  Files,            \* rendered Runtime files an operator may have
  Other,            \* one more document, for requests that compete
  Traffic,          \* Traffic[f][c]: what client c sends when f is the file
  Node, NodeLabels, \* config.Node
  IncludeReadOnly,  \* config.Audit.IncludeReadOnly
  MaxFaults,        \* bound on Manager calls that fail
  MaxCrashes        \* bound on crashes of the agent

Methods == {"GET", "PUT", "POST", "DELETE"}
Resource == {"runtime", "validate", "runtime/status", "runtime/events"}
Public == {"healthz", "readyz"}
Plain == {"health", "status", "version", "metrics", "audit"}
Endpoints == Resource \cup Public \cup Plain \cup {"reconcile", "instances", "other"}

RequestLine == [endpoint : Endpoints, method : Methods, token : Credentials]

ASSUME ApiAssumption ==
  /\ None \notin Clients /\ Policies \in Seq([token : Credentials, role : Texts])
  /\ Traffic \in [Files -> [Clients -> SUBSET RequestLine]]
  /\ IncludeReadOnly \in BOOLEAN
  /\ MaxFaults \in Nat /\ MaxCrashes \in Nat
  /\ IsDocument(Other)
  /\ \A f \in Files :
       /\ {"doc", "legacy"} \subseteq DOMAIN f
       /\ IF f.legacy THEN IsLegacy(f.doc) ELSE IsDocument(f.doc)

VARIABLES
  file,     \* the rendered file of this behaviour
  agent,    \* "up" or "down"
  specs,    \* m.specs: a map from keys to documents
  saved,    \* the spec files: a map from keys to documents
  lock,     \* the client whose operation holds reconcileMu
  prev,     \* that operation's previousRuntime, as a sequence
  req,      \* the requests in progress
  faults, crashes

vars == <<file, agent, specs, saved, lock, prev, req, faults, crashes>>

-----------------------------------------------------------------------------
(* Data *)

Drop(m, k) == [j \in DOMAIN m \ {k} |-> m[j]]

\* ReadRuntime: the document in the spec file, if it can be parsed.
Stored(k) ==
  IF k \in DOMAIN saved /\ Accepts(SpecFile(saved[k]))
  THEN <<Parsed(SpecFile(saved[k]))>> ELSE << >>

\* The Runtime as GetRuntime and previousRuntimeState find it: in memory, else
\* in the store.
Current(k) == IF k \in DOMAIN specs THEN <<specs[k]>> ELSE Stored(k)

NoKey == <<"", "">>

(* key is the Runtime the call is about, doc its document; status, the audit     *)
(* event and the document answered are sequences of at most one.  Auxiliary:    *)
(* changed, the Runtimes whose documents the request has had changed; seen, the *)
(* documents the Runtime has had since a GET came in; cli, sent by the client.  *)
Quiet == [stage |-> "idle", role |-> "none", operation |-> "", audit |-> FALSE,
          target |-> NoKey, key |-> NoKey, doc |-> << >>, status |-> << >>,
          answer |-> << >>, event |-> << >>, changed |-> {}, seen |-> {}, cli |-> FALSE]

\* The request of client c becomes r; every GET in progress has seen what its
\* Runtime is.
Becomes(c, r) ==
  req' = [b \in Clients |->
            LET q == IF b = c THEN r ELSE req[b]
            IN IF req[b].stage \in {"get", "getSaved"}
               THEN [q EXCEPT !.seen = @ \cup {Current(q.key)}] ELSE q]

Answer(r, s) == [r EXCEPT !.stage = "answered", !.status = <<s>>]

-----------------------------------------------------------------------------
(* Security *)

\* matchAccessPolicy: the first policy with the token of the request.
Matching(token) ==
  {i \in DOMAIN Policies : Policies[i].token = token /\ Policies[i].token # ""}
First(S) == CHOOSE i \in S : \A j \in S : i <= j

\* accessPoliciesForConfig and the principal withAPISecurity gives a request.
RoleOf(token) ==
  CASE Policies = << >> -> "admin"
    [] OTHER -> IF Matching(token) = {} THEN "none"
                ELSE Fold[Policies[First(Matching(token))].role]

\* Mutant: everybody who has a token may post.
PostForAll(role, q) ==
  \/ role = "admin"
  \/ role \in {"operator", "viewer"} /\ q.endpoint # "audit" /\ q.method # "DELETE"

\* policyAllowsRequest
Allowed(role, q) ==
  \/ role = "admin"
  \/ role = "operator" /\ q.endpoint # "audit" /\ q.method \in {"GET", "POST", "PUT"}
  \/ role = "viewer" /\ q.endpoint # "audit" /\ q.method = "GET"

-----------------------------------------------------------------------------
(* Handlers *)

\* auditTargetForRequest: what the audit event will name.
Operation(q) ==
  LET changes == [PUT |-> "apply", DELETE |-> "delete", POST |-> "post"]
  IN CASE q.endpoint = "validate" -> "validate"
       [] q.endpoint \in Resource \ {"validate"} /\ q.method \in DOMAIN changes -> changes[q.method]
       [] q.endpoint = "runtime" /\ q.method \notin DOMAIN changes -> "get"
       [] q.endpoint = "runtime/status" /\ q.method \notin DOMAIN changes -> "status"
       [] q.endpoint = "runtime/events" /\ q.method \notin DOMAIN changes -> "events"
       [] q.endpoint = "reconcile" -> "legacy-reconcile"
       [] q.endpoint = "instances" -> "legacy-delete"
       [] q.endpoint \in {"audit", "status", "version", "metrics"} -> q.endpoint
       [] OTHER -> "request"

AuditTarget(q, path) ==
  CASE q.endpoint \in Resource -> path
    [] q.endpoint = "instances" -> <<"default", path[2]>>
    [] OTHER -> NoKey

\* shouldAuditRequest
ShouldAudit(q) == q.endpoint \notin Public /\ (IncludeReadOnly \/ q.method # "GET")

\* runtimeKey
RuntimeKey(path) == <<Default(Trim[path[1]], "default"), Trim[path[2]]>>

\* decodeRuntimeRequest succeeds; a body longer than api.maxRequestBytes is cut
\* off one byte after the limit and refused.
Decodes(b) == ~b.huge /\ Accepts(b)

\* Mutant: the path is not compared with the document.
DecodesAnyPath(b, path) == Decodes(b)

\* ... and requirePathMatchesRuntime
DecodesFor(b, path) == Decodes(b) /\ KeyForRuntime(Parsed(b)) = path

\* The calls of the Manager a handler may come to.
ToApply(r, b) ==
  [r EXCEPT !.stage = "apply", !.key = KeyForRuntime(Parsed(b)), !.doc = <<Parsed(b)>>]
ToRemove(r, k) == [r EXCEPT !.stage = "remove", !.key = k]
ToGet(r, k) == [r EXCEPT !.stage = "get", !.key = k]

\* A legacy instance has a name only.
Nameless(path) == path[2] = ""
InstanceKey(path) == RuntimeKey(<<"", path[2]>>)

\* The handler up to its call of the Manager: the answer, or the call.  The
\* methods of an endpoint are the ones with a case; 405 answers the others.
Handle(r, q, path, b) ==
  LET is(e, m) == q.endpoint = e /\ q.method = m
  IN CASE is("runtime", "PUT") -> IF DecodesFor(b, path) THEN ToApply(r, b) ELSE Answer(r, 400)
       [] is("validate", "POST") -> Answer(r, IF DecodesFor(b, path) THEN 200 ELSE 400)
       [] is("reconcile", "POST") -> IF Decodes(b) THEN ToApply(r, b) ELSE Answer(r, 400)
       [] is("runtime", "DELETE") -> ToRemove(r, RuntimeKey(path))
       [] is("instances", "DELETE") ->
            IF Nameless(path) THEN Answer(r, 400) ELSE ToRemove(r, InstanceKey(path))
       [] is("runtime", "GET") \/ is("runtime/status", "GET") -> ToGet(r, RuntimeKey(path))
       [] is("runtime/events", "GET") -> Answer(r, 200)
       [] q.endpoint \in Public \cup Plain /\ q.method = "GET" -> Answer(r, 200)
       [] q.endpoint = "other" -> Answer(r, 404)
       [] OTHER -> Answer(r, 405)

Refusal(r) == Answer(r, IF r.role = "none" THEN 401 ELSE 403)

\* Client c sends a request; probes pass withAPISecurity without a token.
Receive(c, q, path, b, cli) ==
  LET role == RoleOf(q.token)
      r == [Quiet EXCEPT !.role = role, !.operation = Operation(q), !.target = AuditTarget(q, path),
                         !.audit = ShouldAudit(q), !.cli = cli]
  IN /\ Becomes(c, IF q.endpoint \in Public \/ Allowed(role, q)
                   THEN Handle(r, q, path, b) ELSE Refusal(r))
     /\ UNCHANGED <<file, agent, specs, saved, lock, prev, faults, crashes>>

\* Paths name the Runtime of the file or of the other document; the name in a
\* path may be padded or blank.  parseRuntimeAPIPath takes a path without a name
\* for no Runtime at all ("other"); the one of a legacy instance may be empty.
PathsOf(q) ==
  LET named == {KeyForRuntime(Parsed(file)), KeyForRuntime(Other), <<"default", " a">>,
                <<"default", " ">>}
  IN CASE q.endpoint \in Resource -> named
       [] q.endpoint = "instances" -> named \cup {NoKey}
       [] OTHER -> {NoKey}

\* What somebody may send as a document: the file, the file made too long, with
\* a status in it or with a token in it, or the other document.
BodiesOf(q) ==
  IF q.method \in {"PUT", "POST"} /\ q.endpoint \in {"runtime", "validate", "reconcile"}
  THEN {file, [file EXCEPT !.huge = TRUE], [file EXCEPT !.forbidden = TRUE],
        [file EXCEPT !.tokens = TRUE], Body(Other, "source")}
  ELSE {file}

Free(c) == agent = "up" /\ req[c].stage = "idle"

Request(c) ==
  /\ Free(c)
  /\ \E q \in Traffic[file][c] : \E path \in PathsOf(q), b \in BodiesOf(q) :
       Receive(c, q, path, b, FALSE)

\* aifar-runtime apply and reconcile: the client parses the file itself, and
\* sends the parsed document.
ClientApply(c) ==
  /\ Free(c) /\ Accepts(file)
  /\ \E q \in Traffic[file][c] :
       /\ <<q.endpoint, q.method>> \in {<<"runtime", "PUT">>, <<"reconcile", "POST">>}
       /\ Receive(c, q, KeyForRuntime(Parsed(file)), ClientBody(Parsed(file)), TRUE)

-----------------------------------------------------------------------------
(* Manager *)

Fault == faults < MaxFaults /\ faults' = faults + 1

\* AssignRuntime and validateRuntimeNode
AssignRuntime(d) == [NormalizeRuntime(d) EXCEPT !.nodeName = Default(@, Node)]
NodeAdmits(d) ==
  /\ d.nodeName = Node
  /\ \A k \in DOMAIN d.nodeSelector :
       k \in DOMAIN NodeLabels /\ Trim[NodeLabels[k]] = d.nodeSelector[k]

\* Apply up to its first Docker command; it is refused without having changed
\* anything, or the document is in m.specs.
BeginApply(c) ==
  LET r == req[c]
      doc == AssignRuntime(r.doc[1])
  IN /\ r.stage = "apply" /\ lock = None
     /\ \/ /\ ValidateRuntime(doc) /\ NodeAdmits(doc)
           /\ lock' = c /\ prev' = Current(r.key)
           /\ specs' = Put(specs, r.key, doc)
           /\ Becomes(c, [r EXCEPT !.stage = "applying", !.doc = <<doc>>,
                                   !.changed = {r.key}])
           /\ UNCHANGED faults
        \/ /\ IF ValidateRuntime(doc) /\ NodeAdmits(doc) THEN Fault ELSE UNCHANGED faults
           /\ Becomes(c, Answer(r, 500)) /\ UNCHANGED <<lock, prev, specs>>
     /\ UNCHANGED <<file, agent, saved, crashes>>

\* The end of Apply: done; done for a client that has gone (ctx.Err()); failed
\* with the document recorded as Failed; rolled back; failed writing the file.
EndApply(c) ==
  LET r == req[c]
  IN /\ r.stage = "applying"
     /\ \/ /\ saved' = Put(saved, r.key, r.doc[1])
           /\ \/ Becomes(c, Answer(r, 200)) /\ UNCHANGED faults
              \/ Becomes(c, Answer(r, 500)) /\ Fault
           /\ UNCHANGED specs
        \/ /\ prev # << >> /\ Fault
           /\ specs' = Put(specs, r.key, prev[1]) /\ saved' = Put(saved, r.key, prev[1])
           /\ Becomes(c, Answer(r, 500))
        \/ Becomes(c, Answer(r, 500)) /\ Fault /\ UNCHANGED <<specs, saved>>
     /\ lock' = None /\ prev' = << >>
     /\ UNCHANGED <<file, agent, crashes>>

\* Remove forgets the Runtime, and deletes its file when its containers are gone.
BeginRemove(c) ==
  LET r == req[c]
  IN /\ r.stage = "remove" /\ lock = None
     /\ IF r.key[2] = ""
        THEN Becomes(c, Answer(r, 500)) /\ UNCHANGED <<specs, lock>>
        ELSE /\ specs' = Drop(specs, r.key) /\ lock' = c
             /\ Becomes(c, [r EXCEPT !.stage = "removing",
                                     !.changed = {r.key} \cap (DOMAIN specs \cup DOMAIN saved)])
     /\ UNCHANGED <<file, agent, saved, prev, faults, crashes>>

EndRemove(c) ==
  LET r == req[c]
  IN /\ r.stage = "removing"
     /\ \/ saved' = Drop(saved, r.key) /\ Becomes(c, Answer(r, 200)) /\ UNCHANGED faults
        \/ Becomes(c, Answer(r, 500)) /\ Fault /\ UNCHANGED saved
     /\ lock' = None
     /\ UNCHANGED <<file, agent, specs, prev, crashes>>

\* Mutant: GetRuntime looks at the store first.
GetSavedFirst(c) ==
  LET r == req[c]
  IN /\ r.stage = "get"
     /\ IF r.key \in DOMAIN saved
        THEN Becomes(c, [Answer(r, 200) EXCEPT !.answer = <<saved[r.key]>>])
        ELSE Becomes(c, [r EXCEPT !.stage = "getSaved"])
     /\ UNCHANGED <<file, agent, specs, saved, lock, prev, faults, crashes>>

\* GetRuntime, which does not take reconcileMu: memory ...
GetRuntime(c) ==
  LET r == req[c]
  IN /\ r.stage = "get"
     /\ IF r.key \in DOMAIN specs
        THEN Becomes(c, [Answer(r, 200) EXCEPT !.answer = <<specs[r.key]>>])
        ELSE Becomes(c, [r EXCEPT !.stage = "getSaved"])
     /\ UNCHANGED <<file, agent, specs, saved, lock, prev, faults, crashes>>

\* ... and, later, the spec file.
ReadRuntime(c) ==
  LET r == req[c]
  IN /\ r.stage = "getSaved"
     /\ Becomes(c, [Answer(r, IF Stored(r.key) = << >> THEN 404 ELSE 200)
                     EXCEPT !.answer = Stored(r.key)])
     /\ UNCHANGED <<file, agent, specs, saved, lock, prev, faults, crashes>>

\* A Resync whose deployment fails records the document it has in memory.
ResyncFails(k) ==
  /\ agent = "up" /\ lock = None /\ k \in DOMAIN specs /\ Fault
  /\ saved' = Put(saved, k, specs[k]) /\ Becomes(None, Quiet)
  /\ UNCHANGED <<file, agent, specs, lock, prev, crashes>>

-----------------------------------------------------------------------------
(* Audit *)

\* auditResultForStatus
AuditResult(s) ==
  IF s \in {401, 403} THEN "denied" ELSE IF s >= 400 THEN "failed" ELSE "succeeded"

\* withAPIAudit after the handler has returned.
Audit(c) ==
  LET r == req[c]
      e == [role |-> r.role, operation |-> r.operation, target |-> r.target,
            result |-> AuditResult(r.status[1])]
  IN /\ r.stage = "answered"
     /\ Becomes(c, [r EXCEPT !.stage = "audited",
                             !.event = IF r.audit THEN <<e>> ELSE << >>])
     /\ UNCHANGED <<file, agent, specs, saved, lock, prev, faults, crashes>>

\* The connection is free for the next request.
Close(c) ==
  /\ req[c].stage = "audited" /\ Becomes(c, Quiet)
  /\ UNCHANGED <<file, agent, specs, saved, lock, prev, faults, crashes>>

-----------------------------------------------------------------------------
(* The process *)

\* The agent is killed: its requests and what it has in memory are gone.
Crash ==
  /\ agent = "up" /\ crashes < MaxCrashes /\ crashes' = crashes + 1
  /\ agent' = "down" /\ specs' = << >> /\ lock' = None /\ prev' = << >>
  /\ req' = [c \in Clients |-> Quiet]
  /\ UNCHANGED <<file, saved, faults>>

\* LoadAll parses every spec file, and Load applies what it has parsed; a file
\* that is refused keeps the agent down.
Restart ==
  /\ agent = "down" /\ \A k \in DOMAIN saved : Accepts(SpecFile(saved[k]))
  /\ agent' = "up"
  /\ specs' = [k \in DOMAIN saved |-> AssignRuntime(Parsed(SpecFile(saved[k])))]
  /\ saved' = specs'
  /\ UNCHANGED <<file, lock, prev, req, faults, crashes>>

Init ==
  /\ file \in Files /\ agent = "up" /\ specs = << >> /\ saved = << >>
  /\ lock = None /\ prev = << >> /\ req = [c \in Clients |-> Quiet]
  /\ faults = 0 /\ crashes = 0

Next ==
  \/ \E c \in Clients :
       \/ Request(c) \/ ClientApply(c)
       \/ BeginApply(c) \/ EndApply(c) \/ BeginRemove(c) \/ EndRemove(c)
       \/ GetRuntime(c) \/ ReadRuntime(c) \/ Audit(c) \/ Close(c)
  \/ \E k \in DOMAIN specs : ResyncFails(k)
  \/ Crash \/ Restart

Spec == Init /\ [][Next]_vars

-----------------------------------------------------------------------------
(* Properties *)

\* Whatever the agent accepts it can also load: each document it holds, written
\* by SaveRuntime, is accepted by ParseRuntimeDocument and comes back unchanged,
\* although one pass of NormalizeRuntime is not idempotent and no two places
\* normalise equally often.  Two kinds of documents are the exception, whose text is
\* accepted and their spec file is not: with an escaped template token in a string, or
\* with the forbidden key padded in a map, from which trimStringMap makes the key itself.
ReloadsTheSame ==
  \A d \in Elements(specs) \cup Elements(saved) :
    Readable(d) =>
      Accepts(SpecFile(d)) /\ AssignRuntime(Parsed(SpecFile(d))) = d

\* Each request that changed a Runtime leaves an event that names this Runtime
\* (a legacy reconcile names none); "denied" means that nothing was changed, and
\* a request audited as a successful apply did change the Runtime.
AuditTellsTruth ==
  \A c \in Clients :
    LET r == req[c]
    IN r.stage = "audited" =>
         /\ r.changed # {} => r.event # << >>
         /\ \A e \in Elements(r.event) :
              /\ e.operation # "legacy-reconcile" => r.changed \subseteq {RuntimeKey(e.target)}
              /\ e.result = "denied" => r.changed = {}
              /\ e.result = "succeeded" /\ e.operation \in {"apply", "legacy-reconcile"}
                   => r.changed # {}

\* Viewers and clients without a token never get a document changed, and an
\* operator never gets one removed.
OnlyOperatorsChange ==
  \A c \in Clients :
    req[c].changed # {} =>
      \/ req[c].role = "admin"
      \/ req[c].role = "operator" /\ req[c].doc # << >>

\* Some document in S is refused once it is written.
Unreadable(S) == \E a \in S : \E d \in Elements(a) : ~Readable(d)

\* GetRuntime looks into memory and into the store at two moments without
\* reconcileMu; still it answers with what the Runtime was at some moment
\* between the request and the answer.  The exception is again a document whose spec
\* file is refused: while it is in memory, the file cannot be read.
GetIsCurrent ==
  \A c \in Clients :
    req[c].stage = "answered" /\ req[c].seen # {} /\ ~Unreadable(req[c].seen)
      => req[c].answer \in req[c].seen

\* README: `aifar-runtime apply -f rendered-runtime.yaml` applies a file that
\* `aifar-runtime validate` accepts: the agent does not call it malformed.
ClientAppliesValidFile ==
  \A c \in Clients : req[c].cli => req[c].status # <<400>>

-----------------------------------------------------------------------------
(* Why these hold: parts of their inductive invariants *)

ForApply(r) == r.stage \in {"apply", "applying"}
ForRemove(r) == r.stage \in {"remove", "removing"}
Reads(r) == r.stage \in {"get", "getSaved"}
Ended(r) == r.stage \in {"answered", "audited"}

\* Normalising the documents the agent holds changes nothing, and they are valid.
Settled(d) == NormalizeRuntime(d) = d /\ ValidateRuntime(d) /\ d.nodeName = Node
AllSettled ==
  /\ prev = << >> \/ prev = <<prev[1]>>
  /\ \A d \in Elements(specs) \cup Elements(saved) \cup Elements(prev) : Settled(d)
  /\ \A c \in Clients :
       /\ req[c].stage = "apply" =>
            IsDocument(req[c].doc[1]) /\ NormalizeRuntime(req[c].doc[1]) = req[c].doc[1]
       /\ req[c].stage = "applying" => Settled(req[c].doc[1])

\* The operation that holds reconcileMu has put its document into memory, or has
\* taken it away, and nobody else does anything there.
InCharge ==
  /\ agent = "down" => \A c \in Clients : req[c].stage = "idle"
  /\ \A c \in Clients :
       LET r == req[c]
       IN /\ r.stage \in {"applying", "removing"} => lock = c
          /\ r.stage = "applying" => r.key \in DOMAIN specs /\ specs[r.key] = r.doc[1]
          /\ r.stage = "removing" => r.key \notin DOMAIN specs

\* A GET that has not found its Runtime in memory has seen what it will find in the
\* store, or is going to if an Apply is rolled back.
SeesStored ==
  \A c \in Clients :
    LET r == req[c]
    IN /\ r.seen # {} => Reads(r) \/ Ended(r)
       /\ r.stage = "getSaved" /\ r.key \in DOMAIN specs => Stored(r.key) \in r.seen \/ Unreadable(r.seen)
       /\ \A b \in Clients :
            r.stage = "getSaved" /\ req[b].stage = "applying" /\ req[b].key = r.key
              => prev \in r.seen

(* At each stage of a request, who sent it, what it may have had changed, and *)
(* what its event will say (AuditTellsTruth, OnlyOperatorsChange).            *)

Permitted(r) ==
  /\ ForApply(r) => r.role \in {"admin", "operator"} /\ r.doc # << >>
  /\ ForRemove(r) => r.role = "admin"
  /\ r.changed # {} => r.role = "admin" \/ (r.role = "operator" /\ r.doc # << >>)

Names(r) ==
  /\ ForApply(r) \/ ForRemove(r) =>
       r.audit /\ (r.operation # "legacy-reconcile" => r.key = RuntimeKey(r.target))
  /\ r.changed # {} =>
       r.audit /\ (r.operation # "legacy-reconcile" => r.changed \subseteq {RuntimeKey(r.target)})

Changes(r) ==
  /\ r.stage = "applying" => r.changed # {}
  /\ r.stage \in {"idle", "apply", "remove"} \/ Reads(r) => r.changed = {}
  /\ ForRemove(r) \/ Reads(r) => r.operation \notin {"apply", "legacy-reconcile"}

Statuses == {200, 400, 401, 403, 404, 405, 500}
Results(r) ==
  /\ Ended(r) => \E s \in Statuses :
       /\ r.status = <<s>>
       /\ s \in {401, 403} => r.changed = {}
       /\ s < 400 /\ r.operation \in {"apply", "legacy-reconcile"} => r.changed # {}
       /\ r.stage = "audited" =>
            r.event = IF r.audit THEN <<[role |-> r.role, operation |-> r.operation,
                                         target |-> r.target, result |-> AuditResult(s)]>>
                      ELSE << >>

Honest(r) == DOMAIN r = DOMAIN Quiet /\ Permitted(r) /\ Names(r) /\ Changes(r) /\ Results(r)
AllHonest == \A c \in Clients : Honest(req[c])
============================================================================
