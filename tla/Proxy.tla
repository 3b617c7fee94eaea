------------------------------- MODULE Proxy -------------------------------
(***************************************************************************)
(* The reverse proxy of one ingress port that several Runtimes share, while *)
(* the Manager updates, removes and resyncs them.  A request resolves its  *)
(* route, reads the cached endpoints of the service and picks one, each    *)
(* under its own acquisition of m.mu; operations of the Manager exclude    *)
(* each other (reconcileMu) and not the requests.                          *)
(*                                                                         *)
(* Abstractions: a path is the sequence of its characters, because length  *)
(* and trailing slashes decide between routes; a service and a container   *)
(* of it are numbers in the order of their names, 0 is the name of no      *)
(* service; a client is the hash of its affinity key.  A port of a service *)
(* has a single route and is left out.  Listeners are in module Listeners, *)
(* the containers in Rollout: here a service has any containers ready when *)
(* its endpoints are discovered.                                           *)
(***************************************************************************)
EXTENDS Integers, FiniteSets, SequencesExt, Ranking

CONSTANTS
  Keys,         \* Runtime keys
  NoDoc,        \* no document
  DocsOf,       \* the documents each Runtime may have
  Ready,        \* the sets of containers of a service that may be ready at once
  Clients,      \* clients, by hash
  Hosts, Paths, \* what requests ask for
  Slots,        \* requests that can be in progress at once
  MaxOps,       \* bound on operations of the Manager
  MaxFaults,    \* bound on updates that fail
  MaxRequests   \* bound on requests

Containers == UNION Ready
Documents == UNION Range(DocsOf)
Services == UNION {{r.service : r \in Range(d.routes)} : d \in Documents}
RouteHosts == UNION {{r.host : r \in Range(d.routes)} : d \in Documents}
Slash == "/"
RoutePrefixes == UNION {{r.prefix : r \in Range(d.routes)} : d \in Documents}
Characters == {Slash} \cup UNION {Range(path) : path \in Paths \cup RoutePrefixes}
Named == Keys \X Services

\* A document: the services it has, those with an affinity policy, and its routes,
\* with the paths cleanIngressPath makes: they start with a slash and keep all the others.
ASSUME ConstantsAssumption ==
  /\ DOMAIN DocsOf = Keys /\ NoDoc \notin Documents /\ NoDoc \notin Keys
  /\ Containers \subseteq Nat \ {0} /\ Clients \subseteq Nat
  /\ \A C \in Ready : IsFiniteSet(C)
  /\ Services \subseteq Nat \ {0} /\ Paths \subseteq Seq(Characters)
  /\ \A d \in Documents :
       /\ d.affine \subseteq d.services
       /\ d.routes \in Seq([host : RouteHosts, prefix : Seq(Characters), service : d.services])
       /\ \A r \in Range(d.routes) : r.prefix # <<>> /\ r.prefix[1] = Slash
  /\ IsFiniteSet(Slots) /\ {MaxOps, MaxFaults, MaxRequests} \subseteq Nat

VARIABLES
  specs,      \* m.specs
  routes,     \* m.routes[port]
  endpoints,  \* m.endpoints
  next,       \* m.next
  op,         \* the update in progress: its key, document and previous document
  req,        \* the request in each slot
  answers,    \* auxiliary: what would have been the answer between operations
  failed,     \* auxiliary: an update has failed
  hits,       \* auxiliary: round-robin picks since the endpoints last changed
  mixed,      \* auxiliary: one of them was made from endpoints read before
  stuck,      \* auxiliary: what each client got of each set of endpoints
  used

picks == <<hits, mixed, stuck>>
vars == <<specs, routes, endpoints, next, op, req, answers, failed, picks, used>>

-----------------------------------------------------------------------------

NoOp == [key |-> NoDoc, doc |-> NoDoc, previous |-> NoDoc]
NoHost == ""
Ended(pc) == [pc |-> pc, host |-> NoHost, path |-> <<>>, client |-> 0, key |-> NoDoc,
              service |-> 0, name |-> 0, affine |-> FALSE, endpoints |-> <<>>]
NoRequest == Ended("idle")
Refused == Ended("refused")
NoHits == [c \in Containers |-> 0]

InstalledRoute == [key : Keys, service : Services, host : RouteHosts, prefix : Seq(Characters)]
Operation == [key : Keys \cup {NoDoc}, doc : Documents \cup {NoDoc},
              previous : Documents \cup {NoDoc}]
Request == [pc : {"idle", "resolved", "read", "refused"}, host : Hosts \cup {NoHost},
            path : Paths \cup {<<>>}, client : Clients \cup {0}, key : Keys \cup {NoDoc},
            service : Services \cup {0}, name : Services \cup {0}, affine : BOOLEAN,
            endpoints : Seq(Containers)]
Usage == [ops : 0..MaxOps, faults : 0..MaxFaults, requests : 0..MaxRequests]

TypeOK ==
  /\ specs \in [Keys -> Documents \cup {NoDoc}]
  /\ \A k \in Keys : specs[k] \in DocsOf[k] \cup {NoDoc}
  /\ routes \in Seq(InstalledRoute)
  /\ endpoints \in [Named -> Seq(Containers)]
  /\ next \in [Keys \X (Services \cup {0}) -> 0..MaxRequests]
  /\ op \in Operation
  /\ op # NoOp => /\ op.key \in Keys /\ op.doc \in DocsOf[op.key]
                  /\ op.previous \in DocsOf[op.key] \cup {NoDoc}
  /\ req \in [Slots -> Request]
  /\ \A s \in Slots :
       /\ req[s].pc \in {"resolved", "read"} => /\ <<req[s].key, req[s].service>> \in Named
                                             /\ req[s].name \in {req[s].service, 0}
       /\ req[s].pc = "read" => req[s].endpoints # <<>>
  /\ failed \in BOOLEAN /\ mixed \in [Named -> BOOLEAN]
  /\ hits \in [Named -> [Containers -> Nat]]
  /\ stuck \in [Clients \X Keys \X Services \X Ready -> SUBSET Containers]
  /\ used \in Usage

Uses(what) == used' = [used EXCEPT ![what] = @ + 1]

-----------------------------------------------------------------------------
(* Routes.                                                                 *)

\* Mutant: routes are kept in the order in which they were added.
InOrderAdded(s) == s

\* sortRoutes: stable, longer prefixes first, then by the name of the service.
Before(s, i, j) ==
  \/ Len(s[i].prefix) > Len(s[j].prefix)
  \/ /\ Len(s[i].prefix) = Len(s[j].prefix)
     /\ s[i].service < s[j].service \/ (s[i].service = s[j].service /\ i < j)
SortRoutes(s) ==
  Along(s, Ranked(DOMAIN s, {p \in (DOMAIN s) \X (DOMAIN s) : Before(s, p[1], p[2])}))

RouteAt(k, d, i) == [key |-> k, service |-> d.routes[i].service, host |-> d.routes[i].host,
                     prefix |-> d.routes[i].prefix]
RoutesOf(k, d) == SortRoutes([i \in DOMAIN d.routes |-> RouteAt(k, d, i)])

OthersRoutes(k) == Along(routes, Ranked({i \in DOMAIN routes : routes[i].key # k}, Ascending))

\* resolveRoute: the first route in order that matches and whose Runtime exists.
AnyHost == {"", "*"}
HostMatches(r, host) == r.host \in AnyHost \cup {host}
Root == <<Slash>>
Trimmed(prefix) == SubSeq(prefix, 1, Max({0} \cup {i \in DOMAIN prefix : prefix[i] # Slash}))
PathMatches(path, prefix) ==
  prefix = Root \/ path = prefix \/ IsPrefix(Append(Trimmed(prefix), Slash), path)
Serves == {p \in Paths \X RoutePrefixes : PathMatches(p[1], p[2])}
Matches(r, host, path) ==
  HostMatches(r, host) /\ <<path, r.prefix>> \in Serves /\ specs[r.key] # NoDoc
Found(host, path) == {i \in DOMAIN routes : Matches(routes[i], host, path)}
IsRouted(host, path) == Found(host, path) # {}
Resolved(host, path) == routes[Min(Found(host, path))]

\* Scheduler Lite: neither two routes of the document nor one of another Runtime
\* have the same path, written the same, for hosts that overlap.
HostsOverlap(a, b) == a = b \/ {a, b} \cap AnyHost # {}
Conflict(r, q) == HostsOverlap(r.host, q.host) /\ r.prefix = q.prefix
Admissible(k, d) ==
  /\ \A i, j \in DOMAIN d.routes : i # j => ~Conflict(d.routes[i], d.routes[j])
  /\ \A j \in Keys \ {k} : specs[j] # NoDoc =>
       \A r \in Range(d.routes), q \in Range(specs[j].routes) : ~Conflict(r, q)

-----------------------------------------------------------------------------
(* The Manager.                                                            *)

\* Mutant: endpoints stay in the order in which Docker lists the containers.
AsListed(S) == SetToSeqs(S)

\* discoverEndpoints of the containers S that are ready.
Discovered(S) == {Ranked(S, Ascending)}

\* The caches change for the services in D; picks are counted anew where they do.
Caches(D, cache) ==
  /\ endpoints' = [n \in Named |-> IF n \in D THEN cache[n] ELSE endpoints[n]]
  /\ hits' = [n \in Named |-> IF endpoints'[n] # endpoints[n] THEN NoHits ELSE hits[n]]
  /\ mixed' = [n \in Named |-> mixed[n] /\ endpoints'[n] = endpoints[n]]
  /\ UNCHANGED stuck

\* What a refresh of the services S of k may find.
Refreshed(k, S) ==
  [{k} \X S -> UNION {Discovered(C) : C \in Ready}]

OfKey(k) == {k} \X Services
Completed(k, f) == [n \in OfKey(k) |-> IF n \in DOMAIN f THEN f[n] ELSE <<>>]

Free == op = NoOp /\ used.ops < MaxOps /\ Uses("ops")

\* Apply up to updateRuntimeStatus: the new document is in memory, routes and
\* endpoints are the old ones.
Update(k, d) ==
  /\ Free /\ Admissible(k, d)
  /\ op' = [key |-> k, doc |-> d, previous |-> specs[k]]
  /\ specs' = [specs EXCEPT ![k] = d]
  /\ UNCHANGED <<routes, endpoints, next, failed, picks>>

\* Mutant: the old endpoints go in one critical section, the rest in another.
InstallInTwo(k) ==
  \/ /\ \E n \in OfKey(k) : endpoints[n] # <<>>
     /\ Caches(OfKey(k), Completed(k, <<>>))
     /\ UNCHANGED <<specs, routes, op>>
  \/ /\ \A n \in OfKey(k) : endpoints[n] = <<>>
     /\ \E f \in Refreshed(k, op.doc.services) : Caches(OfKey(k), Completed(k, f))
     /\ routes' = SortRoutes(OthersRoutes(k) \o RoutesOf(k, op.doc))
     /\ op' = NoOp /\ UNCHANGED specs

\* replaceRoutesAndState, in one critical section.
Install(k) ==
  /\ \E f \in Refreshed(k, op.doc.services) : Caches(OfKey(k), Completed(k, f))
  /\ routes' = SortRoutes(OthersRoutes(k) \o RoutesOf(k, op.doc))
  /\ op' = NoOp /\ UNCHANGED specs

Installs ==
  /\ op # NoOp /\ Install(op.key)
  /\ UNCHANGED <<next, failed, used>>

\* The containers or the endpoints could not be had: the new document stays in
\* memory, or a rollback puts the previous one back.
FailUpdate ==
  /\ op # NoOp /\ used.faults < MaxFaults /\ Uses("faults")
  /\ \/ UNCHANGED specs
     \/ op.previous # NoDoc /\ specs' = [specs EXCEPT ![op.key] = op.previous]
  /\ op' = NoOp /\ failed' = TRUE
  /\ UNCHANGED <<routes, endpoints, next, picks>>

RemoveRuntime(k) ==
  /\ Free /\ specs[k] # NoDoc
  /\ specs' = [specs EXCEPT ![k] = NoDoc]
  /\ Caches(OfKey(k), Completed(k, <<>>))
  /\ routes' = OthersRoutes(k)
  /\ UNCHANGED <<next, op, failed>>

\* Resync refreshes the endpoints of the services the document has.
Resync(k) ==
  /\ Free /\ specs[k] # NoDoc
  /\ \E f \in Refreshed(k, specs[k].services) : Caches(DOMAIN f, f)
  /\ UNCHANGED <<specs, routes, next, op, failed>>

Manager ==
  /\ \/ Installs \/ FailUpdate
     \/ \E k \in Keys : RemoveRuntime(k) \/ Resync(k) \/ \E d \in DocsOf[k] : Update(k, d)
  /\ UNCHANGED req

-----------------------------------------------------------------------------
(* Requests.  One for which no route is found is refused at once and       *)
(* leaves no trace.                                                        *)

InProgress(r) == r.pc \in {"resolved", "read"}

\* resolveRoute; the service is looked up in the document found with the route,
\* which may not have it any more.
Resolve(s, host, path, client) ==
  /\ ~InProgress(req[s]) /\ used.requests < MaxRequests /\ Uses("requests")
  /\ IsRouted(host, path)
  /\ LET r == Resolved(host, path)
         d == specs[r.key] IN
     req' = [req EXCEPT ![s] =
               [pc |-> "resolved", host |-> host, path |-> path, client |-> client,
                key |-> r.key, service |-> r.service,
                name |-> IF r.service \in d.services THEN r.service ELSE 0,
                affine |-> r.service \in d.affine, endpoints |-> <<>>]]
  /\ UNCHANGED <<next, picks>>

\* Mutant: an empty list of endpoints is not refused.
ReadsEmpty(s) ==
  /\ req[s].pc = "resolved"
  /\ req' = [req EXCEPT ![s].pc = "read", ![s].endpoints = endpoints[<<req[s].key, req[s].service>>]]
  /\ UNCHANGED <<next, picks, used>>

\* cachedEndpoints; without endpoints the request is refused.
ReadEndpoints(s) ==
  /\ req[s].pc = "resolved"
  /\ LET e == endpoints[<<req[s].key, req[s].service>>] IN
     req' = [req EXCEPT ![s] = IF e = <<>> THEN Refused
                               ELSE [req[s] EXCEPT !.pc = "read", !.endpoints = e]]
  /\ UNCHANGED <<next, picks, used>>

\* Mutant: the services of a Runtime share a counter.
NextOfRuntime(k, name) == <<k, 0>>

NextKey(k, name) == <<k, name>>
Nth(e, i) == e[(i % Len(e)) + 1]

\* selectEndpoint by affinity.
PickSticky(s) ==
  /\ req[s].pc = "read" /\ req[s].affine
  /\ LET r == req[s]
         n == <<r.client, r.key, r.service, Range(r.endpoints)>> IN
     stuck' = [stuck EXCEPT ![n] = @ \cup {Nth(r.endpoints, r.client)}]
  /\ req' = [req EXCEPT ![s] = NoRequest]
  /\ UNCHANGED <<next, hits, mixed, used>>

\* pickEndpoint, round robin.
Hit(counts, c) == [counts EXCEPT ![c] = @ + 1]
PickNext(s) ==
  /\ req[s].pc = "read" /\ ~req[s].affine
  /\ LET r == req[s]
         n == <<r.key, r.service>>
         i == NextKey(r.key, r.name) IN
     /\ next' = [next EXCEPT ![i] = @ + 1]
     /\ IF r.endpoints = endpoints[n] /\ r.name # 0
        THEN /\ hits' = [hits EXCEPT ![n] = Hit(@, Nth(r.endpoints, next[i]))]
             /\ UNCHANGED mixed
        ELSE /\ mixed' = [mixed EXCEPT ![n] = TRUE]
             /\ UNCHANGED hits
  /\ req' = [req EXCEPT ![s] = NoRequest]
  /\ UNCHANGED <<stuck, used>>

Requests ==
  /\ \E s \in Slots :
       \/ ReadEndpoints(s) \/ PickSticky(s) \/ PickNext(s)
       \/ \E host \in Hosts, path \in Paths, client \in Clients : Resolve(s, host, path, client)
  /\ UNCHANGED <<specs, routes, endpoints, op, failed>>

-----------------------------------------------------------------------------

Init ==
  /\ specs = [k \in Keys |-> NoDoc] /\ routes = <<>>
  /\ endpoints = [n \in Named |-> <<>>]
  /\ next = [n \in Keys \X (Services \cup {0}) |-> 0]
  /\ op = NoOp /\ req = [s \in Slots |-> NoRequest] /\ answers = [s \in Slots |-> {}]
  /\ failed = FALSE
  /\ hits = [n \in Named |-> NoHits] /\ mixed = [n \in Named |-> FALSE]
  /\ stuck = [n \in Clients \X Keys \X Services \X Ready |-> {}]
  /\ used = [ops |-> 0, faults |-> 0, requests |-> 0]

\* The service a request would be sent to if it were handled at once.
Answer(host, path) ==
  LET r == Resolved(host, path) IN
  IF ~IsRouted(host, path) \/ endpoints[<<r.key, r.service>>] = <<>> THEN <<>>
  ELSE <<r.key, r.service>>

\* The answer when a request was resolved and after every operation since.
Observe ==
  answers' = [s \in Slots |->
                IF req'[s].pc = "idle" THEN {}
                ELSE IF ~InProgress(req[s]) /\ InProgress(req'[s])
                     THEN {Answer(req[s].host, req[s].path)'}
                ELSE IF InProgress(req'[s]) /\ op' = NoOp
                     THEN answers[s] \cup {Answer(req[s].host, req[s].path)'}
                ELSE answers[s]]

Next == (Manager \/ Requests) /\ Observe

Spec == Init /\ [][Next]_vars

-----------------------------------------------------------------------------

\* The routes that match with the longest prefix, in no order.
Longest(host, path) ==
  LET M == {r \in Range(routes) : Matches(r, host, path)} IN
  {r \in M : \A q \in M : Len(q.prefix) <= Len(r.prefix)}

\* A path that ends in two slashes serves what it serves with one, and is longer.
Padded(prefix) == Len(prefix) > 1 /\ prefix[Len(prefix)] = Slash /\ prefix[Len(prefix) - 1] = Slash
Plain(host, path) == \A i \in Found(host, path) : ~Padded(routes[i].prefix)

(* Whatever the order in which Runtimes were applied, updated and removed,  *)
(* a request is routed to the one route that matches it with the longest    *)
(* prefix, and there are never two: admission, sortRoutes and the first     *)
(* match of resolveRoute agree, a slash at the end of a path or not.  Two   *)
(* slashes at the end break it: "/a//" and "/a/b" are admitted together,    *)
(* both match /a/b, and the name of the service decides.  So does a failed  *)
(* update: its old routes are served and no longer protected by admission.  *)
LongestPrefixWins ==
  ~failed => \A host \in Hosts, path \in Paths :
    IsRouted(host, path) /\ Plain(host, path) =>
      Longest(host, path) = {Resolved(host, path)}

(* A request that was resolved is refused only if its route had no          *)
(* endpoints when it was resolved or after an operation since, or an        *)
(* operation moved its path to another service: the switch to new routes    *)
(* and endpoints in replaceRoutesAndState loses no request, although        *)
(* handleProxy reads them in two critical sections.                         *)
UpdateDropsNothing ==
  \A s \in Slots :
    req[s].pc = "refused" => <<>> \in answers[s] \/ Cardinality(answers[s]) > 1

(* A client of a service with affinity gets the same container whenever the *)
(* same containers are ready, through Resync, updates and restarts of       *)
(* containers: selectEndpoint over the sorted endpoints.                    *)
ClientsStick == \A n \in DOMAIN stuck : Cardinality(stuck[n]) <= 1

(* Round robin spreads the requests of a service evenly over its endpoints  *)
(* as long as they do not change and no request uses a list it read before  *)
(* they did: m.next in pickEndpoint.                                        *)
RoundRobin ==
  \A n \in Named : ~mixed[n] =>
    \A c, d \in Range(endpoints[n]) : hits[n][c] <= hits[n][d] + 1

-----------------------------------------------------------------------------
(* What these rest on, for the proofs in ProxyProofs.                      *)

\* Cached endpoints, and those a request has read, are a set of containers in order.
Listings == {<<>>} \cup UNION {Discovered(C) : C \in Ready}
Listed ==
  /\ \A n \in Named : endpoints[n] \in Listings
  /\ \A s \in Slots : req[s].endpoints \in Listings

\* No counter passes the requests that are no longer in progress.
Waiting == {s \in Slots : InProgress(req[s])}
Counted == \A i \in DOMAIN next : next[i] + Cardinality(Waiting) <= used.requests

\* While a request has had one answer only, its service has endpoints.
Doubtful(A) == <<>> \in A \/ \E x, y \in A : x # y
Expected ==
  \A s \in Slots :
    LET n == <<req[s].key, req[s].service>> IN
    /\ req[s].pc = "refused" => Doubtful(answers[s])
    /\ InProgress(req[s]) => Doubtful(answers[s]) \/ (n \in answers[s] /\ endpoints[n] # <<>>)

\* What a client got of a set of containers is the one its hash selects.
Selected ==
  \A n \in DOMAIN stuck : \A c \in stuck[n] : c = Nth(Ranked(n[4], Ascending), n[1])

\* The document whose routes are installed, and whether documents were admitted together.
Installed(k) == IF op.key = k THEN op.previous ELSE specs[k]
Coherent(docs) ==
  /\ \A k \in Keys : docs[k] # NoDoc =>
       \A i, j \in DOMAIN docs[k].routes : i # j => ~Conflict(docs[k].routes[i], docs[k].routes[j])
  /\ \A j, k \in Keys : j # k /\ docs[j] # NoDoc /\ docs[k] # NoDoc =>
       \A r \in Range(docs[j].routes), q \in Range(docs[k].routes) : ~Conflict(r, q)
Routed ==
  /\ \A m, n \in DOMAIN routes : m < n => Len(routes[m].prefix) >= Len(routes[n].prefix)
  /\ op # NoOp => op.doc = specs[op.key]
  /\ ~failed =>
       /\ Coherent(specs) /\ Coherent([k \in Keys |-> Installed(k)])
       /\ \A r \in Range(routes) : Installed(r.key) # NoDoc /\
            \E i \in DOMAIN Installed(r.key).routes : r = RouteAt(r.key, Installed(r.key), i)

\* The picks of the endpoints e since they changed, the next of which is upTo: some full
\* rounds, and a part of one from a on.
Rounds(e, counts, upTo, a, full) ==
  /\ upTo < a + Len(e)
  /\ \A p \in DOMAIN e :
       counts[e[p]] = full + IF \E t \in a..(upTo - 1) : e[p] = Nth(e, t) THEN 1 ELSE 0
Even ==
  \A n \in Named : ~mixed[n] /\ endpoints[n] # <<>> =>
    \E a, full \in 0..next[n] : Rounds(endpoints[n], hits[n], next[n], a, full)
=============================================================================
