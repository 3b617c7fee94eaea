---------------------------- MODULE ProxyProofs ----------------------------
(***************************************************************************)
(* Theorems about module Proxy, for any Runtimes, documents, containers,   *)
(* clients and requests.  The two sequences that the code sorts, the routes *)
(* of a port and the endpoints of a service, are ranked by one operator,   *)
(* whose lemmas are in RankingProofs.                                      *)
(***************************************************************************)
EXTENDS Proxy, RankingProofs, FiniteSetTheorems, TLAPS

-----------------------------------------------------------------------------
(* Sorting *)

\* sortRoutes keeps every route and puts longer prefixes first.
LEMMA SortedRoutes ==
  ASSUME NEW s \in Seq(InstalledRoute)
  PROVE  /\ SortRoutes(s) \in Seq(InstalledRoute)
         /\ Range(SortRoutes(s)) = Range(s)
         /\ \A m, n \in DOMAIN SortRoutes(s) :
              m < n => Len(SortRoutes(s)[m].prefix) >= Len(SortRoutes(s)[n].prefix)
<1> DEFINE I == DOMAIN s
           R == {p \in (DOMAIN s) \X (DOMAIN s) : Before(s, p[1], p[2])}
<1>1. I = 1..Len(s) /\ Len(s) \in Nat /\ IsFiniteSet(I)
  BY FS_Interval
<1>2. PICK len, svc : len = [i \in I |-> Len(s[i].prefix)] /\ svc = [i \in I |-> s[i].service]
  OBVIOUS
<1>3. \A i \in I : len[i] \in Nat /\ svc[i] \in Nat /\ i \in Nat
  <2> SUFFICES ASSUME NEW i \in I PROVE len[i] \in Nat /\ svc[i] \in Nat /\ i \in Nat
    OBVIOUS
  <2>1. s[i] \in InstalledRoute /\ i \in Nat
    BY <1>1
  <2>2. s[i].prefix \in Seq(Characters) /\ s[i].service \in Services
    BY <2>1 DEF InstalledRoute
  <2>3. Len(s[i].prefix) \in Nat
    BY <2>2
  <2>4. Services \subseteq Nat
    BY ConstantsAssumption
  <2> QED BY <1>2, <2>1, <2>2, <2>3, <2>4
<1>4. \A i, j \in I : <<i, j>> \in R <=>
        \/ len[i] > len[j]
        \/ len[i] = len[j] /\ (svc[i] < svc[j] \/ (svc[i] = svc[j] /\ i < j))
  BY <1>2 DEF Before
<1>5. PICK B : B = R
  OBVIOUS
<1>6. \A i, j \in I : <<i, j>> \in B <=>
        \/ len[i] > len[j]
        \/ len[i] = len[j] /\ (svc[i] < svc[j] \/ (svc[i] = svc[j] /\ i < j))
  BY <1>4, <1>5
<1>7. /\ \A i \in I : <<i, i>> \notin B
      /\ \A i, j, k \in I : <<i, j>> \in B /\ <<j, k>> \in B => <<i, k>> \in B
      /\ \A i, j \in I : i # j => <<i, j>> \in B \/ <<j, i>> \in B
  <2> HIDE DEF I
  <2>1. \A i \in I : <<i, i>> \notin B
    BY <1>3, <1>6
  <2>2. ASSUME NEW i \in I, NEW j \in I, NEW k \in I, <<i, j>> \in B, <<j, k>> \in B
        PROVE  <<i, k>> \in B
    <3>1. PICK l1, l2, l3, s1, s2, s3 \in Nat :
            /\ l1 = len[i] /\ l2 = len[j] /\ l3 = len[k]
            /\ s1 = svc[i] /\ s2 = svc[j] /\ s3 = svc[k]
      BY <1>3
    <3>2. /\ l1 > l2 \/ (l1 = l2 /\ (s1 < s2 \/ (s1 = s2 /\ i < j)))
          /\ l2 > l3 \/ (l2 = l3 /\ (s2 < s3 \/ (s2 = s3 /\ j < k)))
      BY <1>6, <2>2, <3>1
    <3>3. i \in Nat /\ j \in Nat /\ k \in Nat
      BY <1>3
    <3>4. l1 > l3 \/ (l1 = l3 /\ (s1 < s3 \/ (s1 = s3 /\ i < k)))
      BY <3>2, <3>3
    <3> QED BY <1>6, <3>1, <3>4
  <2>3. ASSUME NEW i \in I, NEW j \in I, i # j PROVE <<i, j>> \in B \/ <<j, i>> \in B
    BY <1>3, <1>6, <2>3
  <2> QED BY <2>1, <2>2, <2>3
<1>8. /\ Cardinality(I) \in Nat /\ Ranked(I, B) \in [1..Cardinality(I) -> I]
      /\ \A i \in I : \E n \in 1..Cardinality(I) : Ranked(I, B)[n] = i
      /\ \A m, n \in 1..Cardinality(I) :
           m < n => <<Ranked(I, B)[m], Ranked(I, B)[n]>> \in B
  <2>1. IsFiniteSet(I)
    BY <1>1
  <2> HIDE DEF I, R
  <2> QED BY <1>7, <2>1, RankedFacts, Zenon
<1>9. PICK at, N : at = Ranked(I, B) /\ N = Cardinality(I)
  OBVIOUS
<1>10. /\ N \in Nat /\ at \in [1..N -> I] /\ \A i \in I : \E n \in 1..N : at[n] = i
       /\ \A m, n \in 1..N : m < n => <<at[m], at[n]>> \in B
  BY <1>8, <1>9
<1>11. SortRoutes(s) = Along(s, at)
  BY <1>5, <1>9 DEF SortRoutes
<1>12. PICK t : t = SortRoutes(s)
  OBVIOUS
<1>13. /\ t \in Seq(InstalledRoute) /\ DOMAIN t = 1..N
       /\ \A x : x \in Range(t) <=> \E i \in I : x = s[i]
       /\ \A n \in 1..N : t[n] = s[at[n]]
  <2>1. I \in SUBSET (1..Len(s))
    BY <1>1
  <2> HIDE DEF I
  <2>2. at \in [1..N -> I] /\ N \in Nat /\ \A i \in I : \E n \in 1..N : at[n] = i
    BY <1>10
  <2>3. Along(s, at) \in Seq(InstalledRoute)
    BY <2>1, <2>2, AlongFacts
  <2>4. \A x : x \in Range(Along(s, at)) <=> \E i \in I : x = s[i]
    BY <2>1, <2>2, AlongFacts
  <2>5. DOMAIN Along(s, at) = 1..N /\ \A n \in 1..N : Along(s, at)[n] = s[at[n]]
    BY <2>2 DEF Along
  <2> QED BY <1>11, <1>12, <2>3, <2>4, <2>5
<1>14. ASSUME NEW m \in 1..N, NEW n \in 1..N, m < n
       PROVE  Len(t[m].prefix) >= Len(t[n].prefix)
  <2>1. at[m] \in I /\ at[n] \in I /\ <<at[m], at[n]>> \in B
    BY <1>10, <1>14
  <2>2. len[at[m]] >= len[at[n]]
    BY <1>3, <1>6, <2>1
  <2> QED BY <1>2, <1>13, <2>1, <2>2
<1>15. \A x : x \in Range(s) <=> \E i \in I : x = s[i]
  BY DEF Range
<1>16. Range(t) = Range(s)
  BY <1>13, <1>15
<1> QED BY <1>12, <1>13, <1>14, <1>16

\* The routes of the other Runtimes, in their order.
LEMMA OthersFacts ==
  ASSUME routes \in Seq(InstalledRoute), NEW k
  PROVE  /\ OthersRoutes(k) \in Seq(InstalledRoute)
         /\ Range(OthersRoutes(k)) = {r \in Range(routes) : r.key # k}
         /\ (\A m, n \in DOMAIN routes : m < n => Len(routes[m].prefix) >= Len(routes[n].prefix))
            => \A m, n \in DOMAIN OthersRoutes(k) :
                 m < n => Len(OthersRoutes(k)[m].prefix) >= Len(OthersRoutes(k)[n].prefix)
<1> DEFINE J == {i \in DOMAIN routes : routes[i].key # k}
<1>1. DOMAIN routes = 1..Len(routes) /\ Len(routes) \in Nat
  OBVIOUS
<1>2. J \in SUBSET (1..Len(routes)) /\ J \in SUBSET Nat
  BY <1>1
<1>3. IsFiniteSet(J)
  <2>1. IsFiniteSet(1..Len(routes))
    BY <1>1, FS_Interval
  <2> QED BY <1>2, <2>1, FS_Subset
<1>4. PICK at, N : at = Ranked(J, Ascending) /\ N = Cardinality(J)
  OBVIOUS
<1>5. /\ N \in Nat /\ at \in [1..N -> J] /\ \A i \in J : \E n \in 1..N : at[n] = i
      /\ \A m, n \in 1..N : m < n => at[m] < at[n]
  BY <1>2, <1>3, <1>4, AscendingFacts
<1>6. PICK t : t = OthersRoutes(k)
  OBVIOUS
<1>7. t = Along(routes, at)
  BY <1>4, <1>6 DEF OthersRoutes
<1>8. /\ t \in Seq(InstalledRoute) /\ DOMAIN t = 1..N
      /\ \A x : x \in Range(t) <=> \E i \in J : x = routes[i]
      /\ \A n \in 1..N : t[n] = routes[at[n]]
  <2> HIDE DEF J
  <2>1. /\ at \in [1..N -> J] /\ N \in Nat /\ \A i \in J : \E n \in 1..N : at[n] = i
        /\ J \in SUBSET (1..Len(routes))
    BY <1>2, <1>5
  <2>2. Along(routes, at) \in Seq(InstalledRoute)
    BY <2>1, AlongFacts
  <2>3. \A x : x \in Range(Along(routes, at)) <=> \E i \in J : x = routes[i]
    BY <2>1, AlongFacts
  <2>4. DOMAIN Along(routes, at) = 1..N /\ \A n \in 1..N : Along(routes, at)[n] = routes[at[n]]
    BY <2>1 DEF Along
  <2> QED BY <1>7, <2>2, <2>3, <2>4
<1>9. Range(t) = {r \in Range(routes) : r.key # k}
  <2>1. \A x : x \in Range(routes) <=> \E i \in DOMAIN routes : x = routes[i]
    BY DEF Range
  <2>2. \A x : x \in Range(t) <=> x \in Range(routes) /\ x.key # k
    BY <1>8, <2>1
  <2> QED BY <2>2
<1>10. \A n \in 1..N : at[n] \in DOMAIN routes
  BY <1>5
<1>11. ASSUME \A m, n \in DOMAIN routes : m < n => Len(routes[m].prefix) >= Len(routes[n].prefix)
       PROVE  \A m, n \in DOMAIN t : m < n => Len(t[m].prefix) >= Len(t[n].prefix)
  BY <1>5, <1>8, <1>10, <1>11
<1> QED BY <1>6, <1>8, <1>9, <1>11

\* routesForRuntime gives the routes of the document, for its Runtime.
LEMMA RoutesOfFacts ==
  ASSUME NEW k \in Keys, NEW d \in Documents
  PROVE  /\ RoutesOf(k, d) \in Seq(InstalledRoute)
         /\ \A r \in Range(RoutesOf(k, d)) : \E i \in DOMAIN d.routes : r = RouteAt(k, d, i)
         /\ \A i \in DOMAIN d.routes : RouteAt(k, d, i) \in InstalledRoute
<1> DEFINE s == [i \in DOMAIN d.routes |-> RouteAt(k, d, i)]
<1>1. /\ d.routes \in Seq([host : RouteHosts, prefix : Seq(Characters), service : d.services])
      /\ DOMAIN d.routes = 1..Len(d.routes) /\ Len(d.routes) \in Nat
  BY ConstantsAssumption
<1>2. \A i \in DOMAIN d.routes : d.routes[i].service \in Services
  BY DEF Services, Range
<1>3. \A i \in DOMAIN d.routes : RouteAt(k, d, i) \in InstalledRoute
  <2> SUFFICES ASSUME NEW i \in DOMAIN d.routes PROVE RouteAt(k, d, i) \in InstalledRoute
    OBVIOUS
  <2> DEFINE Rule == [host : RouteHosts, prefix : Seq(Characters), service : d.services]
  <2>1. d.routes[i] \in Rule
    <3>1. d.routes \in Seq(Rule)
      BY <1>1
    <3> HIDE DEF Rule
    <3> QED BY <3>1
  <2>2. /\ d.routes[i].host \in RouteHosts /\ d.routes[i].prefix \in Seq(Characters)
        /\ d.routes[i].service \in Services
    BY <1>2, <2>1
  <2> QED BY <2>2 DEF InstalledRoute, RouteAt
<1>4. s \in Seq(InstalledRoute)
  <2>1. s \in [1..Len(d.routes) -> InstalledRoute]
    BY <1>1, <1>3
  <2> QED BY <1>1, <2>1
<1>5. RoutesOf(k, d) = SortRoutes(s)
  BY DEF RoutesOf
<1>6. \A r \in Range(s) : \E i \in DOMAIN d.routes : r = RouteAt(k, d, i)
  BY DEF Range
<1> HIDE DEF s
<1> QED BY <1>3, <1>4, <1>5, <1>6, SortedRoutes

-----------------------------------------------------------------------------
(* Endpoints *)

\* What discoverEndpoints returns is determined by the containers in it.
LEMMA ListingFacts ==
  ASSUME NEW e \in Listings
  PROVE  /\ e \in Seq(Containers)
         /\ e # <<>> => Range(e) \in Ready /\ e = Ranked(Range(e), Ascending)
         /\ \A m, n \in DOMAIN e : m # n => e[m] # e[n]
<1>1. CASE e = <<>>
  BY <1>1
<1>2. ASSUME NEW C \in Ready, e = Ranked(C, Ascending)
      PROVE  /\ e \in Seq(Containers) /\ Range(e) = C
             /\ \A m, n \in DOMAIN e : m # n => e[m] # e[n]
  <2>1. C \in SUBSET Nat /\ C \subseteq Containers /\ IsFiniteSet(C)
    BY ConstantsAssumption DEF Containers
  <2>2. PICK N : N = Cardinality(C)
    OBVIOUS
  <2>3. /\ N \in Nat /\ e \in [1..N -> C]
        /\ \A i \in C : \E n \in 1..N : e[n] = i
        /\ \A m, n \in 1..N : m < n => e[m] < e[n]
    BY <1>2, <2>1, <2>2, AscendingFacts
  <2>4. e \in [1..N -> Containers] /\ DOMAIN e = 1..N
    BY <2>1, <2>3
  <2>5. e \in Seq(Containers)
    BY <2>3, <2>4
  <2>6. Range(e) = C
    BY <2>3, <2>4 DEF Range
  <2>7. ASSUME NEW m \in 1..N, NEW n \in 1..N, m # n PROVE e[m] # e[n]
    <3>1. e[m] \in Nat /\ e[n] \in Nat
      BY <2>1, <2>3
    <3>2. m < n \/ n < m
      BY <2>3, <2>7
    <3> QED BY <2>3, <3>1, <3>2
  <2> QED BY <2>4, <2>5, <2>6, <2>7
<1>3. e = <<>> \/ \E C \in Ready : e = Ranked(C, Ascending)
  BY DEF Listings, Discovered
<1> QED BY <1>1, <1>2, <1>3

\* A refresh finds a listing for every service it looks at, and Remove leaves none.
LEMMA RefreshedFacts ==
  ASSUME NEW k \in Keys
  PROVE  /\ \A S : \A f \in Refreshed(k, S) :
              /\ \A n \in DOMAIN f : f[n] \in Listings
              /\ \A n \in OfKey(k) : Completed(k, f)[n] \in Listings
         /\ \A n \in OfKey(k) : Completed(k, <<>>)[n] \in Listings
<1>1. <<>> \in Listings
  BY DEF Listings
<1>2. ASSUME NEW S, NEW f \in Refreshed(k, S)
      PROVE  /\ \A n \in DOMAIN f : f[n] \in Listings
             /\ \A n \in OfKey(k) : Completed(k, f)[n] \in Listings
  <2>1. f \in [{k} \X S -> UNION {Discovered(C) : C \in Ready}]
    BY DEF Refreshed
  <2>2. UNION {Discovered(C) : C \in Ready} \subseteq Listings
    BY DEF Listings
  <2>3. \A n \in DOMAIN f : f[n] \in Listings
    BY <2>1, <2>2
  <2> QED BY <1>1, <2>3 DEF Completed
<1>3. \A n \in OfKey(k) : Completed(k, <<>>)[n] \in Listings
  BY <1>1 DEF Completed
<1> QED BY <1>2, <1>3

-----------------------------------------------------------------------------
(* Type correctness *)

\* The types, with what they rest on.
Inv == TypeOK /\ Listed /\ Counted

\* What the operations change, what the picks change, and the requests.
StoreType ==
  /\ specs \in [Keys -> Documents \cup {NoDoc}]
  /\ \A k \in Keys : specs[k] \in DocsOf[k] \cup {NoDoc}
  /\ routes \in Seq(InstalledRoute)
  /\ op \in Operation
  /\ op # NoOp => /\ op.key \in Keys /\ op.doc \in DocsOf[op.key]
                  /\ op.previous \in DocsOf[op.key] \cup {NoDoc}
  /\ failed \in BOOLEAN
PicksType ==
  /\ endpoints \in [Named -> Seq(Containers)]
  /\ next \in [Keys \X (Services \cup {0}) -> 0..MaxRequests]
  /\ mixed \in [Named -> BOOLEAN]
  /\ hits \in [Named -> [Containers -> Nat]]
  /\ stuck \in [Clients \X Keys \X Services \X Ready -> SUBSET Containers]
RequestType(r) ==
  /\ r \in Request
  /\ r.pc \in {"resolved", "read"} => <<r.key, r.service>> \in Named /\ r.name \in {r.service, 0}
  /\ r.pc = "read" => r.endpoints # <<>>
RequestsType ==
  /\ req \in [Slots -> Request] /\ used \in Usage
  /\ \A s \in Slots : RequestType(req[s])

\* These are the type invariant.
LEMMA TypeParts ==
  /\ TypeOK <=> StoreType /\ PicksType /\ RequestsType
  /\ TypeOK' <=> StoreType' /\ PicksType' /\ RequestsType'
<1>1. ASSUME TypeOK PROVE StoreType /\ PicksType /\ RequestsType
  BY <1>1 DEF TypeOK, StoreType, PicksType, RequestsType, RequestType
<1>2. ASSUME StoreType, PicksType, RequestsType PROVE TypeOK
  BY <1>2 DEF TypeOK, StoreType, PicksType, RequestsType, RequestType
<1>3. ASSUME TypeOK' PROVE StoreType' /\ PicksType' /\ RequestsType'
  BY <1>3 DEF TypeOK, StoreType, PicksType, RequestsType, RequestType
<1>4. ASSUME StoreType', PicksType', RequestsType' PROVE TypeOK'
  BY <1>4 DEF TypeOK, StoreType, PicksType, RequestsType, RequestType
<1> QED BY <1>1, <1>2, <1>3, <1>4

\* The caches stay listings, whichever services a step replaces.
LEMMA CachesInv ==
  ASSUME Inv, NEW D, NEW cache, \A n \in D \cap Named : cache[n] \in Listings,
         Caches(D, cache), next' = next
  PROVE  PicksType' /\ \A n \in Named : endpoints'[n] \in Listings
<1>1. PicksType /\ \A n \in Named : endpoints[n] \in Listings
  BY TypeParts DEF Inv, Listed
<1>2. \A n \in Named : endpoints'[n] \in Listings
  BY <1>1 DEF Caches
<1>3. endpoints' \in [Named -> Seq(Containers)]
  BY <1>2, ListingFacts DEF Caches
<1>4. NoHits \in [Containers -> Nat]
  BY DEF NoHits
<1>5. hits' \in [Named -> [Containers -> Nat]]
  BY <1>1, <1>4 DEF Caches, PicksType
<1>6. mixed' \in [Named -> BOOLEAN]
  BY <1>1 DEF Caches, PicksType
<1> QED BY <1>1, <1>2, <1>3, <1>5, <1>6 DEF Caches, PicksType

\* Operations leave the requests where they are.
LEMMA ManagerCounts ==
  ASSUME Inv, UNCHANGED <<req, next>>, used' \in Usage, used'.requests = used.requests,
         \A n \in Named : endpoints'[n] \in Listings
  PROVE  RequestsType' /\ Listed' /\ Counted'
<1>1. RequestsType'
  BY TypeParts DEF Inv, RequestsType
<1>2. Listed'
  BY DEF Inv, Listed
<1>3. Waiting' = Waiting
  BY DEF Waiting
<1>4. Counted'
  BY <1>3 DEF Inv, Counted
<1> QED BY <1>1, <1>2, <1>4

\* An operation, a fault or a request is counted.
LEMMA UsesFacts ==
  ASSUME Inv
  PROVE  /\ Free => used' \in Usage /\ used'.requests = used.requests
         /\ used.faults < MaxFaults /\ Uses("faults") =>
              used' \in Usage /\ used'.requests = used.requests
         /\ used.requests < MaxRequests /\ Uses("requests") =>
              used' \in Usage /\ used'.requests = used.requests + 1
         /\ used.requests \in 0..MaxRequests
<1>1. used \in Usage /\ MaxOps \in Nat /\ MaxFaults \in Nat /\ MaxRequests \in Nat
  BY ConstantsAssumption DEF Inv, TypeOK
<1>2. ASSUME used.ops < MaxOps, used' = [used EXCEPT !.ops = @ + 1]
      PROVE  used' \in Usage /\ used'.requests = used.requests
  BY <1>1, <1>2 DEF Usage
<1>3. ASSUME used.faults < MaxFaults, used' = [used EXCEPT !.faults = @ + 1]
      PROVE  used' \in Usage /\ used'.requests = used.requests
  BY <1>1, <1>3 DEF Usage
<1>4. ASSUME used.requests < MaxRequests, used' = [used EXCEPT !.requests = @ + 1]
      PROVE  used' \in Usage /\ used'.requests = used.requests + 1
  BY <1>1, <1>4 DEF Usage
<1> QED BY <1>1, <1>2, <1>3, <1>4 DEF Free, Uses, Usage

\* An operation keeps to one of its Runtime's documents, and only the documents of that
\* Runtime are put in memory.
LEMMA DocumentFacts ==
  ASSUME StoreType
  PROVE  /\ \A k \in Keys : DocsOf[k] \subseteq Documents
         /\ op # NoOp => op.key \in Keys /\ op.doc \in Documents
         /\ NoOp \in Operation /\ NoOp.key = NoDoc
         /\ op.previous \in Documents \cup {NoDoc}
<1>1. \A k \in Keys : DocsOf[k] \subseteq Documents
  BY ConstantsAssumption DEF Documents, Range
<1>2. NoOp \in Operation /\ NoOp.key = NoDoc
  BY DEF NoOp, Operation
<1>3. op.previous \in Documents \cup {NoDoc}
  BY DEF StoreType, Operation
<1> QED BY <1>1, <1>2, <1>3 DEF StoreType

\* The head of Apply preserves Inv.
LEMMA UpdateInv ==
  ASSUME Inv, NEW k \in Keys, NEW d \in DocsOf[k], Update(k, d), UNCHANGED req
  PROVE  Inv'
<1>1. StoreType /\ PicksType
  BY TypeParts DEF Inv
<1>2. PicksType' /\ \A n \in Named : endpoints'[n] \in Listings
  BY <1>1 DEF Update, PicksType, picks, Inv, Listed
<1>3. RequestsType' /\ Listed' /\ Counted'
  BY <1>2, UsesFacts, ManagerCounts DEF Update
<1>4. StoreType'
  <2>1. d \in Documents /\ specs[k] \in Documents \cup {NoDoc}
    BY <1>1, DocumentFacts DEF StoreType
  <2>2. op' = [key |-> k, doc |-> d, previous |-> specs[k]] /\ specs' = [specs EXCEPT ![k] = d]
        /\ routes' = routes /\ failed' = failed
    BY DEF Update
  <2>3. op' \in Operation /\ op'.key = k /\ op'.doc = d
    BY <2>1, <2>2 DEF Operation
  <2>4. specs' \in [Keys -> Documents \cup {NoDoc}]
        /\ \A j \in Keys : specs'[j] \in DocsOf[j] \cup {NoDoc}
    BY <1>1, <2>1, <2>2 DEF StoreType
  <2> QED BY <1>1, <2>2, <2>3, <2>4 DEF StoreType
<1> QED BY <1>2, <1>3, <1>4, TypeParts DEF Inv

\* replaceRoutesAndState preserves Inv.
LEMMA InstallsInv ==
  ASSUME Inv, Installs, UNCHANGED req
  PROVE  Inv'
<1>1. StoreType /\ op # NoOp /\ op.key \in Keys /\ op.doc \in Documents
  BY TypeParts, DocumentFacts DEF Inv, Installs
<1>2. PICK f \in Refreshed(op.key, op.doc.services) : Caches(OfKey(op.key), Completed(op.key, f))
  BY DEF Installs, Install
<1>3. PicksType' /\ \A n \in Named : endpoints'[n] \in Listings
  BY <1>1, <1>2, CachesInv, RefreshedFacts DEF Installs
<1>4. RequestsType' /\ Listed' /\ Counted'
  <2>1. used' \in Usage
    BY DEF Installs, Inv, TypeOK
  <2> QED BY <1>3, <2>1, ManagerCounts DEF Installs
<1>5. StoreType'
  <2>1. routes' = SortRoutes(OthersRoutes(op.key) \o RoutesOf(op.key, op.doc)) /\ op' = NoOp
        /\ specs' = specs /\ failed' = failed
    BY DEF Installs, Install
  <2>2. /\ OthersRoutes(op.key) \in Seq(InstalledRoute)
        /\ RoutesOf(op.key, op.doc) \in Seq(InstalledRoute)
    BY <1>1, OthersFacts, RoutesOfFacts DEF StoreType
  <2>3. PICK a, b \in Seq(InstalledRoute) :
          a = OthersRoutes(op.key) /\ b = RoutesOf(op.key, op.doc)
    BY <2>2
  <2>4. a \o b \in Seq(InstalledRoute)
    OBVIOUS
  <2>5. routes' \in Seq(InstalledRoute)
    BY <2>1, <2>3, <2>4, SortedRoutes
  <2> QED BY <1>1, <2>1, <2>5, DocumentFacts DEF StoreType
<1> QED BY <1>3, <1>4, <1>5, TypeParts DEF Inv

\* A failure, with or without a rollback, preserves Inv.
LEMMA FailUpdateInv ==
  ASSUME Inv, FailUpdate, UNCHANGED req
  PROVE  Inv'
<1>1. StoreType /\ PicksType
  BY TypeParts DEF Inv
<1>2. PicksType' /\ \A n \in Named : endpoints'[n] \in Listings
  BY <1>1 DEF FailUpdate, PicksType, picks, Inv, Listed
<1>3. RequestsType' /\ Listed' /\ Counted'
  BY <1>2, UsesFacts, ManagerCounts DEF FailUpdate
<1>4. StoreType'
  <2>1. /\ op # NoOp /\ op' = NoOp /\ failed' = TRUE /\ routes' = routes
        /\ specs' = specs \/ (op.previous # NoDoc /\ specs' = [specs EXCEPT ![op.key] = op.previous])
    BY DEF FailUpdate
  <2>2. /\ op.key \in Keys /\ op.previous \in DocsOf[op.key] \cup {NoDoc}
        /\ op.previous \in Documents \cup {NoDoc}
    BY <1>1, <2>1, DocumentFacts DEF StoreType
  <2>3. specs' \in [Keys -> Documents \cup {NoDoc}]
        /\ \A j \in Keys : specs'[j] \in DocsOf[j] \cup {NoDoc}
    BY <1>1, <2>1, <2>2 DEF StoreType
  <2> QED BY <1>1, <2>1, <2>3, DocumentFacts DEF StoreType
<1> QED BY <1>2, <1>3, <1>4, TypeParts DEF Inv

\* Remove preserves Inv.
LEMMA RemoveRuntimeInv ==
  ASSUME Inv, NEW k \in Keys, RemoveRuntime(k), UNCHANGED req
  PROVE  Inv'
<1>1. StoreType
  BY TypeParts DEF Inv
<1>2. PicksType' /\ \A n \in Named : endpoints'[n] \in Listings
  BY CachesInv, RefreshedFacts DEF RemoveRuntime
<1>3. RequestsType' /\ Listed' /\ Counted'
  BY <1>2, UsesFacts, ManagerCounts DEF RemoveRuntime
<1>4. StoreType'
  <2>1. routes' \in Seq(InstalledRoute)
    BY <1>1, OthersFacts DEF StoreType, RemoveRuntime
  <2> QED BY <1>1, <2>1 DEF StoreType, RemoveRuntime
<1> QED BY <1>2, <1>3, <1>4, TypeParts DEF Inv

\* Resync preserves Inv.
LEMMA ResyncInv ==
  ASSUME Inv, NEW k \in Keys, Resync(k), UNCHANGED req
  PROVE  Inv'
<1>1. StoreType
  BY TypeParts DEF Inv
<1>2. PICK f \in Refreshed(k, specs[k].services) : Caches(DOMAIN f, f)
  BY DEF Resync
<1>3. PicksType' /\ \A n \in Named : endpoints'[n] \in Listings
  BY <1>2, CachesInv, RefreshedFacts DEF Resync
<1>4. RequestsType' /\ Listed' /\ Counted'
  BY <1>3, UsesFacts, ManagerCounts DEF Resync
<1>5. StoreType'
  BY <1>1 DEF StoreType, Resync
<1> QED BY <1>3, <1>4, <1>5, TypeParts DEF Inv

\* A request that changes moves into or out of those in progress.
LEMMA WaitingFacts ==
  ASSUME req \in [Slots -> Request], NEW s \in Slots, NEW q \in Request,
         req' = [req EXCEPT ![s] = q]
  PROVE  /\ Cardinality(Waiting) \in Nat /\ Cardinality(Waiting') \in Nat
         /\ InProgress(req[s]) /\ InProgress(q) => Cardinality(Waiting') = Cardinality(Waiting)
         /\ InProgress(req[s]) /\ ~InProgress(q) => Cardinality(Waiting') = Cardinality(Waiting) - 1
         /\ ~InProgress(req[s]) /\ InProgress(q) => Cardinality(Waiting') = Cardinality(Waiting) + 1
<1>1. IsFiniteSet(Slots) /\ Waiting \in SUBSET Slots /\ Waiting' \in SUBSET Slots
  BY ConstantsAssumption DEF Waiting
<1>2. IsFiniteSet(Waiting) /\ IsFiniteSet(Waiting')
  BY <1>1, FS_Subset
<1>3. Cardinality(Waiting) \in Nat /\ Cardinality(Waiting') \in Nat
  BY <1>2, FS_CardinalityType
<1>4. \A t \in Slots : /\ t \in Waiting <=> InProgress(req[t])
                       /\ t \in Waiting' <=> InProgress(req'[t])
  BY DEF Waiting
<1>5. \A t \in Slots : req'[t] = IF t = s THEN q ELSE req[t]
  OBVIOUS
<1>6. ASSUME InProgress(q) PROVE Waiting' = Waiting \cup {s}
  BY <1>1, <1>4, <1>5, <1>6
<1>7. ASSUME ~InProgress(q) PROVE Waiting' = Waiting \ {s}
  BY <1>1, <1>4, <1>5, <1>7
<1>8. s \in Waiting <=> InProgress(req[s])
  BY <1>4
<1>9. /\ Cardinality(Waiting \cup {s}) =
           IF s \in Waiting THEN Cardinality(Waiting) ELSE Cardinality(Waiting) + 1
      /\ Cardinality(Waiting \ {s}) =
           IF s \in Waiting THEN Cardinality(Waiting) - 1 ELSE Cardinality(Waiting)
  BY <1>2, FS_AddElement, FS_RemoveElement
<1> QED BY <1>3, <1>6, <1>7, <1>8, <1>9

\* The first route that matches is one of those installed, of a Runtime in memory.
LEMMA ResolvedFacts ==
  ASSUME routes \in Seq(InstalledRoute), NEW host, NEW path, IsRouted(host, path)
  PROVE  \E i \in Found(host, path) :
           /\ i \in DOMAIN routes /\ Resolved(host, path) = routes[i]
           /\ \A j \in Found(host, path) : i <= j
           /\ Matches(routes[i], host, path) /\ routes[i] \in InstalledRoute
<1>1. Found(host, path) \subseteq 1..Len(routes) /\ Found(host, path) # {} /\ Len(routes) \in Nat
  BY DEF Found, IsRouted
<1>2. \E i \in Found(host, path) : \A j \in Found(host, path) : i <= j
  <2>1. PICK F \in SUBSET Nat : F = Found(host, path)
    BY <1>1
  <2>2. IsFiniteSet(F)
    <3>1. IsFiniteSet(1..Len(routes)) /\ F \in SUBSET (1..Len(routes))
      BY <1>1, <2>1, FS_Interval
    <3> QED BY <3>1, FS_Subset
  <2>3. PICK at, N : at = Ranked(F, Ascending) /\ N = Cardinality(F)
    OBVIOUS
  <2>4. /\ N \in Nat /\ at \in [1..N -> F] /\ \A i \in F : \E n \in 1..N : at[n] = i
        /\ \A m, n \in 1..N : m < n => at[m] < at[n]
    BY <2>2, <2>3, AscendingFacts
  <2>5. 1 \in 1..N
    BY <1>1, <2>1, <2>4
  <2>6. ASSUME NEW j \in F PROVE at[1] <= j
    <3>1. PICK n \in 1..N : at[n] = j
      BY <2>4
    <3>2. n = 1 \/ at[1] < at[n]
      BY <2>4, <2>5
    <3>3. at[1] \in Nat /\ at[n] \in Nat
      BY <2>4, <2>5
    <3> QED BY <3>1, <3>2, <3>3
  <2> QED BY <2>1, <2>4, <2>5, <2>6
<1>3. PICK i : i = CHOOSE x \in Found(host, path) : \A j \in Found(host, path) : x <= j
  OBVIOUS
<1>4. i \in Found(host, path) /\ \A j \in Found(host, path) : i <= j
  BY <1>2, <1>3
<1>5. Resolved(host, path) = routes[i]
  BY <1>3 DEF Resolved, Min
<1>6. i \in DOMAIN routes /\ Matches(routes[i], host, path)
  BY <1>4 DEF Found
<1>7. routes[i] \in InstalledRoute
  BY <1>6
<1> QED BY <1>4, <1>5, <1>6, <1>7

\* What a request changes to: the effect of each of its steps.
LEMMA ResolveDoes ==
  ASSUME Inv, NEW s \in Slots, NEW host \in Hosts, NEW path \in Paths, NEW client \in Clients,
         Resolve(s, host, path, client)
  PROVE  \E q \in Request :
           /\ req' = [req EXCEPT ![s] = q] /\ RequestType(q) /\ ~InProgress(req[s])
           /\ q.pc = "resolved" /\ q.host = host /\ q.path = path /\ q.endpoints = <<>>
           /\ IsRouted(host, path)
           /\ q.key = Resolved(host, path).key /\ q.service = Resolved(host, path).service
<1>1. StoreType
  BY TypeParts DEF Inv
<1>2. IsRouted(host, path)
  BY DEF Resolve
<1>3. PICK r \in InstalledRoute : r = Resolved(host, path)
  BY <1>1, <1>2, ResolvedFacts DEF StoreType
<1>4. r.key \in Keys /\ r.service \in Services
  BY <1>3 DEF InstalledRoute
<1>5. PICK name, affine : /\ name = IF r.service \in specs[r.key].services THEN r.service ELSE 0
                          /\ affine = (r.service \in specs[r.key].affine)
  OBVIOUS
<1>6. name \in {r.service, 0} /\ affine \in BOOLEAN
  BY <1>5
<1>7. PICK q : q = [pc |-> "resolved", host |-> host, path |-> path, client |-> client,
                    key |-> r.key, service |-> r.service, name |-> name, affine |-> affine,
                    endpoints |-> <<>>]
  OBVIOUS
<1>8. req' = [req EXCEPT ![s] = q] /\ ~InProgress(req[s])
  BY <1>3, <1>5, <1>7 DEF Resolve
<1>9. <<>> \in Seq(Containers)
  OBVIOUS
<1>10. q \in Request
  BY <1>4, <1>6, <1>7, <1>9 DEF Request
<1>11. /\ q.pc = "resolved" /\ q.host = host /\ q.path = path /\ q.endpoints = <<>>
       /\ q.key = r.key /\ q.service = r.service /\ q.name = name
  BY <1>7
<1>12. RequestType(q)
  BY <1>4, <1>6, <1>10, <1>11 DEF RequestType, Named
<1> QED BY <1>2, <1>3, <1>8, <1>10, <1>11, <1>12

\* The request is refused, or goes on with the endpoints it has read.
LEMMA ReadEndpointsDoes ==
  ASSUME Inv, NEW s \in Slots, ReadEndpoints(s)
  PROVE  \E q \in Request :
           /\ req' = [req EXCEPT ![s] = q] /\ RequestType(q)
           /\ req[s].pc = "resolved" /\ <<req[s].key, req[s].service>> \in Named
           /\ q.endpoints \in Listings
           /\ \/ q.pc = "refused" /\ endpoints[<<req[s].key, req[s].service>>] = <<>>
              \/ /\ q.pc = "read" /\ q.key = req[s].key /\ q.service = req[s].service
                 /\ q.host = req[s].host /\ q.path = req[s].path
<1>1. /\ req[s].pc = "resolved" /\ RequestType(req[s]) /\ req[s] \in Request
      /\ <<req[s].key, req[s].service>> \in Named
  BY TypeParts DEF Inv, RequestsType, RequestType, ReadEndpoints
<1>2. PICK e : e = endpoints[<<req[s].key, req[s].service>>]
  OBVIOUS
<1>3. e \in Listings /\ e \in Seq(Containers)
  BY <1>1, <1>2, ListingFacts DEF Inv, Listed
<1>4. CASE e = <<>>
  <2>1. PICK q : q = [pc |-> "refused", host |-> NoHost, path |-> <<>>, client |-> 0, key |-> NoDoc,
                      service |-> 0, name |-> 0, affine |-> FALSE, endpoints |-> <<>>]
    OBVIOUS
  <2>2. Refused = q
    BY <2>1 DEF Refused, Ended
  <2>3. req' = [req EXCEPT ![s] = q]
    BY <1>2, <1>4, <2>2 DEF ReadEndpoints
  <2>4. q \in Request /\ q.pc = "refused" /\ q.endpoints = <<>>
    BY <2>1 DEF Request
  <2>5. RequestType(q)
    BY <2>4 DEF RequestType
  <2> QED BY <1>1, <1>2, <1>3, <1>4, <2>3, <2>4, <2>5
<1>5. CASE e # <<>>
  <2>1. PICK p : p = [req[s] EXCEPT !.pc = "read"]
    OBVIOUS
  <2>2. /\ p \in Request /\ p.pc = "read" /\ p.key = req[s].key /\ p.service = req[s].service
        /\ p.host = req[s].host /\ p.path = req[s].path /\ p.name = req[s].name
    BY <1>1, <2>1 DEF Request
  <2>3. PICK q : q = [p EXCEPT !.endpoints = e]
    OBVIOUS
  <2>4. /\ q \in Request /\ q.pc = "read" /\ q.key = req[s].key /\ q.service = req[s].service
        /\ q.host = req[s].host /\ q.path = req[s].path /\ q.name = req[s].name
        /\ q.endpoints = e
    BY <1>3, <2>2, <2>3 DEF Request
  <2>5. req' = [req EXCEPT ![s] = q]
    BY <1>2, <1>5, <2>1, <2>3 DEF ReadEndpoints
  <2>6. RequestType(q)
    BY <1>1, <1>5, <2>4 DEF RequestType
  <2> QED BY <1>1, <1>3, <2>4, <2>5, <2>6
<1> QED BY <1>4, <1>5

\* A pick ends the request.
LEMMA PickDoes ==
  ASSUME Inv, NEW s \in Slots, PickSticky(s) \/ PickNext(s)
  PROVE  /\ NoRequest \in Request /\ RequestType(NoRequest) /\ ~InProgress(NoRequest)
         /\ NoRequest.pc = "idle" /\ NoRequest.endpoints = <<>>
         /\ req' = [req EXCEPT ![s] = NoRequest]
         /\ InProgress(req[s]) /\ req[s] \in Request
         /\ <<req[s].key, req[s].service>> \in Named /\ req[s].name \in {req[s].service, 0}
         /\ req[s].endpoints # <<>> /\ req[s].endpoints \in Listings
<1>1. PICK q : q = [pc |-> "idle", host |-> NoHost, path |-> <<>>, client |-> 0, key |-> NoDoc,
                    service |-> 0, name |-> 0, affine |-> FALSE, endpoints |-> <<>>]
  OBVIOUS
<1>2. NoRequest = q
  BY <1>1 DEF NoRequest, Ended
<1>3. q \in Request /\ q.pc = "idle" /\ q.endpoints = <<>>
  BY <1>1 DEF Request
<1>4. RequestType(q) /\ ~InProgress(q)
  BY <1>3 DEF RequestType, InProgress
<1>5. /\ req[s].pc = "read" /\ RequestType(req[s])
      /\ req' = [req EXCEPT ![s] = NoRequest] /\ req[s].endpoints \in Listings
  BY TypeParts DEF Inv, RequestsType, Listed, PickSticky, PickNext
<1> QED BY <1>2, <1>3, <1>4, <1>5 DEF RequestType, InProgress

\* A request that changes to q keeps the types of the requests.
LEMMA RequestChanges ==
  ASSUME Inv, NEW s \in Slots, NEW q \in Request, RequestType(q), q.endpoints \in Listings,
         req' = [req EXCEPT ![s] = q], used' \in Usage, endpoints' = endpoints
  PROVE  RequestsType' /\ Listed'
<1>1. /\ req \in [Slots -> Request] /\ \A t \in Slots : RequestType(req[t])
      /\ \A t \in Slots : req[t].endpoints \in Listings
      /\ \A n \in Named : endpoints[n] \in Listings
  BY TypeParts DEF Inv, RequestsType, Listed
<1>2. req' \in [Slots -> Request] /\ \A t \in Slots : req'[t] = IF t = s THEN q ELSE req[t]
  BY <1>1
<1>3. \A t \in Slots : RequestType(req'[t]) /\ req'[t].endpoints \in Listings
  BY <1>1, <1>2
<1>4. \A t \in Slots : RequestType(req[t])'
  BY <1>3 DEF RequestType
<1> QED BY <1>1, <1>2, <1>3, <1>4 DEF RequestsType, Listed

\* Resolving a route preserves Inv.
LEMMA ResolveInv ==
  ASSUME Inv, NEW s \in Slots, NEW host \in Hosts, NEW path \in Paths, NEW client \in Clients,
         Resolve(s, host, path, client), UNCHANGED <<specs, routes, endpoints, op, failed>>
  PROVE  Inv'
<1>1. PICK q \in Request :
        /\ req' = [req EXCEPT ![s] = q] /\ RequestType(q) /\ ~InProgress(req[s])
        /\ q.pc = "resolved" /\ q.endpoints = <<>>
  BY ResolveDoes
<1>2. used' \in Usage /\ used'.requests = used.requests + 1
  BY UsesFacts DEF Resolve
<1>3. UNCHANGED <<next, hits, mixed, stuck>>
  BY DEF Resolve, picks
<1>4. RequestsType' /\ Listed'
  BY <1>1, <1>2, RequestChanges DEF Listings
<1>5. StoreType' /\ PicksType'
  BY <1>3, TypeParts DEF Inv, StoreType, PicksType
<1>6. Counted'
  <2>1. /\ Cardinality(Waiting) \in Nat /\ Cardinality(Waiting') = Cardinality(Waiting) + 1
        /\ used.requests \in 0..MaxRequests
    BY <1>1, WaitingFacts, TypeParts, UsesFacts DEF Inv, RequestsType, InProgress
  <2>2. ASSUME NEW i \in DOMAIN next PROVE next[i] + Cardinality(Waiting') <= used'.requests
    <3>1. next[i] \in Nat /\ next[i] + Cardinality(Waiting) <= used.requests
      BY TypeParts DEF Inv, PicksType, Counted
    <3> QED BY <1>2, <2>1, <3>1
  <2> QED BY <1>3, <2>2 DEF Counted
<1> QED BY <1>4, <1>5, <1>6, TypeParts DEF Inv

\* Reading the endpoints preserves Inv, whether the request is refused or not.
LEMMA ReadEndpointsInv ==
  ASSUME Inv, NEW s \in Slots, ReadEndpoints(s),
         UNCHANGED <<specs, routes, endpoints, op, failed>>
  PROVE  Inv'
<1>1. PICK q \in Request :
        /\ req' = [req EXCEPT ![s] = q] /\ RequestType(q) /\ req[s].pc = "resolved"
        /\ q.endpoints \in Listings
  BY ReadEndpointsDoes
<1>2. UNCHANGED <<next, hits, mixed, stuck, used>> /\ used \in Usage
  BY DEF ReadEndpoints, picks, Inv, TypeOK
<1>3. RequestsType' /\ Listed'
  BY <1>1, <1>2, RequestChanges
<1>4. StoreType' /\ PicksType'
  BY <1>2, TypeParts DEF Inv, StoreType, PicksType
<1>5. Counted'
  <2>1. /\ Cardinality(Waiting) \in Nat /\ Cardinality(Waiting') \in Nat
        /\ Cardinality(Waiting') <= Cardinality(Waiting) /\ used.requests \in 0..MaxRequests
    <3>1. req \in [Slots -> Request] /\ InProgress(req[s]) /\ used.requests \in 0..MaxRequests
      BY <1>1, TypeParts, UsesFacts DEF Inv, RequestsType, InProgress
    <3>2. /\ Cardinality(Waiting) \in Nat /\ Cardinality(Waiting') \in Nat
          /\ \/ Cardinality(Waiting') = Cardinality(Waiting)
             \/ Cardinality(Waiting') = Cardinality(Waiting) - 1
      BY <1>1, <3>1, WaitingFacts
    <3> QED BY <3>1, <3>2
  <2>2. ASSUME NEW i \in DOMAIN next PROVE next[i] + Cardinality(Waiting') <= used.requests
    <3>1. next[i] \in Nat /\ next[i] + Cardinality(Waiting) <= used.requests
      BY TypeParts DEF Inv, PicksType, Counted
    <3> QED BY <2>1, <3>1
  <2> QED BY <1>2, <2>2 DEF Counted
<1> QED BY <1>3, <1>4, <1>5, TypeParts DEF Inv

\* A list of endpoints holds containers, at any place a counter or a hash selects.
LEMMA NthFacts ==
  ASSUME NEW e \in Listings, e # <<>>, NEW i \in Nat
  PROVE  /\ Len(e) \in Nat \ {0} /\ DOMAIN e = 1..Len(e)
         /\ (i % Len(e)) + 1 \in 1..Len(e) /\ Nth(e, i) = e[(i % Len(e)) + 1]
         /\ Nth(e, i) \in Containers
<1>1. e \in Seq(Containers)
  BY ListingFacts
<1>2. Len(e) \in Nat \ {0} /\ DOMAIN e = 1..Len(e)
  BY <1>1
<1>3. (i % Len(e)) + 1 \in 1..Len(e)
  <2>1. PICK L \in Nat \ {0} : L = Len(e)
    BY <1>2
  <2>2. (i % L) \in 0..(L - 1)
    BY <2>1
  <2> QED BY <2>1, <2>2, SMTT(30)
<1> QED BY <1>1, <1>2, <1>3 DEF Nth

\* A pick takes one request from those in progress.
LEMMA PickWaiting ==
  ASSUME Inv, NEW s \in Slots, PickSticky(s) \/ PickNext(s)
  PROVE  /\ used \in Usage /\ used.requests \in 0..MaxRequests
         /\ Cardinality(Waiting) \in Nat /\ Cardinality(Waiting) >= 1
         /\ Cardinality(Waiting') = Cardinality(Waiting) - 1
<1>1. req \in [Slots -> Request]
  BY TypeParts DEF Inv, RequestsType
<1>2. /\ NoRequest \in Request /\ ~InProgress(NoRequest) /\ InProgress(req[s])
      /\ req' = [req EXCEPT ![s] = NoRequest]
  BY PickDoes
<1>3. /\ Cardinality(Waiting) \in Nat /\ Cardinality(Waiting') \in Nat
      /\ Cardinality(Waiting') = Cardinality(Waiting) - 1
  BY <1>1, <1>2, WaitingFacts
<1>4. used \in Usage /\ used.requests \in 0..MaxRequests
  BY UsesFacts DEF Inv, TypeOK
<1> QED BY <1>3, <1>4

\* Selecting by affinity preserves Inv.
LEMMA PickStickyInv ==
  ASSUME Inv, NEW s \in Slots, PickSticky(s),
         UNCHANGED <<specs, routes, endpoints, op, failed>>
  PROVE  Inv'
<1>1. /\ RequestType(NoRequest) /\ NoRequest \in Request /\ NoRequest.endpoints = <<>>
      /\ req' = [req EXCEPT ![s] = NoRequest]
      /\ req[s] \in Request /\ <<req[s].key, req[s].service>> \in Named
      /\ req[s].endpoints # <<>> /\ req[s].endpoints \in Listings
  BY PickDoes
<1>2. UNCHANGED <<next, hits, mixed, used>>
  BY DEF PickSticky
<1>3. RequestsType' /\ Listed'
  BY <1>1, <1>2, RequestChanges DEF Listings, Inv, TypeOK
<1>4. PicksType'
  <2>1. PICK n, e : n = <<req[s].client, req[s].key, req[s].service, Range(req[s].endpoints)>>
                    /\ e = Nth(req[s].endpoints, req[s].client)
    OBVIOUS
  <2>2. stuck' = [stuck EXCEPT ![n] = @ \cup {e}]
    BY <2>1 DEF PickSticky
  <2>3. e \in Containers
    <3>1. req[s].client \in Nat
      <4>1. PICK r \in Request : r = req[s]
        BY <1>1
      <4>2. r.client \in Clients \cup {0}
        BY DEF Request
      <4>3. \A x \in Clients \cup {0} : x \in Nat
        BY ConstantsAssumption
      <4> QED BY <4>1, <4>2, <4>3, Zenon
    <3> QED BY <1>1, <2>1, <3>1, NthFacts
  <2>4. PicksType
    BY TypeParts DEF Inv
  <2> QED BY <1>2, <2>2, <2>3, <2>4 DEF PicksType
<1>5. StoreType'
  BY TypeParts DEF Inv, StoreType
<1>6. Counted'
  <2>1. ASSUME NEW i \in DOMAIN next PROVE next[i] + Cardinality(Waiting') <= used.requests
    <3>1. next[i] \in Nat /\ next[i] + Cardinality(Waiting) <= used.requests
      BY TypeParts DEF Inv, PicksType, Counted
    <3> QED BY <3>1, PickWaiting
  <2> QED BY <1>2, <2>1 DEF Counted
<1> QED BY <1>3, <1>4, <1>5, <1>6, TypeParts DEF Inv

\* What a round-robin pick changes.
LEMMA PickNextDoes ==
  ASSUME Inv, NEW s \in Slots, PickNext(s)
  PROVE  \E n \in Named, i \in DOMAIN next, c \in Containers, e \in Listings :
           /\ n = <<req[s].key, req[s].service>> /\ i = <<req[s].key, req[s].name>>
           /\ i = n \/ i \notin Named
           /\ e # <<>> /\ c = Nth(e, next[i])
           /\ next' = [next EXCEPT ![i] = @ + 1] /\ next[i] \in Nat
           /\ \/ /\ i = n /\ e = endpoints[n] /\ mixed' = mixed
                 /\ hits' = [hits EXCEPT ![n] = Hit(hits[n], c)]
              \/ mixed' = [mixed EXCEPT ![n] = TRUE] /\ hits' = hits
<1>1. /\ req[s] \in Request /\ <<req[s].key, req[s].service>> \in Named
      /\ req[s].name \in {req[s].service, 0}
      /\ req[s].endpoints # <<>> /\ req[s].endpoints \in Listings
  BY PickDoes
<1>2. PICK n, i, e : /\ n = <<req[s].key, req[s].service>> /\ i = <<req[s].key, req[s].name>>
                     /\ e = req[s].endpoints
  OBVIOUS
<1>3. PicksType
  BY TypeParts DEF Inv
<1>4. i \in Keys \X (Services \cup {0}) /\ req[s].key \in Keys /\ req[s].service \in Services
  BY <1>1, <1>2 DEF Named
<1>5. i \in DOMAIN next /\ next[i] \in Nat
  BY <1>3, <1>4 DEF PicksType
<1>6. i = n \/ i \notin Named
  BY <1>1, <1>2, ConstantsAssumption DEF Named
<1>7. req[s].name # 0 => i = n
  BY <1>1, <1>2
<1>8. PICK c : c = Nth(e, next[i])
  OBVIOUS
<1>9. c \in Containers
  BY <1>1, <1>2, <1>5, <1>8, NthFacts
<1>10. /\ next' = [next EXCEPT ![i] = @ + 1]
       /\ IF e = endpoints[n] /\ req[s].name # 0
          THEN hits' = [hits EXCEPT ![n] = Hit(hits[n], c)] /\ mixed' = mixed
          ELSE mixed' = [mixed EXCEPT ![n] = TRUE] /\ hits' = hits
  BY <1>2, <1>8 DEF PickNext, NextKey
<1>11. n \in Named /\ e # <<>> /\ e \in Listings
  BY <1>1, <1>2
<1>12. \/ /\ i = n /\ e = endpoints[n] /\ mixed' = mixed
          /\ hits' = [hits EXCEPT ![n] = Hit(hits[n], c)]
       \/ mixed' = [mixed EXCEPT ![n] = TRUE] /\ hits' = hits
  BY <1>7, <1>10
<1> QED BY <1>2, <1>5, <1>6, <1>8, <1>9, <1>10, <1>11, <1>12, ZenonT(30)

\* Round robin preserves Inv.
LEMMA PickNextInv ==
  ASSUME Inv, NEW s \in Slots, PickNext(s),
         UNCHANGED <<specs, routes, endpoints, op, failed>>
  PROVE  Inv'
<1>1. /\ RequestType(NoRequest) /\ NoRequest \in Request /\ NoRequest.endpoints = <<>>
      /\ req' = [req EXCEPT ![s] = NoRequest]
  BY PickDoes
<1>2. UNCHANGED <<stuck, used>>
  BY DEF PickNext
<1>3. RequestsType' /\ Listed'
  BY <1>1, <1>2, RequestChanges DEF Listings, Inv, TypeOK
<1>4. PICK n \in Named, i \in DOMAIN next, c \in Containers :
        /\ next' = [next EXCEPT ![i] = @ + 1]
        /\ \/ mixed' = mixed /\ hits' = [hits EXCEPT ![n] = Hit(hits[n], c)]
           \/ mixed' = [mixed EXCEPT ![n] = TRUE] /\ hits' = hits
  BY PickNextDoes
<1>5. PicksType
  BY TypeParts DEF Inv
<1>6. ASSUME NEW j \in DOMAIN next
      PROVE  /\ next'[j] \in 0..MaxRequests
             /\ next'[j] + Cardinality(Waiting') <= used.requests
  <2>1. /\ next[j] \in Nat /\ next[j] + Cardinality(Waiting) <= used.requests
        /\ next'[j] \in {next[j], next[j] + 1}
    BY <1>4, <1>5 DEF Inv, PicksType, Counted
  <2>2. MaxRequests \in Nat
    BY ConstantsAssumption
  <2> QED BY <2>1, <2>2, PickWaiting
<1>7. /\ DOMAIN next' = DOMAIN next /\ DOMAIN next = Keys \X (Services \cup {0})
  BY <1>4, <1>5 DEF PicksType
<1>8. next' \in [Keys \X (Services \cup {0}) -> 0..MaxRequests]
  BY <1>4, <1>6, <1>7
<1>9. hits' \in [Named -> [Containers -> Nat]] /\ mixed' \in [Named -> BOOLEAN]
  <2>1. hits[n] \in [Containers -> Nat]
    BY <1>5 DEF PicksType
  <2>2. Hit(hits[n], c) \in [Containers -> Nat]
    BY <2>1 DEF Hit
  <2>3. mixed' \in [Named -> BOOLEAN]
    <3>1. mixed \in [Named -> BOOLEAN]
      BY <1>5 DEF PicksType
    <3>2. mixed' = mixed \/ mixed' = [mixed EXCEPT ![n] = TRUE]
      BY <1>4
    <3> QED BY <3>1, <3>2, Zenon
  <2>4. hits' = hits \/ hits' = [hits EXCEPT ![n] = Hit(hits[n], c)]
    BY <1>4
  <2>5. hits \in [Named -> [Containers -> Nat]]
    BY <1>5 DEF PicksType
  <2>6. PICK h \in [Containers -> Nat] : h = Hit(hits[n], c)
    BY <2>2
  <2>7. hits' = hits \/ hits' = [hits EXCEPT ![n] = h]
    BY <2>4, <2>6
  <2>8. hits' \in [Named -> [Containers -> Nat]]
    BY <2>5, <2>7
  <2> QED BY <2>3, <2>8
<1>10. PicksType'
  BY <1>2, <1>5, <1>8, <1>9 DEF PicksType
<1>11. StoreType'
  BY TypeParts DEF Inv, StoreType
<1>12. Counted'
  BY <1>2, <1>6, <1>7 DEF Counted
<1> QED BY <1>3, <1>10, <1>11, <1>12, TypeParts DEF Inv

\* Nothing has happened yet.
LEMMA InitInv == Init => Inv
<1> SUFFICES ASSUME Init PROVE Inv
  OBVIOUS
<1>1. NoOp \in Operation /\ <<>> \in Listings /\ <<>> \in Seq(Containers)
  BY DEF NoOp, Operation, Listings
<1>2. NoRequest \in Request /\ NoRequest.pc = "idle" /\ NoRequest.endpoints = <<>>
  <2>1. PICK q : q = [pc |-> "idle", host |-> NoHost, path |-> <<>>, client |-> 0, key |-> NoDoc,
                      service |-> 0, name |-> 0, affine |-> FALSE, endpoints |-> <<>>]
    OBVIOUS
  <2>2. NoRequest = q
    BY <2>1 DEF NoRequest, Ended
  <2> QED BY <1>1, <2>1, <2>2 DEF Request
<1>3. StoreType
  <2>1. specs \in [Keys -> Documents \cup {NoDoc}] /\ \A k \in Keys : specs[k] = NoDoc
    BY DEF Init
  <2>2. routes \in Seq(InstalledRoute)
    BY DEF Init
  <2>3. op = NoOp /\ failed = FALSE
    BY DEF Init
  <2> QED BY <1>1, <2>1, <2>2, <2>3 DEF StoreType
<1>4. MaxRequests \in Nat /\ MaxOps \in Nat /\ MaxFaults \in Nat
  BY ConstantsAssumption
<1>5. PicksType
  <2>1. NoHits \in [Containers -> Nat]
    BY DEF NoHits
  <2> QED BY <1>1, <1>4, <2>1 DEF Init, PicksType
<1>6. \A s \in Slots : req[s] = NoRequest
  BY DEF Init
<1>7. RequestsType
  <2>1. used \in Usage
    BY <1>4 DEF Init, Usage
  <2>2. RequestType(NoRequest)
    BY <1>2 DEF RequestType
  <2>3. req \in [Slots -> Request]
    BY <1>2 DEF Init
  <2> QED BY <1>6, <2>1, <2>2, <2>3 DEF RequestsType
<1>8. Listed
  BY <1>1, <1>2, <1>6 DEF Listed, Init
<1>9. Counted
  <2>1. Waiting = {}
    BY <1>2, <1>6 DEF Waiting, InProgress
  <2>2. Cardinality(Waiting) = 0
    BY <2>1, FS_EmptySet
  <2> QED BY <2>2 DEF Counted, Init
<1> QED BY <1>3, <1>5, <1>7, <1>8, <1>9, TypeParts DEF Inv

\* The steps of the Manager, and of a request.
LEMMA NextInv == Inv /\ [Next]_vars => Inv'
<1> SUFFICES ASSUME Inv, [Next]_vars PROVE Inv'
  OBVIOUS
<1>1. CASE Manager
  BY <1>1, UpdateInv, InstallsInv, FailUpdateInv, RemoveRuntimeInv, ResyncInv DEF Manager
<1>2. CASE Requests
  BY <1>2, ResolveInv, ReadEndpointsInv, PickStickyInv, PickNextInv DEF Requests
<1>3. CASE UNCHANGED vars
  <2>1. UNCHANGED <<specs, routes, endpoints, next, op, req, failed, hits, mixed, stuck, used>>
    BY <1>3 DEF vars, picks
  <2>2. Waiting' = Waiting
    BY <2>1 DEF Waiting
  <2>3. StoreType' /\ PicksType' /\ RequestsType'
    BY <2>1, TypeParts DEF Inv, StoreType, PicksType, RequestsType
  <2> QED BY <2>1, <2>2, <2>3, TypeParts DEF Inv, Listed, Counted
<1> QED BY <1>1, <1>2, <1>3 DEF Next

\* The types, that endpoints are listed in order, and what the counters count.
THEOREM InvAlways == Spec => []Inv
BY InitInv, NextInv, PTL DEF Spec

\* Every reachable state of documents, routes, endpoints, counters and requests is
\* well formed; in particular no request goes on without endpoints (TypeOK).
THEOREM TypeCorrect == Spec => []TypeOK
<1>1. Inv => TypeOK
  BY DEF Inv
<1> QED BY <1>1, InvAlways, PTL

-----------------------------------------------------------------------------
(* Affinity *)

\* Endpoints that a request has read are the listing of the containers in it, so that
\* the place its client's hash selects depends on nothing else.
LEMMA NextSelected == Inv /\ Selected /\ [Next]_vars => Selected'
<1> SUFFICES ASSUME Inv, Selected, [Next]_vars PROVE Selected'
  OBVIOUS
<1>1. CASE UNCHANGED stuck
  BY <1>1 DEF Selected
<1>2. ASSUME NEW s \in Slots, PickSticky(s) PROVE Selected'
  <2>1. /\ req[s].endpoints # <<>> /\ req[s].endpoints \in Listings
        /\ stuck \in [Clients \X Keys \X Services \X Ready -> SUBSET Containers]
    BY <1>2, PickDoes, TypeParts DEF Inv, PicksType
  <2>2. PICK n, e, c : /\ e = req[s].endpoints
                       /\ n = <<req[s].client, req[s].key, req[s].service, Range(e)>>
                       /\ c = Nth(e, req[s].client)
    OBVIOUS
  <2>3. stuck' = [stuck EXCEPT ![n] = @ \cup {c}]
    BY <1>2, <2>2 DEF PickSticky
  <2>4. e = Ranked(Range(e), Ascending)
    BY <2>1, <2>2, ListingFacts
  <2>5. c = Nth(Ranked(n[4], Ascending), n[1])
    BY <2>2, <2>4
  <2>6. ASSUME NEW m \in DOMAIN stuck, NEW x \in stuck'[m]
        PROVE  x = Nth(Ranked(m[4], Ascending), m[1])
    BY <2>1, <2>3, <2>5, <2>6 DEF Selected
  <2>7. DOMAIN stuck' = DOMAIN stuck
    BY <2>3
  <2> QED BY <2>6, <2>7 DEF Selected
<1>3. CASE Manager
  BY <1>1, <1>3 DEF Manager, Update, Installs, Install, FailUpdate, RemoveRuntime, Resync, Caches,
                    picks
<1>4. CASE Requests
  BY <1>1, <1>2, <1>4 DEF Requests, Resolve, ReadEndpoints, PickNext, picks
<1>5. CASE UNCHANGED vars
  BY <1>1, <1>5 DEF vars, picks
<1> QED BY <1>3, <1>4, <1>5 DEF Next

\* A client of a service with affinity gets the same container of the same containers,
\* through updates, removals, restarts and Resync (ClientsStick): selectEndpoint over
\* the endpoints that discoverEndpoints has sorted.
THEOREM ClientsAlwaysStick == Spec => []ClientsStick
<1>1. Init => Selected
  BY DEF Init, Selected
<1>2. Spec => []Selected
  BY <1>1, NextSelected, InvAlways, PTL DEF Spec
<1>3. Inv /\ Selected => ClientsStick
  <2> SUFFICES ASSUME Selected, NEW n \in DOMAIN stuck PROVE Cardinality(stuck[n]) <= 1
    BY DEF ClientsStick
  <2>1. PICK c : c = Nth(Ranked(n[4], Ascending), n[1])
    OBVIOUS
  <2>2. stuck[n] \in SUBSET {c}
    BY <2>1 DEF Selected
  <2>3. /\ IsFiniteSet({c}) /\ Cardinality({c}) = 1
        /\ IsFiniteSet({}) /\ Cardinality({}) = 0
    BY FS_Singleton, FS_EmptySet
  <2>4. stuck[n] = {} \/ stuck[n] = {c}
    BY <2>2
  <2> QED BY <2>3, <2>4
<1> QED BY <1>2, <1>3, InvAlways, PTL

-----------------------------------------------------------------------------
(* Routing *)

\* Conflicts are mutual, and documents that agree on every Runtime are as coherent.
LEMMA CoherentFacts ==
  /\ \A r, q : Conflict(r, q) <=> Conflict(q, r)
  /\ \A docs, others : (\A k \in Keys : docs[k] = others[k]) => (Coherent(docs) <=> Coherent(others))
<1>1. ASSUME NEW r, NEW q PROVE Conflict(r, q) <=> Conflict(q, r)
  <2>1. {r.host, q.host} = {q.host, r.host}
    OBVIOUS
  <2> QED BY <2>1 DEF Conflict, HostsOverlap
<1>2. ASSUME NEW docs, NEW others, \A k \in Keys : docs[k] = others[k]
      PROVE  Coherent(docs) <=> Coherent(others)
  BY <1>2 DEF Coherent
<1> QED BY <1>1, <1>2

\* Between operations the routes installed are those of the documents in memory.
LEMMA InstalledFacts ==
  ASSUME StoreType
  PROVE  /\ op = NoOp => \A k \in Keys : Installed(k) = specs[k]
         /\ op' = NoOp => \A k \in Keys : Installed(k)' = specs'[k]
         /\ \A r \in Range(routes) : r \in InstalledRoute /\ r.key \in Keys
<1>1. \A k \in Keys : k # NoOp.key
  BY ConstantsAssumption, DocumentFacts
<1>2. \A r \in Range(routes) : r \in InstalledRoute
  BY DEF StoreType, Range
<1>3. \A r \in InstalledRoute : r.key \in Keys
  BY DEF InstalledRoute
<1> QED BY <1>1, <1>2, <1>3 DEF Installed

\* An admitted document is coherent with those of the other Runtimes.
LEMMA AdmittedFacts ==
  ASSUME NEW k \in Keys, NEW d, d # NoDoc, Admissible(k, d), Coherent(specs),
         specs \in [Keys -> Documents \cup {NoDoc}], NEW docs, docs = [specs EXCEPT ![k] = d]
  PROVE  Coherent(docs)
<1>1. \A j \in Keys : docs[j] = IF j = k THEN d ELSE specs[j]
  OBVIOUS
<1>2. ASSUME NEW j \in Keys, docs[j] # NoDoc, NEW m \in DOMAIN docs[j].routes,
             NEW n \in DOMAIN docs[j].routes, m # n
      PROVE  ~Conflict(docs[j].routes[m], docs[j].routes[n])
  BY <1>1, <1>2 DEF Coherent, Admissible
<1>3. ASSUME NEW i \in Keys, NEW j \in Keys, i # j, docs[i] # NoDoc, docs[j] # NoDoc,
             NEW r \in Range(docs[i].routes), NEW q \in Range(docs[j].routes)
      PROVE  ~Conflict(r, q)
  <2>1. CASE i = k
    <3>1. docs[i] = d /\ docs[j] = specs[j] /\ j \in Keys \ {k}
      BY <1>1, <1>3, <2>1
    <3> QED BY <1>3, <3>1 DEF Admissible
  <2>2. CASE j = k
    <3>1. docs[j] = d /\ docs[i] = specs[i] /\ i \in Keys \ {k}
      BY <1>1, <1>3, <2>2
    <3>2. ~Conflict(q, r)
      BY <1>3, <3>1 DEF Admissible
    <3> QED BY <3>2, CoherentFacts
  <2>3. CASE i # k /\ j # k
    <3>1. docs[j] = specs[j] /\ docs[i] = specs[i]
      BY <1>1, <2>3
    <3> QED BY <1>3, <3>1 DEF Coherent
  <2> QED BY <2>1, <2>2, <2>3
<1> QED BY <1>2, <1>3 DEF Coherent

\* Routed in the parts that an operation changes.
Sorted(s) == \A m, n \in DOMAIN s : m < n => Len(s[m].prefix) >= Len(s[n].prefix)
Comes(r, d) == d # NoDoc /\ \E i \in DOMAIN d.routes : r = RouteAt(r.key, d, i)

\* The head of Apply puts a document in memory that was admitted with the others, and
\* the routes are still those of the document before.
LEMMA UpdateRouted ==
  ASSUME Inv, Routed, NEW k \in Keys, NEW d \in DocsOf[k], Update(k, d)
  PROVE  Routed'
<1>1. StoreType
  BY TypeParts DEF Inv
<1>2. d \in Documents /\ d # NoDoc
  BY <1>1, DocumentFacts, ConstantsAssumption
<1>3. /\ op = NoOp /\ Admissible(k, d) /\ op' = [key |-> k, doc |-> d, previous |-> specs[k]]
      /\ specs' = [specs EXCEPT ![k] = d] /\ routes' = routes /\ failed' = failed
  BY DEF Update, Free
<1>4. specs \in [Keys -> Documents \cup {NoDoc}]
  BY <1>1 DEF StoreType
<1>5. \A j \in Keys : Installed(j)' = specs[j] /\ Installed(j) = specs[j]
  BY <1>1, <1>3, <1>4, InstalledFacts DEF Installed
<1>6. op'.doc = specs'[op'.key]
  BY <1>3, <1>4
<1>7. ASSUME ~failed
      PROVE  /\ Coherent(specs') /\ Coherent([j \in Keys |-> Installed(j)'])
             /\ \A r \in Range(routes) : Comes(r, Installed(r.key)')
  <2>1. /\ Coherent(specs)
        /\ \A r \in Range(routes) : Comes(r, Installed(r.key))
    BY <1>7 DEF Routed, Comes
  <2>2. Coherent(specs')
    BY <1>2, <1>3, <1>4, <2>1, AdmittedFacts
  <2>3. PICK now : now = [j \in Keys |-> Installed(j)']
    OBVIOUS
  <2>4. \A j \in Keys : now[j] = specs[j]
    BY <1>5, <2>3
  <2>5. Coherent(now)
    BY <2>1, <2>4, CoherentFacts
  <2>6. \A r \in Range(routes) : Comes(r, Installed(r.key)')
    BY <1>1, <1>5, <2>1, InstalledFacts
  <2> QED BY <2>2, <2>3, <2>5, <2>6
<1> QED BY <1>3, <1>6, <1>7 DEF Routed, Comes, Coherent, RouteAt

\* A failure ends what Routed says of documents.
LEMMA FailUpdateRouted == Routed /\ FailUpdate => Routed'
BY DEF Routed, FailUpdate

\* The routes of the other Runtimes, and those of the document that was admitted.
LEMMA InstallsRouted ==
  ASSUME Inv, Routed, Installs
  PROVE  Routed'
<1>1. StoreType /\ op # NoOp /\ op.key \in Keys /\ op.doc \in Documents
  BY TypeParts, DocumentFacts DEF Inv, Installs
<1>2. PICK a, b \in Seq(InstalledRoute) :
        /\ a = OthersRoutes(op.key) /\ b = RoutesOf(op.key, op.doc)
        /\ Range(a) = {r \in Range(routes) : r.key # op.key}
        /\ \A r \in Range(b) : \E i \in DOMAIN op.doc.routes : r = RouteAt(op.key, op.doc, i)
  <2>1. /\ OthersRoutes(op.key) \in Seq(InstalledRoute)
        /\ Range(OthersRoutes(op.key)) = {r \in Range(routes) : r.key # op.key}
    BY <1>1, OthersFacts DEF StoreType
  <2>2. /\ RoutesOf(op.key, op.doc) \in Seq(InstalledRoute)
        /\ \A r \in Range(RoutesOf(op.key, op.doc)) :
             \E i \in DOMAIN op.doc.routes : r = RouteAt(op.key, op.doc, i)
    BY <1>1, RoutesOfFacts
  <2> QED BY <2>1, <2>2, Zenon
<1>3. /\ routes' = SortRoutes(a \o b) /\ op' = NoOp /\ specs' = specs /\ failed' = failed
      /\ op.doc = specs[op.key]
  BY <1>1, <1>2 DEF Installs, Install, Routed
<1>4. PICK c \in Seq(InstalledRoute) : c = a \o b
  <2>1. a \o b \in Seq(InstalledRoute)
    OBVIOUS
  <2> QED BY <2>1
<1>5. Range(routes') = Range(c) /\ Sorted(routes')
  <2>1. PICK t : t = SortRoutes(c)
    OBVIOUS
  <2>2. /\ Range(t) = Range(c)
        /\ \A m, n \in DOMAIN t : m < n => Len(t[m].prefix) >= Len(t[n].prefix)
    BY <2>1, SortedRoutes
  <2> QED BY <1>3, <1>4, <2>1, <2>2 DEF Sorted
<1>6. ASSUME NEW r \in Range(c) PROVE r \in Range(a) \/ r \in Range(b)
  <2>1. PICK i \in 1..Len(c) : r = c[i]
    BY <1>6 DEF Range
  <2>2. Len(c) = Len(a) + Len(b) /\ c[i] = IF i <= Len(a) THEN a[i] ELSE b[i - Len(a)]
    BY <1>4
  <2>3. CASE i <= Len(a)
    <3>1. i \in DOMAIN a /\ r = a[i]
      BY <2>1, <2>2, <2>3
    <3> QED BY <3>1 DEF Range
  <2>4. CASE i > Len(a)
    <3>1. i - Len(a) \in DOMAIN b /\ r = b[i - Len(a)]
      BY <2>1, <2>2, <2>4
    <3> QED BY <3>1 DEF Range
  <2> QED BY <2>3, <2>4
<1>7. \A j \in Keys : Installed(j)' = specs[j]
  BY <1>1, <1>3, InstalledFacts
<1>8. \A j \in Keys : j # op.key => Installed(j) = specs[j]
  BY DEF Installed
<1>9. ASSUME ~failed
      PROVE  /\ Coherent(specs) /\ Coherent([j \in Keys |-> Installed(j)'])
             /\ \A r \in Range(routes') : Comes(r, Installed(r.key)')
  <2>1. /\ Coherent(specs)
        /\ \A r \in Range(routes) : Comes(r, Installed(r.key))
    BY <1>9 DEF Routed, Comes
  <2>2. PICK now : now = [j \in Keys |-> Installed(j)']
    OBVIOUS
  <2>3. \A j \in Keys : now[j] = specs[j]
    BY <1>7, <2>2
  <2>4. Coherent(now)
    BY <2>1, <2>3, CoherentFacts
  <2>5. ASSUME NEW r \in Range(routes') PROVE Comes(r, Installed(r.key)')
    <3>1. CASE r \in Range(a)
      <4>1. r \in Range(routes) /\ r.key # op.key
        BY <1>2, <3>1
      <4>2. r.key \in Keys /\ Comes(r, Installed(r.key))
        BY <1>1, <2>1, <4>1, InstalledFacts
      <4> QED BY <1>7, <1>8, <4>1, <4>2
    <3>2. CASE r \in Range(b)
      <4>1. PICK i \in DOMAIN op.doc.routes : r = RouteAt(op.key, op.doc, i)
        BY <1>2, <3>2
      <4>2. r.key = op.key
        BY <4>1 DEF RouteAt
      <4>3. Installed(r.key)' = op.doc /\ op.doc # NoDoc
        BY <1>1, <1>3, <1>7, <4>2, ConstantsAssumption
      <4> QED BY <4>1, <4>2, <4>3 DEF Comes
    <3> QED BY <1>5, <1>6, <2>5, <3>1, <3>2
  <2> QED BY <2>1, <2>2, <2>4, <2>5
<1> QED BY <1>3, <1>5, <1>9 DEF Routed, Comes, Sorted, Coherent, RouteAt

\* The routes of the other Runtimes stay.
LEMMA RemoveRouted ==
  ASSUME Inv, Routed, NEW k \in Keys, RemoveRuntime(k)
  PROVE  Routed'
<1>1. StoreType
  BY TypeParts DEF Inv
<1>2. PICK a \in Seq(InstalledRoute) :
        a = OthersRoutes(k) /\ Range(a) = {r \in Range(routes) : r.key # k} /\ Sorted(a)
  BY <1>1, OthersFacts DEF StoreType, Sorted, Routed
<1>3. /\ routes' = a /\ op = NoOp /\ op' = NoOp /\ failed' = failed
      /\ specs' = [specs EXCEPT ![k] = NoDoc]
  BY <1>2 DEF RemoveRuntime, Free
<1>4. \A j \in Keys : specs'[j] = IF j = k THEN NoDoc ELSE specs[j]
  BY <1>1, <1>3 DEF StoreType
<1>5. \A j \in Keys : Installed(j)' = specs'[j] /\ Installed(j) = specs[j]
  BY <1>1, <1>3, InstalledFacts
<1>6. ASSUME ~failed
      PROVE  /\ Coherent(specs') /\ Coherent([j \in Keys |-> Installed(j)'])
             /\ \A r \in Range(a) : Comes(r, Installed(r.key)')
  <2>1. /\ Coherent(specs)
        /\ \A r \in Range(routes) : Comes(r, Installed(r.key))
    BY <1>6 DEF Routed, Comes
  <2>2. PICK now, new : now = [j \in Keys |-> Installed(j)'] /\ new = specs'
    OBVIOUS
  <2>3. \A j \in Keys : now[j] = new[j] /\ new[j] = IF j = k THEN NoDoc ELSE specs[j]
    BY <1>4, <1>5, <2>2
  <2>4. Coherent(new)
    BY <2>1, <2>3 DEF Coherent
  <2>5. Coherent(now)
    BY <2>3, <2>4, CoherentFacts
  <2>6. ASSUME NEW r \in Range(a) PROVE Comes(r, Installed(r.key)')
    <3>1. r \in Range(routes) /\ r.key # k
      BY <1>2, <2>6
    <3>2. r.key \in Keys /\ Comes(r, specs[r.key])
      BY <1>1, <1>5, <2>1, <3>1, InstalledFacts
    <3>3. Installed(r.key)' = specs[r.key]
      BY <1>4, <1>5, <3>1, <3>2
    <3> QED BY <3>2, <3>3
  <2> QED BY <2>2, <2>4, <2>5, <2>6
<1> QED BY <1>2, <1>3, <1>6 DEF Routed, Comes, Sorted, Coherent, RouteAt

\* Other steps change neither documents nor routes.
LEMMA NextRouted == Inv /\ Routed /\ [Next]_vars => Routed'
<1> SUFFICES ASSUME Inv, Routed, [Next]_vars PROVE Routed'
  OBVIOUS
<1>1. ASSUME UNCHANGED <<specs, routes, op, failed>> PROVE Routed'
  <2>1. /\ \A k \in Keys : Installed(k) = Installed(k)'
        /\ \A r \in Range(routes) : Installed(r.key) = Installed(r.key)'
    BY <1>1 DEF Installed
  <2>2. PICK then, now : then = [k \in Keys |-> Installed(k)] /\ now = [k \in Keys |-> Installed(k)']
    OBVIOUS
  <2>3. then = now
    BY <2>1, <2>2
  <2> QED BY <1>1, <2>1, <2>2, <2>3 DEF Routed, Coherent, RouteAt
<1>2. CASE Manager
  BY <1>1, <1>2, UpdateRouted, FailUpdateRouted, InstallsRouted, RemoveRouted DEF Manager, Resync
<1>3. CASE Requests
  BY <1>1, <1>3 DEF Requests
<1>4. CASE UNCHANGED vars
  BY <1>1, <1>4 DEF vars
<1> QED BY <1>2, <1>3, <1>4 DEF Next

\* The paths of documents start with a slash.
LEMMA PrefixFacts ==
  ASSUME NEW p \in RoutePrefixes
  PROVE  p \in Seq(Characters) /\ Len(p) >= 1 /\ p[1] = Slash
<1>1. PICK d \in Documents : \E r \in Range(d.routes) : p = r.prefix
  BY DEF RoutePrefixes
<1>2. PICK r \in Range(d.routes) : p = r.prefix
  BY <1>1
<1>3. /\ d.routes \in Seq([host : RouteHosts, prefix : Seq(Characters), service : d.services])
      /\ p # <<>> /\ p[1] = Slash
  BY <1>2, ConstantsAssumption
<1>4. r \in [host : RouteHosts, prefix : Seq(Characters), service : d.services]
  <2> DEFINE Rule == [host : RouteHosts, prefix : Seq(Characters), service : d.services]
  <2>1. d.routes \in Seq(Rule)
    BY <1>3
  <2> HIDE DEF Rule
  <2>2. \A i \in DOMAIN d.routes : d.routes[i] \in Rule
    BY <2>1
  <2>3. r \in Rule
    BY <2>2 DEF Range
  <2> QED BY <2>3 DEF Rule
<1>5. p \in Seq(Characters)
  BY <1>2, <1>4
<1> QED BY <1>3, <1>5

\* A slash is a character.
LEMMA SlashFacts == Slash \in Characters
<1>1. PICK S : Characters = {Slash} \cup S
  BY DEF Characters
<1> QED BY <1>1

\* Without its slashes, a path that ends in none is itself, and one that ends in one is
\* without its last character.
LEMMA TrimmedFacts ==
  ASSUME NEW C, NEW p \in Seq(C), NEW n \in 0..Len(p),
         n # 0 => p[n] # Slash, \A i \in (n + 1)..Len(p) : p[i] = Slash
  PROVE  Trimmed(p) = SubSeq(p, 1, n)
<1> DEFINE I == {0} \cup {i \in DOMAIN p : p[i] # Slash}
<1>1. n \in I /\ I \subseteq Int
  OBVIOUS
<1>2. \A i \in I : i <= n
  OBVIOUS
<1>3. PICK m : m = Max(I)
  OBVIOUS
<1>4. m \in I /\ \A i \in I : m >= i
  <2> HIDE DEF I
  <2>1. \E x \in I : \A y \in I : x >= y
    BY <1>1, <1>2
  <2> QED BY <1>3, <2>1 DEF Max
<1>5. m = n
  BY <1>1, <1>2, <1>4
<1> QED BY <1>3, <1>5 DEF Trimmed

\* A request that a path with at most one slash at the end serves starts with that path.
LEMMA ServedPrefix ==
  ASSUME NEW prefix \in RoutePrefixes, NEW path \in Paths, ~Padded(prefix), prefix # Root,
         PathMatches(path, prefix)
  PROVE  \A i \in 1..Len(prefix) : i <= Len(path) /\ path[i] = prefix[i]
<1>1. PICK p, q \in Seq(Characters) : p = prefix /\ q = path
  BY PrefixFacts, ConstantsAssumption
<1>2. Len(p) \in Nat /\ Len(q) \in Nat /\ Len(p) >= 1 /\ p[1] = Slash
  BY <1>1, PrefixFacts
<1>3. Len(p) > 1 /\ p[Len(p)] = Slash => p[Len(p) - 1] # Slash
  BY <1>1 DEF Padded
<1>4. q = p \/ IsPrefix(Append(Trimmed(p), Slash), q)
  BY <1>1 DEF PathMatches
<1>5. CASE q = p
  BY <1>1, <1>2, <1>5
<1>6. CASE p[Len(p)] # Slash /\ IsPrefix(Append(Trimmed(p), Slash), q)
  <2>1. Trimmed(p) = SubSeq(p, 1, Len(p))
    BY <1>2, <1>6, TrimmedFacts
  <2>2. Trimmed(p) = p
    BY <2>1
  <2>3. PICK t \in Seq(Characters) : t = Append(p, Slash)
    <3>1. Append(p, Slash) \in Seq(Characters)
      BY SlashFacts
    <3> QED BY <3>1, Zenon
  <2>4. Len(t) = Len(p) + 1 /\ \A i \in 1..Len(p) : t[i] = p[i]
    BY <1>2, <2>3
  <2>5. SubSeq(t, 1, Len(t)) = SubSeq(q, 1, Len(t)) /\ Len(t) <= Len(q)
    BY <1>6, <2>2, <2>3 DEF IsPrefix
  <2>6. \A i \in 1..Len(p) : i <= Len(q) /\ q[i] = t[i]
    BY <1>2, <2>4, <2>5
  <2> QED BY <1>1, <2>4, <2>6
<1>7. CASE p[Len(p)] = Slash /\ IsPrefix(Append(Trimmed(p), Slash), q)
  <2>1. Len(p) > 1
    <3>1. PICK one \in Seq(Characters) : one = <<Slash>>
      <4>1. <<Slash>> \in Seq(Characters)
        BY SlashFacts
      <4> QED BY <4>1, Zenon
    <3>2. Len(one) = 1 /\ one[1] = Slash
      BY <3>1
    <3>3. Len(p) = 1 => p = one
      BY <1>2, <3>2
    <3> QED BY <1>1, <1>2, <3>1, <3>3 DEF Root
  <2>2. PICK n \in Nat : n = Len(p) - 1 /\ n >= 1 /\ p[n] # Slash
    BY <1>2, <1>3, <1>7, <2>1
  <2>3. Trimmed(p) = SubSeq(p, 1, n)
    <3>1. n \in 0..Len(p) /\ \A i \in (n + 1)..Len(p) : p[i] = Slash
      BY <1>2, <1>7, <2>2
    <3> QED BY <2>2, <3>1, TrimmedFacts
  <2>4. PICK u \in Seq(Characters) : u = SubSeq(p, 1, n)
    <3>1. SubSeq(p, 1, n) \in Seq(Characters)
      BY <1>2, <2>2
    <3> QED BY <3>1, Zenon
  <2>5. Len(u) = n /\ \A i \in 1..n : u[i] = p[i]
    BY <1>2, <2>2, <2>4
  <2>6. PICK t \in Seq(Characters) : t = Append(u, Slash)
    <3>1. Append(u, Slash) \in Seq(Characters)
      BY SlashFacts
    <3> QED BY <3>1, Zenon
  <2>7. Len(t) = Len(p) /\ \A i \in 1..Len(p) : t[i] = p[i]
    BY <1>2, <1>7, <2>2, <2>5, <2>6
  <2>8. SubSeq(t, 1, Len(t)) = SubSeq(q, 1, Len(t)) /\ Len(t) <= Len(q)
    BY <1>7, <2>3, <2>4, <2>6 DEF IsPrefix
  <2>9. \A i \in 1..Len(p) : i <= Len(q) /\ q[i] = t[i]
    BY <1>2, <2>7, <2>8
  <2> QED BY <1>1, <2>7, <2>9
<1> QED BY <1>4, <1>5, <1>6, <1>7

\* Two routes that match, with prefixes of the same length and at most one slash at the
\* end, conflict.
LEMMA MatchesConflict ==
  ASSUME NEW r \in InstalledRoute, NEW q \in InstalledRoute, NEW host, NEW path \in Paths,
         Matches(r, host, path), Matches(q, host, path), Len(r.prefix) = Len(q.prefix),
         ~Padded(r.prefix), ~Padded(q.prefix)
  PROVE  Conflict(r, q)
<1>1. /\ r.prefix \in RoutePrefixes /\ q.prefix \in RoutePrefixes
      /\ PathMatches(path, r.prefix) /\ PathMatches(path, q.prefix)
  BY DEF Matches, Serves
<1>2. PICK a, b \in Seq(Characters) :
        /\ a = r.prefix /\ b = q.prefix /\ Len(a) = Len(b) /\ Len(a) >= 1
        /\ a[1] = Slash /\ b[1] = Slash
  BY <1>1, PrefixFacts
<1>3. \A i \in 1..Len(a) : a[i] = b[i]
  <2>1. CASE a = Root \/ b = Root
    <3>1. Len(a) = 1
      BY <1>2, <2>1 DEF Root
    <3> QED BY <1>2, <3>1
  <2>2. CASE a # Root /\ b # Root
    <3>1. \A i \in 1..Len(a) : path[i] = a[i]
      BY <1>1, <1>2, <2>2, ServedPrefix
    <3>2. \A i \in 1..Len(b) : path[i] = b[i]
      BY <1>1, <1>2, <2>2, ServedPrefix
    <3> QED BY <1>2, <3>1, <3>2
  <2> QED BY <2>1, <2>2
<1>4. a = b
  BY <1>2, <1>3
<1>5. HostsOverlap(r.host, q.host)
  BY DEF Matches, HostMatches, HostsOverlap
<1> QED BY <1>2, <1>4, <1>5 DEF Conflict

\* Two routes that come from coherent documents and conflict are one.
LEMMA ConflictsAreOne ==
  ASSUME NEW docs, Coherent(docs), NEW r, NEW q, r.key \in Keys, q.key \in Keys,
         Comes(r, docs[r.key]), Comes(q, docs[q.key]), Conflict(r, q)
  PROVE  r = q
<1>1. PICK m \in DOMAIN docs[r.key].routes, n \in DOMAIN docs[q.key].routes :
        /\ r = RouteAt(r.key, docs[r.key], m) /\ q = RouteAt(q.key, docs[q.key], n)
        /\ docs[r.key] # NoDoc /\ docs[q.key] # NoDoc
  BY DEF Comes
<1>2. PICK j, k \in Keys : j = r.key /\ k = q.key
  OBVIOUS
<1>3. PICK x, y : x = docs[j].routes[m] /\ y = docs[k].routes[n]
  OBVIOUS
<1>4. r.host = x.host /\ r.prefix = x.prefix /\ q.host = y.host /\ q.prefix = y.prefix
  BY <1>1, <1>2, <1>3 DEF RouteAt
<1>5. Conflict(x, y)
  BY <1>4 DEF Conflict
<1>6. CASE j # k
  <2>1. x \in Range(docs[j].routes) /\ y \in Range(docs[k].routes)
    BY <1>1, <1>2, <1>3 DEF Range
  <2> QED BY <1>1, <1>2, <1>5, <1>6, <2>1 DEF Coherent
<1>7. CASE j = k
  <2>1. m = n
    BY <1>1, <1>2, <1>3, <1>5, <1>7 DEF Coherent
  <2> QED BY <1>1, <1>2, <1>7, <2>1
<1> QED BY <1>6, <1>7

\* The first match in the order of sortRoutes is the one route with the longest prefix
\* that matches (LongestPrefixWins): Scheduler Lite admits no two routes that a request
\* could match with the same prefix, and Installs and Remove keep the order.  None of
\* the routes that match ends in two slashes: those may be of the length of another.
THEOREM LongestPrefixAlwaysWins == Spec => []LongestPrefixWins
<1>1. Init => Routed
  <2> SUFFICES ASSUME Init PROVE Routed
    OBVIOUS
  <2>1. \A k \in Keys : specs[k] = NoDoc /\ Installed(k) = NoDoc
    BY ConstantsAssumption DEF Init, Installed, NoOp
  <2>2. PICK now : now = [k \in Keys |-> Installed(k)]
    OBVIOUS
  <2>3. \A k \in Keys : now[k] = NoDoc
    BY <2>1, <2>2
  <2>4. Coherent(specs) /\ Coherent(now)
    BY <2>1, <2>3 DEF Coherent
  <2>5. DOMAIN routes = {} /\ Range(routes) = {} /\ op = NoOp
    BY DEF Init, Range
  <2> QED BY <2>2, <2>4, <2>5 DEF Routed
<1>2. Inv /\ Routed => LongestPrefixWins
  <2> SUFFICES ASSUME Inv, Routed, ~failed, NEW host \in Hosts, NEW path \in Paths,
                      IsRouted(host, path), Plain(host, path)
               PROVE  Longest(host, path) = {Resolved(host, path)}
    BY DEF LongestPrefixWins
  <2>1. StoreType
    BY TypeParts DEF Inv
  <2>2. PICK i \in Found(host, path) :
          /\ i \in DOMAIN routes /\ Resolved(host, path) = routes[i]
          /\ \A j \in Found(host, path) : i <= j
          /\ Matches(routes[i], host, path) /\ routes[i] \in InstalledRoute
    BY <2>1, ResolvedFacts DEF StoreType
  <2>3. PICK r \in InstalledRoute : r = routes[i] /\ Matches(r, host, path) /\ r \in Range(routes)
    BY <2>2 DEF Range
  <2>4. ASSUME NEW q \in Range(routes), Matches(q, host, path)
        PROVE  /\ Len(q.prefix) <= Len(r.prefix)
               /\ Len(q.prefix) = Len(r.prefix) => q = r
    <3>1. PICK j \in DOMAIN routes : q = routes[j]
      BY <2>4 DEF Range
    <3>2. j \in Found(host, path) /\ i <= j
      BY <2>2, <2>4, <3>1 DEF Found
    <3>3. q \in InstalledRoute /\ q.key \in Keys /\ r.key \in Keys
      BY <2>1, <2>3, <2>4, InstalledFacts
    <3>4. Len(q.prefix) \in Nat /\ Len(r.prefix) \in Nat
      <4>1. q.prefix \in Seq(Characters) /\ r.prefix \in Seq(Characters)
        BY <3>3 DEF InstalledRoute
      <4> QED BY <4>1
    <3>5. i = j \/ Len(r.prefix) >= Len(q.prefix)
      BY <2>1, <2>2, <2>3, <3>1, <3>2 DEF Routed, StoreType
    <3>6. Len(q.prefix) <= Len(r.prefix)
      BY <2>3, <3>1, <3>4, <3>5
    <3>8. ~Padded(q.prefix) /\ ~Padded(r.prefix)
      BY <2>2, <2>3, <3>1, <3>2 DEF Plain
    <3>7. ASSUME Len(q.prefix) = Len(r.prefix) PROVE q = r
      <4>1. Conflict(q, r)
        BY <2>3, <2>4, <3>3, <3>7, <3>8, MatchesConflict
      <4>2. PICK docs : docs = [k \in Keys |-> Installed(k)]
        OBVIOUS
      <4>3. Coherent(docs) /\ Comes(q, docs[q.key]) /\ Comes(r, docs[r.key])
        BY <2>3, <2>4, <3>3, <4>2 DEF Routed, Comes
      <4> QED BY <3>3, <4>1, <4>3, ConflictsAreOne
    <3> QED BY <3>6, <3>7
  <2>5. \A q : q \in Longest(host, path) <=> q = r
    <3>1. ASSUME NEW q \in Longest(host, path) PROVE q = r
      <4>1. /\ q \in Range(routes) /\ Matches(q, host, path) /\ Len(r.prefix) <= Len(q.prefix)
        BY <2>3, <3>1 DEF Longest
      <4>2. Len(q.prefix) \in Nat /\ Len(r.prefix) \in Nat
        <5>1. q.prefix \in Seq(Characters) /\ r.prefix \in Seq(Characters)
          BY <2>1, <2>3, <4>1, InstalledFacts DEF InstalledRoute
        <5> QED BY <5>1
      <4> QED BY <2>4, <4>1, <4>2
    <3>2. r \in Longest(host, path)
      BY <2>3, <2>4 DEF Longest
    <3> QED BY <3>1, <3>2
  <2> QED BY <2>2, <2>3, <2>5
<1>3. Spec => []Routed
  BY <1>1, NextRouted, InvAlways, PTL DEF Spec
<1> QED BY <1>2, <1>3, InvAlways, PTL

-----------------------------------------------------------------------------
(* Updates and requests *)

\* What becomes of a request in a step: nothing, or it ends, is resolved, is refused
\* because it finds no endpoints, or goes on for the same service.
LEMMA RequestSteps ==
  ASSUME Inv, [Next]_vars, NEW s \in Slots
  PROVE  \/ req'[s] = req[s]
         \/ req'[s].pc = "idle"
         \/ /\ ~InProgress(req[s]) /\ InProgress(req'[s])
            /\ UNCHANGED <<specs, routes, endpoints>>
            /\ IsRouted(req'[s].host, req'[s].path)
            /\ req'[s].key = Resolved(req'[s].host, req'[s].path).key
            /\ req'[s].service = Resolved(req'[s].host, req'[s].path).service
         \/ /\ InProgress(req[s]) /\ req'[s].pc = "refused"
            /\ endpoints[<<req[s].key, req[s].service>>] = <<>>
         \/ /\ InProgress(req[s]) /\ InProgress(req'[s])
            /\ req'[s].key = req[s].key /\ req'[s].service = req[s].service
<1>1. CASE UNCHANGED req
  BY <1>1
<1>2. req \in [Slots -> Request]
  BY TypeParts DEF Inv, RequestsType
<1>3. CASE Requests
  <2>1. PICK t \in Slots :
          \/ ReadEndpoints(t) \/ PickSticky(t) \/ PickNext(t)
          \/ \E host \in Hosts, path \in Paths, client \in Clients : Resolve(t, host, path, client)
    BY <1>3 DEF Requests
  <2>2. UNCHANGED <<specs, routes, endpoints>>
    BY <1>3 DEF Requests
  <2>3. CASE ReadEndpoints(t)
    <3>1. PICK q \in Request :
            /\ req' = [req EXCEPT ![t] = q] /\ req[t].pc = "resolved"
            /\ \/ q.pc = "refused" /\ endpoints[<<req[t].key, req[t].service>>] = <<>>
               \/ q.pc = "read" /\ q.key = req[t].key /\ q.service = req[t].service
      BY <2>3, ReadEndpointsDoes
    <3> QED BY <1>2, <3>1 DEF InProgress
  <2>4. CASE PickSticky(t) \/ PickNext(t)
    <3>1. req' = [req EXCEPT ![t] = NoRequest] /\ NoRequest.pc = "idle"
      BY <2>4, PickDoes
    <3> QED BY <1>2, <3>1
  <2>5. ASSUME NEW host \in Hosts, NEW path \in Paths, NEW client \in Clients,
               Resolve(t, host, path, client)
        PROVE  \/ req'[s] = req[s]
               \/ /\ ~InProgress(req[s]) /\ InProgress(req'[s])
                  /\ IsRouted(req'[s].host, req'[s].path)
                  /\ req'[s].key = Resolved(req'[s].host, req'[s].path).key
                  /\ req'[s].service = Resolved(req'[s].host, req'[s].path).service
    <3>1. PICK q \in Request :
            /\ req' = [req EXCEPT ![t] = q] /\ ~InProgress(req[t])
            /\ q.pc = "resolved" /\ q.host = host /\ q.path = path /\ IsRouted(host, path)
            /\ q.key = Resolved(host, path).key /\ q.service = Resolved(host, path).service
      BY <2>5, ResolveDoes
    <3> QED BY <1>2, <3>1 DEF InProgress
  <2> QED BY <2>1, <2>2, <2>3, <2>4, <2>5
<1>4. CASE Manager
  BY <1>1, <1>4 DEF Manager
<1>5. CASE UNCHANGED vars
  BY <1>1, <1>5 DEF vars
<1> QED BY <1>3, <1>4, <1>5 DEF Next

\* An answer is no service, or one with endpoints.
LEMMA AnswerFacts ==
  /\ \A host, path : Answer(host, path)' = <<>> \/ endpoints'[Answer(host, path)'] # <<>>
  /\ UNCHANGED <<specs, routes>> =>
       \A host, path : /\ IsRouted(host, path)' <=> IsRouted(host, path)
                       /\ Resolved(host, path)' = Resolved(host, path)
<1>1. ASSUME NEW host, NEW path
      PROVE  Answer(host, path)' = <<>> \/ endpoints'[Answer(host, path)'] # <<>>
  BY DEF Answer
<1>2. ASSUME UNCHANGED <<specs, routes>>, NEW host, NEW path
      PROVE  /\ IsRouted(host, path)' <=> IsRouted(host, path)
             /\ Resolved(host, path)' = Resolved(host, path)
  <2>1. Found(host, path)' = Found(host, path)
    BY <1>2 DEF Found, Matches
  <2> QED BY <1>2, <2>1 DEF IsRouted, Resolved
<1> QED BY <1>1, <1>2

\* Only a step that ends an operation, or one between operations, changes endpoints.
LEMMA EndpointsChange == [Next]_vars /\ op' # NoOp => endpoints' = endpoints
BY DEF Next, Manager, Requests, Installs, Install, FailUpdate, RemoveRuntime, Resync, Update,
       Free, vars

\* What Observe keeps for a request.
Recorded == Expected /\ \A s \in Slots : IsFiniteSet(answers[s])

\* A request loses its endpoints, or is refused, only when an operation has changed the
\* answer: routes and endpoints change in one critical section, after which the answer
\* is a service that has endpoints, or none.
LEMMA NextRecorded == Inv /\ Recorded /\ [Next]_vars => Recorded'
<1> SUFFICES ASSUME Inv, Recorded, [Next]_vars PROVE Recorded'
  OBVIOUS
<1>1. CASE UNCHANGED vars
  <2>1. UNCHANGED <<req, endpoints, answers>>
    BY <1>1 DEF vars
  <2> QED BY <2>1 DEF Recorded, Expected
<1>2. ASSUME Observe, NEW s \in Slots
      PROVE  /\ IsFiniteSet(answers'[s])
             /\ req'[s].pc = "refused" => Doubtful(answers'[s])
             /\ InProgress(req'[s]) => \/ Doubtful(answers'[s])
                                       \/ /\ <<req'[s].key, req'[s].service>> \in answers'[s]
                                          /\ endpoints'[<<req'[s].key, req'[s].service>>] # <<>>
  <2>1. PICK a, h, p : /\ h = req'[s].host /\ p = req'[s].path /\ a = Answer(req[s].host, req[s].path)'
    OBVIOUS
  <2>2. answers'[s] = IF req'[s].pc = "idle" THEN {}
                      ELSE IF ~InProgress(req[s]) /\ InProgress(req'[s]) THEN {a}
                      ELSE IF InProgress(req'[s]) /\ op' = NoOp THEN answers[s] \cup {a}
                      ELSE answers[s]
    BY <1>2, <2>1 DEF Observe
  <2>3. /\ IsFiniteSet(answers[s])
        /\ req[s].pc = "refused" => Doubtful(answers[s])
        /\ InProgress(req[s]) => \/ Doubtful(answers[s])
                                 \/ /\ <<req[s].key, req[s].service>> \in answers[s]
                                    /\ endpoints[<<req[s].key, req[s].service>>] # <<>>
    BY DEF Recorded, Expected
  <2>4. IsFiniteSet(answers'[s])
    <3>1. IsFiniteSet({}) /\ IsFiniteSet({a}) /\ IsFiniteSet(answers[s] \cup {a})
      BY <2>3, FS_EmptySet, FS_Singleton, FS_AddElement
    <3>2. \/ answers'[s] = {} \/ answers'[s] = {a}
          \/ answers'[s] = answers[s] \cup {a} \/ answers'[s] = answers[s]
      BY <2>2
    <3> QED BY <2>3, <3>1, <3>2
  <2>5. a = <<>> \/ endpoints'[a] # <<>>
    BY <2>1, AnswerFacts
  <2>6. Doubtful(answers[s]) => Doubtful(answers[s] \cup {a})
    BY DEF Doubtful
  <2>7. CASE req'[s].pc = "idle"
    BY <2>4, <2>7 DEF InProgress
  <2>8. CASE req'[s] = req[s] /\ ~InProgress(req'[s]) /\ req'[s].pc # "idle"
    BY <2>2, <2>3, <2>4, <2>8
  <2>9. CASE /\ ~InProgress(req[s]) /\ InProgress(req'[s])
             /\ UNCHANGED <<specs, routes, endpoints>>
             /\ IsRouted(h, p)
             /\ req'[s].key = Resolved(h, p).key
             /\ req'[s].service = Resolved(h, p).service
    <3>1. answers'[s] = {a} /\ req'[s].pc # "refused"
      BY <2>2, <2>9 DEF InProgress
    <3>2. PICK n : n = <<req'[s].key, req'[s].service>>
      OBVIOUS
    <3>3. IsRouted(h, p)' /\ Resolved(h, p)' = Resolved(h, p)
      BY <2>9, AnswerFacts
    <3>4. a = IF endpoints'[n] = <<>> THEN <<>> ELSE n
      BY <2>1, <2>9, <3>2, <3>3 DEF Answer
    <3>5. endpoints'[n] = <<>> => Doubtful(answers'[s])
      BY <3>1, <3>4 DEF Doubtful
    <3>6. endpoints'[n] # <<>> => n \in answers'[s]
      BY <3>1, <3>4
    <3> QED BY <2>4, <3>1, <3>2, <3>5, <3>6
  <2>10. CASE /\ InProgress(req[s]) /\ req'[s].pc = "refused"
              /\ endpoints[<<req[s].key, req[s].service>>] = <<>>
    BY <2>2, <2>3, <2>4, <2>10 DEF InProgress
  <2>11. CASE /\ InProgress(req[s]) /\ InProgress(req'[s])
              /\ req'[s].key = req[s].key /\ req'[s].service = req[s].service
    <3>1. req'[s].pc # "refused" /\ req'[s].pc # "idle"
      BY <2>11 DEF InProgress
    <3>2. PICK n : n = <<req[s].key, req[s].service>>
      OBVIOUS
    <3>3. CASE op' = NoOp
      <4>1. answers'[s] = answers[s] \cup {a}
        BY <2>2, <2>11, <3>1, <3>3
      <4>2. CASE Doubtful(answers[s])
        BY <2>4, <2>6, <3>1, <4>1, <4>2
      <4>3. CASE n \in answers[s] /\ endpoints'[n] # <<>>
        BY <2>4, <2>11, <3>1, <3>2, <4>1, <4>3
      <4>4. CASE n \in answers[s] /\ endpoints'[n] = <<>>
        <5>1. a = <<>> \/ a # n
          BY <2>5, <4>4
        <5>2. Doubtful(answers[s] \cup {a})
          BY <4>4, <5>1 DEF Doubtful
        <5> QED BY <2>4, <3>1, <4>1, <5>2
      <4> QED BY <2>3, <2>11, <3>2, <4>2, <4>3, <4>4
    <3>4. CASE op' # NoOp
      <4>1. answers'[s] = answers[s] /\ endpoints' = endpoints
        BY <2>2, <2>11, <3>1, <3>4, EndpointsChange
      <4> QED BY <2>3, <2>4, <2>11, <3>1, <4>1
    <3> QED BY <3>3, <3>4
  <2>12. \/ req'[s] = req[s] \/ req'[s].pc = "idle"
         \/ /\ ~InProgress(req[s]) /\ InProgress(req'[s])
            /\ UNCHANGED <<specs, routes, endpoints>>
            /\ IsRouted(h, p)
            /\ req'[s].key = Resolved(h, p).key
            /\ req'[s].service = Resolved(h, p).service
         \/ /\ InProgress(req[s]) /\ req'[s].pc = "refused"
            /\ endpoints[<<req[s].key, req[s].service>>] = <<>>
         \/ /\ InProgress(req[s]) /\ InProgress(req'[s])
            /\ req'[s].key = req[s].key /\ req'[s].service = req[s].service
    BY <2>1, RequestSteps
  <2>13. CASE req'[s] = req[s] /\ InProgress(req'[s])
    BY <2>11, <2>13
  <2> QED BY <2>7, <2>8, <2>9, <2>10, <2>11, <2>12, <2>13
<1>3. CASE Observe
  <2>1. \A s \in Slots : IsFiniteSet(answers'[s])
    BY <1>2, <1>3
  <2>2. Expected'
    BY <1>2, <1>3 DEF Expected, InProgress
  <2> QED BY <2>1, <2>2 DEF Recorded
<1> QED BY <1>1, <1>3 DEF Next

\* A request that was resolved is refused only if an operation took its endpoints or its
\* path away, or they were missing from the start (UpdateDropsNothing): handleProxy
\* reads the route and the endpoints in two critical sections, replaceRoutesAndState
\* replaces both in one.
THEOREM UpdatesDropNothing == Spec => []UpdateDropsNothing
<1>1. Init => Recorded
  <2> SUFFICES ASSUME Init PROVE Recorded
    OBVIOUS
  <2>1. \A s \in Slots : answers[s] = {} /\ req[s] = NoRequest
    BY DEF Init
  <2>2. NoRequest.pc = "idle"
    BY DEF NoRequest, Ended
  <2> QED BY <2>1, <2>2, FS_EmptySet DEF Recorded, Expected, InProgress
<1>2. Recorded => UpdateDropsNothing
  <2> SUFFICES ASSUME Recorded, NEW s \in Slots, req[s].pc = "refused"
               PROVE  <<>> \in answers[s] \/ Cardinality(answers[s]) > 1
    BY DEF UpdateDropsNothing
  <2>1. PICK A : A = answers[s]
    OBVIOUS
  <2>2. IsFiniteSet(A) /\ Doubtful(A)
    BY <2>1 DEF Recorded, Expected
  <2>3. CASE \E x, y \in A : x # y
    <3>1. PICK x, y \in A : x # y
      BY <2>3
    <3>2. {x} \in SUBSET A /\ {x} # A
      BY <3>1
    <3>3. Cardinality({x}) <= Cardinality(A) /\ (Cardinality({x}) = Cardinality(A) => {x} = A)
      BY <2>2, <3>2, FS_Subset
    <3>4. Cardinality({x}) = 1 /\ Cardinality(A) \in Nat
      BY <2>2, FS_Singleton, FS_CardinalityType
    <3> QED BY <2>1, <3>2, <3>3, <3>4
  <2> QED BY <2>1, <2>2, <2>3 DEF Doubtful
<1>3. Spec => []Recorded
  BY <1>1, NextRecorded, InvAlways, PTL DEF Spec
<1> QED BY <1>2, <1>3, PTL

-----------------------------------------------------------------------------
(* Round robin *)

\* Division with remainder.
LEMMA Division ==
  ASSUME NEW n \in Nat, NEW l \in Nat \ {0}
  PROVE  n \div l \in Nat /\ n % l \in 0..(l - 1) /\ n = l * (n \div l) + (n % l)
OBVIOUS

\* Numbers less than l apart have different remainders.
LEMMA Remainders ==
  ASSUME NEW t \in Nat, NEW n \in Nat, NEW l \in Nat \ {0}, t < n, n - t < l
  PROVE  t % l # n % l
<1>1. PICK q1 \in Nat, r1 \in Nat : q1 = t \div l /\ r1 = t % l /\ t = l * q1 + r1
  <2>1. t \div l \in Nat /\ t % l \in 0..(l - 1) /\ t = l * (t \div l) + (t % l)
    BY Division
  <2>2. t % l \in Nat
    BY <2>1
  <2> QED BY <2>1, <2>2
<1>2. PICK q2 \in Nat, r2 \in Nat : q2 = n \div l /\ r2 = n % l /\ n = l * q2 + r2
  <2>1. n \div l \in Nat /\ n % l \in 0..(l - 1) /\ n = l * (n \div l) + (n % l)
    BY Division
  <2>2. n % l \in Nat
    BY <2>1
  <2> QED BY <2>1, <2>2
<1>3. ASSUME r1 = r2 PROVE FALSE
  <2>1. n - t = l * (q2 - q1)
    BY <1>1, <1>2, <1>3
  <2>2. PICK d \in Int : d = q2 - q1
    OBVIOUS
  <2>3. n - t = l * d
    BY <2>1, <2>2
  <2>4. d >= 1 => l * d >= l
    OBVIOUS
  <2>5. d <= 0 => l * d <= 0
    OBVIOUS
  <2>6. d >= 1 \/ d <= 0
    OBVIOUS
  <2> QED BY <2>3, <2>4, <2>5, <2>6
<1> QED BY <1>1, <1>2, <1>3

\* As many picks in a row as there are endpoints give each of them once.
LEMMA TurnFacts ==
  ASSUME NEW e \in Listings, e # <<>>, NEW a \in Nat
  PROVE  /\ \A t, n \in Nat : t < n /\ n < t + Len(e) => Nth(e, t) # Nth(e, n)
         /\ \A p \in DOMAIN e : \E t \in a..(a + Len(e) - 1) : e[p] = Nth(e, t)
<1>1. PICK L \in Nat \ {0} : L = Len(e) /\ DOMAIN e = 1..L
  BY NthFacts
<1>2. \A m, n \in 1..L : m # n => e[m] # e[n]
  BY <1>1, ListingFacts
<1>3. ASSUME NEW t \in Nat PROVE t % L \in 0..(L - 1) /\ Nth(e, t) = e[(t % L) + 1]
  <2>1. t % L \in 0..(L - 1)
    BY Division
  <2> QED BY <1>1, <2>1 DEF Nth
<1>4. ASSUME NEW t \in Nat, NEW n \in Nat, t < n, n < t + L
      PROVE  t % L # n % L /\ Nth(e, t) # Nth(e, n)
  <2>1. t % L # n % L
    <3>1. n - t < L
      BY <1>4
    <3> QED BY <1>4, <3>1, Remainders
  <2>2. PICK i, j \in 0..(L - 1) : i = t % L /\ j = n % L
    BY <1>3
  <2>3. Nth(e, t) = e[i + 1] /\ Nth(e, n) = e[j + 1]
    BY <1>3, <2>2
  <2>4. i + 1 \in 1..L /\ j + 1 \in 1..L /\ i + 1 # j + 1
    BY <2>1, <2>2
  <2> QED BY <1>2, <2>1, <2>3, <2>4
<1>5. ASSUME NEW p \in 1..L PROVE \E t \in a..(a + L - 1) : e[p] = Nth(e, t)
  <2>1. PICK W, f : W = a..(a + L - 1) /\ f = [t \in W |-> t % L]
    OBVIOUS
  <2>2. \A t \in W : t \in Nat
    BY <2>1
  <2>3. f \in [W -> 0..(L - 1)]
    BY <1>3, <2>1, <2>2
  <2>4. ASSUME NEW t \in W, NEW n \in W, t # n PROVE f[t] # f[n]
    <3>1. t \in Nat /\ n \in Nat /\ ((t < n /\ n < t + L) \/ (n < t /\ t < n + L))
      BY <2>1, <2>4
    <3>2. t % L # n % L
      BY <1>4, <3>1
    <3> QED BY <2>1, <3>2
  <2>5. f \in Injection(W, 0..(L - 1))
    BY <2>3, <2>4 DEF Injection, IsInjective
  <2>6. /\ IsFiniteSet(0..(L - 1)) /\ Cardinality(0..(L - 1)) = L
        /\ Cardinality(W) = L
    BY <2>1, FS_Interval
  <2>7. f \in Surjection(W, 0..(L - 1))
    BY <2>5, <2>6, FS_Injection
  <2>8. p - 1 \in 0..(L - 1)
    OBVIOUS
  <2>9. PICK t \in W : f[t] = p - 1
    BY <2>7, <2>8 DEF Surjection
  <2>10. t % L = p - 1 /\ t \in Nat
    BY <2>1, <2>2, <2>9
  <2>11. Nth(e, t) = e[p]
    <3>1. PICK i \in 0..(L - 1) : i = p - 1
      BY <2>8
    <3>2. i + 1 = p /\ t % L = i
      BY <2>10, <3>1
    <3>3. Nth(e, t) = e[(t % L) + 1]
      BY <1>3, <2>10
    <3> QED BY <3>2, <3>3
  <2> QED BY <2>1, <2>11
<1> QED BY <1>1, <1>4, <1>5

\* A pick goes on with the round, or completes it.
LEMMA PickSpreads ==
  ASSUME NEW e \in Listings, e # <<>>, NEW N \in Nat, NEW h \in [Containers -> Nat],
         NEW a \in 0..N, NEW full \in 0..N, Rounds(e, h, N, a, full)
  PROVE  \E b, more \in 0..(N + 1) : Rounds(e, Hit(h, Nth(e, N)), N + 1, b, more)
<1>1. PICK L \in Nat \ {0} : L = Len(e) /\ DOMAIN e = 1..L
  BY NthFacts
<1>2. PICK c \in Containers : c = Nth(e, N)
  BY NthFacts
<1>3. PICK after : after = Hit(h, c)
  OBVIOUS
<1>4. ASSUME NEW p \in 1..L
      PROVE  /\ e[p] \in Containers /\ h[e[p]] \in Nat
             /\ after[e[p]] = IF e[p] = c THEN h[e[p]] + 1 ELSE h[e[p]]
             /\ h[e[p]] = full + IF \E t \in a..(N - 1) : e[p] = Nth(e, t) THEN 1 ELSE 0
  <2>1. e[p] \in Containers
    BY <1>1, ListingFacts
  <2>2. after = [h EXCEPT ![c] = h[c] + 1]
    BY <1>3 DEF Hit
  <2>3. h[e[p]] = full + IF \E t \in a..(N - 1) : e[p] = Nth(e, t) THEN 1 ELSE 0
    BY <1>1 DEF Rounds
  <2> QED BY <2>1, <2>2, <2>3
<1>5. N < a + L
  BY <1>1 DEF Rounds
<1>6. ASSUME NEW t \in a..(N - 1) PROVE Nth(e, t) # c
  <2>1. t \in Nat /\ t < N /\ N < t + Len(e)
    BY <1>1, <1>5
  <2> QED BY <1>2, <2>1, TurnFacts
<1>7. ASSUME NEW p \in 1..L
      PROVE  (\E t \in a..N : e[p] = Nth(e, t)) <=> (e[p] = c \/ \E t \in a..(N - 1) : e[p] = Nth(e, t))
  <2>1. N \in a..N /\ \A t \in a..N : t = N \/ t \in a..(N - 1)
    OBVIOUS
  <2>2. \A t \in a..(N - 1) : t \in a..N
    OBVIOUS
  <2> QED BY <1>2, <2>1, <2>2
<1>8. CASE N + 1 < a + L
  <2>1. ASSUME NEW p \in 1..L
        PROVE  after[e[p]] = full + IF \E t \in a..N : e[p] = Nth(e, t) THEN 1 ELSE 0
    <3>1. CASE e[p] = c
      <4>1. ~(\E t \in a..(N - 1) : e[p] = Nth(e, t)) /\ \E t \in a..N : e[p] = Nth(e, t)
        BY <1>6, <1>7, <3>1
      <4> QED BY <1>4, <3>1, <4>1
    <3>2. CASE e[p] # c
      <4>1. (\E t \in a..N : e[p] = Nth(e, t)) <=> \E t \in a..(N - 1) : e[p] = Nth(e, t)
        BY <1>7, <3>2
      <4> QED BY <1>4, <3>2, <4>1
    <3> QED BY <3>1, <3>2
  <2>2. (N + 1) - 1 = N
    OBVIOUS
  <2>3. Rounds(e, after, N + 1, a, full)
    BY <1>1, <1>8, <2>1, <2>2 DEF Rounds
  <2> QED BY <1>2, <1>3, <2>3
<1>9. CASE N + 1 = a + L
  <2>1. ASSUME NEW p \in 1..L PROVE after[e[p]] = full + 1
    <3>1. CASE e[p] = c
      <4>1. ~ \E t \in a..(N - 1) : e[p] = Nth(e, t)
        BY <1>6, <3>1
      <4> QED BY <1>4, <3>1, <4>1
    <3>2. CASE e[p] # c
      <4>1. PICK t \in a..(a + L - 1) : e[p] = Nth(e, t)
        <5>1. \A q \in DOMAIN e : \E t \in a..(a + Len(e) - 1) : e[q] = Nth(e, t)
          BY TurnFacts
        <5> QED BY <1>1, <5>1
      <4>2. t \in a..N
        BY <1>9
      <4>3. \E u \in a..(N - 1) : e[p] = Nth(e, u)
        BY <1>7, <3>2, <4>1, <4>2
      <4> QED BY <1>4, <3>2, <4>3
    <3> QED BY <3>1, <3>2
  <2>2. ~ \E t \in (N + 1)..N : TRUE
    OBVIOUS
  <2>3. (N + 1) - 1 = N /\ N + 1 < (N + 1) + L
    OBVIOUS
  <2>4. ASSUME NEW p \in 1..L
        PROVE  after[e[p]] = (full + 1) + IF \E t \in (N + 1)..N : e[p] = Nth(e, t) THEN 1 ELSE 0
    BY <2>1, <2>2
  <2>5. Rounds(e, after, N + 1, N + 1, full + 1)
    BY <1>1, <2>3, <2>4 DEF Rounds
  <2>6. N + 1 \in 0..(N + 1) /\ full + 1 \in 0..(N + 1)
    OBVIOUS
  <2> QED BY <1>2, <1>3, <2>5, <2>6
<1> QED BY <1>5, <1>8, <1>9

\* A service that has other endpoints starts anew; other steps leave its picks alone.
LEMMA CachesEven ==
  ASSUME Inv, Even, NEW D, NEW cache, \A n \in D \cap Named : cache[n] \in Listings,
         Caches(D, cache), next' = next
  PROVE  Even'
<1>1. PicksType
  BY TypeParts DEF Inv
<1>2. ASSUME NEW n \in Named, ~mixed'[n], endpoints'[n] # <<>>,
             endpoints'[n] \in Seq(Containers)
      PROVE  \E a, full \in 0..next[n] : Rounds(endpoints'[n], hits'[n], next[n], a, full)
  <2>1. PICK e, N, h : e = endpoints'[n] /\ N = next[n] /\ h = hits'[n]
    OBVIOUS
  <2>2. N \in Nat
    BY <1>1, <2>1 DEF PicksType, Named
  <2>3. CASE e = endpoints[n]
    <3>1. h = hits[n] /\ ~mixed[n]
      BY <1>2, <2>1, <2>3 DEF Caches
    <3> QED BY <1>2, <2>1, <2>3, <3>1 DEF Even
  <2>4. CASE e # endpoints[n]
    <3>1. h = NoHits
      BY <2>1, <2>4 DEF Caches
    <3>2. e \in Seq(Containers) /\ e # <<>>
      BY <1>2, <2>1
    <3>3. Len(e) \in Nat \ {0} /\ N < N + Len(e)
      BY <2>2, <3>2
    <3>4. \A p \in DOMAIN e : h[e[p]] = 0
      BY <3>1, <3>2 DEF NoHits
    <3>5. ~ \E t \in N..(N - 1) : TRUE
      BY <2>2
    <3>6. ASSUME NEW p \in DOMAIN e
          PROVE  h[e[p]] = 0 + IF \E t \in N..(N - 1) : e[p] = Nth(e, t) THEN 1 ELSE 0
      BY <3>4, <3>5
    <3>7. Rounds(e, h, N, N, 0)
      BY <3>3, <3>6 DEF Rounds
    <3> QED BY <2>1, <2>2, <3>7
  <2> QED BY <2>3, <2>4
<1>3. \A n \in Named : endpoints'[n] \in Seq(Containers)
  BY CachesInv, ListingFacts
<1> QED BY <1>2, <1>3 DEF Even

\* A pick that counts takes the next endpoint, and one that does not ends the claim.
LEMMA PickNextEven ==
  ASSUME Inv, Even, NEW s \in Slots, PickNext(s), endpoints' = endpoints
  PROVE  Even'
<1>1. PICK n \in Named, i \in DOMAIN next, c \in Containers, e \in Listings :
        /\ i = n \/ i \notin Named
        /\ e # <<>> /\ c = Nth(e, next[i])
        /\ next' = [next EXCEPT ![i] = @ + 1] /\ next[i] \in Nat
        /\ \/ /\ i = n /\ e = endpoints[n] /\ mixed' = mixed
              /\ hits' = [hits EXCEPT ![n] = Hit(hits[n], c)]
           \/ mixed' = [mixed EXCEPT ![n] = TRUE] /\ hits' = hits
  BY PickNextDoes
<1>2. PicksType
  BY TypeParts DEF Inv
<1>3. ASSUME NEW m \in Named, m # n, ~mixed'[m], endpoints[m] # <<>>
      PROVE  \E a, full \in 0..next'[m] : Rounds(endpoints[m], hits'[m], next'[m], a, full)
  <2>1. hits'[m] = hits[m] /\ mixed'[m] = mixed[m] /\ next'[m] = next[m]
    <3>1. m \in DOMAIN hits /\ m \in DOMAIN mixed /\ m \in DOMAIN next /\ m # i
      BY <1>1, <1>2, <1>3 DEF PicksType, Named
    <3> QED BY <1>1, <1>3, <3>1
  <2> QED BY <1>3, <2>1 DEF Even
<1>4. ASSUME ~mixed'[n], endpoints[n] # <<>>
      PROVE  \E a, full \in 0..next'[n] : Rounds(endpoints[n], hits'[n], next'[n], a, full)
  <2>1. n \in DOMAIN mixed /\ n \in DOMAIN hits
    BY <1>2 DEF PicksType
  <2>2. /\ i = n /\ e = endpoints[n] /\ mixed' = mixed
        /\ hits' = [hits EXCEPT ![n] = Hit(hits[n], c)]
    BY <1>1, <1>4, <2>1, Zenon
  <2>3. PICK N, h : N = next[n] /\ h = hits[n]
    OBVIOUS
  <2>4. N \in Nat /\ h \in [Containers -> Nat]
    BY <1>1, <1>2, <2>2, <2>3 DEF PicksType
  <2>5. PICK a, full \in 0..N : Rounds(e, h, N, a, full)
    BY <1>4, <2>2, <2>3 DEF Even
  <2>6. \E b, more \in 0..(N + 1) : Rounds(e, Hit(h, Nth(e, N)), N + 1, b, more)
    BY <1>1, <2>4, <2>5, PickSpreads
  <2>7. hits'[n] = Hit(h, Nth(e, N)) /\ next'[n] = N + 1
    BY <1>1, <2>1, <2>2, <2>3
  <2> QED BY <2>2, <2>6, <2>7
<1> QED BY <1>3, <1>4 DEF Even

\* The steps of the Manager, and of a request.
LEMMA NextEven == Inv /\ Even /\ [Next]_vars => Even'
<1> SUFFICES ASSUME Inv, Even, [Next]_vars PROVE Even'
  OBVIOUS
<1>1. ASSUME UNCHANGED <<endpoints, next, hits, mixed>> PROVE Even'
  BY <1>1 DEF Even
<1>2. CASE Installs
  <2>1. StoreType /\ op.key \in Keys
    BY <1>2, TypeParts, DocumentFacts DEF Inv, Installs
  <2>2. PICK f \in Refreshed(op.key, op.doc.services) : Caches(OfKey(op.key), Completed(op.key, f))
    BY <1>2 DEF Installs, Install
  <2> QED BY <1>2, <2>1, <2>2, CachesEven, RefreshedFacts DEF Installs
<1>3. ASSUME NEW k \in Keys, RemoveRuntime(k) PROVE Even'
  BY <1>3, CachesEven, RefreshedFacts DEF RemoveRuntime
<1>4. ASSUME NEW k \in Keys, Resync(k) PROVE Even'
  <2>1. PICK f \in Refreshed(k, specs[k].services) : Caches(DOMAIN f, f)
    BY <1>4 DEF Resync
  <2> QED BY <1>4, <2>1, CachesEven, RefreshedFacts DEF Resync
<1>5. CASE Manager
  BY <1>1, <1>2, <1>3, <1>4, <1>5 DEF Manager, Update, FailUpdate, picks
<1>6. CASE Requests
  <2>1. PICK s \in Slots :
          \/ ReadEndpoints(s) \/ PickSticky(s) \/ PickNext(s)
          \/ \E host \in Hosts, path \in Paths, client \in Clients : Resolve(s, host, path, client)
    BY <1>6 DEF Requests
  <2>2. endpoints' = endpoints
    BY <1>6 DEF Requests
  <2>3. PickNext(s) => Even'
    BY <2>2, PickNextEven
  <2> QED BY <1>1, <2>1, <2>2, <2>3 DEF ReadEndpoints, PickSticky, Resolve, picks
<1>7. CASE UNCHANGED vars
  BY <1>1, <1>7 DEF vars, picks
<1> QED BY <1>5, <1>6, <1>7 DEF Next

\* Requests are spread evenly over the endpoints of a service while these stay as they
\* are and nobody uses a list read before (RoundRobin): m.next goes round the sorted
\* endpoints, wherever the round began.
THEOREM RoundRobinAlways == Spec => []RoundRobin
<1>1. Init => Even
  BY DEF Init, Even
<1>2. Inv /\ Even => RoundRobin
  <2> SUFFICES ASSUME Inv, Even, NEW n \in Named, ~mixed[n],
                      NEW c \in Range(endpoints[n]), NEW d \in Range(endpoints[n])
               PROVE  hits[n][c] <= hits[n][d] + 1
    BY DEF RoundRobin
  <2>1. PICK e : e = endpoints[n]
    OBVIOUS
  <2>2. PICK p, q \in DOMAIN e : c = e[p] /\ d = e[q]
    BY <2>1 DEF Range
  <2>3. next[n] \in Nat /\ e # <<>>
    <3>1. next[n] \in 0..MaxRequests
      BY TypeParts DEF Inv, PicksType, Named
    <3> QED BY <2>2, <3>1, ConstantsAssumption
  <2>4. PICK full \in 0..next[n] : \A r \in DOMAIN e : hits[n][e[r]] = full \/ hits[n][e[r]] = full + 1
    <3>1. PICK a, full \in 0..next[n] : Rounds(e, hits[n], next[n], a, full)
      BY <2>1, <2>3 DEF Even
    <3>2. ASSUME NEW r \in DOMAIN e PROVE hits[n][e[r]] = full \/ hits[n][e[r]] = full + 1
      <4>1. hits[n][e[r]] = full + IF \E t \in a..(next[n] - 1) : e[r] = Nth(e, t) THEN 1 ELSE 0
        BY <3>1 DEF Rounds
      <4> QED BY <2>3, <4>1
    <3> QED BY <3>2
  <2>5. full \in Nat
    BY <2>3
  <2> QED BY <2>2, <2>4, <2>5
<1>3. Spec => []Even
  BY <1>1, NextEven, InvAlways, PTL DEF Spec
<1> QED BY <1>2, <1>3, InvAlways, PTL

=============================================================================
