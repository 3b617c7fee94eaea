---------------------------- MODULE MCListeners ----------------------------
(* Instances of Listeners for TLC. *)
EXTENDS Listeners, Sequences

Service(p) == [kind |-> "service", port |-> p, host |-> "*", path |-> "/"]
Ingress(p, h, q) == [kind |-> "ingress", port |-> p, host |-> h, path |-> q]

\* Documents that fight for ports 1 and 2: services, and ingress routes (to a
\* service of the document) that can share port 1 (ix with iw) or not (ia with
\* iw, by the wildcard).
ServiceAndIngress ==
  [s1 |-> {Service(1)},
   s2 |-> {Service(2)},
   s12 |-> {Service(1), Service(2)},
   ix |-> {Service(2), Ingress(1, "x", "/")},
   iw |-> {Service(3), Ingress(1, "*", "/api"), Ingress(1, "y", "/")},
   ia |-> {Service(2), Ingress(1, "x", "/api")}]

\* What they ask of a node with 4 units of cpu, 3 to a whole cpu, that counts up
\* to 7: s1 and s2 do not fit together, ix and iw just do; the replicas of s12
\* make its sum wrap around, and ia asks for more than can be parsed.
Replicas(n, cpu) == <<[each |-> [cpu |-> cpu, pids |-> 1], replicas |-> n]>>
CpuAndPids ==
  [s1 |-> Replicas(2, 1), s2 |-> Replicas(1, 1) \o Replicas(1, 2), s12 |-> Replicas(2, 4),
   ix |-> Replicas(3, 1), iw |-> Replicas(1, 1), ia |-> Replicas(1, 9)]
FourUnits == [cpu |-> 4, pids |-> 0]
Units == [cpu |-> 3, pids |-> 1]
NothingSet == [cpu |-> 0, pids |-> 0]
=============================================================================
