------------------------------ MODULE Capacity ------------------------------
(***************************************************************************)
(* The arithmetic of node capacity in Scheduler Lite: what a document asks *)
(* for, what the Runtimes of a node ask for together, and whether the node *)
(* has it.  Amounts are millicores, bytes or pids, in int64.               *)
(***************************************************************************)
EXTENDS Integers, FiniteSets

CONSTANTS
  Resources,   \* the resources a node counts
  Capacity,    \* node.capacity; 0 is "not set"
  Allocatable, \* node.allocatable; 0 is "not set"
  Demands,     \* Demands[d]: the deployments of d, as [each, replicas] records
  Unit,        \* Unit[r]: how many amounts the whole number in a document counts
  MaxInt       \* the largest int64

Amounts == [Resources -> Nat]

ASSUME CapacityAssumption ==
  /\ MaxInt \in Nat /\ Unit \in [Resources -> Nat \ {0}]
  /\ Capacity \in Amounts /\ Allocatable \in Amounts
  /\ \A r \in Resources : Capacity[r] <= MaxInt /\ Allocatable[r] <= MaxInt
  /\ \A d \in DOMAIN Demands :
       /\ IsFiniteSet(DOMAIN Demands[d])
       /\ \A i \in DOMAIN Demands[d] :
            Demands[d][i].each \in Amounts /\ Demands[d][i].replicas \in Nat

\* The sum of the naturals a function takes on a finite domain: how many units
\* there are when its value at x stands for f[x] units of x.
Total(f) == Cardinality(UNION {{x} \X (1..f[x]) : x \in DOMAIN f})

\* int64 arithmetic wraps around.  It is exact modulo 2^64, so that wrapping the
\* last sum is wrapping every product and every sum on the way.
Wrap(n) == ((n + MaxInt + 1) % (2 * MaxInt + 2)) - (MaxInt + 1)

\* parseCPUMilli and parseMemoryBytes: a whole number that is too large is an
\* error, which the callers drop together with the amount; the fraction is added
\* without a check.
Parse(r, n) == IF n \div Unit[r] > MaxInt \div Unit[r] THEN 0 ELSE n

\* Mutant: replicas are not counted.
RequestOfOneReplica(d, r) ==
  Total([i \in DOMAIN Demands[d] |-> Parse(r, Demands[d][i].each[r])])

\* runtimeResourceRequest
RuntimeResourceRequest(d, r) ==
  Total([i \in DOMAIN Demands[d] |->
           Parse(r, Demands[d][i].each[r]) * Demands[d][i].replicas])

\* resourceSnapshotFor: node.capacity stands in for an allocatable that is empty.
NodeAllocatable ==
  IF \A r \in Resources : Allocatable[r] = 0 THEN Capacity ELSE Allocatable
Requested(docs, r) ==
  Wrap(Total([k \in DOMAIN docs |->
                IF docs[k] \in DOMAIN Demands THEN RuntimeResourceRequest(docs[k], r) ELSE 0]))

\* validateNodeCapacity; docs holds the Runtimes of the node by key.  A resource
\* the node does not set is not enforced.
WithinCapacity(docs) ==
  \A r \in Resources : NodeAllocatable[r] > 0 => Requested(docs, r) <= NodeAllocatable[r]

-----------------------------------------------------------------------------
(* What the documents really ask for. *)

TrueRequest(d, r) ==
  Total([i \in DOMAIN Demands[d] |-> Demands[d][i].each[r] * Demands[d][i].replicas])
TrueTotal(docs, r) ==
  Total([k \in DOMAIN docs |->
           IF docs[k] \in DOMAIN Demands THEN TrueRequest(docs[k], r) ELSE 0])
Overflows(docs) == \E r \in Resources : TrueTotal(docs, r) > MaxInt
Fits(docs) ==
  \A r \in Resources : NodeAllocatable[r] > 0 => TrueTotal(docs, r) <= NodeAllocatable[r]
=============================================================================
