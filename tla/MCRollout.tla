----------------------------- MODULE MCRollout -----------------------------
(* Instances of Rollout for TLC. *)
EXTENDS Rollout

Dep(n, rev, h, reps, srg) ==
  [name |-> n, revision |-> rev, hash |-> h, replicas |-> reps, surge |-> srg]

\* Documents that carry a generation: one already in use, and a negative one.
SomeGenerations == {1, -1}
NegativeGeneration == {-1}

\* Two documents share the revision of deployment "a" (a change is found
\* by its hash and replaced under the same name, here with surge) and differ
\* in the revision of "b" (new names, the old ones removed as extra); the third
\* has no "b" any more.
MixedTemplate ==
  [v1 |-> <<Dep("a", "r1", "h1", 1, TRUE), Dep("b", "r1", "h1", 1, FALSE)>>,
   v2 |-> <<Dep("a", "r1", "h2", 1, TRUE), Dep("b", "r2", "h2", 1, FALSE)>>,
   v3 |-> <<Dep("a", "r1", "h1", 1, TRUE)>>]

\* One deployment that is scaled and changed in place, with surge ...
SurgeTemplate ==
  [v1 |-> <<Dep("a", "r1", "h1", 2, TRUE)>>,
   v2 |-> <<Dep("a", "r1", "h2", 2, TRUE)>>,
   v3 |-> <<Dep("a", "r1", "h2", 1, TRUE)>>]

\* ... and without.
RecreateTemplate ==
  [v1 |-> <<Dep("a", "r1", "h1", 1, FALSE)>>,
   v2 |-> <<Dep("a", "r1", "h2", 2, FALSE)>>]
============================================================================
