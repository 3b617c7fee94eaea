------------------------------ MODULE MCProxy ------------------------------
(* Two Runtimes that share an ingress port and compete for its paths. *)
EXTENDS Proxy, TLC

Route(host, prefix, service) == [host |-> host, prefix |-> prefix, service |-> service]

OneDir == <<"/", "a", "/">>
OneDirTwice == <<"/", "a", "/", "/">>
TwoDirs == <<"/", "a", "/", "b">>

\* x serves everything by service 1, which has affinity, and one directory once more
\* with two slashes; its second document moves the root to service 2, keeps the
\* directory and has no affinity.
X1 == [services |-> {1}, affine |-> {1},
       routes |-> <<Route("*", Root, 1), Route("*", OneDirTwice, 1)>>]
X2 == [services |-> {1, 2}, affine |-> {},
       routes |-> <<Route("*", Root, 2), Route("*", OneDir, 1)>>]

\* y serves a deeper path of one host, as long as that of x with two slashes, or the
\* directory x may want.
Y1 == [services |-> {1}, affine |-> {}, routes |-> <<Route("h", TwoDirs, 1)>>]
Y2 == [services |-> {1}, affine |-> {}, routes |-> <<Route("h", OneDir, 1)>>]

TwoRuntimes == [k \in {"x", "y"} |-> IF k = "x" THEN {X1, X2} ELSE {Y1, Y2}]
TwoPaths == {Root, TwoDirs}
ReadySets == {{}, {2}, {1, 2}}
SlotsAlike == Permutations(Slots)
=============================================================================
