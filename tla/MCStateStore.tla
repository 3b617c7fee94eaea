---------------------------- MODULE MCStateStore ----------------------------
(* Instances of StateStore. *)
EXTENDS StateStore, TLC

DocsAlike == Permutations(Docs)
=============================================================================
