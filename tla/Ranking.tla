------------------------------ MODULE Ranking ------------------------------
(***************************************************************************)
(* What the code does with a loop over a slice: sort it, or keep some of   *)
(* its elements in their order.                                            *)
(***************************************************************************)
EXTENDS Naturals, FiniteSets

\* The members of I by their place in the order R, a set of pairs.
Ranked(I, R) ==
  [n \in 1..Cardinality(I) |->
     CHOOSE i \in I : Cardinality({j \in I : <<j, i>> \in R}) = n - 1]
Ascending == {p \in Nat \X Nat : p[1] < p[2]}

\* The elements of s at the places at.
Along(s, at) == [n \in DOMAIN at |-> s[at[n]]]
=============================================================================
