--------------------------- MODULE RankingProofs ---------------------------
(***************************************************************************)
(* What the operators of Ranking return, for any finite set and any strict *)
(* total order: the lemmas on sorting and filtering that the proofs of     *)
(* Proxy and AuditLog cite.                                                *)
(***************************************************************************)
EXTENDS Ranking, Functions, Sequences, FiniteSetTheorems, TLAPS

\* Ranking a finite set by a strict total order gives each of its members a place,
\* in that order.
LEMMA RankedFacts ==
  ASSUME NEW I, IsFiniteSet(I), NEW R,
         \A i \in I : <<i, i>> \notin R,
         \A i, j, k \in I : <<i, j>> \in R /\ <<j, k>> \in R => <<i, k>> \in R,
         \A i, j \in I : i # j => <<i, j>> \in R \/ <<j, i>> \in R
  PROVE  /\ Cardinality(I) \in Nat /\ Ranked(I, R) \in [1..Cardinality(I) -> I]
         /\ \A i \in I : \E n \in 1..Cardinality(I) : Ranked(I, R)[n] = i
         /\ \A m, n \in 1..Cardinality(I) :
              m < n => <<Ranked(I, R)[m], Ranked(I, R)[n]>> \in R
<1> DEFINE Below(i) == {j \in I : <<j, i>> \in R}
<1>1. PICK N \in Nat : N = Cardinality(I)
  BY FS_CardinalityType
<1>2. PICK rank : rank = [i \in I |-> Cardinality(Below(i))]
  OBVIOUS
<1>3. ASSUME NEW i \in I PROVE IsFiniteSet(Below(i)) /\ rank[i] \in 0..(N - 1) /\ rank[i] \in Nat
  <2>1. Below(i) \in SUBSET I /\ i \notin Below(i)
    OBVIOUS
  <2>2. /\ IsFiniteSet(Below(i)) /\ Cardinality(Below(i)) <= N
        /\ Cardinality(Below(i)) # N
    BY <1>1, <2>1, FS_Subset
  <2>3. Cardinality(Below(i)) \in Nat
    BY <2>2, FS_CardinalityType
  <2>4. rank[i] = Cardinality(Below(i))
    BY <1>2
  <2> HIDE DEF Below
  <2> QED BY <1>1, <2>2, <2>3, <2>4
<1>4. ASSUME NEW i \in I, NEW j \in I, <<i, j>> \in R PROVE rank[i] < rank[j]
  <2>1. Below(i) \in SUBSET Below(j) /\ i \in Below(j) /\ i \notin Below(i)
    BY <1>4
  <2>2. Cardinality(Below(i)) <= Cardinality(Below(j)) /\ Cardinality(Below(i)) # Cardinality(Below(j))
    BY <1>3, <2>1, FS_Subset
  <2>3. rank[i] = Cardinality(Below(i)) /\ rank[j] = Cardinality(Below(j))
    BY <1>2
  <2>4. rank[i] \in Nat /\ rank[j] \in Nat
    BY <1>1, <1>3
  <2> HIDE DEF Below
  <2> QED BY <2>2, <2>3, <2>4
<1>5. ASSUME NEW i \in I, NEW j \in I, i # j PROVE rank[i] # rank[j]
  <2>1. rank[i] < rank[j] \/ rank[j] < rank[i]
    BY <1>4, <1>5
  <2>2. rank[i] \in Nat /\ rank[j] \in Nat
    BY <1>1, <1>3
  <2> QED BY <2>1, <2>2
<1>6. rank \in Surjection(I, 0..(N - 1))
  <2>1. rank \in Injection(I, 0..(N - 1))
    <3>1. rank \in [I -> 0..(N - 1)]
      BY <1>2, <1>3
    <3> QED BY <3>1, <1>5 DEF Injection, IsInjective
  <2>2. IsFiniteSet(0..(N - 1)) /\ Cardinality(0..(N - 1)) = N
    BY FS_Interval
  <2> QED BY <1>1, <2>1, <2>2, FS_Injection
<1>7. PICK at : at = Ranked(I, R)
  OBVIOUS
<1>8. at = [n \in 1..N |-> CHOOSE i \in I : Cardinality({j \in I : <<j, i>> \in R}) = n - 1]
  BY <1>1, <1>7 DEF Ranked
<1>9. ASSUME NEW n \in 1..N PROVE at[n] \in I /\ rank[at[n]] = n - 1
  <2>1. n - 1 \in 0..(N - 1)
    OBVIOUS
  <2>2. \E i \in I : rank[i] = n - 1
    BY <1>6, <2>1 DEF Surjection
  <2>3. \E i \in I : Cardinality({j \in I : <<j, i>> \in R}) = n - 1
    BY <1>2, <2>2
  <2>4. at[n] \in I /\ Cardinality({j \in I : <<j, at[n]>> \in R}) = n - 1
    BY <1>8, <2>3
  <2> QED BY <1>2, <2>4
<1>10. at \in [1..N -> I]
  BY <1>8, <1>9
<1>11. ASSUME NEW i \in I PROVE \E n \in 1..N : at[n] = i
  <2>1. PICK n \in 1..N : rank[i] = n - 1
    <3>1. PICK r \in 0..(N - 1) : rank[i] = r
      BY <1>3
    <3>2. r + 1 \in 1..N /\ r = (r + 1) - 1
      BY <1>1
    <3> QED BY <3>1, <3>2
  <2>2. rank[at[n]] = rank[i] /\ at[n] \in I
    BY <1>9, <2>1
  <2> QED BY <1>5, <2>2
<1>12. ASSUME NEW m \in 1..N, NEW n \in 1..N, m < n PROVE <<at[m], at[n]>> \in R
  <2>1. /\ at[m] \in I /\ rank[at[m]] = m - 1
        /\ at[n] \in I /\ rank[at[n]] = n - 1
    BY <1>9
  <2>2. ~(rank[at[n]] < rank[at[m]]) /\ at[m] # at[n]
    BY <1>12, <2>1
  <2> QED BY <1>4, <2>1, <2>2
<1> QED BY <1>1, <1>7, <1>10, <1>11, <1>12

\* Numbers are ranked by their size.
LEMMA AscendingFacts ==
  ASSUME NEW I \in SUBSET Nat, IsFiniteSet(I)
  PROVE  /\ Cardinality(I) \in Nat /\ Ranked(I, Ascending) \in [1..Cardinality(I) -> I]
         /\ \A i \in I : \E n \in 1..Cardinality(I) : Ranked(I, Ascending)[n] = i
         /\ \A m, n \in 1..Cardinality(I) :
              m < n => Ranked(I, Ascending)[m] < Ranked(I, Ascending)[n]
<1>1. \A i, j \in Nat : <<i, j>> \in Ascending <=> i < j
  BY DEF Ascending
<1>2. /\ \A i \in I : <<i, i>> \notin Ascending
      /\ \A i, j, k \in I : <<i, j>> \in Ascending /\ <<j, k>> \in Ascending => <<i, k>> \in Ascending
      /\ \A i, j \in I : i # j => <<i, j>> \in Ascending \/ <<j, i>> \in Ascending
  BY <1>1
<1>3. /\ Cardinality(I) \in Nat /\ Ranked(I, Ascending) \in [1..Cardinality(I) -> I]
      /\ \A i \in I : \E n \in 1..Cardinality(I) : Ranked(I, Ascending)[n] = i
      /\ \A m, n \in 1..Cardinality(I) :
           m < n => <<Ranked(I, Ascending)[m], Ranked(I, Ascending)[n]>> \in Ascending
  BY <1>2, RankedFacts
<1>4. PICK at : at = Ranked(I, Ascending)
  OBVIOUS
<1>5. \A m \in 1..Cardinality(I) : at[m] \in Nat
  BY <1>3, <1>4
<1>6. \A m, n \in 1..Cardinality(I) : m < n => at[m] < at[n]
  BY <1>1, <1>3, <1>4, <1>5
<1> QED BY <1>3, <1>4, <1>6

\* Following a sequence along places in it.
LEMMA AlongFacts ==
  ASSUME NEW S, NEW s \in Seq(S), NEW N \in Nat, NEW I \in SUBSET (1..Len(s)),
         NEW at \in [1..N -> I], \A i \in I : \E n \in 1..N : at[n] = i
  PROVE  /\ Along(s, at) \in Seq(S)
         /\ \A x : x \in Range(Along(s, at)) <=> \E i \in I : x = s[i]
<1>1. PICK t : t = Along(s, at)
  OBVIOUS
<1>2. t = [n \in 1..N |-> s[at[n]]]
  BY <1>1 DEF Along
<1>3. \A n \in 1..N : at[n] \in 1..Len(s) /\ s[at[n]] \in S
  <2>1. \A i \in 1..Len(s) : s[i] \in S
    OBVIOUS
  <2>2. \A n \in 1..N : at[n] \in 1..Len(s)
    OBVIOUS
  <2> QED BY <2>1, <2>2
<1>4. t \in [1..N -> S]
  BY <1>2, <1>3
<1>5. t \in Seq(S)
  BY <1>4
<1>6. \A x : x \in Range(t) <=> \E i \in I : x = s[i]
  BY <1>2 DEF Range
<1> QED BY <1>1, <1>5, <1>6
=============================================================================
