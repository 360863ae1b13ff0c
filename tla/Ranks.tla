-------------------------------- MODULE Ranks --------------------------------
(***************************************************************************)
(* The elements of a finite set in a strict order of theirs.  The lists of *)
(* Discovery and the songs of a playlist are sorted by the database; what  *)
(* the proofs about them need is that each element has one rank, and that  *)
(* only one sequence is sorted.                                            *)
(***************************************************************************)
EXTENDS Naturals, FiniteSets, FiniteSetTheorems, TLAPS

\* R is a strict total order of S.
StrictOrder(S, R) ==
  /\ \A x \in S : <<x, x>> \notin R
  /\ \A x, y, z \in S : <<x, y>> \in R /\ <<y, z>> \in R => <<x, z>> \in R
  /\ \A x, y \in S : x = y \/ <<x, y>> \in R \/ <<y, x>> \in R

Below(S, R, x) == {y \in S : <<y, x>> \in R}
Rank(S, R, x) == Cardinality(Below(S, R, x)) + 1

\* Ordered, for an order that is a set of pairs.
Sorted(S, R) == [i \in 1..Cardinality(S) |-> CHOOSE x \in S : Rank(S, R, x) = i]

\* Each rank is taken once, in the order.
LEMMA RankedOnce ==
  ASSUME NEW S, NEW R, IsFiniteSet(S), StrictOrder(S, R)
  PROVE  /\ Cardinality(S) \in Nat
         /\ \A x \in S : Rank(S, R, x) \in 1..Cardinality(S)
         /\ \A x, y \in S : <<x, y>> \in R <=> Rank(S, R, x) < Rank(S, R, y)
         /\ \A x, y \in S : Rank(S, R, x) = Rank(S, R, y) => x = y
         /\ \A i \in 1..Cardinality(S) : \E x \in S : Rank(S, R, x) = i
<1>1. Cardinality(S) \in Nat
  BY FS_CardinalityType
<1>2. ASSUME NEW x \in S
      PROVE  /\ IsFiniteSet(Below(S, R, x))
             /\ Cardinality(Below(S, R, x)) \in 0..(Cardinality(S) - 1)
  <2>1. Below(S, R, x) \in SUBSET (S \ {x})
    BY DEF Below, StrictOrder
  <2>2. IsFiniteSet(S \ {x}) /\ Cardinality(S \ {x}) = Cardinality(S) - 1
    BY FS_RemoveElement
  <2>3. /\ IsFiniteSet(Below(S, R, x))
        /\ Cardinality(Below(S, R, x)) <= Cardinality(S \ {x})
    BY <2>1, <2>2, FS_Subset
  <2>4. Cardinality(Below(S, R, x)) \in Nat
    BY <2>3, FS_CardinalityType
  <2>5. QED BY <1>1, <2>2, <2>3, <2>4
<1>3. ASSUME NEW x \in S, NEW y \in S, <<x, y>> \in R
      PROVE  Rank(S, R, x) < Rank(S, R, y)
  <2>1. Below(S, R, x) \in SUBSET Below(S, R, y)
    BY <1>3 DEF Below, StrictOrder
  <2>2. x \in Below(S, R, y) /\ x \notin Below(S, R, x)
    BY <1>3 DEF Below, StrictOrder
  <2>3. Cardinality(Below(S, R, x)) <= Cardinality(Below(S, R, y))
    BY <1>2, <2>1, FS_Subset
  <2>4. Cardinality(Below(S, R, x)) # Cardinality(Below(S, R, y))
    BY <1>2, <2>1, <2>2, FS_Subset
  <2>5. QED BY <1>1, <1>2, <2>3, <2>4 DEF Rank
<1>4. \A x \in S : Rank(S, R, x) \in 1..Cardinality(S)
  BY <1>1, <1>2 DEF Rank
<1>5. \A x, y \in S : <<x, y>> \in R <=> Rank(S, R, x) < Rank(S, R, y)
  <2>1. ASSUME NEW x \in S, NEW y \in S, Rank(S, R, x) < Rank(S, R, y)
        PROVE  <<x, y>> \in R
    <3>1. x # y /\ ~(Rank(S, R, y) < Rank(S, R, x))
      BY <1>1, <1>4, <2>1
    <3>2. QED BY <1>3, <3>1 DEF StrictOrder
  <2>2. QED BY <1>3, <2>1
<1>6. \A x, y \in S : Rank(S, R, x) = Rank(S, R, y) => x = y
  <2>1. ASSUME NEW x \in S, NEW y \in S, Rank(S, R, x) = Rank(S, R, y)
        PROVE  x = y
    <3>1. ~(Rank(S, R, x) < Rank(S, R, y)) /\ ~(Rank(S, R, y) < Rank(S, R, x))
      BY <1>1, <1>4, <2>1
    <3>2. QED BY <1>3, <3>1 DEF StrictOrder
  <2>2. QED BY <2>1
<1>7. \A i \in 1..Cardinality(S) : \E x \in S : Rank(S, R, x) = i
  <2> DEFINE rank == [x \in S |-> Rank(S, R, x)]
             T == 1..Cardinality(S)
  <2>1. rank \in Injection(S, T)
    BY <1>4, <1>6 DEF Injection, IsInjective
  <2>2. IsFiniteSet(T) /\ Cardinality(T) = Cardinality(S)
    BY <1>1, FS_Interval
  <2> HIDE DEF rank, T
  <2>3. rank \in Surjection(S, T)
    BY <2>1, <2>2, FS_Injection
  <2>4. \A t \in T : \E x \in S : rank[x] = t
    BY <2>3 DEF Surjection
  <2>5. QED BY <2>4 DEF rank, T
<1>8. QED BY <1>1, <1>4, <1>5, <1>6, <1>7

\* A sorted set has every element, at its rank.
LEMMA SortedByRank ==
  ASSUME NEW S, NEW R, IsFiniteSet(S), StrictOrder(S, R)
  PROVE  /\ Sorted(S, R) \in [1..Cardinality(S) -> S]
         /\ \A i \in 1..Cardinality(S) : Rank(S, R, Sorted(S, R)[i]) = i
         /\ \A x \in S : Sorted(S, R)[Rank(S, R, x)] = x
         /\ \A i, j \in 1..Cardinality(S) :
              Sorted(S, R)[i] = Sorted(S, R)[j] => i = j
<1>1. ASSUME NEW i \in 1..Cardinality(S)
      PROVE  Sorted(S, R)[i] \in S /\ Rank(S, R, Sorted(S, R)[i]) = i
  BY RankedOnce DEF Sorted
<1>2. Sorted(S, R) \in [1..Cardinality(S) -> S]
  BY <1>1 DEF Sorted
<1>3. \A x \in S : Sorted(S, R)[Rank(S, R, x)] = x
  BY <1>1, RankedOnce
<1>4. QED BY <1>1, <1>2, <1>3

\* No other sequence of the elements follows the order.
LEMMA SortedOnly ==
  ASSUME NEW S, NEW R, IsFiniteSet(S), StrictOrder(S, R),
         NEW f \in [1..Cardinality(S) -> S],
         \A i, j \in 1..Cardinality(S) : i < j => <<f[i], f[j]>> \in R
  PROVE  f = Sorted(S, R)
<1> DEFINE n == Cardinality(S)
           T == 1..n
<1>1. n \in Nat
  BY FS_CardinalityType
<1>2. ASSUME NEW i \in T, NEW j \in T, f[i] = f[j]
      PROVE  i = j
  <2>1. ~(i < j) /\ ~(j < i)
    BY <1>2 DEF StrictOrder
  <2>2. QED BY <1>1, <2>1
<1>3. ASSUME NEW x \in S
      PROVE  \E i \in T : f[i] = x
  <2>1. f \in Injection(T, S)
    BY <1>2 DEF Injection, IsInjective
  <2>2. IsFiniteSet(T) /\ Cardinality(T) = n
    BY <1>1, FS_Interval
  <2> HIDE DEF T
  <2>3. f \in Surjection(T, S)
    BY <2>1, <2>2, FS_Injection
  <2>4. QED BY <2>3 DEF Surjection
<1>4. ASSUME NEW i \in T
      PROVE  Rank(S, R, f[i]) = i
  <2> DEFINE I == 1..(i - 1)
             B == Below(S, R, f[i])
  <2>1. ASSUME NEW y \in S
        PROVE  y \in B <=> \E j \in I : f[j] = y
    <3>1. PICK j \in T : f[j] = y
      BY <1>3
    <3>2. CASE j < i
      BY <1>1, <1>4, <3>1, <3>2 DEF Below
    <3>3. CASE i <= j
      <4>1. <<f[j], f[i]>> \notin R
        <5>1. CASE i = j
          BY <5>1 DEF StrictOrder
        <5>2. CASE i < j
          <6>1. <<f[i], f[j]>> \in R
            BY <5>2
          <6>2. QED BY <6>1 DEF StrictOrder
        <5>3. QED BY <1>1, <3>3, <5>1, <5>2
      <4>2. \A k \in I : k \in T /\ k # j
        BY <1>1, <3>3
      <4>3. QED BY <1>2, <3>1, <4>1, <4>2 DEF Below
    <3>4. QED BY <1>1, <3>2, <3>3
  <2>2. I \in SUBSET T
    BY <1>1
  <2> DEFINE g == [j \in I |-> f[j]]
  <2>3. g \in Bijection(I, B)
    <3>1. \A j \in I : g[j] \in B
      BY <2>1, <2>2
    <3>2. \A j, k \in I : g[j] = g[k] => j = k
      BY <1>2, <2>2
    <3>3. \A y \in B : \E j \in I : g[j] = y
      BY <2>1 DEF Below
    <3>4. QED BY <3>1, <3>2, <3>3 DEF Bijection, Injection, IsInjective, Surjection
  <2>4. IsFiniteSet(I) /\ Cardinality(I) = i - 1
    <3>1. i - 1 \in Nat
      BY <1>1
    <3>2. QED BY <3>1, FS_Interval
  <2>5. Cardinality(B) = i - 1
    <3> HIDE DEF I, B, g
    <3>1. ExistsBijection(I, B)
      BY <2>3 DEF ExistsBijection
    <3>2. QED BY <2>4, <3>1, FS_Bijection
  <2>6. QED BY <1>1, <2>5 DEF Rank
<1>5. \A i \in T : Sorted(S, R)[i] = f[i]
  BY <1>4, SortedByRank
<1>6. QED BY <1>5 DEF Sorted

=============================================================================
