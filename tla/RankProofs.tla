----------------------------- MODULE RankProofs -----------------------------
(***************************************************************************)
(* The operators of Ranks, for every finite set: the first match of a      *)
(* loop, the elements kept by one that stops when an array is full, and    *)
(* the elements in order.  The other proof modules rest on these lemmas.   *)
(***************************************************************************)
EXTENDS Ranks, FiniteSetTheorems, TLAPS

\* One time limit for the SMT solver on every leaf.
USE SMTT(30)

-----------------------------------------------------------------------------
(* Smallest and largest elements.                                          *)

\* Every set of natural numbers has a least element: the induction principle
\* of the proofs about loops over arrays.
LEMMA LeastNat ==
  ASSUME NEW S \in SUBSET Nat, S # {}
  PROVE  \E m \in S : \A k \in S : m <= k
<1> DEFINE R == OpToRel(<, Nat)
<1>1. IsWellFoundedOn(R, Nat)
  BY NatLessThanWellFounded, Zenon
<1>2. \E m \in S : \A y \in S : ~(<<y, m>> \in R)
  <2> HIDE DEF R
  <2> QED BY <1>1, WFMin, Zenon
<1>3. PICK m \in S : \A y \in S : ~(<<y, m>> \in R)
  BY <1>2, Zenon
<1>4. \A y \in S : ~(y < m)
  BY <1>3, Zenon DEF OpToRel
<1> QED BY <1>4

\* The first match of a loop over an array.
LEMMA LowestIs ==
  ASSUME NEW S \in SUBSET Nat, 0 \notin S
  PROVE  /\ Lowest(S) = 0 <=> S = {}
         /\ Lowest(S) # 0 => Lowest(S) \in S /\ \A k \in S : Lowest(S) <= k
<1>1. CASE S = {}
  BY <1>1 DEF Lowest
<1>2. CASE S # {}
  <2>1. \E m \in S : \A k \in S : m <= k
    BY <1>2, LeastNat
  <2>2. Min(S) \in S /\ \A k \in S : Min(S) <= k
    BY <2>1, Zenon DEF Min
  <2> QED BY <1>2, <2>2 DEF Lowest
<1> QED BY <1>1, <1>2

\* The first of several indices.
LEMMA MinIs ==
  ASSUME NEW S \in SUBSET Nat, S # {}
  PROVE  Min(S) \in S /\ \A k \in S : Min(S) <= k
<1>1. \E m \in S : \A k \in S : m <= k
  BY LeastNat
<1> QED BY <1>1, Zenon DEF Min

\* The last of several indices.
LEMMA MaxIs ==
  ASSUME NEW n \in Nat, NEW S \in SUBSET (0..n), S # {}
  PROVE  Max(S) \in S /\ \A k \in S : k <= Max(S)
<1> DEFINE D == {i \in 0..n : n - i \in S}
<1>1. \E m \in D : \A k \in D : m <= k
  <2>1. D # {} /\ D \in SUBSET Nat
    <3>1. PICK s \in S : TRUE
      BY Zenon
    <3>2. n - s \in D
      OBVIOUS
    <3> QED BY <3>2
  <2> HIDE DEF D
  <2> QED BY <2>1, LeastNat
<1>2. PICK m \in D : \A k \in D : m <= k
  BY <1>1
<1>3. n - m \in S /\ \A k \in S : n - m >= k
  <2>1. ASSUME NEW k \in S PROVE n - m >= k
    <3>1. n - k \in D
      OBVIOUS
    <3>2. m <= n - k /\ k \in 0..n /\ m \in 0..n
      BY <1>2, <3>1, Zenon
    <3> QED BY <3>2
  <2> QED BY <2>1
<1>4. Max(S) \in S /\ \A k \in S : Max(S) >= k
  BY <1>3, Zenon DEF Max
<1> QED BY <1>4

-----------------------------------------------------------------------------
(* The first elements of an ordered set.                                   *)

\* before[x]: the elements of S that precede x in a strict total order.
Ordered(S, before) ==
  /\ before \in [S -> SUBSET S]
  /\ \A x \in S : x \notin before[x]
  /\ \A x, y \in S : x # y => x \in before[y] \/ y \in before[x]
  /\ \A x, y \in S : x \in before[y] => before[x] \subseteq before[y]

Few(S, before, n) == {x \in S : Cardinality(before[x]) < n}

\* K holds n elements of S, or all of them.
Kept(S, n, K) ==
  /\ K \subseteq S
  /\ IsFiniteSet(K) /\ Cardinality(K) \in Nat /\ Cardinality(K) <= n
  /\ Cardinality(S) <= n => K = S
  /\ K # S => Cardinality(K) = n

\* In a finite ordered set no two elements are preceded by the same number of
\* others.
LEMMA RankInjective ==
  ASSUME NEW S, IsFiniteSet(S), NEW before, Ordered(S, before)
  PROVE  /\ \A x \in S : /\ IsFiniteSet(before[x])
                         /\ Cardinality(before[x]) \in 0..(Cardinality(S) - 1)
         /\ \A x, y \in S : x # y => Cardinality(before[x]) # Cardinality(before[y])
         /\ \A x, y \in S : x \in before[y] => Cardinality(before[x]) < Cardinality(before[y])
<1> USE DEF Ordered
<1>1. \A x \in S : IsFiniteSet(before[x]) /\ Cardinality(before[x]) \in Nat
  BY FS_Subset, FS_CardinalityType
<1>2. ASSUME NEW A \in SUBSET S, NEW B \in SUBSET A, A # B
      PROVE  Cardinality(B) < Cardinality(A)
  <2>1. IsFiniteSet(A)
    BY FS_Subset
  <2>2. IsFiniteSet(B) /\ Cardinality(B) <= Cardinality(A) /\ Cardinality(A) # Cardinality(B)
    BY <1>2, <2>1, FS_Subset
  <2>3. Cardinality(A) \in Nat /\ Cardinality(B) \in Nat
    BY <2>1, <2>2, FS_CardinalityType
  <2> QED BY <2>2, <2>3
<1>3. ASSUME NEW x \in S PROVE Cardinality(before[x]) \in 0..(Cardinality(S) - 1)
  <2>1. Cardinality(before[x]) < Cardinality(S)
    BY <1>2
  <2> QED BY <1>1, <2>1, FS_CardinalityType
<1>4. ASSUME NEW x \in S, NEW y \in S, x \in before[y]
      PROVE  Cardinality(before[x]) < Cardinality(before[y])
  <2>1. before[x] \subseteq before[y] /\ before[x] # before[y]
    BY <1>4
  <2>2. before[y] \in SUBSET S
    OBVIOUS
  <2> QED BY <1>2, <2>1, <2>2
<1>5. ASSUME NEW x \in S, NEW y \in S, x # y
      PROVE  Cardinality(before[x]) # Cardinality(before[y])
  BY <1>1, <1>4, <1>5
<1> QED BY <1>1, <1>3, <1>4, <1>5

\* Every number below the size of a finite ordered set is the rank of one of
\* its elements.
LEMMA RankOnto ==
  ASSUME NEW S, IsFiniteSet(S), NEW before, Ordered(S, before),
         NEW m \in 0..(Cardinality(S) - 1)
  PROVE  \E x \in S : Cardinality(before[x]) = m
<1> DEFINE rank == [x \in S |-> Cardinality(before[x])]
           top  == Cardinality(S) - 1
<1>1. /\ rank \in [S -> 0..top]
      /\ \A x, y \in S : x # y => rank[x] # rank[y]
  BY RankInjective
<1>2. \A x \in S : rank[x] = Cardinality(before[x])
  BY Zenon
<1> HIDE DEF rank
<1>3. rank \in Injection(S, 0..top)
  BY <1>1 DEF Injection, IsInjective
<1>4. IsFiniteSet(0..top) /\ Cardinality(0..top) = Cardinality(S)
  BY FS_CardinalityType, FS_Interval
<1>5. rank \in Surjection(S, 0..top)
  BY <1>3, <1>4, FS_Injection
<1>6. PICK x \in S : rank[x] = m
  BY <1>5, Zenon DEF Surjection
<1> QED BY <1>2, <1>6, Zenon

\* The elements preceded by fewer than n others are n, or all.
LEMMA FewKept ==
  ASSUME NEW S, IsFiniteSet(S), NEW before, Ordered(S, before), NEW n \in Nat
  PROVE  Kept(S, n, Few(S, before, n))
<1> DEFINE K == Few(S, before, n)
<1> DEFINE rank == [x \in S |-> Cardinality(before[x])]
           top  == Cardinality(S) - 1
<1>1. /\ rank \in [S -> 0..top]
      /\ \A x, y \in S : x # y => rank[x] # rank[y]
  BY RankInjective
<1>2. Cardinality(S) \in Nat
  BY FS_CardinalityType
<1>3. K \subseteq S /\ IsFiniteSet(K) /\ Cardinality(K) \in Nat
  BY FS_Subset, FS_CardinalityType DEF Few
<1>4. IsFiniteSet(0..(n - 1)) /\ Cardinality(0..(n - 1)) = n
  BY FS_Interval
<1>5. K = {x \in S : rank[x] < n}
  BY DEF Few
<1> DEFINE few == [x \in K |-> rank[x]]
<1> HIDE DEF rank, K
<1>6. few \in Injection(K, 0..(n - 1))
  BY <1>1, <1>5 DEF Injection, IsInjective
<1>7. Cardinality(K) <= n
  BY <1>4, <1>6, FS_Injection
<1>8. ASSUME Cardinality(S) <= n PROVE K = S
  BY <1>1, <1>2, <1>5, <1>8
<1>9. ASSUME K # S PROVE Cardinality(K) = n
  <2>1. rank \in Injection(S, 0..top)
    BY <1>1 DEF Injection, IsInjective
  <2>2. IsFiniteSet(0..top) /\ Cardinality(0..top) = Cardinality(S)
    BY <1>2, FS_Interval
  <2>3. rank \in Surjection(S, 0..top)
    BY <2>1, <2>2, FS_Injection
  <2>4. PICK x \in S : rank[x] >= n
    BY <1>1, <1>2, <1>5, <1>9
  <2>5. ASSUME NEW m \in 0..(n - 1) PROVE \E y \in K : few[y] = m
    <3>1. m \in 0..top
      BY <1>1, <1>2, <2>4
    <3>2. PICK y \in S : rank[y] = m
      BY <2>3, <3>1 DEF Surjection
    <3>3. y \in K
      BY <1>5, <3>2
    <3> QED BY <3>2, <3>3
  <2>6. few \in Surjection(K, 0..(n - 1))
    <3>1. few \in [K -> 0..(n - 1)]
      BY <1>6 DEF Injection
    <3> HIDE DEF few
    <3> QED BY <2>5, <3>1 DEF Surjection
  <2> QED BY <1>4, <1>6, <2>6, FS_Injection
<1> QED BY <1>3, <1>7, <1>8, <1>9 DEF Kept, K

\* The list holds every element, at the place its rank gives.
Enumerates(S, before, list) ==
  /\ Cardinality(S) \in Nat /\ list \in [1..Cardinality(S) -> S]
  /\ \A i \in 1..Cardinality(S) : Cardinality(before[list[i]]) = i - 1
  /\ \A x \in S : /\ Cardinality(before[x]) + 1 \in 1..Cardinality(S)
                  /\ list[Cardinality(before[x]) + 1] = x

LEMMA ByRankListed ==
  ASSUME NEW S, IsFiniteSet(S), NEW before, Ordered(S, before), NEW list,
         list = [i \in 1..Cardinality(S) |-> list[i]],
         \A i \in 1..Cardinality(S) :
           (\E x \in S : Cardinality(before[x]) = i - 1)
             => list[i] \in S /\ Cardinality(before[list[i]]) = i - 1
  PROVE  Enumerates(S, before, list)
<1> DEFINE n == Cardinality(S)
<1>1. n \in Nat
  BY FS_CardinalityType
<1>2. ASSUME NEW i \in 1..n
      PROVE  list[i] \in S /\ Cardinality(before[list[i]]) = i - 1
  <2>1. i - 1 \in 0..(n - 1)
    BY <1>1
  <2>2. \E x \in S : Cardinality(before[x]) = i - 1
    BY <2>1, RankOnto
  <2> QED BY <2>2, Zenon
<1>3. \A y, z \in S : Cardinality(before[y]) = Cardinality(before[z]) => y = z
  BY RankInjective
<1>4. list \in [1..n -> S]
  BY <1>2, Zenon
<1>5. ASSUME NEW x \in S
      PROVE  Cardinality(before[x]) + 1 \in 1..n /\ list[Cardinality(before[x]) + 1] = x
  <2>1. Cardinality(before[x]) \in 0..(n - 1)
    BY RankInjective, Zenon
  <2>2. Cardinality(before[x]) + 1 \in 1..n /\ Cardinality(before[x]) + 1 - 1 = Cardinality(before[x])
    BY <1>1, <2>1
  <2>3. PICK i \in 1..n : i = Cardinality(before[x]) + 1
    BY <2>2, Zenon
  <2>4. list[i] \in S /\ Cardinality(before[list[i]]) = Cardinality(before[x])
    BY <1>2, <2>1, <2>3
  <2>5. list[i] = x
    BY <1>3, <2>4, Zenon
  <2> QED BY <2>2, <2>3, <2>5, Zenon
<1> QED BY <1>1, <1>2, <1>4, <1>5, Zenon DEF Enumerates

\* The numbers below a number, and the pairs before a pair.
Below(S) == [x \in S |-> {j \in S : j < x}]
Earlier(S) == [x \in S |-> Before(S, x)]

LEMMA BelowOrders ==
  ASSUME NEW S, S \subseteq Int
  PROVE  Ordered(S, Below(S))
<1>1. \A x, y \in S : x < y => \A j \in S : j < x => j < y
  OBVIOUS
<1>2. \A x, y \in S : x # y => x < y \/ y < x
  OBVIOUS
<1>3. \A x \in S : ~(x < x)
  OBVIOUS
<1> QED BY <1>1, <1>2, <1>3, Zenon DEF Ordered, Below

LEMMA EarlierOrders ==
  ASSUME NEW S, S \subseteq Int \X Int
  PROVE  Ordered(S, Earlier(S))
<1>1. \A x \in S : x[1] \in Int /\ x[2] \in Int /\ x = <<x[1], x[2]>>
  OBVIOUS
<1>2. Earlier(S) \in [S -> SUBSET S] /\ \A x \in S : x \notin Earlier(S)[x]
  BY <1>1 DEF Before, Earlier
<1>3. ASSUME NEW x \in S, NEW y \in S, x # y
      PROVE  x \in Earlier(S)[y] \/ y \in Earlier(S)[x]
  <2>1. x[1] # y[1] \/ x[2] # y[2]
    BY <1>1, <1>3
  <2> QED BY <1>1, <2>1 DEF Before, Earlier
<1>4. ASSUME NEW x \in S, NEW y \in S, x \in Earlier(S)[y]
      PROVE  Earlier(S)[x] \subseteq Earlier(S)[y]
  BY <1>1, <1>4 DEF Before, Earlier
<1> QED BY <1>2, <1>3, <1>4, Zenon DEF Ordered

\* FirstFew keeps n numbers, or all of them: the loops that store sites,
\* entries or blocks until an array or a map is full.
LEMMA FirstFewKept ==
  ASSUME NEW S, S \subseteq Int, IsFiniteSet(S), NEW n \in Nat
  PROVE  Kept(S, n, FirstFew(S, n))
<1>1. FirstFew(S, n) = Few(S, Below(S), n)
  BY Zenon DEF FirstFew, Few, Below
<1> QED BY <1>1, BelowOrders, FewKept, Zenon

\* FirstPairs keeps n pairs, or all of them: the loops over sections or
\* functions, and over the bytes of each.
LEMMA FirstPairsKept ==
  ASSUME NEW S, S \subseteq Int \X Int, IsFiniteSet(S), NEW n \in Nat
  PROVE  Kept(S, n, FirstPairs(S, n))
<1>1. FirstPairs(S, n) = Few(S, Earlier(S), n)
  BY Zenon DEF FirstPairs, Few, Earlier
<1> QED BY <1>1, EarlierOrders, FewKept, Zenon

\* Ranked and RankedPairs list a set in order.
LEMMA RankedListed ==
  ASSUME NEW S, S \subseteq Int, IsFiniteSet(S)
  PROVE  Enumerates(S, Below(S), Ranked(S))
<1> DEFINE list == Ranked(S)
           nth(i) == CHOOSE k \in S : Cardinality({j \in S : j < k}) = i - 1
<1>1. list = [i \in 1..Cardinality(S) |-> list[i]]
  <2>1. list = [i \in 1..Cardinality(S) |-> nth(i)]
    BY Zenon DEF Ranked
  <2> HIDE DEF nth, list
  <2> QED BY <2>1, Zenon
<1>2. ASSUME NEW i \in 1..Cardinality(S), \E x \in S : Cardinality(Below(S)[x]) = i - 1
      PROVE  list[i] \in S /\ Cardinality(Below(S)[list[i]]) = i - 1
  <2>1. \A x \in S : Below(S)[x] = {j \in S : j < x}
    BY Zenon DEF Below
  <2>2. \E x \in S : Cardinality({j \in S : j < x}) = i - 1
    BY <1>2, <2>1, Zenon
  <2>3. list[i] = CHOOSE x \in S : Cardinality({j \in S : j < x}) = i - 1
    BY Zenon DEF Ranked
  <2> QED BY <2>1, <2>2, <2>3, Zenon
<1> HIDE DEF list
<1>3. Enumerates(S, Below(S), list)
  BY <1>1, <1>2, BelowOrders, ByRankListed, Zenon
<1> QED BY <1>3 DEF list

LEMMA RankedPairsListed ==
  ASSUME NEW S, S \subseteq Int \X Int, IsFiniteSet(S)
  PROVE  Enumerates(S, Earlier(S), RankedPairs(S))
<1> DEFINE list == RankedPairs(S)
           nth(i) == CHOOSE x \in S : Cardinality(Before(S, x)) = i - 1
<1>1. list = [i \in 1..Cardinality(S) |-> list[i]]
  <2>1. list = [i \in 1..Cardinality(S) |-> nth(i)]
    BY Zenon DEF RankedPairs
  <2> HIDE DEF nth, list
  <2> QED BY <2>1, Zenon
<1>2. ASSUME NEW i \in 1..Cardinality(S), \E x \in S : Cardinality(Earlier(S)[x]) = i - 1
      PROVE  list[i] \in S /\ Cardinality(Earlier(S)[list[i]]) = i - 1
  <2>1. \A x \in S : Earlier(S)[x] = Before(S, x)
    BY Zenon DEF Earlier
  <2>2. \E x \in S : Cardinality(Before(S, x)) = i - 1
    BY <1>2, <2>1, Zenon
  <2>3. list[i] = CHOOSE x \in S : Cardinality(Before(S, x)) = i - 1
    BY Zenon DEF RankedPairs
  <2> QED BY <2>1, <2>2, <2>3, Zenon
<1> HIDE DEF list
<1>3. Enumerates(S, Earlier(S), list)
  BY <1>1, <1>2, EarlierOrders, ByRankListed, Zenon
<1> QED BY <1>3 DEF list

=============================================================================
