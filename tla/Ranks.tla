------------------------------- MODULE Ranks -------------------------------
(***************************************************************************)
(* The first elements of a set, for the loops of the loader that look for  *)
(* a first match or that stop storing when an array or a map is full.      *)
(***************************************************************************)
EXTENDS Integers, FiniteSetsExt

\* The smallest of a set of numbers; 0: there is none.
Lowest(S) == IF S = {} THEN 0 ELSE Min(S)

\* The n smallest of a set of numbers.
FirstFew(S, n) == {k \in S : Cardinality({j \in S : j < k}) < n}

\* A set of numbers in ascending order.
Ranked(S) == [i \in 1..Cardinality(S) |->
                CHOOSE k \in S : Cardinality({j \in S : j < k}) = i - 1]

\* Pairs are met by their first component, then by their second.
Before(S, x) == {y \in S : y[1] < x[1] \/ (y[1] = x[1] /\ y[2] < x[2])}

\* The first n of a set of pairs.
FirstPairs(S, n) == {x \in S : Cardinality(Before(S, x)) < n}

\* A set of pairs in that order.
RankedPairs(S) == [i \in 1..Cardinality(S) |->
                     CHOOSE x \in S : Cardinality(Before(S, x)) = i - 1]

=============================================================================
