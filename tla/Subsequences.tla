----------------------------- MODULE Subsequences -----------------------------
(***************************************************************************)
(* The elements of a sequence at some of its positions, in their order: a  *)
(* list comprehension with a condition, or the rows a WHERE leaves.        *)
(***************************************************************************)
EXTENDS Naturals, Sequences, FiniteSets

\* How many members of K are at most k.
Rank(K, k) == Cardinality({j \in K : j <= k})

\* The i-th member of K, from the smallest.
Ith(K, i) == CHOOSE k \in K : Rank(K, k) = i

Picked(s, K) == [i \in 1 .. Cardinality(K) |-> s[Ith(K, i)]]
=============================================================================
