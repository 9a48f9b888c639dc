------------------------------ MODULE Ranking -------------------------------
(* Sorting by rank: a finite set as the sequence of its elements in an order, without *)
(* recursion, so that proofs can expand it. *)
EXTENDS Integers, FiniteSets

\* The elements of the domain, by the rank that each is given.
ByRank(rank) == [p \in 1..Cardinality(DOMAIN rank) |-> CHOOSE x \in DOMAIN rank : rank[x] = p]

\* A set of numbers, ascending.
Ascending(S) == ByRank([x \in S |-> Cardinality({y \in S : y <= x})])
=============================================================================
