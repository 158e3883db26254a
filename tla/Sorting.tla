------------------------------ MODULE Sorting ------------------------------
(***************************************************************************)
(* What sort.Slice and a loop that skips elements come to, stated so that  *)
(* it can be reasoned about: by counting, and without recursion.           *)
(***************************************************************************)
EXTENDS Integers, FiniteSets

\* sort.Slice: each after those of a lower rank.
SortedBy(S, rank) ==
    [i \in 1..Cardinality(S) |->
       CHOOSE x \in S : Cardinality({y \in S : rank[y] < rank[x]}) = i - 1]

\* The elements of a sequence at some of its places, in their order.
ElementsAt(seq, places) ==
    LET at == SortedBy(places, [i \in places |-> i])
    IN  [n \in 1..Cardinality(places) |-> seq[at[n]]]
=============================================================================
