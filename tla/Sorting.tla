------------------------------- MODULE Sorting -------------------------------
(***************************************************************************)
(* What the server does with orderBy and the pages with sort and filter:   *)
(* the numbers of a set in ascending order, and the part of a list at some *)
(* of its places.  An element is found by its rank, not by a recursion.    *)
(***************************************************************************)
EXTENDS Naturals, FiniteSets

Ascending(S) ==
    [i \in 1..Cardinality(S) |-> CHOOSE x \in S : Cardinality({y \in S : y < x}) = i - 1]

\* The elements of s at the places, in the order they have in s.
Sublist(s, places) ==
    LET at == Ascending(places) IN [i \in DOMAIN at |-> s[at[i]]]
=============================================================================
