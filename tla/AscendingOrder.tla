----------------------------- MODULE AscendingOrder -----------------------------
(***************************************************************************)
(* The elements of a finite set of numbers, the smallest first: what a     *)
(* loop visits that walks over a list and passes by the indexes that are   *)
(* not selected.                                                           *)
(***************************************************************************)
EXTENDS Naturals, FiniteSets

\* The element that j of them reach up to.
Nth(S, j) == CHOOSE x \in S : Cardinality({k \in S : k <= x}) = j

Ascending(S) == [j \in 1 .. Cardinality(S) |-> Nth(S, j)]

=============================================================================
