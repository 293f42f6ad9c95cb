------------------------- MODULE MCDurablePublication -------------------------
(***************************************************************************)
(* Instances of DurablePublication for TLC.                                *)
(***************************************************************************)
EXTENDS DurablePublication, TLC

CONSTANTS c1, c2, r1, r2

Symmetry == Permutations(Call) \cup Permutations(Request)

=============================================================================
