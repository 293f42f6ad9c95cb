-------------------------- MODULE MCStorageCapacity --------------------------
(***************************************************************************)
(* Instances of StorageCapacity for TLC.                                   *)
(***************************************************************************)
EXTENDS StorageCapacity, TLC

CONSTANTS c1, c2, c3, u1, u2, u3, u4, r1, r2

Symmetry == Permutations(Call) \cup Permutations(RunId) \cup Permutations(Request)

=============================================================================
