--------------------------- MODULE MCEvidenceServer ---------------------------
(***************************************************************************)
(* Instances of EvidenceServer for TLC.                                    *)
(***************************************************************************)
EXTENDS EvidenceServer

=============================================================================
