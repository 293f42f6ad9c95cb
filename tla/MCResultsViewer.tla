----------------------------- MODULE MCResultsViewer -----------------------------
(***************************************************************************)
(* Instance of ResultsViewer for TLC.                                      *)
(***************************************************************************)
EXTENDS ResultsViewer

=============================================================================
