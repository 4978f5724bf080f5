---------------------------- MODULE MCViewerPage ---------------------------
(* Instances of ViewerPage for TLC. *)
EXTENDS ViewerPage

TwoSeconds == <<1, 2>>
=============================================================================
