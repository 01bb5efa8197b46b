------------------------------- MODULE MCPanel -------------------------------
(* Instances of DisputePanel for TLC. *)
EXTENDS PanelInvariant
=============================================================================
