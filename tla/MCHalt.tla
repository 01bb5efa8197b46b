------------------------------- MODULE MCHalt -------------------------------
(* Small instances of the emergency halt for TLC. *)
EXTENDS HaltInvariant

CONSTANTS w1, w2
=============================================================================
