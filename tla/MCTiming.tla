------------------------------ MODULE MCTiming ------------------------------
(* Instances of Timing for TLC. *)
EXTENDS Timing
=============================================================================
