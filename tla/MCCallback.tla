----------------------------- MODULE MCCallback -----------------------------
(* Instances of Callback for TLC. *)
EXTENDS Callback

CONSTANTS o1, o2, c1, c2, c3, c4
=============================================================================
