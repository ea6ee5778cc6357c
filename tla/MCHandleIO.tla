----------------------------- MODULE MCHandleIO -----------------------------
(* A small instance of HandleIO: any two of two inputs and an output. *)
EXTENDS HandleIO

CONSTANTS i1, i2, o1
=============================================================================
