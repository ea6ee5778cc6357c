--------------------------- MODULE MCHandleSocket ---------------------------
(* Instances of HandleSocket for TLC. *)
EXTENDS HandleSocket
=============================================================================
