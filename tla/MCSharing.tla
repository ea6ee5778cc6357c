----------------------------- MODULE MCSharing -----------------------------
(* Two downstreams and a port. *)
EXTENDS Sharing
CONSTANTS d1, d2, p1
=============================================================================
