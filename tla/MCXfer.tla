------------------------------- MODULE MCXfer -------------------------------
(* An instance of Xfer: files of up to seven units, in blocks of two, three of them at a time. *)
EXTENDS Xfer
=============================================================================
