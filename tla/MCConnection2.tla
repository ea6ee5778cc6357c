---------------------------- MODULE MCConnection2 ----------------------------
(* An instance of Connection2: both ends listen, and each has one channel number. *)
EXTENDS Connection2

MCLoad == <<[client |-> 1, server |-> 2], [client |-> 5, server |-> 0]>>
=============================================================================
