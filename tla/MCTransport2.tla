---------------------------- MODULE MCTransport2 ----------------------------
(* An instance of Transport2: the client sends two packets, the server one. *)
EXTENDS Transport2

MCMaxSent == [client |-> 2, server |-> 1]
=============================================================================
