----------------------------- MODULE MCSessions -----------------------------
(* Instances of Sessions for TLC. *)
EXTENDS Sessions, TLC

CONSTANTS a, b, c, null

\* The default settings, and tabs that stay when their session has ended.
Default == {[close_on_exit |-> "AUTO", no_remote_resize |-> FALSE]}
DefaultOrStaying ==
  Default \cup {[close_on_exit |-> "FORCE_OFF", no_remote_resize |-> TRUE]}

\* Bound: three tabs at a time only where the buffers are simple.
TwoTabs == conf \in Default => count <= 2

\* The sessions other than the first are interchangeable.
SessionSymmetry == Permutations(Session \ {First})
=============================================================================
