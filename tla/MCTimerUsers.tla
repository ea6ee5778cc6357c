--------------------------- MODULE MCTimerUsers ---------------------------
(* The two users of the timers for TLC, one of them at a time: the other one *)
(* stays as it is at first.                                                  *)
EXTENDS Pinger, Redraw

VARIABLE user

MCInit == PingerInit /\ Init /\ user \in {"pinger", "terminal"}

MCNext ==
  \/ user = "pinger" /\ PingerNext /\ UNCHANGED <<user, termVars>>
  \/ user = "terminal" /\ Next /\ UNCHANGED <<user, pingerVars, quiet, least>>

MCSpec == MCInit /\ [][MCNext]_<<user, pingAllVars, termVars>>
=============================================================================
