---------------------------- MODULE TimerService ----------------------------
(***************************************************************************)
(* What putty/timing.c promises its users (putty.h, "Exports from          *)
(* timing.c"): the callback for a timer comes once its time has passed,    *)
(* earlier timers first, and never after its context has been expired.     *)
(* Times are unsigned long, 32 bits wide, and wrap around.                 *)
(***************************************************************************)
EXTENDS Integers

CONSTANTS
  Ctx,      \* the contexts (with each goes one function)
  W         \* 2^32: times are counted modulo W

ASSUME ServiceAssumption == Ctx \subseteq Nat /\ W \in Nat /\ W > 2

VARIABLES
  clock,    \* GETTICKCOUNT()
  pending   \* the timers: a context and a time

timerVars == <<clock, pending>>

Time == 0 .. W - 1

\* The difference of two times as a signed long, and whether a comes after b.
Signed(d) == LET m == d % W IN IF 2 * m < W THEN m ELSE m - W
After(a, b) == Signed(a - b) > 0

ServiceInit == clock \in Time /\ pending = {}

\* The pending timers with one more, or without those of an expired context.
With(timers, c, at) == timers \cup {<<c, at>>}
Without(timers, c) == {p \in timers : p[1] # c}

\* The timers whose callback may come next.
Ripe(timers) ==
  {p \in timers : After(clock, p[2]) /\ \A q \in timers : ~After(p[2], q[2])}

ServiceTick == clock' = (clock + 1) % W /\ UNCHANGED pending
\* ... with a front end that is never later than this (Timing shows how late it is).
PunctualTick(late) == (\A p \in pending : Signed(clock - p[2]) < late) /\ ServiceTick

ServiceSchedule(c, at) == pending' = With(pending, c, at) /\ UNCHANGED clock
ServiceExpire(c) == pending' = Without(pending, c) /\ UNCHANGED clock
ServiceFire(p) == p \in Ripe(pending) /\ pending' = pending \ {p} /\ UNCHANGED clock

ServiceNext ==
  \/ ServiceTick
  \/ \E c \in Ctx : ServiceExpire(c) \/ \E at \in Time : ServiceSchedule(c, at)
  \/ \E p \in pending : ServiceFire(p)

ServiceSpec == ServiceInit /\ [][ServiceNext]_timerVars
=============================================================================
