------------------------------- MODULE Timing -------------------------------
(***************************************************************************)
(* putty/timing.c and its front end in win/PuTTY.cpp: a sorted tree of     *)
(* timers, a tree of the contexts they belong to, and one timer of the     *)
(* operating system, set for the first of them.                            *)
(*                                                                         *)
(* expire_timer_context removes a context from the second tree only; its   *)
(* timers are thrown away when they come to the front of the first.  The   *)
(* history variable promised holds the timers as the users of the module   *)
(* have been told of them: it is the state of TimerService.                *)
(***************************************************************************)
EXTENDS Integers, FiniteSets

CONSTANTS
  Ctx, W,
  Slack,     \* the 10 ticks taken off when_set against clock jumps
  Delays,    \* the tick counts that schedule_timer is called with; a negative one is a
             \* time far ahead to it, and what is promised does not hold (see the README)
  Early, Late,   \* a WM_TIMER may come by so much too early or too late
  Slow,      \* bound of the model: how long one run_timers may take
  MaxTimers  \* bound of the model: timers in the tree

ASSUME TimingAssumption ==
  /\ Ctx \subseteq Nat /\ W \in Nat /\ W > 2 /\ Delays \subseteq Nat
  /\ {Slack, Early, Late, Slow, MaxTimers} \subseteq Nat
  /\ \A d \in Delays \cup {1} : 2 * (d + Slack + Late + 2 * Slow) < W

VARIABLES
  clock,          \* GETTICKCOUNT()
  now,            \* its value when it was last read
  timers,         \* the tree of struct timer: ctx, at (its field now), set (when_set)
  contexts,       \* timer_contexts
  armed, left,    \* the SetTimer timer is set, and how many ticks are left
  pc,             \* "idle", in the "loop" of run_timers, or it has called a "fn"
  spent,          \* the ticks since WM_TIMER
  alive,          \* the contexts in use
  promised        \* history: the timers as their users know them

frontVars == <<armed, left>>
runVars == <<pc, spent>>
vars == <<clock, now, timers, contexts, frontVars, runVars, alive, promised>>

Time == 0 .. W - 1
Signed(d) == LET m == d % W IN IF 2 * m < W THEN m ELSE m - W

Init ==
  /\ clock \in Time /\ now = clock
  /\ timers = {} /\ contexts = {}
  /\ armed = FALSE /\ left = 0
  /\ pc = "idle" /\ spent = 0 /\ alive = {}
  /\ promised = {}
-----------------------------------------------------------------------------
\* Mutant of Before: the differences are taken as unsigned.
Before_Unsigned(n, t, u) ==
  LET a == (t.at - n) % W  b == (u.at - n) % W IN a < b \/ (a = b /\ t.ctx < u.ctx)

\* compare_timers, n being the value of now.
Before(n, t, u) ==
  LET a == Signed(t.at - n)  b == Signed(u.at - n) IN a < b \/ (a = b /\ t.ctx < u.ctx)

\* index234(timers, 0)
First(n, T) == CHOOSE t \in T : \A u \in T \ {t} : Before(n, t, u)

\* Mutant of Due: no care is taken of a wrap-around.
Due_Unwrapped(t) == now > t.at

\* The test of run_timers, which sees a clock that jumped to before when_set as well.
Due(t) == (now - (t.set - Slack)) % W > (t.at - (t.set - Slack)) % W

\* timer_change_notify
Notify(at) ==
  /\ armed' = TRUE
  /\ left' = IF Signed(clock - at) >= 0 THEN 0 ELSE (at - clock) % W
-----------------------------------------------------------------------------
\* A user of the module begins, with a context that has no timers left in the tree.
\* (If it had, its next schedule_timer would bring them back: see the README.)
Begin(c) ==
  /\ pc # "loop" /\ c \notin alive /\ \A t \in timers : t.ctx # c
  /\ alive' = alive \cup {c}
  /\ UNCHANGED <<clock, now, timers, contexts, frontVars, runVars, promised>>

\* What schedule_timer returns: when - now <= 0 is a comparison of unsigned values.
When(d) == IF d % W = 0 THEN (clock + 1) % W ELSE (clock + d) % W

\* Mutant of Schedule: the context is forgotten.
Schedule_NoContext(c, d) ==
  /\ pc # "loop" /\ c \in alive /\ Cardinality(timers) < MaxTimers
  /\ now' = clock
  /\ timers' = timers \cup {[ctx |-> c, at |-> When(d), set |-> clock]}
  /\ contexts' = IF timers = {} THEN contexts \cup {c} ELSE contexts
  /\ promised' = promised \cup {<<c, When(d)>>}
  /\ Notify(When(d))
  /\ UNCHANGED <<clock, runVars, alive>>

\* schedule_timer, from anywhere but within timing.c.  If the tree has an identical
\* timer already the new one is dropped, and its context is not looked at.
Schedule(c, d) ==
  /\ pc # "loop" /\ c \in alive /\ Cardinality(timers) < MaxTimers
  /\ now' = clock
  /\ promised' = promised \cup {<<c, When(d)>>}
  /\ LET t == [ctx |-> c, at |-> When(d), set |-> clock] IN
     \/ /\ \E u \in timers : u.ctx = c /\ u.at = t.at
        /\ UNCHANGED <<timers, contexts, frontVars>>
     \/ /\ \A u \in timers : u.ctx # c \/ u.at # t.at
        /\ timers' = timers \cup {t} /\ contexts' = contexts \cup {c}
        /\ IF First(clock, timers') = t THEN Notify(t.at) ELSE UNCHANGED frontVars
  /\ UNCHANGED <<clock, runVars, alive>>

\* The user of a context calls expire_timer_context and frees it.
Free(c) ==
  /\ pc # "loop" /\ c \in alive
  /\ alive' = alive \ {c} /\ contexts' = contexts \ {c}
  /\ promised' = {p \in promised : p[1] # c}
  /\ UNCHANGED <<clock, now, timers, frontVars, runVars>>
-----------------------------------------------------------------------------
\* WM_TIMER: KillTimer, then run_timers, which does not use the time it is given.
WmTimer ==
  /\ pc = "idle" /\ armed /\ left <= Early
  /\ armed' = FALSE /\ left' = 0
  /\ pc' = "loop" /\ now' = clock /\ spent' = 0
  /\ UNCHANGED <<clock, timers, contexts, alive, promised>>

InLoop(t) == pc = "loop" /\ timers # {} /\ t = First(now, timers)

\* The first timer belongs to an expired context.
Purge(t) ==
  /\ InLoop(t) /\ t.ctx \notin contexts
  /\ timers' = timers \ {t}
  /\ UNCHANGED <<clock, now, contexts, frontVars, pc, spent, alive, promised>>

\* first->fn is called.
Fire(t) ==
  /\ InLoop(t) /\ t.ctx \in contexts /\ Due(t)
  /\ timers' = timers \ {t} /\ pc' = "fn"
  /\ promised' = promised \ {<<t.ctx, t.at>>}
  /\ UNCHANGED <<clock, now, contexts, frontVars, spent, alive>>

\* ... and returns.
Return ==
  /\ pc = "fn" /\ pc' = "loop"
  /\ UNCHANGED <<clock, now, timers, contexts, frontVars, spent, alive, promised>>

Idle == pc' = "idle" /\ spent' = 0

\* Mutant of NextTimer: the front end does not wait for it.
NextTimer_NotSet(t) ==
  /\ InLoop(t) /\ t.ctx \in contexts /\ ~Due(t)
  /\ Idle
  /\ UNCHANGED <<clock, now, timers, contexts, frontVars, alive, promised>>

\* run_timers returns true with the time of the next timer, which is set.
NextTimer(t) ==
  /\ InLoop(t) /\ t.ctx \in contexts /\ ~Due(t)
  /\ Idle /\ Notify(t.at)
  /\ UNCHANGED <<clock, now, timers, contexts, alive, promised>>

\* run_timers returns false.
NoTimers ==
  /\ pc = "loop" /\ timers = {} /\ Idle
  /\ UNCHANGED <<clock, now, timers, contexts, frontVars, alive, promised>>
-----------------------------------------------------------------------------
\* Time passes.  A WM_TIMER is not delayed for ever, nor does run_timers take for ever.
Tick ==
  /\ IF pc = "idle" THEN (armed => left > -Late) /\ UNCHANGED spent
                    ELSE spent < Slow /\ spent' = spent + 1
  /\ clock' = (clock + 1) % W
  /\ left' = IF armed /\ left > -Late THEN left - 1 ELSE left
  /\ UNCHANGED <<now, timers, contexts, armed, pc, alive, promised>>

UserStep == \E c \in Ctx : Begin(c) \/ Free(c) \/ \E d \in Delays : Schedule(c, d)

RunStep == Return \/ NoTimers \/ \E t \in timers : Purge(t) \/ Fire(t) \/ NextTimer(t)

Next == UserStep \/ WmTimer \/ RunStep \/ Tick

Spec == Init /\ [][Next]_vars

-----------------------------------------------------------------------------
(* Properties *)

\* Type invariant.  Code: struct timer and the statics of timing.c.
TypeOK ==
  /\ clock \in Time /\ now \in Time
  /\ timers \subseteq [ctx : Ctx, at : Time, set : Time]
  /\ contexts \subseteq alive /\ alive \subseteq Ctx
  /\ armed \in BOOLEAN /\ left \in -Late .. W - 1
  /\ pc \in {"idle", "loop", "fn"} /\ spent \in 0 .. Slow
  /\ promised \subseteq Ctx \X Time

\* The timers that will run.
Live == {t \in timers : t.ctx \in contexts}

\* A timer is never overdue by more than the time a WM_TIMER and a run_timers may
\* take: the front end always waits for the earliest one.
\* Code: timer_change_notify and its two calls.
Punctual == \A t \in Live : Signed(clock - t.at) <= Late + 2 * Slow

\* The timers that have been asked for, and no others, are in the tree, and they
\* run when their time comes.
\* Code: putty.h, "The returned value is the time [...] at which the callback can be
\* expected"; schedule_timer, run_timers.
PromisesKept == TypeOK /\ promised = {<<t.ctx, t.at>> : t \in Live} /\ Punctual

\* What the users see is the service promised to them.
Service == INSTANCE TimerService WITH pending <- promised
ImplementsService == Service!ServiceSpec
=============================================================================
