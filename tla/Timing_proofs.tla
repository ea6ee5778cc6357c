---------------------------- MODULE Timing_proofs ----------------------------
(***************************************************************************)
(* The timers keep their promises, for any contexts, any delays short      *)
(* enough for the clock, any width of the clock, and any lateness of the   *)
(* front end and of run_timers that the delays leave room for.             *)
(***************************************************************************)
EXTENDS Timing, WellFoundedInduction, TLAPS

-----------------------------------------------------------------------------
(* Times that wrap around *)

\* The remainder of a number that is out of range by at most one turn.
\* Code: unsigned long arithmetic.
LEMMA Wraps ==
  ASSUME NEW e \in Int, NEW r \in Nat, r < W, e \in {r, r + W, r - W}
  PROVE  e % W = r
  BY TimingAssumption

\* The signed difference of two times is their difference, but for a turn.
\* Code: the casts to long in compare_timers.
LEMMA SignedIs ==
  ASSUME NEW x \in Time, NEW y \in Time
  PROVE  /\ Signed(x - y) \in Int
         /\ -W <= 2 * Signed(x - y) /\ 2 * Signed(x - y) < W
         /\ Signed(x - y) \in {x - y, (x - y) - W, (x - y) + W}
         /\ (x - y) % W = IF Signed(x - y) >= 0 THEN Signed(x - y) ELSE Signed(x - y) + W
<1> DEFINE m == (x - y) % W
<1>1. x \in Int /\ y \in Int /\ x - y \in Int /\ -W < x - y /\ x - y < W /\ W \in Nat /\ W > 2
  BY TimingAssumption DEF Time
<1>2. m = IF x - y < 0 THEN (x - y) + W ELSE x - y
  <2>1. CASE x - y < 0
    BY <1>1, <2>1, Wraps
  <2>2. CASE x - y >= 0
    BY <1>1, <2>2, Wraps
  <2>3. QED
    BY <1>1, <2>1, <2>2
<1>3. Signed(x - y) = IF 2 * m < W THEN m ELSE m - W
  BY DEF Signed
<1> HIDE DEF m
<1>4. /\ Signed(x - y) \in Int
      /\ -W <= 2 * Signed(x - y) /\ 2 * Signed(x - y) < W
      /\ Signed(x - y) \in {x - y, (x - y) - W, (x - y) + W}
      /\ m = IF Signed(x - y) >= 0 THEN Signed(x - y) ELSE Signed(x - y) + W
  BY <1>1, <1>2, <1>3
<1>5. QED
  BY <1>4 DEF m

\* Signed differences add up while they are small.
\* Code: the order of timers, relative to now.
LEMMA Compose ==
  ASSUME NEW x \in Time, NEW y \in Time, NEW z \in Time,
         -W <= 2 * (Signed(x - y) + Signed(y - z)), 2 * (Signed(x - y) + Signed(y - z)) < W
  PROVE  Signed(x - z) = Signed(x - y) + Signed(y - z)
<1>1. x \in Int /\ y \in Int /\ z \in Int /\ W \in Nat /\ W > 2
  BY TimingAssumption DEF Time
<1>2. /\ Signed(x - y) \in Int /\ Signed(x - y) \in {x - y, (x - y) - W, (x - y) + W}
      /\ Signed(y - z) \in Int /\ Signed(y - z) \in {y - z, (y - z) - W, (y - z) + W}
      /\ Signed(x - z) \in Int /\ Signed(x - z) \in {x - z, (x - z) - W, (x - z) + W}
      /\ -W <= 2 * Signed(x - z) /\ 2 * Signed(x - z) < W
  BY SignedIs
<1>3. QED
  BY <1>1, <1>2

\* Code: the same.
LEMMA Opposite ==
  ASSUME NEW x \in Time, NEW y \in Time, -W < 2 * Signed(x - y)
  PROVE  Signed(y - x) = -Signed(x - y)
<1>1. x \in Int /\ y \in Int /\ W \in Nat /\ W > 2
  BY TimingAssumption DEF Time
<1>2. /\ Signed(x - y) \in Int /\ Signed(x - y) \in {x - y, (x - y) - W, (x - y) + W}
      /\ Signed(y - x) \in Int /\ Signed(y - x) \in {y - x, (y - x) - W, (y - x) + W}
      /\ -W <= 2 * Signed(y - x) /\ 2 * Signed(y - x) < W
      /\ 2 * Signed(x - y) < W
  BY SignedIs
<1>3. QED
  BY <1>1, <1>2

\* A tick brings every time nearer, and the present is here.
\* Code: GETTICKCOUNT.
LEMMA Ticks ==
  ASSUME NEW c \in Time
  PROVE  /\ (c + 1) % W \in Time /\ Signed(c - c) = 0
         /\ Signed(((c + 1) % W) - c) = 1
<1>1. c \in Int /\ 0 <= c /\ c < W /\ W \in Nat /\ W > 2
  BY TimingAssumption DEF Time
<1>2. (c + 1) % W = IF c + 1 = W THEN 0 ELSE c + 1
  <2>1. CASE c + 1 = W
    BY <1>1, <2>1, Wraps
  <2>2. CASE c + 1 # W
    BY <1>1, <2>2, Wraps
  <2>3. QED
    BY <2>1, <2>2
<1>3. (c + 1) % W \in Time
  BY <1>1, <1>2 DEF Time
<1>4. Signed(c - c) = 0
  BY <1>1, SignedIs
<1>5. Signed(((c + 1) % W) - c) = 1
  <2>1. /\ Signed(((c + 1) % W) - c) \in Int
        /\ Signed(((c + 1) % W) - c) \in {((c + 1) % W) - c, (((c + 1) % W) - c) - W,
                                          (((c + 1) % W) - c) + W}
        /\ -W <= 2 * Signed(((c + 1) % W) - c) /\ 2 * Signed(((c + 1) % W) - c) < W
    BY <1>3, SignedIs
  <2>2. QED
    BY <1>1, <1>2, <2>1
<1>6. QED
  BY <1>3, <1>4, <1>5

\* A tick lets less time be left.
\* Code: GETTICKCOUNT.
LEMMA TickAhead ==
  ASSUME NEW c \in Time, NEW x \in Time, -W <= 2 * (Signed(x - c) - 1)
  PROVE  Signed(x - ((c + 1) % W)) = Signed(x - c) - 1
<1> DEFINE d == (c + 1) % W
<1>1. d \in Time /\ Signed(d - c) = 1 /\ W \in Nat /\ W > 2
  BY Ticks, TimingAssumption
<1> HIDE DEF d
<1>2. Signed(c - d) = -1
  BY <1>1, Opposite
<1>3. Signed(x - c) \in Int /\ 2 * Signed(x - c) < W
  BY SignedIs
<1>4. Signed(x - d) = Signed(x - c) + Signed(c - d)
  BY <1>1, <1>2, <1>3, Compose
<1>5. QED
  BY <1>2, <1>3, <1>4 DEF d

\* When(d) is d ticks ahead, but at least one.
\* Code: schedule_timer.
LEMMA WhenIsAhead ==
  ASSUME clock \in Time, NEW d \in Delays
  PROVE  /\ When(d) \in Time
         /\ Signed(When(d) - clock) = IF d = 0 THEN 1 ELSE d
<1>1. /\ clock \in Int /\ 0 <= clock /\ clock < W /\ W \in Nat /\ W > 2
      /\ d \in Nat /\ 2 * d < W
  BY TimingAssumption DEF Time
<1>2. CASE d = 0
  <2>1. d % W = 0
    BY <1>1, <1>2, Wraps
  <2>2. QED
    BY <1>2, <2>1, Ticks DEF When
<1>3. CASE d # 0
  <2>1. d % W = d
    BY <1>1, Wraps
  <2>2. When(d) = (clock + d) % W
    BY <1>3, <2>1 DEF When
  <2>3. (clock + d) % W = IF clock + d < W THEN clock + d ELSE (clock + d) - W
    <3>1. CASE clock + d < W
      BY <1>1, <3>1, Wraps
    <3>2. CASE clock + d >= W
      BY <1>1, <3>2, Wraps
    <3>3. QED
      BY <1>1, <3>1, <3>2
  <2>4. When(d) \in Time
    BY <1>1, <2>2, <2>3 DEF Time
  <2>5. /\ Signed(When(d) - clock) \in Int
        /\ Signed(When(d) - clock) \in {When(d) - clock, (When(d) - clock) - W,
                                        (When(d) - clock) + W}
        /\ -W <= 2 * Signed(When(d) - clock) /\ 2 * Signed(When(d) - clock) < W
    BY <2>4, SignedIs
  <2>6. QED
    BY <1>1, <1>3, <2>2, <2>3, <2>4, <2>5
<1>4. QED
  BY <1>2, <1>3

-----------------------------------------------------------------------------
(* The order of the tree *)

\* A set of numbers that is not empty has a least element.
\* Code: none; arithmetic.
LEMMA Least ==
  ASSUME NEW T, T \subseteq Nat, T # {}
  PROVE  \E m \in T : \A n \in T : m <= n
<1>1. PICK x \in T : \A y \in T : <<y, x>> \notin OpToRel(<, Nat)
  BY WFMin, NatLessThanWellFounded, Zenon
<1>2. \A y \in T : ~(y < x)
  BY <1>1, Zenon DEF OpToRel
<1>3. QED
  BY <1>2

TimerType == [ctx : Ctx, at : Time, set : Time]

\* No two timers of a tree have the same context and time.
NoTwins(T) == \A t, u \in T : t.ctx = u.ctx /\ t.at = u.at => t = u

\* A tree that is not empty has a first timer, and no timer comes before it.
\* Code: compare_timers, a strict order; index234(timers, 0).
LEMMA FirstIsFirst ==
  ASSUME NEW n \in Time, NEW T \in SUBSET TimerType, T # {}, NoTwins(T)
  PROVE  /\ First(n, T) \in T
         /\ \A u \in T : Signed(First(n, T).at - n) <= Signed(u.at - n)
<1> DEFINE d(t) == Signed(t.at - n)
<1>1. \A t \in T : t.at \in Time /\ t.ctx \in Nat
  BY TimingAssumption DEF TimerType
<1>2. \A t \in T : d(t) \in Int /\ d(t) + W \in Nat
  <2> SUFFICES ASSUME NEW t \in T PROVE d(t) \in Int /\ d(t) + W \in Nat
    OBVIOUS
  <2>1. d(t) \in Int /\ -W <= 2 * d(t)
    BY <1>1, SignedIs
  <2>2. QED
    BY <2>1, TimingAssumption
<1> HIDE DEF d
<1> DEFINE A == {d(t) + W : t \in T}
<1>3. PICK a \in A : \A b \in A : a <= b
  <2>1. A \subseteq Nat /\ A # {}
    BY <1>2
  <2> HIDE DEF A
  <2>2. QED
    BY <2>1, Least
<1> DEFINE B == {t.ctx : t \in {u \in T : d(u) + W = a}}
<1>4. PICK c \in B : \A b \in B : c <= b
  <2>1. B \subseteq Nat /\ B # {}
    BY <1>1, <1>3
  <2> HIDE DEF B
  <2>2. QED
    BY <2>1, Least
<1>5. PICK t \in T : d(t) + W = a /\ t.ctx = c
  BY <1>4
<1>6. \A u \in T : d(t) <= d(u) /\ (d(t) = d(u) => t.ctx <= u.ctx)
  <2> SUFFICES ASSUME NEW u \in T
               PROVE  d(t) <= d(u) /\ (d(t) = d(u) => t.ctx <= u.ctx)
    OBVIOUS
  <2>1. a <= d(u) + W
    BY <1>3
  <2>2. d(t) <= d(u)
    BY <1>2, <1>5, <2>1, TimingAssumption
  <2>3. ASSUME d(t) = d(u) PROVE t.ctx <= u.ctx
    <3>1. u.ctx \in B
      BY <1>5, <2>3
    <3>2. QED
      BY <1>4, <1>5, <3>1
  <2>4. QED
    BY <2>2, <2>3
<1>7. \A u \in T \ {t} : d(t) = d(u) => t.ctx # u.ctx
  <2> SUFFICES ASSUME NEW u \in T, u # t, d(t) = d(u), t.ctx = u.ctx PROVE FALSE
    OBVIOUS
  <2>1. /\ n \in Int /\ t.at \in Int /\ u.at \in Int
        /\ 0 <= t.at /\ t.at < W /\ 0 <= u.at /\ u.at < W
    BY <1>1, TimingAssumption DEF Time
  <2>2. /\ d(t) \in {t.at - n, (t.at - n) - W, (t.at - n) + W}
        /\ d(u) \in {u.at - n, (u.at - n) - W, (u.at - n) + W}
        /\ -W <= 2 * d(t) /\ 2 * d(t) < W
    BY <1>1, SignedIs DEF d
  <2>3. t.at = u.at
    <3>1. (t.at - n) % W = (u.at - n) % W
      BY <1>1, SignedIs DEF d
    <3>2. QED
      BY <2>1, <2>2, TimingAssumption
  <2>4. QED
    BY <2>3 DEF NoTwins
<1>8. \A u \in T \ {t} : Before(n, t, u)
  <2>1. \A u \in T \ {t} : d(t) < d(u) \/ (d(t) = d(u) /\ t.ctx < u.ctx)
    BY <1>1, <1>2, <1>6, <1>7
  <2>2. QED
    BY <2>1 DEF Before, d
<1>9. First(n, T) \in T /\ \A u \in T \ {First(n, T)} : Before(n, First(n, T), u)
  BY <1>8 DEF First
<1>10. \A u \in T \ {First(n, T)} : d(First(n, T)) <= d(u)
  BY <1>2, <1>9 DEF Before, d
<1>11. QED
  BY <1>2, <1>9, <1>10 DEF d

-----------------------------------------------------------------------------
(* The invariant *)

\* A timer's delay, how far ahead it is, and how long ago now was read.
Delay(t) == Signed(t.at - t.set)
Ahead(t) == Signed(t.at - clock)
Lag == Signed(clock - now)

\* The tree and what the users have been told: of the contexts in use, nothing in the
\* tree has been expired.
TreeInv ==
  /\ NoTwins(timers)
  /\ \A t \in timers : t.ctx \in alive => t.ctx \in contexts
  /\ promised = {<<t.ctx, t.at>> : t \in Live}

\* The times in the tree are near the present.  While main waits the front end's timer
\* is set and goes off no later than the first of them is due, but for the time that
\* run_timers took; while it is in run_timers, now is not older than that, and not
\* older than any timer.
ClockInv ==
  /\ \A t \in timers : /\ 1 <= Delay(t) /\ 2 * (Delay(t) + Slack + Late + 2 * Slow) < W
                       /\ Ahead(t) <= Delay(t)
  /\ pc = "idle" => \A t \in timers : armed /\ Ahead(t) >= left - Slow
  /\ pc # "idle" => /\ 0 <= Lag /\ Lag <= spent
                    /\ \A t \in timers : /\ Ahead(t) >= -(Late + Slow + spent)
                                         /\ Lag <= Delay(t) - Ahead(t)

IInv == TypeOK /\ TreeInv /\ ClockInv

\* What the types and the assumptions say of the numbers.
\* Code: the statics of timing.c.
LEMMA Numbers ==
  ASSUME TypeOK
  PROVE  /\ clock \in Time /\ now \in Time /\ left \in Int /\ -Late <= left
         /\ spent \in Nat /\ spent <= Slow
         /\ Slack \in Nat /\ Late \in Nat /\ Slow \in Nat /\ W \in Nat /\ W > 2
         /\ timers \in SUBSET TimerType
         /\ \A t \in timers : t.ctx \in Ctx /\ t.at \in Time /\ t.set \in Time
  BY TimingAssumption DEF TypeOK, TimerType

\* The bounds on a timer.
\* Code: run_timers, timer_change_notify.
LEMMA Bounds ==
  ASSUME IInv, NEW t \in timers
  PROVE  /\ Delay(t) \in Int /\ Ahead(t) \in Int
         /\ 1 <= Delay(t) /\ 2 * (Delay(t) + Slack + Late + 2 * Slow) < W
         /\ Ahead(t) <= Delay(t) /\ Ahead(t) >= -(Late + 2 * Slow)
         /\ Signed(clock - t.at) = -Ahead(t)
<1>1. Delay(t) \in Int /\ Ahead(t) \in Int
  BY Numbers, SignedIs DEF IInv, Delay, Ahead
<1>2. /\ 1 <= Delay(t) /\ 2 * (Delay(t) + Slack + Late + 2 * Slow) < W
      /\ Ahead(t) <= Delay(t)
  BY DEF IInv, ClockInv
<1>3. Ahead(t) >= -(Late + 2 * Slow)
  <2>1. CASE pc = "idle"
    <3>1. Ahead(t) >= left - Slow
      BY <2>1 DEF IInv, ClockInv
    <3>2. QED
      BY <1>1, <3>1, Numbers DEF IInv
  <2>2. CASE pc # "idle"
    <3>1. Ahead(t) >= -(Late + Slow + spent)
      BY <2>2 DEF IInv, ClockInv
    <3>2. QED
      BY <1>1, <3>1, Numbers DEF IInv
  <2>3. QED
    BY <2>1, <2>2
<1>4. Signed(clock - t.at) = -Ahead(t)
  <2>1. -W < 2 * Signed(t.at - clock)
    BY <1>1, <1>2, <1>3, Numbers DEF IInv, Ahead
  <2>2. QED
    BY <2>1, Numbers, Opposite DEF IInv, Ahead
<1>5. QED
  BY <1>1, <1>2, <1>3, <1>4

\* What the run checks follows.
\* Code: putty.h, "Exports from timing.c".
LEMMA InvariantSuffices == IInv => PromisesKept
<1> SUFFICES ASSUME IInv PROVE PromisesKept
  OBVIOUS
<1>1. ASSUME NEW t \in timers PROVE Signed(clock - t.at) <= Late + 2 * Slow
  BY <1>1, Bounds, Numbers DEF IInv
<1>2. Punctual
  BY <1>1 DEF Punctual, Live
<1>3. QED
  BY <1>2 DEF IInv, TreeInv, PromisesKept

\* At the start there are no timers.
\* Code: init_timers.
LEMMA InitHolds == Init => IInv
<1> SUFFICES ASSUME Init PROVE IInv
  OBVIOUS
<1>1. TypeOK
  <2>1. Late \in Nat /\ Slow \in Nat /\ W \in Nat /\ W > 2
    BY TimingAssumption
  <2>2. 0 \in -Late .. W - 1 /\ 0 \in 0 .. Slow
    BY <2>1
  <2>3. QED
    BY <2>2 DEF Init, TypeOK
<1>2. TreeInv
  BY DEF Init, TreeInv, NoTwins, Live
<1>3. ClockInv
  BY DEF Init, ClockInv
<1>4. QED
  BY <1>1, <1>2, <1>3 DEF IInv

-----------------------------------------------------------------------------
(* Users *)

\* What only the users see.
\* Code: the users' own state.
LEMMA SameClock ==
  ASSUME IInv, UNCHANGED <<clock, now, timers, armed, left, pc, spent>>
  PROVE  ClockInv'
<1>1. \A t \in timers : Ahead(t)' = Ahead(t) /\ Delay(t)' = Delay(t)
  BY DEF Ahead, Delay
<1>2. Lag' = Lag
  BY DEF Lag
<1>3. QED
  BY <1>1, <1>2 DEF IInv, ClockInv

\* A context comes into use.
\* Code: any user of the timers, before its first schedule_timer.
LEMMA BeginKeeps ==
  ASSUME IInv, NEW c \in Ctx, Begin(c)
  PROVE  IInv'
<1>1. TypeOK'
  BY DEF IInv, TypeOK, Begin, frontVars, runVars
<1>2. TreeInv'
  BY DEF IInv, TreeInv, Begin, NoTwins, Live
<1>3. ClockInv'
  BY SameClock DEF Begin, frontVars, runVars
<1>4. QED
  BY <1>1, <1>2, <1>3 DEF IInv

\* A context is expired.
\* Code: expire_timer_context.
LEMMA FreeKeeps ==
  ASSUME IInv, NEW c \in Ctx, Free(c)
  PROVE  IInv'
<1>0. /\ alive' = alive \ {c} /\ contexts' = contexts \ {c}
      /\ promised' = {p \in promised : p[1] # c}
      /\ UNCHANGED <<clock, now, timers, armed, left, pc, spent>>
  BY DEF Free, frontVars, runVars
<1>1. TypeOK'
  BY <1>0 DEF IInv, TypeOK
<1>2. TreeInv'
  <2>1. NoTwins(timers')
    BY <1>0 DEF IInv, TreeInv
  <2>2. \A t \in timers' : t.ctx \in alive' => t.ctx \in contexts'
    BY <1>0 DEF IInv, TreeInv
  <2>3. Live' = {t \in Live : t.ctx # c}
    BY <1>0 DEF Live
  <2>4. promised' = {<<t.ctx, t.at>> : t \in Live'}
    <3>1. promised = {<<t.ctx, t.at>> : t \in Live}
      BY DEF IInv, TreeInv
    <3>2. QED
      BY <1>0, <2>3, <3>1
  <2>5. QED
    BY <2>1, <2>2, <2>4 DEF TreeInv
<1>3. ClockInv'
  BY <1>0, SameClock
<1>4. QED
  BY <1>1, <1>2, <1>3 DEF IInv

\* A timer is asked for.  If the tree has one like it, its context is in use already; if
\* the new one is not the first, the front end waits for an earlier one.
\* Code: schedule_timer, timer_change_notify.
LEMMA ScheduleKeeps ==
  ASSUME IInv, NEW c \in Ctx, NEW d \in Delays, Schedule(c, d)
  PROVE  IInv'
<1> DEFINE new == [ctx |-> c, at |-> When(d), set |-> clock]
<1>0. /\ pc # "loop" /\ c \in alive /\ now' = clock
      /\ promised' = promised \cup {<<c, When(d)>>}
      /\ UNCHANGED <<clock, pc, spent, alive>>
  BY DEF Schedule, runVars
<1>1. /\ clock \in Time /\ When(d) \in Time
      /\ Signed(When(d) - clock) = IF d = 0 THEN 1 ELSE d
  BY WhenIsAhead DEF IInv, TypeOK
<1>2. /\ d \in Nat /\ 2 * (d + Slack + Late + 2 * Slow) < W
      /\ 2 * (1 + Slack + Late + 2 * Slow) < W
  BY TimingAssumption
<1>3. /\ new \in TimerType /\ new.ctx = c /\ new.at = When(d) /\ new.set = clock
  BY <1>1 DEF TimerType
<1>4. \/ /\ \E u \in timers : u.ctx = c /\ u.at = When(d)
         /\ UNCHANGED <<timers, contexts, armed, left>>
      \/ /\ \A u \in timers : u.ctx # c \/ u.at # When(d)
         /\ timers' = timers \cup {new} /\ contexts' = contexts \cup {c}
         /\ \/ First(clock, timers') = new /\ Notify(When(d))
            \/ First(clock, timers') # new /\ UNCHANGED <<armed, left>>
  BY DEF Schedule, frontVars
<1> HIDE DEF new
<1>5. Signed(clock - clock) = 0
  BY <1>1, Ticks
<1>6. Lag' = 0
  BY <1>0, <1>5 DEF Lag
<1>7. /\ clock' = clock /\ \A t : Ahead(t)' = Ahead(t) /\ Delay(t)' = Delay(t)
  BY <1>0 DEF Ahead, Delay
<1>8. Delay(new) = Ahead(new) /\ Delay(new) = (IF d = 0 THEN 1 ELSE d)
  BY <1>1, <1>3 DEF Delay, Ahead
<1>9. \A t \in timers : Delay(t) \in Int /\ Ahead(t) \in Int /\ Ahead(t) <= Delay(t)
  BY Bounds
<1>10. pc \in {"idle", "fn"} /\ spent \in Nat
  BY <1>0, Numbers DEF IInv, TypeOK
<1>11. CASE (\E u \in timers : u.ctx = c /\ u.at = When(d)) /\ UNCHANGED <<timers, contexts, armed, left>>
  <2>1. <<c, When(d)>> \in promised
    <3>1. PICK u \in timers : u.ctx = c /\ u.at = When(d)
      BY <1>11
    <3>2. u \in Live
      BY <1>0, <3>1 DEF IInv, TreeInv, Live
    <3>3. QED
      BY <3>1, <3>2 DEF IInv, TreeInv
  <2>2. promised' = promised
    BY <1>0, <2>1
  <2>3. TypeOK'
    BY <1>0, <1>11, <2>2 DEF IInv, TypeOK
  <2>4. TreeInv'
    BY <1>0, <1>11, <2>2 DEF IInv, TreeInv, Live
  <2>5. ClockInv'
    BY <1>0, <1>6, <1>7, <1>9, <1>10, <1>11 DEF IInv, ClockInv
  <2>6. QED
    BY <2>3, <2>4, <2>5 DEF IInv
<1>12. CASE /\ \A u \in timers : u.ctx # c \/ u.at # When(d)
            /\ timers' = timers \cup {new} /\ contexts' = contexts \cup {c}
            /\ \/ First(clock, timers') = new /\ Notify(When(d))
               \/ First(clock, timers') # new /\ UNCHANGED <<armed, left>>
  <2>1. NoTwins(timers')
    BY <1>3, <1>12 DEF IInv, TreeInv, NoTwins
  <2>2. TreeInv'
    <3>1. \A t \in timers' : t.ctx \in alive' => t.ctx \in contexts'
      BY <1>0, <1>3, <1>12 DEF IInv, TreeInv
    <3>2. Live' = Live \cup {new}
      BY <1>0, <1>3, <1>12 DEF IInv, TreeInv, Live
    <3>3. promised' = {<<t.ctx, t.at>> : t \in Live'}
      <4>1. promised = {<<t.ctx, t.at>> : t \in Live}
        BY DEF IInv, TreeInv
      <4>2. QED
        BY <1>0, <1>3, <3>2, <4>1
    <3>4. QED
      BY <2>1, <3>1, <3>3 DEF TreeInv
  <2>3. armed' \in BOOLEAN /\ left' \in -Late .. W - 1
    <3>1. CASE Notify(When(d))
      <4>1. (When(d) - clock) % W \in 0 .. W - 1 /\ Late \in Nat /\ W \in Nat /\ W > 2
        BY <1>1, SignedIs, TimingAssumption
      <4>2. QED
        BY <3>1, <4>1 DEF Notify
    <3>2. CASE UNCHANGED <<armed, left>>
      BY <3>2 DEF IInv, TypeOK
    <3>3. QED
      BY <1>12, <3>1, <3>2
  <2>4. TypeOK'
    <3>1. timers' \subseteq [ctx : Ctx, at : Time, set : Time]
      BY <1>3, <1>12 DEF IInv, TypeOK, TimerType
    <3>2. promised' \subseteq Ctx \X Time
      BY <1>0, <1>1 DEF IInv, TypeOK
    <3>3. QED
      BY <1>0, <1>12, <2>3, <3>1, <3>2 DEF IInv, TypeOK
  <2>5. pc = "idle" => armed' /\ \A t \in timers' : Ahead(t) >= left' - Slow
    <3> SUFFICES ASSUME pc = "idle"
                 PROVE  armed' /\ \A t \in timers' : Ahead(t) >= left' - Slow
      OBVIOUS
    <3>1. /\ First(clock, timers') \in timers'
          /\ \A t \in timers' : Ahead(First(clock, timers')) <= Ahead(t)
      <4>1. timers' \in SUBSET TimerType /\ timers' # {}
        BY <1>3, <1>12, Numbers DEF IInv
      <4>2. QED
        BY <1>1, <2>1, <4>1, FirstIsFirst DEF Ahead
    <3>2. Slow \in Nat /\ \A t \in timers' : Ahead(t) \in Int
      <4>1. Ahead(new) \in Int
        BY <1>2, <1>8
      <4>2. QED
        BY <1>9, <1>12, <4>1, TimingAssumption
    <3>3. CASE First(clock, timers') = new /\ Notify(When(d))
      <4>1. left' = Ahead(new) \/ left' = 0
        <5>1. Signed(clock - When(d)) = -Ahead(new)
          BY <1>1, <1>2, <1>3, <1>8, Opposite, TimingAssumption DEF Ahead
        <5>2. (When(d) - clock) % W = Ahead(new)
          BY <1>1, <1>2, <1>3, <1>8, SignedIs DEF Ahead
        <5>3. QED
          BY <3>3, <5>1, <5>2 DEF Notify
      <4>2. Ahead(new) >= 1
        BY <1>2, <1>8
      <4>3. armed'
        BY <3>3 DEF Notify
      <4>4. QED
        BY <3>1, <3>2, <3>3, <4>1, <4>2, <4>3, <1>3, <1>12
    <3>4. CASE First(clock, timers') # new /\ UNCHANGED <<armed, left>>
      <4>1. First(clock, timers') \in timers
        BY <1>12, <3>1, <3>4
      <4>2. armed /\ Ahead(First(clock, timers')) >= left - Slow
        BY <4>1 DEF IInv, ClockInv
      <4>3. left \in Int
        BY Numbers DEF IInv
      <4>4. QED
        BY <3>1, <3>2, <3>4, <4>2, <4>3
    <3>5. QED
      BY <1>12, <3>3, <3>4
  <2>6. /\ 1 <= Delay(new) /\ 2 * (Delay(new) + Slack + Late + 2 * Slow) < W
        /\ Ahead(new) <= Delay(new) /\ Ahead(new) >= 0 /\ 0 <= Delay(new) - Ahead(new)
    BY <1>2, <1>8
  <2>7. ClockInv'
    <3>1. \A t \in timers' : /\ 1 <= Delay(t) /\ 2 * (Delay(t) + Slack + Late + 2 * Slow) < W
                             /\ Ahead(t) <= Delay(t)
      BY <1>12, <2>6 DEF IInv, ClockInv
    <3>2. \A t \in timers' : pc # "idle" => /\ Ahead(t) >= -(Late + Slow + spent)
                                            /\ 0 <= Delay(t) - Ahead(t)
      <4>1. Late \in Nat /\ Slow \in Nat
        BY TimingAssumption
      <4>2. Ahead(new) \in Int
        BY <1>2, <1>8
      <4>3. QED
        BY <1>9, <1>10, <1>12, <2>6, <4>1, <4>2 DEF IInv, ClockInv
    <3>3. QED
      BY <1>0, <1>6, <1>7, <1>10, <2>5, <3>1, <3>2 DEF ClockInv
  <2>8. QED
    BY <2>2, <2>4, <2>7 DEF IInv
<1>13. QED
  BY <1>4, <1>11, <1>12

-----------------------------------------------------------------------------
(* The front end and run_timers *)

\* The front end calls run_timers, which reads the clock.
\* Code: WM_TIMER.
LEMMA WmTimerKeeps ==
  ASSUME IInv, WmTimer
  PROVE  IInv'
<1>0. /\ pc = "idle" /\ pc' = "loop" /\ now' = clock /\ spent' = 0
      /\ armed' = FALSE /\ left' = 0
      /\ UNCHANGED <<clock, timers, contexts, alive, promised>>
  BY DEF WmTimer
<1>1. TypeOK'
  <2>1. 0 \in -Late .. W - 1 /\ 0 \in 0 .. Slow
    BY TimingAssumption
  <2>2. QED
    BY <1>0, <2>1 DEF IInv, TypeOK
<1>2. TreeInv'
  BY <1>0 DEF IInv, TreeInv, Live
<1>3. Lag' = 0
  BY <1>0, Ticks DEF Lag, IInv, TypeOK
<1>4. \A t \in timers : Ahead(t)' = Ahead(t) /\ Delay(t)' = Delay(t)
  BY <1>0 DEF Ahead, Delay
<1>5. ASSUME NEW t \in timers
      PROVE  /\ 1 <= Delay(t) /\ 2 * (Delay(t) + Slack + Late + 2 * Slow) < W
             /\ Ahead(t) <= Delay(t)
             /\ Ahead(t) >= -(Late + Slow + 0) /\ 0 <= Delay(t) - Ahead(t)
  <2>1. Ahead(t) >= left - Slow
    BY <1>0 DEF IInv, ClockInv
  <2>2. QED
    BY <2>1, Bounds, Numbers DEF IInv
<1>6. ClockInv'
  BY <1>0, <1>3, <1>4, <1>5 DEF ClockInv
<1>7. QED
  BY <1>1, <1>2, <1>6 DEF IInv

\* A timer leaves the tree.
\* Code: delpos234 in run_timers.
LEMMA LeavesTree ==
  ASSUME IInv, NEW t \in timers, timers' = timers \ {t},
         pc # "idle", pc' # "idle", UNCHANGED <<clock, now, spent>>
  PROVE  ClockInv' /\ NoTwins(timers')
<1>1. \A u \in timers : Ahead(u)' = Ahead(u) /\ Delay(u)' = Delay(u)
  BY DEF Ahead, Delay
<1>2. Lag' = Lag
  BY DEF Lag
<1>3. ClockInv'
  BY <1>1, <1>2 DEF IInv, ClockInv
<1>4. QED
  BY <1>3 DEF IInv, TreeInv, NoTwins

\* A timer of an expired context is thrown away.
\* Code: run_timers.
LEMMA PurgeKeeps ==
  ASSUME IInv, NEW t \in timers, Purge(t)
  PROVE  IInv'
<1>0. /\ pc = "loop" /\ t.ctx \notin contexts /\ timers' = timers \ {t}
      /\ UNCHANGED <<clock, now, contexts, armed, left, pc, spent, alive, promised>>
  BY DEF Purge, InLoop, frontVars
<1>1. ClockInv' /\ NoTwins(timers')
  BY <1>0, LeavesTree
<1>2. TypeOK'
  BY <1>0 DEF IInv, TypeOK
<1>3. Live' = Live
  BY <1>0 DEF Live
<1>4. TreeInv'
  BY <1>0, <1>1, <1>3 DEF IInv, TreeInv
<1>5. QED
  BY <1>1, <1>2, <1>4 DEF IInv

\* A timer's function is called.
\* Code: run_timers.
LEMMA FireKeeps ==
  ASSUME IInv, NEW t \in timers, Fire(t)
  PROVE  IInv'
<1>0. /\ pc = "loop" /\ pc' = "fn" /\ t.ctx \in contexts /\ timers' = timers \ {t}
      /\ promised' = promised \ {<<t.ctx, t.at>>}
      /\ UNCHANGED <<clock, now, contexts, armed, left, spent, alive>>
  BY DEF Fire, InLoop, frontVars
<1>1. ClockInv' /\ NoTwins(timers')
  BY <1>0, LeavesTree
<1>2. TypeOK'
  BY <1>0 DEF IInv, TypeOK
<1>3. Live' = Live \ {t}
  BY <1>0 DEF Live
<1>4. promised' = {<<u.ctx, u.at>> : u \in Live'}
  <2>1. promised = {<<u.ctx, u.at>> : u \in Live}
    BY DEF IInv, TreeInv
  <2>2. \A u \in Live : u # t => <<u.ctx, u.at>> # <<t.ctx, t.at>>
    BY DEF IInv, TreeInv, NoTwins, Live
  <2>3. QED
    BY <1>0, <1>3, <2>1, <2>2
<1>5. TreeInv'
  BY <1>0, <1>1, <1>4 DEF IInv, TreeInv
<1>6. QED
  BY <1>1, <1>2, <1>5 DEF IInv

\* ... and returns.
\* Code: run_timers.
LEMMA ReturnKeeps ==
  ASSUME IInv, Return
  PROVE  IInv'
<1>0. /\ pc = "fn" /\ pc' = "loop"
      /\ UNCHANGED <<clock, now, timers, contexts, armed, left, spent, alive, promised>>
  BY DEF Return, frontVars
<1>1. TypeOK'
  BY <1>0 DEF IInv, TypeOK
<1>2. TreeInv'
  BY <1>0 DEF IInv, TreeInv, Live
<1>3. \A u \in timers : Ahead(u)' = Ahead(u) /\ Delay(u)' = Delay(u)
  BY <1>0 DEF Ahead, Delay
<1>4. Lag' = Lag
  BY <1>0 DEF Lag
<1>5. ClockInv'
  BY <1>0, <1>3, <1>4 DEF IInv, ClockInv
<1>6. QED
  BY <1>1, <1>2, <1>5 DEF IInv

\* Within run_timers the test for a due timer is what it should be: the time has passed at
\* which the clock was read.
\* Code: run_timers, "now - (first->when_set - 10) > first->now - (first->when_set - 10)".
LEMMA DueMeans ==
  ASSUME IInv, pc # "idle", NEW t \in timers
  PROVE  Lag \in Int /\ 0 <= Lag /\ Lag <= Slow /\ (Due(t) <=> Ahead(t) + Lag < 0)
<1>1. /\ clock \in Time /\ now \in Time /\ t.at \in Time /\ t.set \in Time
      /\ Slack \in Nat /\ Late \in Nat /\ Slow \in Nat /\ W \in Nat /\ W > 2
      /\ spent \in Nat /\ spent <= Slow
  BY Numbers DEF IInv
<1>2. /\ Delay(t) \in Int /\ Ahead(t) \in Int
      /\ 1 <= Delay(t) /\ 2 * (Delay(t) + Slack + Late + 2 * Slow) < W
      /\ Ahead(t) <= Delay(t) /\ Ahead(t) >= -(Late + 2 * Slow)
      /\ Signed(clock - t.at) = -Ahead(t)
  BY Bounds
<1>3. Lag \in Int /\ 0 <= Lag /\ Lag <= spent /\ Lag <= Delay(t) - Ahead(t)
  <2>1. Lag \in Int
    BY <1>1, SignedIs DEF Lag
  <2>2. QED
    BY <2>1 DEF IInv, ClockInv
<1>4. Signed(clock - t.set) = Delay(t) - Ahead(t)
  <2>1. Signed(t.at - t.set) = Delay(t)
    BY DEF Delay
  <2>2. QED
    BY <1>1, <1>2, <2>1, Compose
<1>5. Signed(now - clock) = -Lag
  <2>1. -W < 2 * Signed(clock - now)
    BY <1>1, <1>3 DEF Lag
  <2>2. QED
    BY <1>1, <2>1, Opposite DEF Lag
<1> DEFINE g == Delay(t) - Ahead(t) - Lag
<1>6. g \in Nat /\ 2 * (g + Slack) < W
  BY <1>1, <1>2, <1>3
<1>7. Signed(now - t.set) = g
  BY <1>1, <1>2, <1>3, <1>4, <1>5, <1>6, Compose
<1> HIDE DEF g
<1>8. (now - (t.set - Slack)) % W = g + Slack
  <2>1. now \in Int /\ t.set \in Int
    BY <1>1 DEF Time
  <2>2. g \in {now - t.set, (now - t.set) - W, (now - t.set) + W}
    BY <1>1, <1>7, SignedIs
  <2> DEFINE e == now - (t.set - Slack)
             r == g + Slack
  <2>3. e \in Int /\ e = (now - t.set) + Slack /\ r \in Nat /\ r < W
    BY <1>1, <1>6, <2>1
  <2>4. e \in {r, r + W, r - W}
    BY <1>1, <1>6, <2>1, <2>2
  <2> HIDE DEF e, r
  <2>5. e % W = r
    BY <2>3, <2>4, Wraps
  <2>6. QED
    BY <2>5 DEF e, r
<1>9. (t.at - (t.set - Slack)) % W = Delay(t) + Slack
  <2>1. t.at \in Int /\ t.set \in Int
    BY <1>1 DEF Time
  <2>2. Delay(t) \in {t.at - t.set, (t.at - t.set) - W, (t.at - t.set) + W}
    BY <1>1, SignedIs DEF Delay
  <2> DEFINE e == t.at - (t.set - Slack)
             r == Delay(t) + Slack
  <2>3. e \in Int /\ e = (t.at - t.set) + Slack /\ r \in Nat /\ r < W
    BY <1>1, <1>2, <2>1
  <2>4. e \in {r, r + W, r - W}
    BY <1>1, <1>2, <2>1, <2>2
  <2> HIDE DEF e, r
  <2>5. e % W = r
    BY <2>3, <2>4, Wraps
  <2>6. QED
    BY <2>5 DEF e, r
<1>10. Due(t) <=> g + Slack > Delay(t) + Slack
  BY <1>8, <1>9 DEF Due
<1>11. QED
  BY <1>1, <1>2, <1>3, <1>10 DEF g

\* The first timer in the tree is the one that is least ahead, also of the present.
\* Code: compare_timers, which compares with now.
LEMMA FirstIsNext ==
  ASSUME IInv, NEW t \in timers, InLoop(t), NEW u \in timers
  PROVE  Ahead(t) <= Ahead(u)
<1>1. /\ clock \in Time /\ now \in Time /\ timers \in SUBSET TimerType
      /\ \A v \in timers : v.at \in Time
      /\ Slack \in Nat /\ Late \in Nat /\ Slow \in Nat /\ W \in Nat /\ W > 2
  BY Numbers DEF IInv
<1>2. pc # "idle" /\ t = First(now, timers)
  BY DEF InLoop
<1>3. Signed(t.at - now) <= Signed(u.at - now)
  BY <1>1, <1>2, FirstIsFirst DEF IInv, TreeInv
<1>4. \A v \in timers : Ahead(v) \in Int /\ Signed(v.at - now) = Ahead(v) + Lag
  <2> SUFFICES ASSUME NEW v \in timers
               PROVE  Ahead(v) \in Int /\ Signed(v.at - now) = Ahead(v) + Lag
    OBVIOUS
  <2>1. /\ Delay(v) \in Int /\ Ahead(v) \in Int
        /\ 1 <= Delay(v) /\ 2 * (Delay(v) + Slack + Late + 2 * Slow) < W
        /\ Ahead(v) <= Delay(v) /\ Ahead(v) >= -(Late + 2 * Slow)
    BY Bounds
  <2>2. Lag \in Int /\ 0 <= Lag /\ Lag <= Slow
    BY <1>2, DueMeans
  <2>3. -W <= 2 * (Ahead(v) + Lag) /\ 2 * (Ahead(v) + Lag) < W
    BY <1>1, <2>1, <2>2
  <2>4. Signed(v.at - now) = Signed(v.at - clock) + Signed(clock - now)
    BY <1>1, <2>3, Compose DEF Ahead, Lag
  <2>5. QED
    BY <2>1, <2>4 DEF Ahead, Lag
<1>5. Lag \in Int
  BY <1>2, DueMeans
<1>6. QED
  BY <1>3, <1>4, <1>5

\* run_timers returns and the front end's timer is set for the next timer.
\* Code: run_timers, timer_change_notify.
LEMMA NextTimerKeeps ==
  ASSUME IInv, NEW t \in timers, NextTimer(t)
  PROVE  IInv'
<1>0. /\ InLoop(t) /\ pc = "loop" /\ ~Due(t) /\ Notify(t.at)
      /\ pc' = "idle" /\ spent' = 0
      /\ UNCHANGED <<clock, now, timers, contexts, alive, promised>>
  BY DEF NextTimer, InLoop, Idle
<1>1. /\ clock \in Time /\ t.at \in Time /\ Slow \in Nat /\ Late \in Nat /\ W \in Nat /\ W > 2
  BY Numbers DEF IInv
<1>2. armed' = TRUE /\ left' \in -Late .. W - 1 /\ left' \in Int
  <2>1. (t.at - clock) % W \in 0 .. W - 1
    BY <1>1, SignedIs
  <2>2. QED
    BY <1>0, <1>1, <2>1 DEF Notify
<1>3. TypeOK'
  <2>1. 0 \in 0 .. Slow
    BY <1>1
  <2>2. QED
    BY <1>0, <1>2, <2>1 DEF IInv, TypeOK
<1>4. TreeInv'
  BY <1>0 DEF IInv, TreeInv, Live
<1>5. Ahead(t) \in Int /\ Ahead(t) >= left' - Slow
  <2>1. Ahead(t) \in Int /\ Signed(clock - t.at) = -Ahead(t)
    BY Bounds
  <2>2. Ahead(t) >= -Slow
    <3>1. Lag \in Int /\ Lag <= Slow /\ ~(Ahead(t) + Lag < 0)
      BY <1>0, DueMeans
    <3>2. QED
      BY <1>1, <2>1, <3>1
  <2>3. left' = IF Ahead(t) <= 0 THEN 0 ELSE Ahead(t)
    <3>1. (t.at - clock) % W = IF Ahead(t) >= 0 THEN Ahead(t) ELSE Ahead(t) + W
      BY <1>1, SignedIs DEF Ahead
    <3>2. left' = IF -Ahead(t) >= 0 THEN 0 ELSE (t.at - clock) % W
      BY <1>0, <2>1 DEF Notify
    <3>3. QED
      BY <2>1, <3>1, <3>2
  <2>4. QED
    BY <1>1, <2>1, <2>2, <2>3
<1>6. ASSUME NEW u \in timers
      PROVE  /\ 1 <= Delay(u) /\ 2 * (Delay(u) + Slack + Late + 2 * Slow) < W
             /\ Ahead(u) <= Delay(u) /\ Ahead(u) >= left' - Slow
  <2>1. Ahead(u) \in Int /\ Ahead(t) <= Ahead(u)
    BY <1>0, Bounds, FirstIsNext
  <2>2. QED
    BY <1>1, <1>2, <1>5, <2>1, Bounds
<1>7. \A u \in timers : Ahead(u)' = Ahead(u) /\ Delay(u)' = Delay(u)
  BY <1>0 DEF Ahead, Delay
<1>8. ClockInv'
  BY <1>0, <1>2, <1>6, <1>7 DEF ClockInv
<1>9. QED
  BY <1>3, <1>4, <1>8 DEF IInv

\* There are no timers left.
\* Code: run_timers.
LEMMA NoTimersKeeps ==
  ASSUME IInv, NoTimers
  PROVE  IInv'
<1>0. /\ timers = {} /\ pc' = "idle" /\ spent' = 0
      /\ UNCHANGED <<clock, now, timers, contexts, armed, left, alive, promised>>
  BY DEF NoTimers, Idle, frontVars
<1>1. TypeOK'
  <2>1. 0 \in 0 .. Slow
    BY TimingAssumption
  <2>2. QED
    BY <1>0, <2>1 DEF IInv, TypeOK
<1>2. TreeInv'
  BY <1>0 DEF IInv, TreeInv, Live
<1>3. ClockInv'
  BY <1>0 DEF ClockInv
<1>4. QED
  BY <1>1, <1>2, <1>3 DEF IInv

\* Time passes.
\* Code: GETTICKCOUNT; how long WM_TIMER and run_timers take.
LEMMA TickKeeps ==
  ASSUME IInv, Tick
  PROVE  IInv'
<1>0. /\ clock' = (clock + 1) % W
      /\ left' = IF armed /\ left > -Late THEN left - 1 ELSE left
      /\ IF pc = "idle" THEN (armed => left > -Late) /\ spent' = spent
                        ELSE spent < Slow /\ spent' = spent + 1
      /\ UNCHANGED <<now, timers, contexts, armed, pc, alive, promised>>
  BY DEF Tick
<1>1. /\ clock \in Time /\ now \in Time /\ left \in Int /\ spent \in Nat
      /\ \A t \in timers : t.at \in Time
      /\ Slack \in Nat /\ Late \in Nat /\ Slow \in Nat /\ W \in Nat /\ W > 2
  BY Numbers DEF IInv
<1>2. clock' \in Time /\ Signed(clock' - clock) = 1
  BY <1>0, <1>1, Ticks
<1>3. TypeOK'
  <2>1. left \in -Late .. W - 1 /\ spent \in 0 .. Slow
    BY DEF IInv, TypeOK
  <2>2. left' \in -Late .. W - 1 /\ spent' \in 0 .. Slow
    BY <1>0, <1>1, <2>1
  <2>3. QED
    BY <1>0, <1>2, <2>2 DEF IInv, TypeOK
<1>4. TreeInv'
  BY <1>0 DEF IInv, TreeInv, Live
<1>5. \A t \in timers : Ahead(t) \in Int /\ Ahead(t)' = Ahead(t) - 1 /\ Delay(t)' = Delay(t)
  <2> SUFFICES ASSUME NEW t \in timers
               PROVE  Ahead(t) \in Int /\ Signed(t.at - clock') = Ahead(t) - 1
    BY <1>0 DEF Ahead, Delay
  <2>1. /\ Ahead(t) \in Int /\ Ahead(t) >= -(Late + 2 * Slow)
        /\ 1 <= Delay(t) /\ 2 * (Delay(t) + Slack + Late + 2 * Slow) < W /\ Delay(t) \in Int
    BY Bounds
  <2>2. -W <= 2 * (Ahead(t) - 1)
    BY <1>1, <2>1
  <2>3. QED
    BY <1>0, <1>1, <2>1, <2>2, TickAhead DEF Ahead
<1>6. \A t \in timers : Delay(t) \in Int
  BY Bounds
<1>7. CASE pc = "idle"
  <2>1. ASSUME NEW t \in timers
        PROVE  /\ 1 <= Delay(t) /\ 2 * (Delay(t) + Slack + Late + 2 * Slow) < W
               /\ Ahead(t) - 1 <= Delay(t) /\ armed /\ Ahead(t) - 1 >= left' - Slow
    <3>1. armed /\ Ahead(t) >= left - Slow /\ Ahead(t) <= Delay(t)
      BY <1>7 DEF IInv, ClockInv
    <3>2. left' = left - 1
      BY <1>0, <1>7, <3>1
    <3>3. QED
      BY <1>1, <1>5, <1>6, <3>1, <3>2 DEF IInv, ClockInv
  <2>2. ClockInv'
    BY <1>0, <1>5, <1>7, <2>1 DEF ClockInv
  <2>3. QED
    BY <1>3, <1>4, <2>2 DEF IInv
<1>8. CASE pc # "idle"
  <2>1. Lag \in Int /\ 0 <= Lag /\ Lag <= spent
    BY <1>1, <1>8, SignedIs DEF IInv, ClockInv, Lag
  <2>2. Lag' = Lag + 1
    <3>1. spent + 1 <= Slow /\ 2 * (Slow + 1) < W
      BY <1>0, <1>1, <1>8, TimingAssumption
    <3>2. Signed(clock' - now) = Signed(clock' - clock) + Signed(clock - now)
      BY <1>1, <1>2, <2>1, <3>1, Compose DEF Lag
    <3>3. QED
      BY <1>0, <1>2, <3>2, <2>1 DEF Lag
  <2>3. ASSUME NEW t \in timers
        PROVE  /\ 1 <= Delay(t) /\ 2 * (Delay(t) + Slack + Late + 2 * Slow) < W
               /\ Ahead(t) - 1 <= Delay(t)
               /\ Ahead(t) - 1 >= -(Late + Slow + (spent + 1))
               /\ Lag + 1 <= Delay(t) - (Ahead(t) - 1)
    <3>1. /\ Ahead(t) >= -(Late + Slow + spent) /\ Lag <= Delay(t) - Ahead(t)
          /\ Ahead(t) <= Delay(t)
      BY <1>8 DEF IInv, ClockInv
    <3>2. QED
      BY <1>1, <1>5, <1>6, <2>1, <3>1 DEF IInv, ClockInv
  <2>4. ClockInv'
    BY <1>0, <1>1, <1>5, <1>8, <2>1, <2>2, <2>3 DEF ClockInv
  <2>5. QED
    BY <1>3, <1>4, <2>4 DEF IInv
<1>9. QED
  BY <1>7, <1>8

-----------------------------------------------------------------------------
(* The theorems *)

\* Every step keeps the invariant.
\* Code: timing.c and its front end.
LEMMA NextKeeps == IInv /\ [Next]_vars => IInv'
<1> SUFFICES ASSUME IInv, [Next]_vars PROVE IInv'
  OBVIOUS
<1>1. CASE UserStep
  <2>1. PICK c \in Ctx : Begin(c) \/ Free(c) \/ \E d \in Delays : Schedule(c, d)
    BY <1>1 DEF UserStep
  <2>2. QED
    BY <2>1, BeginKeeps, FreeKeeps, ScheduleKeeps
<1>2. CASE WmTimer
  BY <1>2, WmTimerKeeps
<1>3. CASE RunStep
  <2>1. ASSUME NEW t \in timers, Purge(t) \/ Fire(t) \/ NextTimer(t) PROVE IInv'
    BY <2>1, PurgeKeeps, FireKeeps, NextTimerKeeps
  <2>2. QED
    BY <1>3, <2>1, ReturnKeeps, NoTimersKeeps DEF RunStep
<1>4. CASE Tick
  BY <1>4, TickKeeps
<1>5. CASE UNCHANGED vars
  <2>1. UNCHANGED <<clock, now, timers, contexts, armed, left, pc, spent, alive, promised>>
    BY <1>5 DEF vars, frontVars, runVars
  <2>2. TypeOK' /\ TreeInv'
    BY <2>1 DEF IInv, TypeOK, TreeInv, Live
  <2>3. ClockInv'
    BY <2>1, SameClock
  <2>4. QED
    BY <2>2, <2>3 DEF IInv
<1>6. QED
  BY <1>1, <1>2, <1>3, <1>4, <1>5 DEF Next

\* The tree agrees with what the users have been told and its times with the clock.
\* Code: timing.c and its front end.
THEOREM InvariantHolds == Spec => []IInv
<1>1. QED
  BY InitHolds, NextKeeps, PTL DEF Spec

\* Every timer asked for and not expired is in the tree, none else runs, and none is
\* overdue by more than a WM_TIMER and a run_timers may be late.
\* Code: schedule_timer, run_timers, timer_change_notify.
THEOREM PromisesCorrect == Spec => []PromisesKept
<1>1. QED
  BY InvariantHolds, InvariantSuffices, PTL

\* The timer that run_timers fires is one that the users may expect next: its time has
\* passed, and no pending timer's time is before it.
\* Code: run_timers.
LEMMA FiresRipe ==
  ASSUME IInv, NEW t \in timers, Fire(t)
  PROVE  Service!ServiceFire(<<t.ctx, t.at>>) /\ <<t.ctx, t.at>> \in promised
<1>0. /\ pc = "loop" /\ InLoop(t) /\ t.ctx \in contexts /\ Due(t)
      /\ promised' = promised \ {<<t.ctx, t.at>>} /\ clock' = clock
  BY DEF Fire, InLoop
<1>1. <<t.ctx, t.at>> \in promised
  BY <1>0 DEF IInv, TreeInv, Live
<1>2. Signed(clock - t.at) > 0
  <2>1. Lag \in Int /\ 0 <= Lag /\ Ahead(t) + Lag < 0
    BY <1>0, DueMeans
  <2>2. QED
    BY <2>1, Bounds
<1>3. ASSUME NEW q \in promised PROVE ~(Signed(t.at - q[2]) > 0)
  <2>1. PICK u \in timers : q = <<u.ctx, u.at>>
    BY DEF IInv, TreeInv, Live
  <2>2. /\ Ahead(t) <= Ahead(u)
        /\ Ahead(t) \in Int /\ Ahead(t) >= -(Late + 2 * Slow)
        /\ Ahead(u) \in Int /\ Delay(u) \in Int /\ Ahead(u) <= Delay(u)
        /\ 2 * (Delay(u) + Slack + Late + 2 * Slow) < W
        /\ Signed(clock - u.at) = -Ahead(u)
    BY <1>0, FirstIsNext, Bounds
  <2>3. /\ t.at \in Time /\ u.at \in Time /\ clock \in Time
        /\ Slack \in Nat /\ Late \in Nat /\ Slow \in Nat /\ W \in Nat
    BY Numbers DEF IInv
  <2>4. Signed(t.at - u.at) = Signed(t.at - clock) + Signed(clock - u.at)
    <3>1. Signed(t.at - clock) = Ahead(t)
      BY DEF Ahead
    <3>2. /\ -W <= 2 * (Ahead(t) + -Ahead(u))
          /\ 2 * (Ahead(t) + -Ahead(u)) < W
      BY <2>2, <2>3, TimingAssumption
    <3>3. QED
      BY <2>2, <2>3, <3>1, <3>2, Compose
  <2>5. Signed(t.at - u.at) <= 0
    BY <2>2, <2>4 DEF Ahead
  <2>6. Signed(t.at - u.at) \in Int
    BY <2>3, SignedIs
  <2>7. QED
    BY <2>1, <2>5, <2>6
<1>4. <<t.ctx, t.at>> \in Service!Ripe(promised)
  BY <1>1, <1>2, <1>3 DEF Service!Ripe, Service!After, Service!Signed, Signed
<1>5. QED
  BY <1>0, <1>1, <1>4 DEF Service!ServiceFire

\* Every step is one of the service, or none.
\* Code: timing.c and its front end.
LEMMA StepServes == IInv /\ [Next]_vars => [Service!ServiceNext]_<<clock, promised>>
<1> SUFFICES ASSUME IInv, [Next]_vars, ~UNCHANGED <<clock, promised>>
             PROVE  Service!ServiceNext
  OBVIOUS
<1>1. ASSUME NEW c \in Ctx, NEW d \in Delays, Schedule(c, d) PROVE Service!ServiceNext
  <2>1. When(d) \in Service!Time
    BY WhenIsAhead, Numbers DEF IInv, Time, Service!Time
  <2>2. Service!ServiceSchedule(c, When(d))
    BY <1>1 DEF Schedule, Service!ServiceSchedule, Service!With
  <2>3. QED
    BY <2>1, <2>2 DEF Service!ServiceNext
<1>2. ASSUME NEW c \in Ctx, Free(c) PROVE Service!ServiceNext
  <2>1. Service!ServiceExpire(c)
    BY <1>2 DEF Free, Service!ServiceExpire, Service!Without
  <2>2. QED
    BY <2>1 DEF Service!ServiceNext
<1>3. ASSUME NEW t \in timers, Fire(t) PROVE Service!ServiceNext
  BY <1>3, FiresRipe DEF Service!ServiceNext
<1>4. CASE Tick
  BY <1>4 DEF Tick, Service!ServiceTick, Service!ServiceNext
<1>5. ~UNCHANGED vars
  BY DEF vars
<1>6. \A c \in Ctx : ~Begin(c)
  BY DEF Begin
<1>7. ~WmTimer /\ ~Return /\ ~NoTimers /\ \A t \in timers : ~Purge(t) /\ ~NextTimer(t)
  BY DEF WmTimer, Return, NoTimers, Purge, NextTimer
<1>8. QED
  BY <1>1, <1>2, <1>3, <1>4, <1>5, <1>6, <1>7 DEF Next, UserStep, RunStep

\* The users of timing.c get the service that putty.h promises them: a timer's callback
\* comes once its time has passed, earlier timers first, and none for an expired context.
\* Code: timing.c; putty.h, "Exports from timing.c".
THEOREM TimersImplementService == Spec => ImplementsService
<1>1. Init => Service!ServiceInit
  BY DEF Init, Service!ServiceInit, Time, Service!Time
<1>2. IInv /\ [Next]_vars => [Service!ServiceNext]_Service!timerVars
  BY StepServes DEF Service!timerVars
<1>3. QED
  BY <1>1, <1>2, InvariantHolds, PTL DEF Spec, ImplementsService, Service!ServiceSpec
=============================================================================
