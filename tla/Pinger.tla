------------------------------- MODULE Pinger -------------------------------
(***************************************************************************)
(* putty/pinger.c: keepalives of a network backend, as a user of the       *)
(* timers.  A timer is never cancelled when the interval changes; those    *)
(* that are out of date are told apart by comparing their time with next.  *)
(***************************************************************************)
EXTENDS TimerService

CONSTANTS
  Intervals,    \* values of CONF_ping_interval, in ticks; 0 is off
  Lateness      \* a timer may come so much too late

ASSUME PingerAssumption ==
  Lateness \in Nat /\ Intervals \subseteq Nat /\ \A i \in Intervals : 2 * (i + Lateness) < W

VARIABLES
  alive, interval, pend, whenSet, next,     \* struct Pinger; pend is its field pending
  quiet,    \* history: ticks since the last ping or the start ...
  least     \* ... and the least interval, other than 0, in force since then

pingerVars == <<alive, interval, pend, whenSet, next>>
pingAllVars == <<timerVars, pingerVars, quiet, least>>

P == CHOOSE c \in Ctx : \A d \in Ctx : c <= d    \* the pinger's address
ASSUME PingerAddressAssumption == P \in Ctx

Lesser(a, b) == IF a # 0 /\ (b = 0 \/ a < b) THEN a ELSE b

\* Mutant of PingerSchedule: a shorter interval does not bring the ping forward.
PingerSchedule_KeepsNext(timers, iv, waiting) ==
  \/ /\ iv = 0 /\ pend' = FALSE /\ pending' = timers /\ UNCHANGED <<whenSet, next>>
  \/ /\ iv # 0
     /\ LET at == (clock + iv) % W IN
        /\ pending' = With(timers, P, at) /\ pend' = TRUE
        /\ IF ~waiting THEN next' = at /\ whenSet' = clock
                       ELSE UNCHANGED <<next, whenSet>>

\* pinger_schedule, with the timers, the interval and the pending flag it starts from.
PingerSchedule(timers, iv, waiting) ==
  \/ /\ iv = 0 /\ pend' = FALSE /\ pending' = timers /\ UNCHANGED <<whenSet, next>>
  \/ /\ iv # 0
     /\ LET at == (clock + iv) % W IN
        /\ pending' = With(timers, P, at) /\ pend' = TRUE
        /\ IF ~waiting \/ (at - whenSet) % W < (next - whenSet) % W
           THEN next' = at /\ whenSet' = clock
           ELSE UNCHANGED <<next, whenSet>>

PingerInit ==
  /\ ServiceInit
  /\ alive = FALSE /\ interval = 0 /\ pend = FALSE /\ whenSet = 0 /\ next = 0
  /\ quiet = 0 /\ least = 0

\* pinger_new
PingerNew(iv) ==
  /\ ~alive /\ alive' = TRUE /\ interval' = iv
  /\ PingerSchedule(pending, iv, FALSE)
  /\ quiet' = 0 /\ least' = iv /\ UNCHANGED clock

\* pinger_reconfig
PingerReconfig(iv) ==
  /\ alive /\ iv # interval /\ interval' = iv
  /\ PingerSchedule(pending, iv, pend)
  /\ least' = Lesser(iv, least) /\ UNCHANGED <<clock, alive, quiet>>

\* pinger_free
PingerFree ==
  /\ alive /\ alive' = FALSE /\ pending' = Without(pending, P)
  /\ quiet' = 0 /\ least' = 0 /\ interval' = 0 /\ pend' = FALSE
  /\ UNCHANGED <<clock, whenSet, next>>

\* Mutant of PingerTimer: every timer pings.
PingerTimer_Any(p) ==
  /\ p \in Ripe(pending) /\ p[1] = P
  /\ IF pend
     THEN /\ PingerSchedule(pending \ {p}, interval, FALSE)
          /\ quiet' = 0 /\ least' = interval
     ELSE pending' = pending \ {p} /\ UNCHANGED <<pend, whenSet, next, quiet, least>>
  /\ UNCHANGED <<clock, alive, interval>>

\* pinger_timer, called by the timer p.
PingerTimer(p) ==
  /\ p \in Ripe(pending) /\ p[1] = P
  /\ IF pend /\ p[2] = next
     THEN /\ PingerSchedule(pending \ {p}, interval, FALSE)
          /\ quiet' = 0 /\ least' = interval
     ELSE pending' = pending \ {p} /\ UNCHANGED <<pend, whenSet, next, quiet, least>>
  /\ UNCHANGED <<clock, alive, interval>>

PingerTick ==
  /\ PunctualTick(Lateness)
  /\ quiet' = IF alive /\ 2 * quiet < W THEN quiet + 1 ELSE quiet
  /\ UNCHANGED <<pingerVars, least>>

PingerNext ==
  \/ PingerTick \/ PingerFree
  \/ \E iv \in Intervals : PingerNew(iv) \/ PingerReconfig(iv)
  \/ \E p \in pending : PingerTimer(p)

PingerSpec == PingerInit /\ [][PingerNext]_pingAllVars
-----------------------------------------------------------------------------
(* Properties *)

\* Type invariant.  Code: struct Pinger.
PingerTypeOK ==
  /\ clock \in Time /\ pending \subseteq Ctx \X Time
  /\ alive \in BOOLEAN /\ pend \in BOOLEAN
  /\ interval \in Intervals \cup {0}
  /\ whenSet \in Time /\ next \in Time
  /\ (~alive => \A p \in pending : p[1] # P)
  /\ quiet \in 0 .. W /\ least \in Intervals \cup {0}

\* While keepalives are on, the timer that next refers to is set, and it is never
\* further away than the interval in force; while they are off none of the timers
\* still in the tree will ping.
\* Code: pinger_schedule, pinger_reconfig, and the comparison across a wrap-around.
PingScheduled ==
  /\ PingerTypeOK
  /\ alive /\ interval # 0 => /\ pend /\ <<P, next>> \in pending
                             /\ Signed(next - clock) <= interval
  /\ pend => alive /\ interval # 0

\* However often the interval is changed, two pings are never closer together than the
\* least interval since the first: timers that are out of date do not ping.
\* Code: pinger_timer, now == pinger->next.
NoStrayPing == [][quiet # 0 /\ quiet' = 0 /\ alive' => quiet >= least]_pingAllVars
=============================================================================
