-------------------------- MODULE TimerUsers_proofs --------------------------
(***************************************************************************)
(* The two users of the timers, Redraw and Pinger, for any contexts, any   *)
(* delays and intervals that are short enough for the clock, and any       *)
(* number of bits of the clock.                                            *)
(***************************************************************************)
EXTENDS Pinger, Redraw, TLAPS

-----------------------------------------------------------------------------
(* Times that wrap around *)

\* The remainder of a number that is out of range by less than one turn.
\* Code: unsigned long arithmetic.
LEMMA Wraps ==
  ASSUME NEW x \in Int, -W <= x, x < 2 * W
  PROVE  x % W = IF x < 0 THEN x + W ELSE IF x < W THEN x ELSE x - W
  BY ServiceAssumption

\* A time in the future, but not too far, has not come yet.
\* Code: the comparisons with now in timing.c, terminal.c and pinger.c.
LEMMA FutureNotPast ==
  ASSUME NEW c \in Time, NEW d \in Nat, 2 * d < W
  PROVE  /\ (c + d) % W \in Time
         /\ ~After(c, (c + d) % W)
         /\ Signed(((c + d) % W) - c) = d
<1> USE ServiceAssumption DEF Time
<1>1. c \in Int /\ 0 <= c /\ c < W /\ c + d < 2 * W
  OBVIOUS
<1>2. (c + d) % W = IF c + d < W THEN c + d ELSE c + d - W
  BY <1>1, Wraps
<1>3. (c - ((c + d) % W)) % W = IF d = 0 THEN 0 ELSE W - d
  <2>1. CASE c + d < W
    <3>1. c - ((c + d) % W) = -d
      BY <1>1, <1>2, <2>1
    <3> QED
      BY <1>1, <3>1, Wraps
  <2>2. CASE c + d >= W
    <3>1. c - ((c + d) % W) = W - d
      BY <1>1, <1>2, <2>2
    <3> QED
      BY <1>1, <2>2, <3>1, Wraps
  <2> QED
    BY <1>1, <2>1, <2>2
<1>4. (((c + d) % W) - c) % W = d
  <2>1. CASE c + d < W
    <3>1. ((c + d) % W) - c = d
      BY <1>1, <1>2, <2>1
    <3> QED
      BY <1>1, <3>1, Wraps
  <2>2. CASE c + d >= W
    <3>1. ((c + d) % W) - c = d - W
      BY <1>1, <1>2, <2>2
    <3> QED
      BY <1>1, <2>2, <3>1, Wraps
  <2> QED
    BY <1>1, <2>1, <2>2
<1>5. (c + d) % W \in Time
  BY <1>1, <1>2
<1>6. ~After(c, (c + d) % W)
  BY <1>1, <1>3 DEF After, Signed
<1> QED
  BY <1>1, <1>4, <1>5, <1>6 DEF Signed

-----------------------------------------------------------------------------
(* Redraw: the timers the terminal sets *)

WaitTypes == [Kinds -> Time \cup {Off}]

\* Off is no time.
\* Code: the flags beside the times in struct terminal_tag.
LEMMA OffIsNoTime == Off \notin Time
  BY ServiceAssumption DEF Off, Time

\* Each delay leads to a time, one that has not come yet.
\* Code: schedule_timer, as term_schedule_cblink and its like call it.
LEMMA InEffect ==
  ASSUME clock \in Time, NEW d \in 1 .. W, 2 * d < W
  PROVE  In(d) \in Time /\ ~After(clock, In(d))
<1>1. d \in Nat
  BY ServiceAssumption
<1> QED
  BY <1>1, FutureNotPast DEF In

\* The delays of the terminal are such delays.
\* Code: UPDATE_DELAY, CBLINK_DELAY, VBELL_DELAY.
LEMMA DelayRange ==
  ASSUME NEW d \in {UpdateDelay, BlinkDelay, BellDelay}
  PROVE  d \in 1 .. W /\ 2 * d < W /\ d \in Nat
<1>1. d \in Nat /\ Late \in Nat /\ d > 0 /\ 2 * (d + Late) < W
  BY RedrawAssumption
<1> QED
  BY <1>1, ServiceAssumption

\* Scheduling blinks changes what is waited for only for these, to a time that has not
\* come yet, and waits for those in use.
\* Code: term_schedule_cblink, term_schedule_tblink.
LEMMA BlinkingEffect ==
  ASSUME clock \in Time, NEW w \in WaitTypes, NEW S \in SUBSET Blinks
  PROVE  /\ Blinking(w, S) \in WaitTypes
         /\ \A k \in Kinds \ S : Blinking(w, S)[k] = w[k]
         /\ \A k \in S : /\ On(Blinking(w, S), k) <=> k \in enabled'
                         /\ k \in enabled' /\ ~On(w, k) => Blinking(w, S)[k] = In(BlinkDelay)
                         /\ k \in enabled' /\ On(w, k) => Blinking(w, S)[k] = w[k]
<1>1. In(BlinkDelay) \in Time
  BY DelayRange, InEffect
<1>2. S \subseteq Kinds
  BY DEF Kinds
<1> QED
  BY <1>1, <1>2, OffIsNoTime DEF Blinking, WaitTypes, On

\* What is waited for after a change has its timer, if what is still waited for has.
\* Code: every call of schedule_timer in terminal.c.
LEMMA SetTimersEffect ==
  ASSUME NEW old \in SUBSET (Ctx \X Time), NEW w \in WaitTypes, SetTimers(old, w),
         \A k \in Kinds : On(w, k) /\ w[k] = waits[k] => <<T, w[k]>> \in old
  PROVE  /\ pending' \subseteq Ctx \X Time
         /\ \A k \in Kinds : On(w, k) => <<T, w[k]>> \in pending'
<1>1. \A k \in Kinds : On(w, k) => w[k] \in Time
  BY DEF On, WaitTypes
<1>2. pending' \subseteq Ctx \X Time
  BY <1>1, TerminalAssumption DEF SetTimers, Timers
<1>3. ASSUME NEW k \in Kinds, On(w, k) PROVE <<T, w[k]>> \in pending'
  BY <1>3 DEF SetTimers, Timers
<1> QED
  BY <1>2, <1>3

-----------------------------------------------------------------------------
(* Redraw: every step keeps the updates scheduled *)

\* The kinds are distinct, and the blinks are some of them.
\* Code: struct terminal_tag.
LEMMA KindsDistinct ==
  /\ Blinks \subseteq Kinds /\ CBlink \subseteq Blinks
  /\ "cool" \in Kinds \ Blinks /\ "vbell" \in Kinds \ Blinks
  BY RedrawAssumption DEF Kinds, CBlink

\* Output, or a bell, begins with waits as in w: an update is asked for and scheduled.
\* Code: seen_disp_event, term_schedule_update.
LEMMA SeenDispEventEffect ==
  ASSUME UpdateScheduled, NEW w \in WaitTypes, SeenDispEvent(w), UNCHANGED enabled,
         \A b \in Blinks : w[b] = waits[b]
  PROVE  /\ waits' \in WaitTypes /\ pending' \subseteq Ctx \X Time
         /\ WaitsHaveTimers' /\ waits'["cool"] = w["cool"]
         /\ wup' = TRUE /\ dirty' = TRUE /\ cbs' \in 0 .. Callbacks
         /\ cbs' > 0 \/ On(waits, "cool")
<1> DEFINE v == Stop(w, CBlink)
<1>1. /\ clock \in Time /\ pending \in SUBSET (Ctx \X Time) /\ waits \in WaitTypes
      /\ cbs \in 0 .. Callbacks /\ enabled \subseteq Blinks /\ wup \in BOOLEAN
  BY DEF UpdateScheduled, TypeOK, WaitTypes
<1>2. /\ v \in WaitTypes
      /\ \A k \in Kinds : v[k] = IF k \in CBlink THEN Off ELSE w[k]
  BY DEF Stop, WaitTypes
<1>3. /\ waits' = Blinking(v, CBlink) /\ SetTimers(pending, waits')
      /\ dirty' = TRUE /\ ScheduleUpdate
  BY DEF SeenDispEvent
<1> HIDE DEF v
<1>4. /\ waits' \in WaitTypes
      /\ \A k \in Kinds \ CBlink : waits'[k] = v[k]
      /\ \A k \in CBlink : On(waits', k) <=> k \in enabled
  BY <1>1, <1>2, <1>3, BlinkingEffect, KindsDistinct
<1>5. \A k \in Kinds : On(waits', k) /\ waits'[k] = waits[k] => <<T, waits'[k]>> \in pending
  BY DEF UpdateScheduled, WaitsHaveTimers, On
<1>6. /\ pending' \subseteq Ctx \X Time
      /\ \A k \in Kinds : On(waits', k) => <<T, waits'[k]>> \in pending'
  BY <1>1, <1>3, <1>4, <1>5, SetTimersEffect
<1>7. \A b \in Blinks : On(waits', b) <=> b \in enabled'
  BY <1>2, <1>4, KindsDistinct DEF UpdateScheduled, WaitsHaveTimers, On
<1>8. waits'["cool"] = w["cool"]
  BY <1>2, <1>4, KindsDistinct
<1>9. wup' = TRUE /\ cbs' \in 0 .. Callbacks /\ (cbs' > 0 \/ On(waits, "cool"))
  BY <1>1, <1>3, RedrawAssumption DEF ScheduleUpdate, UpdateScheduled
<1> QED
  BY <1>3, <1>4, <1>6, <1>7, <1>8, <1>9 DEF WaitsHaveTimers

\* Output asks for an update.
\* Code: seen_disp_event.
LEMMA OutputKeeps == UpdateScheduled /\ Output => UpdateScheduled'
<1> SUFFICES ASSUME UpdateScheduled, Output PROVE UpdateScheduled'
  OBVIOUS
<1>1. waits \in WaitTypes
  BY DEF UpdateScheduled, TypeOK, WaitTypes
<1>2. /\ waits' \in WaitTypes /\ pending' \subseteq Ctx \X Time
      /\ WaitsHaveTimers' /\ waits'["cool"] = waits["cool"]
      /\ wup' = TRUE /\ dirty' = TRUE /\ cbs' \in 0 .. Callbacks
      /\ cbs' > 0 \/ On(waits, "cool")
  BY <1>1, SeenDispEventEffect DEF Output
<1> QED
  BY <1>2 DEF UpdateScheduled, TypeOK, WaitTypes, Output, On

\* So does a bell.
\* Code: term_schedule_vbell.
LEMMA BellKeeps ==
  ASSUME UpdateScheduled, NEW d \in 1 .. BellDelay, Bell(d)
  PROVE  UpdateScheduled'
<1> DEFINE w == Start(waits, "vbell", In(d))
<1>1. In(d) \in Time
  <2>1. d \in 1 .. W /\ 2 * d < W
    BY DelayRange, ServiceAssumption
  <2> QED
    BY <2>1, InEffect DEF UpdateScheduled, TypeOK
<1>2. /\ w \in WaitTypes /\ w["cool"] = waits["cool"]
      /\ \A b \in Blinks : w[b] = waits[b]
  BY <1>1, KindsDistinct DEF UpdateScheduled, TypeOK, WaitTypes, Start
<1> HIDE DEF w
<1>3. SeenDispEvent(w) /\ UNCHANGED enabled
  BY DEF Bell, w
<1>4. /\ waits' \in WaitTypes /\ pending' \subseteq Ctx \X Time
      /\ WaitsHaveTimers' /\ waits'["cool"] = w["cool"]
      /\ wup' = TRUE /\ dirty' = TRUE /\ cbs' \in 0 .. Callbacks
      /\ cbs' > 0 \/ On(waits, "cool")
  BY <1>2, <1>3, SeenDispEventEffect
<1> QED
  BY <1>2, <1>4 DEF UpdateScheduled, TypeOK, WaitTypes, Bell, On

\* A change of the blinks in use starts and stops their timers.
\* Code: term_schedule_cblink, term_schedule_tblink.
LEMMA BlinksChange ==
  ASSUME UpdateScheduled, NEW S \in SUBSET Blinks, enabled' \subseteq Blinks,
         waits' = Blinking(waits, S), SetTimers(pending, waits'),
         \A b \in Blinks \ S : b \in enabled' <=> b \in enabled
  PROVE  /\ waits' \in WaitTypes /\ pending' \subseteq Ctx \X Time
         /\ WaitsHaveTimers' /\ waits'["cool"] = waits["cool"]
<1>1. clock \in Time /\ pending \in SUBSET (Ctx \X Time) /\ waits \in WaitTypes
  BY DEF UpdateScheduled, TypeOK, WaitTypes
<1>2. /\ waits' \in WaitTypes
      /\ \A k \in Kinds \ S : waits'[k] = waits[k]
      /\ \A k \in S : On(waits', k) <=> k \in enabled'
  BY <1>1, BlinkingEffect
<1>3. \A k \in Kinds : On(waits', k) /\ waits'[k] = waits[k] => <<T, waits'[k]>> \in pending
  BY DEF UpdateScheduled, WaitsHaveTimers, On
<1>4. /\ pending' \subseteq Ctx \X Time
      /\ \A k \in Kinds : On(waits', k) => <<T, waits'[k]>> \in pending'
  BY <1>1, <1>2, <1>3, SetTimersEffect
<1>5. \A b \in Blinks : On(waits', b) <=> b \in enabled'
  BY <1>2, KindsDistinct DEF UpdateScheduled, WaitsHaveTimers, On
<1> QED
  BY <1>2, <1>4, <1>5, KindsDistinct DEF WaitsHaveTimers

\* Blinking text comes or goes.
\* Code: term_schedule_tblink.
LEMMA TextBlinkKeeps ==
  ASSUME UpdateScheduled, NEW on \in BOOLEAN, TextBlink(on)
  PROVE  UpdateScheduled'
<1>1. /\ waits' \in WaitTypes /\ pending' \subseteq Ctx \X Time
      /\ WaitsHaveTimers' /\ waits'["cool"] = waits["cool"]
  <2>1. /\ {"tblink"} \in SUBSET Blinks /\ enabled' \subseteq Blinks
        /\ waits' = Blinking(waits, {"tblink"}) /\ SetTimers(pending, waits')
        /\ \A b \in Blinks \ {"tblink"} : b \in enabled' <=> b \in enabled
    BY DEF TextBlink, UpdateScheduled, TypeOK
  <2> QED
    BY <2>1, BlinksChange
<1> QED
  BY <1>1 DEF UpdateScheduled, TypeOK, WaitTypes, TextBlink, On

\* The focus comes or goes, and with it the cursor's blink.
\* Code: term_set_focus.
LEMMA FocusBlinks ==
  ASSUME UpdateScheduled, NEW on \in BOOLEAN,
         enabled' = IF on THEN enabled \cup CBlink ELSE enabled \ CBlink,
         waits' = Blinking(waits, CBlink), SetTimers(pending, waits')
  PROVE  /\ waits' \in WaitTypes /\ pending' \subseteq Ctx \X Time
         /\ WaitsHaveTimers' /\ waits'["cool"] = waits["cool"]
         /\ enabled' \subseteq Blinks
<1>1. /\ CBlink \in SUBSET Blinks /\ enabled' \subseteq Blinks
      /\ \A b \in Blinks \ CBlink : b \in enabled' <=> b \in enabled
  BY KindsDistinct DEF UpdateScheduled, TypeOK
<1> QED
  BY <1>1, BlinksChange

\* An update at once takes the request back; a hidden terminal keeps it.
\* Code: WM_SETFOCUS, WM_KILLFOCUS, the changes of tabs.
LEMMA FocusKeeps ==
  ASSUME UpdateScheduled, NEW on \in BOOLEAN, NEW shown \in BOOLEAN, Focus(on, shown),
         shown => cbs' \in 0 .. Callbacks, ~shown => cbs' = cbs
  PROVE  UpdateScheduled'
<1>1. /\ waits' \in WaitTypes /\ pending' \subseteq Ctx \X Time
      /\ WaitsHaveTimers' /\ waits'["cool"] = waits["cool"]
      /\ enabled' \subseteq Blinks
  BY FocusBlinks DEF Focus
<1> QED
  BY <1>1 DEF UpdateScheduled, TypeOK, WaitTypes, Focus, TermUpdate, On

\* The message loop tells the terminal again whether it has the focus.
\* Code: the message loop's term_set_focus.
LEMMA SyncFocusKeeps ==
  ASSUME UpdateScheduled, NEW on \in BOOLEAN, SyncFocus(on)
  PROVE  UpdateScheduled'
<1>1. /\ waits' \in WaitTypes /\ pending' \subseteq Ctx \X Time
      /\ WaitsHaveTimers' /\ waits'["cool"] = waits["cool"]
      /\ enabled' \subseteq Blinks
  BY FocusBlinks DEF SyncFocus
<1> QED
  BY <1>1 DEF UpdateScheduled, TypeOK, WaitTypes, SyncFocus, On

\* The callback, run when waits is w: either it updates, and the cooldown begins, or the
\* request stays, with the cooldown to wait for.
\* Code: term_update_callback.
LEMMA UpdateCallbackEffect ==
  ASSUME UpdateScheduled, NEW old \in SUBSET (Ctx \X Time), NEW w \in WaitTypes,
         NEW asked \in BOOLEAN, NEW outdated \in BOOLEAN, UNCHANGED <<enabled, showing>>,
         UpdateCallback(old, w, asked, outdated),
         \A k \in Kinds : On(w, k) /\ w[k] = waits[k] => <<T, w[k]>> \in old,
         In(UpdateDelay) = waits["cool"] => On(w, "cool"),
         \A b \in Blinks : On(w, b) <=> b \in enabled,
         outdated /\ showing => asked
  PROVE  /\ waits' \in WaitTypes /\ pending' \subseteq Ctx \X Time
         /\ WaitsHaveTimers'
         /\ wup' \in BOOLEAN /\ dirty' \in BOOLEAN
         /\ rested' = 0 \/ rested' = rested
         /\ wup' => asked /\ On(waits', "cool")
         /\ dirty' /\ showing => wup'
<1> DEFINE v == Start(w, "cool", In(UpdateDelay))
<1>1. In(UpdateDelay) \in Time
  BY DelayRange, InEffect DEF UpdateScheduled, TypeOK
<1>2. /\ v \in WaitTypes /\ v["cool"] = In(UpdateDelay) /\ On(v, "cool")
      /\ \A k \in Kinds \ {"cool"} : v[k] = w[k]
  BY <1>1, OffIsNoTime, KindsDistinct DEF Start, WaitTypes, On
<1> HIDE DEF v
<1>3. CASE asked /\ ~On(w, "cool")
  <2>1. waits' = v /\ SetTimers(old, v) /\ TermUpdate(outdated) /\ rested' = 0
    BY <1>3 DEF UpdateCallback, v
  <2>2. \A k \in Kinds : On(v, k) /\ v[k] = waits[k] => <<T, v[k]>> \in old
    BY <1>2, <1>3 DEF On
  <2>3. /\ pending' \subseteq Ctx \X Time
        /\ \A k \in Kinds : On(v, k) => <<T, v[k]>> \in pending'
    BY <1>2, <2>1, <2>2, SetTimersEffect
  <2>4. \A b \in Blinks : On(v, b) <=> b \in enabled'
    BY <1>2, KindsDistinct DEF On
  <2> QED
    BY <1>2, <2>1, <2>3, <2>4 DEF TermUpdate, WaitsHaveTimers
<1>4. CASE ~(asked /\ ~On(w, "cool"))
  <2>1. /\ waits' = w /\ SetTimers(old, w) /\ wup' = asked /\ dirty' = outdated
        /\ rested' = rested
    BY <1>4 DEF UpdateCallback
  <2>2. /\ pending' \subseteq Ctx \X Time
        /\ \A k \in Kinds : On(w, k) => <<T, w[k]>> \in pending'
    BY <2>1, SetTimersEffect
  <2> QED
    BY <1>4, <2>1, <2>2 DEF WaitsHaveTimers
<1> QED
  BY <1>3, <1>4

\* The callback comes up in the queue.
\* Code: term_update_callback.
LEMMA RunCallbackKeeps == UpdateScheduled /\ RunCallback => UpdateScheduled'
<1> SUFFICES ASSUME UpdateScheduled, RunCallback PROVE UpdateScheduled'
  OBVIOUS
<1>1. /\ clock \in Time /\ pending \in SUBSET (Ctx \X Time) /\ waits \in WaitTypes
      /\ wup \in BOOLEAN /\ dirty \in BOOLEAN /\ rested \in 0 .. UpdateDelay
      /\ cbs \in 0 .. Callbacks
  BY DEF UpdateScheduled, TypeOK, WaitTypes
<1>2. /\ \A k \in Kinds : On(waits, k) => <<T, waits[k]>> \in pending
      /\ \A b \in Blinks : On(waits, b) <=> b \in enabled
      /\ dirty /\ showing => wup
  BY DEF UpdateScheduled, WaitsHaveTimers
<1>3. In(UpdateDelay) = waits["cool"] => On(waits, "cool")
  BY <1>1, DelayRange, InEffect, OffIsNoTime DEF On
<1>4. /\ UpdateCallback(pending, waits, wup, dirty) /\ UNCHANGED <<clock, enabled, showing>>
      /\ cbs > 0 /\ cbs' = cbs - 1
  BY DEF RunCallback
<1>5. /\ waits' \in WaitTypes /\ pending' \subseteq Ctx \X Time
      /\ WaitsHaveTimers'
      /\ wup' \in BOOLEAN /\ dirty' \in BOOLEAN
      /\ rested' = 0 \/ rested' = rested
      /\ wup' => wup /\ On(waits', "cool")
      /\ dirty' /\ showing => wup'
  BY <1>1, <1>2, <1>3, <1>4, UpdateCallbackEffect
<1>6. cbs' \in 0 .. Callbacks /\ rested' \in 0 .. UpdateDelay
  BY <1>1, <1>4, <1>5, RedrawAssumption
<1> QED
  BY <1>1, <1>4, <1>5, <1>6 DEF UpdateScheduled, TypeOK, WaitTypes

\* What the timer p was for is waited for no more, and blinks that go on begin anew, with
\* a timer other than p.
\* Code: term_timer.
LEMMA TermTimerWaits ==
  ASSUME UpdateScheduled, NEW p \in pending, TermTimer(p),
         NEW meant, meant = {k \in Kinds : waits[k] = p[2]},
         NEW w, w = Blinking(Stop(waits, meant), meant \cap Blinks)
  PROVE  /\ w \in WaitTypes
         /\ \A k \in Kinds : On(w, k) /\ w[k] = waits[k] => <<T, w[k]>> \in pending \ {p}
         /\ \A b \in Blinks : On(w, b) <=> b \in enabled
         /\ w["cool"] = IF "cool" \in meant THEN Off ELSE waits["cool"]
         /\ "cool" \in meant => After(clock, waits["cool"])
<1> DEFINE v == Stop(waits, meant)
<1>1. /\ clock \in Time /\ pending \in SUBSET (Ctx \X Time) /\ waits \in WaitTypes
      /\ After(clock, p[2]) /\ enabled' = enabled /\ p[2] \in Time
  BY DEF UpdateScheduled, TypeOK, WaitTypes, TermTimer, Ripe
<1>2. /\ \A k \in Kinds : On(waits, k) => <<T, waits[k]>> \in pending
      /\ \A b \in Blinks : On(waits, b) <=> b \in enabled
  BY DEF UpdateScheduled, WaitsHaveTimers
<1>3. v \in WaitTypes /\ \A k \in Kinds : v[k] = IF k \in meant THEN Off ELSE waits[k]
  BY <1>1 DEF Stop, WaitTypes
<1> HIDE DEF v
<1>4. /\ w \in WaitTypes
      /\ \A k \in Kinds \ (meant \cap Blinks) : w[k] = v[k]
      /\ \A k \in meant \cap Blinks :
           /\ On(w, k) <=> k \in enabled
           /\ k \in enabled /\ ~On(v, k) => w[k] = In(BlinkDelay)
  <2>1. PICK S \in SUBSET Blinks : S = meant \cap Blinks
    OBVIOUS
  <2>2. PICK u \in WaitTypes : u = v
    BY <1>3
  <2>3. w = Blinking(u, S)
    BY <2>1, <2>2 DEF v
  <2>4. /\ w \in WaitTypes
        /\ \A k \in Kinds \ S : w[k] = u[k]
        /\ \A k \in S : /\ On(w, k) <=> k \in enabled'
                        /\ k \in enabled' /\ ~On(u, k) => w[k] = In(BlinkDelay)
    <3>1. clock \in Time
      BY <1>1
    <3>2. Blinking(u, S) \in WaitTypes
      BY <3>1, BlinkingEffect
    <3>3. \A k \in Kinds \ S : Blinking(u, S)[k] = u[k]
      BY <3>1, BlinkingEffect
    <3>4. \A k \in S : On(Blinking(u, S), k) <=> k \in enabled'
      BY <3>1, BlinkingEffect
    <3>5. \A k \in S : k \in enabled' /\ ~On(u, k) => Blinking(u, S)[k] = In(BlinkDelay)
      BY <3>1, BlinkingEffect
    <3> QED
      BY <2>3, <3>2, <3>3, <3>4, <3>5
  <2> QED
    BY <1>1, <2>1, <2>2, <2>4
<1>5. In(BlinkDelay) # p[2]
  BY <1>1, DelayRange, InEffect
<1>6. ASSUME NEW k \in Kinds, On(w, k), w[k] = waits[k] PROVE <<T, w[k]>> \in pending \ {p}
  <2>1. k \notin meant
    BY <1>3, <1>4, <1>5, <1>6, KindsDistinct DEF On
  <2>2. w[k] # p[2] /\ On(waits, k)
    BY <1>6, <2>1 DEF On
  <2> QED
    BY <1>2, <1>6, <2>2
<1>7. ASSUME NEW b \in Blinks PROVE On(w, b) <=> b \in enabled
  BY <1>2, <1>3, <1>4, KindsDistinct DEF On
<1>8. w["cool"] = IF "cool" \in meant THEN Off ELSE waits["cool"]
  BY <1>3, <1>4, KindsDistinct
<1> QED
  BY <1>1, <1>4, <1>6, <1>7, <1>8

\* A timer of the terminal comes.
\* Code: term_timer.
LEMMA TermTimerKeeps ==
  ASSUME UpdateScheduled, NEW p \in pending, TermTimer(p)
  PROVE  UpdateScheduled'
<1> DEFINE meant == {k \in Kinds : waits[k] = p[2]}
           w == Blinking(Stop(waits, meant), meant \cap Blinks)
           changed == meant \ {"cool"} # {}
           asked == wup \/ changed
           outdated == dirty \/ changed
<1>1. /\ clock \in Time /\ pending \ {p} \in SUBSET (Ctx \X Time) /\ waits \in WaitTypes
      /\ wup \in BOOLEAN /\ dirty \in BOOLEAN /\ rested \in 0 .. UpdateDelay
      /\ cbs \in 0 .. Callbacks /\ asked \in BOOLEAN /\ outdated \in BOOLEAN
  BY DEF UpdateScheduled, TypeOK, WaitTypes
<1>2. /\ w \in WaitTypes
      /\ \A k \in Kinds : On(w, k) /\ w[k] = waits[k] => <<T, w[k]>> \in pending \ {p}
      /\ \A b \in Blinks : On(w, b) <=> b \in enabled
      /\ w["cool"] = IF "cool" \in meant THEN Off ELSE waits["cool"]
      /\ "cool" \in meant => After(clock, waits["cool"])
  BY TermTimerWaits
<1>3. In(UpdateDelay) \in Time /\ ~After(clock, In(UpdateDelay))
  BY <1>1, DelayRange, InEffect
<1>4. In(UpdateDelay) = waits["cool"] => On(w, "cool")
  BY <1>2, <1>3, OffIsNoTime DEF On
<1>5. dirty /\ showing => wup
  BY DEF UpdateScheduled
<1>6. outdated /\ showing => asked
  BY <1>5
<1>7. UpdateCallback(pending \ {p}, w, asked, outdated)
  BY DEF TermTimer
<1>8. UNCHANGED <<clock, enabled, showing, cbs>>
  BY DEF TermTimer
<1> HIDE DEF w, asked, outdated, meant, changed
<1>9. /\ waits' \in WaitTypes /\ pending' \subseteq Ctx \X Time
      /\ WaitsHaveTimers'
      /\ wup' \in BOOLEAN /\ dirty' \in BOOLEAN
      /\ rested' = 0 \/ rested' = rested
      /\ wup' => asked /\ On(waits', "cool")
      /\ dirty' /\ showing => wup'
  BY <1>1, <1>2, <1>4, <1>6, <1>7, <1>8, UpdateCallbackEffect
<1>10. rested' \in 0 .. UpdateDelay
  BY <1>1, <1>9, DelayRange
<1> QED
  BY <1>1, <1>8, <1>9, <1>10 DEF UpdateScheduled, TypeOK, WaitTypes

\* Time passes.
\* Code: GETTICKCOUNT.
LEMMA TickKeeps == UpdateScheduled /\ Tick => UpdateScheduled'
<1> SUFFICES ASSUME UpdateScheduled, Tick PROVE UpdateScheduled'
  OBVIOUS
<1>1. clock' \in Time
  BY ServiceAssumption, FutureNotPast
     DEF UpdateScheduled, TypeOK, Tick, PunctualTick, ServiceTick
<1>2. rested' \in 0 .. UpdateDelay
  BY DelayRange DEF UpdateScheduled, TypeOK, Tick
<1>3. UNCHANGED <<pending, wup, waits, enabled, showing, cbs, dirty>>
  BY DEF Tick, PunctualTick, ServiceTick
<1> QED
  BY <1>1, <1>2, <1>3 DEF UpdateScheduled, TypeOK, WaitsHaveTimers, On

\* Every step of the terminal keeps its updates scheduled.
\* Code: all the code behind Redraw.
LEMMA RedrawStep == UpdateScheduled /\ [Next]_vars => UpdateScheduled'
<1> SUFFICES ASSUME UpdateScheduled, [Next]_vars PROVE UpdateScheduled'
  OBVIOUS
<1>1. CASE SetFocus \/ HideTab \/ ShowTab
  <2>0. cbs \in 0 .. Callbacks /\ Callbacks \in Nat
    BY RedrawAssumption DEF UpdateScheduled, TypeOK
  <2>1. CASE SetFocus
    BY <2>0, <2>1, FocusKeeps DEF SetFocus
  <2>2. CASE HideTab
    BY <2>0, <2>2, FocusKeeps DEF HideTab
  <2>3. CASE ShowTab
    <3>1. Focus(TRUE, TRUE)
      BY <2>3, Zenon DEF ShowTab
    <3>2. cbs' = cbs \/ (cbs < Callbacks /\ cbs' = cbs + 1)
      BY <2>3, Zenon DEF ShowTab
    <3>3. cbs' \in 0 .. Callbacks
      BY <2>0, <3>2
    <3> QED
      BY <3>1, <3>3, FocusKeeps
  <2> QED
    BY <1>1, <2>1, <2>2, <2>3
<1>2. CASE UNCHANGED vars
  BY <1>2 DEF vars, timerVars, termVars, UpdateScheduled, TypeOK, WaitsHaveTimers, On
<1> QED
  BY <1>1, <1>2, OutputKeeps, BellKeeps, TextBlinkKeeps, SyncFocusKeeps, RunCallbackKeeps,
     TermTimerKeeps, TickKeeps DEF Next

\* At first a callback is in the queue, and nothing is waited for.
\* Code: term_init.
LEMMA RedrawInit == Init => UpdateScheduled
<1> SUFFICES ASSUME Init PROVE UpdateScheduled
  OBVIOUS
<1>1. rested \in 0 .. UpdateDelay /\ UpdateDelay \in Nat
  BY DelayRange DEF Init
<1>2. clock \in Time /\ pending = {} /\ \A k \in Kinds : ~On(waits, k)
  BY DEF Init, ServiceInit, On
<1>3. TypeOK
  <2>1. {wup, showing, dirty} \subseteq BOOLEAN
    BY Zenon DEF Init
  <2>2. waits \in [Kinds -> Time \cup {Off}]
    BY DEF Init
  <2> QED
    BY <1>1, <1>2, <2>1, <2>2, RedrawAssumption DEF Init, TypeOK
<1>4. WaitsHaveTimers
  BY <1>2, KindsDistinct DEF Init, WaitsHaveTimers
<1> QED
  BY <1>3, <1>4 DEF Init, UpdateScheduled

\* An update that is asked for is under way, a window that shows an outdated screen has
\* asked for one, and whatever the terminal waits for has its timer, for any delays.
\* Code: term_schedule_update, term_update_callback, term_schedule_cblink,
\* term_schedule_tblink, term_schedule_vbell, term_timer, the changes of tabs.
THEOREM UpdatesCorrect == Spec => []UpdateScheduled
  BY RedrawInit, RedrawStep, PTL DEF Spec

-----------------------------------------------------------------------------
(* Redraw: the cooldown *)

\* Until the cooldown's time has come it is as far away as the cooldown has left.
RestInv ==
  /\ rested < UpdateDelay => On(waits, "cool")
  /\ rested < UpdateDelay => waits["cool"] = (clock + (UpdateDelay - rested)) % W

\* Only time, the end of a cooldown or an update touch it: a cooldown begins, or just
\* ends, when none is in progress or its time has passed.
\* Code: window_update_cooldown in term_update_callback and term_timer.
LEMMA CooldownSteps ==
  ASSUME UpdateScheduled, [Next]_vars, ~Tick
  PROVE  /\ clock' = clock
         /\ \/ waits'["cool"] = waits["cool"] /\ rested' = rested
            \/ /\ On(waits, "cool") => After(clock, waits["cool"])
               /\ \/ waits'["cool"] = In(UpdateDelay) /\ rested' = 0
                  \/ waits'["cool"] = Off /\ rested' = rested
<1>0. waits \in WaitTypes /\ "cool" \in Kinds /\ enabled \subseteq Blinks
  BY KindsDistinct DEF UpdateScheduled, TypeOK, WaitTypes
<1>1. CASE Output
  BY <1>0, <1>1, SeenDispEventEffect DEF Output
<1>2. ASSUME NEW d \in 1 .. BellDelay, Bell(d)
      PROVE  waits'["cool"] = waits["cool"] /\ UNCHANGED <<clock, rested>>
  <2> DEFINE w == Start(waits, "vbell", In(d))
  <2>1. In(d) \in Time
    <3>1. d \in 1 .. W /\ 2 * d < W
      BY DelayRange, ServiceAssumption
    <3> QED
      BY <3>1, InEffect DEF UpdateScheduled, TypeOK
  <2>2. /\ w \in WaitTypes /\ w["cool"] = waits["cool"]
        /\ \A b \in Blinks : w[b] = waits[b]
    BY <1>0, <2>1, KindsDistinct DEF WaitTypes, Start
  <2>3. SeenDispEvent(w) /\ UNCHANGED <<clock, enabled, rested>>
    BY <1>2 DEF Bell
  <2> HIDE DEF w
  <2> QED
    BY <2>2, <2>3, SeenDispEventEffect
<1>3. ASSUME NEW on \in BOOLEAN, TextBlink(on)
      PROVE  waits'["cool"] = waits["cool"] /\ UNCHANGED <<clock, rested>>
  <2>1. /\ {"tblink"} \in SUBSET Blinks /\ enabled' \subseteq Blinks
        /\ waits' = Blinking(waits, {"tblink"}) /\ SetTimers(pending, waits')
        /\ \A b \in Blinks \ {"tblink"} : b \in enabled' <=> b \in enabled
        /\ UNCHANGED <<clock, rested>>
    BY <1>0, <1>3 DEF TextBlink
  <2> QED
    BY <2>1, BlinksChange
<1>4. ASSUME NEW on \in BOOLEAN, NEW shown \in BOOLEAN, Focus(on, shown) \/ SyncFocus(on)
      PROVE  waits'["cool"] = waits["cool"] /\ UNCHANGED <<clock, rested>>
  BY <1>4, FocusBlinks DEF Focus, SyncFocus
<1>5. CASE RunCallback
  BY <1>5, <1>0 DEF RunCallback, UpdateCallback, Start, WaitTypes
<1>6. ASSUME NEW p \in pending, TermTimer(p)
      PROVE  /\ clock' = clock
             /\ \/ waits'["cool"] = waits["cool"] /\ rested' = rested
                \/ /\ On(waits, "cool") => After(clock, waits["cool"])
                   /\ \/ waits'["cool"] = In(UpdateDelay) /\ rested' = 0
                      \/ waits'["cool"] = Off /\ rested' = rested
  <2> DEFINE meant == {k \in Kinds : waits[k] = p[2]}
             w == Blinking(Stop(waits, meant), meant \cap Blinks)
             changed == meant \ {"cool"} # {}
  <2>1. /\ w \in WaitTypes
        /\ w["cool"] = IF "cool" \in meant THEN Off ELSE waits["cool"]
        /\ "cool" \in meant => After(clock, waits["cool"])
    BY <1>6, TermTimerWaits
  <2>2. UpdateCallback(pending \ {p}, w, wup \/ changed, dirty \/ changed)
    BY <1>6 DEF TermTimer
  <2>3. clock' = clock
    BY <1>6 DEF TermTimer
  <2> HIDE DEF w, meant, changed
  <2>4. \/ ~On(w, "cool") /\ rested' = 0 /\ waits' = Start(w, "cool", In(UpdateDelay))
        \/ waits' = w /\ rested' = rested
    BY <2>2 DEF UpdateCallback
  <2>5. Start(w, "cool", In(UpdateDelay))["cool"] = In(UpdateDelay)
    BY <1>0, <2>1 DEF Start, WaitTypes
  <2> QED
    BY <2>1, <2>3, <2>4, <2>5 DEF On
<1>7. CASE UNCHANGED vars
  BY <1>7 DEF vars, timerVars, termVars
<1> QED
  BY <1>1, <1>2, <1>3, <1>4, <1>5, <1>6, <1>7 DEF Next, SetFocus, ShowTab, HideTab

\* While the cooldown lasts its timer cannot come.
\* Code: window_update_cooldown_end.
LEMMA NotOverWhileResting ==
  ASSUME UpdateScheduled, RestInv, rested < UpdateDelay
  PROVE  On(waits, "cool") /\ ~After(clock, waits["cool"])
<1>1. clock \in Time /\ UpdateDelay \in Nat /\ rested \in 0 .. UpdateDelay
  BY DelayRange DEF UpdateScheduled, TypeOK
<1>2. UpdateDelay - rested \in Nat /\ 2 * (UpdateDelay - rested) < W
  BY <1>1, DelayRange, ServiceAssumption
<1> QED
  BY <1>1, <1>2, FutureNotPast DEF RestInv

\* Every step keeps the cooldown's time.
\* Code: term_update_callback, term_timer.
LEMMA RestStep == UpdateScheduled /\ RestInv /\ [Next]_vars => RestInv'
<1> SUFFICES ASSUME UpdateScheduled, RestInv, [Next]_vars PROVE RestInv'
  OBVIOUS
<1>1. /\ clock \in Time /\ UpdateDelay \in Nat \ {0} /\ rested \in 0 .. UpdateDelay
      /\ W \in Nat /\ 2 * UpdateDelay < W
  BY DelayRange, ServiceAssumption DEF UpdateScheduled, TypeOK
<1>2. CASE Tick
  <2>1. clock' = (clock + 1) % W /\ waits' = waits
    BY <1>2 DEF Tick, PunctualTick, ServiceTick
  <2>2. ASSUME rested' < UpdateDelay PROVE rested' = rested + 1
    BY <1>1, <1>2, <2>2 DEF Tick
  <2>3. ASSUME rested' < UpdateDelay
        PROVE  (((clock + 1) % W) + (UpdateDelay - rested')) % W
                 = (clock + (UpdateDelay - rested)) % W
    <3> DEFINE r == UpdateDelay - rested
    <3>1. r \in Nat /\ 1 < r /\ 2 * r < W /\ UpdateDelay - rested' = r - 1
      BY <1>1, <2>2, <2>3
    <3> HIDE DEF r
    <3>2. clock + 1 < W => (clock + 1) % W = clock + 1
      BY <1>1, Wraps DEF Time
    <3>3. ~(clock + 1 < W) => clock = W - 1 /\ (clock + 1) % W = 0
      BY <1>1, Wraps DEF Time
    <3>4. ~(clock + 1 < W) => (r - 1) % W = r - 1 /\ (clock + r) % W = r - 1
      <4>1. -W <= r - 1 /\ r - 1 < W
        BY <1>1, <3>1
      <4>2. (r - 1) % W = r - 1
        BY <1>1, <3>1, <4>1, Wraps
      <4>3. ~(clock + 1 < W) => clock + r = W + (r - 1) /\ clock + r < 2 * W
        BY <1>1, <3>1, <3>3, <4>1
      <4>4. ~(clock + 1 < W) => (clock + r) % W = r - 1
        BY <1>1, <3>1, <4>1, <4>3, Wraps
      <4> QED
        BY <4>2, <4>4
    <3>5. clock + 1 < W => ((clock + 1) % W) + (r - 1) = clock + r
      BY <1>1, <3>1, <3>2 DEF Time
    <3>6. ~(clock + 1 < W) => ((clock + 1) % W) + (r - 1) = r - 1
      BY <3>1, <3>3
    <3>7. (((clock + 1) % W) + (r - 1)) % W = (clock + r) % W
      BY <3>4, <3>5, <3>6
    <3> QED
      BY <3>1, <3>7 DEF r
  <2> QED
    BY <1>1, <2>1, <2>2, <2>3 DEF RestInv, On
<1>3. CASE ~Tick
  <2>1. CASE waits'["cool"] = waits["cool"] /\ rested' = rested
    BY <1>3, <2>1, CooldownSteps DEF RestInv, On
  <2>2. CASE waits'["cool"] = In(UpdateDelay) /\ rested' = 0
    <3>1. In(UpdateDelay) \in Time
      BY <1>1, DelayRange, InEffect
    <3>2. clock' = clock
      BY <1>3, CooldownSteps
    <3> QED
      BY <1>1, <2>2, <3>1, <3>2, OffIsNoTime DEF RestInv, On, In
  <2>3. CASE /\ On(waits, "cool") => After(clock, waits["cool"])
             /\ waits'["cool"] = Off /\ rested' = rested
    BY <1>1, <2>3, NotOverWhileResting DEF RestInv
  <2> QED
    BY <1>3, <2>1, <2>2, <2>3, CooldownSteps
<1> QED
  BY <1>2, <1>3

\* At first no cooldown is in progress.
\* Code: term_init.
LEMMA RestInit == Init => RestInv
  BY DelayRange DEF Init, RestInv

\* Updates asked for by output and blinks are never closer together than the cooldown,
\* for any delays and however the clock wraps around.
\* Code: terminal.h, "We don't permit window updates too close together".
THEOREM UpdatesAreRationed == Spec => UpdatesRationed
<1>1. Spec => [](UpdateScheduled /\ RestInv)
  BY RedrawInit, RedrawStep, RestInit, RestStep, PTL DEF Spec
<1>2. ASSUME UpdateScheduled, RestInv, [Next]_vars
      PROVE  On(waits', "cool") /\ waits'["cool"] # waits["cool"] => rested >= UpdateDelay
  <2>1. CASE Tick
    BY <2>1 DEF Tick
  <2>2. CASE ~Tick
    <3>1. UpdateDelay \in Nat /\ rested \in 0 .. UpdateDelay
      BY <1>2, DelayRange DEF UpdateScheduled, TypeOK
    <3>2. waits'["cool"] # waits["cool"] => ~(rested < UpdateDelay)
      BY <1>2, <2>2, CooldownSteps, NotOverWhileResting
    <3> QED
      BY <3>1, <3>2
  <2> QED
    BY <2>1, <2>2
<1>3. UpdateScheduled /\ RestInv /\ [Next]_vars
        => [On(waits', "cool") /\ waits'["cool"] # waits["cool"] => rested >= UpdateDelay]_vars
  BY <1>2
<1> QED
  BY <1>1, <1>3, PTL DEF Spec, UpdatesRationed

-----------------------------------------------------------------------------
(* Pinger: the timer that next refers to *)

\* From the time the pinger's wait began, its length and what has passed of it.
Span(w, n) == (n - w) % W
Elapsed(w, c) == (c - w) % W

\* At c a wait that began at w and ends at n is over by no more than the lateness of the
\* timers, which leaves every difference of the three times unambiguous.
Paced(w, n, c) ==
  /\ 2 * (Span(w, n) + Lateness) < W
  /\ Elapsed(w, c) <= Span(w, n) + Lateness

\* The difference between two times.
\* Code: unsigned long arithmetic.
LEMMA Differences ==
  ASSUME NEW a \in Time, NEW b \in Time
  PROVE  /\ (a - b) % W = IF a < b THEN a - b + W ELSE a - b
         /\ (a - b) % W \in 0 .. W - 1
         /\ Signed(a - b) \in Int
<1> USE ServiceAssumption DEF Time
<1>1. a - b \in Int /\ -W <= a - b /\ a - b < W
  OBVIOUS
<1> QED
  BY <1>1, Wraps DEF Signed

\* How much of a paced wait is left.
\* Code: the comparisons of times in pinger.c.
LEMMA PacedLeft ==
  ASSUME NEW w \in Time, NEW n \in Time, NEW c \in Time, Paced(w, n, c)
  PROVE  /\ Signed(n - c) = Span(w, n) - Elapsed(w, c)
         /\ Signed(c - n) = Elapsed(w, c) - Span(w, n)
<1> DEFINE s == (n - w) % W
           e == (c - w) % W
<1>1. W \in Nat \ {0} /\ Lateness \in Nat /\ n \in Int /\ w \in Int /\ c \in Int
  BY ServiceAssumption, PingerAssumption DEF Time
<1>2. /\ s = IF n < w THEN n - w + W ELSE n - w
      /\ e = IF c < w THEN c - w + W ELSE c - w
      /\ s \in 0 .. W - 1 /\ e \in 0 .. W - 1
  BY Differences
<1>3. 2 * (s + Lateness) < W /\ e <= s + Lateness
  BY DEF Paced, Span, Elapsed
<1>4. /\ (n - c) % W = IF n < c THEN n - c + W ELSE n - c
      /\ (c - n) % W = IF c < n THEN c - n + W ELSE c - n
  BY Differences
<1> HIDE DEF s, e
<1>5. (n - c) % W = IF s < e THEN s - e + W ELSE s - e
  BY <1>1, <1>2, <1>3, <1>4 DEF Time
<1>6. (c - n) % W = IF e < s THEN e - s + W ELSE e - s
  BY <1>1, <1>2, <1>3, <1>4 DEF Time
<1>7. Signed(n - c) = s - e
  BY <1>1, <1>2, <1>3, <1>5 DEF Signed
<1>8. Signed(c - n) = e - s
  BY <1>1, <1>2, <1>3, <1>6 DEF Signed
<1> QED
  BY <1>7, <1>8 DEF Span, Elapsed, s, e

\* A wait that begins now is paced, and all of it is left.
\* Code: pinger_schedule.
LEMMA PacedStart ==
  ASSUME NEW c \in Time, NEW iv \in Nat, 2 * (iv + Lateness) < W
  PROVE  /\ (c + iv) % W \in Time
         /\ Paced(c, (c + iv) % W, c)
         /\ Signed(((c + iv) % W) - c) = iv
<1>1. W \in Nat \ {0} /\ Lateness \in Nat /\ 2 * iv < W
  BY ServiceAssumption, PingerAssumption
<1>2. (c + iv) % W \in Time /\ Signed(((c + iv) % W) - c) = iv
  BY <1>1, FutureNotPast
<1>3. (((c + iv) % W) - c) % W = iv
  <2> DEFINE at == (c + iv) % W
  <2>1. (at - c) % W \in 0 .. W - 1
    BY <1>2, Differences
  <2>2. Signed(at - c) = iv
    BY <1>2
  <2> HIDE DEF at
  <2>3. (at - c) % W = iv
    BY <1>1, <2>1, <2>2 DEF Signed
  <2> QED
    BY <2>3 DEF at
<1>4. (c - c) % W = 0
  BY <1>1, Differences DEF Time
<1> QED
  BY <1>1, <1>2, <1>3, <1>4 DEF Paced, Span, Elapsed

\* As long as a paced wait is not too late it remains so after a tick.
\* Code: GETTICKCOUNT.
LEMMA PacedTick ==
  ASSUME NEW w \in Time, NEW n \in Time, NEW c \in Time, Paced(w, n, c),
         Signed(c - n) < Lateness
  PROVE  /\ Paced(w, n, (c + 1) % W)
         /\ (c + 1) % W \in Time
         /\ Signed(n - ((c + 1) % W)) = Signed(n - c) - 1
<1> DEFINE s == (n - w) % W
           e == (c - w) % W
           d == (c + 1) % W
<1>1. W \in Nat /\ W > 2 /\ Lateness \in Nat /\ w \in Int /\ c \in Int
  BY ServiceAssumption, PingerAssumption DEF Time
<1>2. /\ e = IF c < w THEN c - w + W ELSE c - w
      /\ s \in 0 .. W - 1 /\ e \in 0 .. W - 1
  BY Differences
<1>3. 2 * (s + Lateness) < W /\ e - s < Lateness
  BY PacedLeft DEF Paced, Span, Elapsed
<1>4. d = IF c + 1 < W THEN c + 1 ELSE 0
  BY <1>1, Wraps DEF Time
<1>5. d \in Time
  BY <1>1, <1>4 DEF Time
<1> HIDE DEF d
<1>6. (d - w) % W = IF d < w THEN d - w + W ELSE d - w
  BY <1>5, Differences
<1> HIDE DEF s, e
<1>7. (d - w) % W = e + 1
  BY <1>1, <1>2, <1>3, <1>4, <1>6 DEF Time
<1>8. Paced(w, n, d)
  BY <1>1, <1>2, <1>3, <1>7 DEF Paced, Span, Elapsed, s
<1>9. Signed(n - d) = s - (e + 1) /\ Signed(n - c) = s - e
  BY <1>5, <1>7, <1>8, PacedLeft DEF Span, Elapsed, s, e
<1> QED
  BY <1>1, <1>2, <1>5, <1>8, <1>9 DEF d

\* A later interval is compared with the rest of the wait as it should be.
\* Code: the test of pinger_schedule.
LEMMA PacedCompare ==
  ASSUME NEW w \in Time, NEW n \in Time, NEW c \in Time, Paced(w, n, c),
         NEW iv \in Nat, 2 * (iv + Lateness) < W,
         ~((((c + iv) % W) - w) % W < (n - w) % W)
  PROVE  Signed(n - c) <= iv
<1> DEFINE s == (n - w) % W
           e == (c - w) % W
           at == (c + iv) % W
<1>1. W \in Nat /\ W > 2 /\ Lateness \in Nat /\ w \in Int /\ c \in Int
  BY ServiceAssumption, PingerAssumption DEF Time
<1>2. /\ e = IF c < w THEN c - w + W ELSE c - w
      /\ s \in 0 .. W - 1 /\ e \in 0 .. W - 1
  BY Differences
<1>3. 2 * (s + Lateness) < W /\ e <= s + Lateness
  BY DEF Paced, Span, Elapsed
<1>4. at = IF c + iv < W THEN c + iv ELSE c + iv - W
  BY <1>1, Wraps DEF Time
<1>5. at \in Time
  BY PacedStart
<1> HIDE DEF at
<1>6. (at - w) % W = IF at < w THEN at - w + W ELSE at - w
  BY <1>5, Differences
<1>7. ~((at - w) % W < s)
  BY DEF at
<1> HIDE DEF s, e
<1>8. (at - w) % W = e + iv
  BY <1>1, <1>2, <1>3, <1>4, <1>6 DEF Time
<1>9. Signed(n - c) = s - e
  BY PacedLeft DEF Span, Elapsed, s, e
<1> QED
  BY <1>1, <1>2, <1>7, <1>8, <1>9

-----------------------------------------------------------------------------
(* Pinger: every step *)

\* The inductive invariant: the wait for next is paced, and when it is over the pinger has
\* been quiet for the least interval in force since the last ping.  (quiet stops growing
\* at half the clock's range, which no interval reaches.)
QuietInv ==
  /\ ~alive => quiet = 0
  /\ pend => Paced(whenSet, next, clock) /\ least # 0
  /\ pend => 2 * quiet >= W \/ quiet + Signed(next - clock) >= least

PingInv == PingScheduled /\ QuietInv

\* The intervals in use leave room for the lateness of the timers.
\* Code: CONF_ping_interval.
LEMMA IntervalRange ==
  ASSUME NEW iv \in Intervals \cup {0}, iv # 0
  PROVE  iv \in Intervals /\ iv \in Nat /\ 2 * (iv + Lateness) < W
  BY PingerAssumption

\* What pinger_schedule leaves: no wait when keepalives are off, else a paced one with its
\* timer, either a new one as long as the interval or the old one, if it ends earlier.
\* Code: pinger_schedule.
LEMMA ScheduleEffect ==
  ASSUME clock \in Time, next \in Time, whenSet \in Time,
         NEW timers \in SUBSET (Ctx \X Time), NEW iv \in Intervals \cup {0},
         NEW waiting \in BOOLEAN, PingerSchedule(timers, iv, waiting),
         waiting => Paced(whenSet, next, clock) /\ <<P, next>> \in timers
  PROVE  /\ pending' \subseteq Ctx \X Time /\ pend' \in BOOLEAN /\ (pend' <=> iv # 0)
         /\ next' \in Time /\ whenSet' \in Time
         /\ iv # 0 => /\ Paced(whenSet', next', clock) /\ <<P, next'>> \in pending'
                      /\ Signed(next' - clock) <= iv
                      /\ Signed(next' - clock) = iv \/ (waiting /\ next' = next)
<1>1. CASE iv = 0
  BY <1>1 DEF PingerSchedule
<1>2. CASE iv # 0
  <2> DEFINE at == (clock + iv) % W
  <2>1. iv \in Nat /\ 2 * (iv + Lateness) < W
    BY <1>2, IntervalRange
  <2>2. at \in Time /\ Paced(clock, at, clock) /\ Signed(at - clock) = iv
    BY <2>1, PacedStart
  <2>3. /\ pending' = With(timers, P, at) /\ pend' = TRUE
        /\ IF ~waiting \/ (at - whenSet) % W < (next - whenSet) % W
           THEN next' = at /\ whenSet' = clock
           ELSE UNCHANGED <<next, whenSet>>
    BY <1>2 DEF PingerSchedule
  <2>4. waiting /\ ~((at - whenSet) % W < (next - whenSet) % W) => Signed(next - clock) <= iv
    BY <2>1, PacedCompare
  <2> HIDE DEF at
  <2>5. pending' \subseteq Ctx \X Time /\ timers \subseteq pending' /\ <<P, at>> \in pending'
    BY <2>2, <2>3, PingerAddressAssumption DEF With
  <2>6. CASE ~waiting \/ (at - whenSet) % W < (next - whenSet) % W
    <3>1. next' = at /\ whenSet' = clock
      BY <2>3, <2>6
    <3> QED
      BY <1>2, <2>1, <2>2, <2>3, <2>5, <3>1
  <2>7. CASE ~(~waiting \/ (at - whenSet) % W < (next - whenSet) % W)
    <3>1. next' = next /\ whenSet' = whenSet
      BY <2>3, <2>7
    <3> QED
      BY <1>2, <2>3, <2>4, <2>5, <2>7, <3>1
  <2> QED
    BY <2>6, <2>7
<1> QED
  BY <1>1, <1>2

\* The pinger is made.
\* Code: pinger_new.
LEMMA PingerNewKeeps ==
  ASSUME PingInv, NEW iv \in Intervals, PingerNew(iv)
  PROVE  PingInv'
<1>1. /\ clock \in Time /\ next \in Time /\ whenSet \in Time
      /\ pending \in SUBSET (Ctx \X Time) /\ iv \in Intervals \cup {0} /\ W \in Nat
      /\ iv \in Nat
  BY ServiceAssumption, PingerAssumption DEF PingInv, PingScheduled, PingerTypeOK
<1>2. /\ alive' = TRUE /\ interval' = iv /\ quiet' = 0 /\ least' = iv /\ clock' = clock
      /\ PingerSchedule(pending, iv, FALSE)
  BY DEF PingerNew
<1>3. /\ pending' \subseteq Ctx \X Time /\ pend' \in BOOLEAN /\ (pend' <=> iv # 0)
      /\ next' \in Time /\ whenSet' \in Time
      /\ iv # 0 => /\ Paced(whenSet', next', clock) /\ <<P, next'>> \in pending'
                   /\ Signed(next' - clock) <= iv
                   /\ Signed(next' - clock) = iv
  BY <1>1, <1>2, ScheduleEffect
<1> QED
  BY <1>1, <1>2, <1>3 DEF PingInv, PingScheduled, PingerTypeOK, QuietInv

\* The interval is changed.
\* Code: pinger_reconfig.
LEMMA PingerReconfigKeeps ==
  ASSUME PingInv, NEW iv \in Intervals, PingerReconfig(iv)
  PROVE  PingInv'
<1>1. /\ clock \in Time /\ next \in Time /\ whenSet \in Time
      /\ pending \in SUBSET (Ctx \X Time) /\ iv \in Intervals \cup {0} /\ W \in Nat
      /\ iv \in Nat /\ quiet \in 0 .. W /\ least \in Intervals \cup {0} /\ least \in Nat
      /\ pend \in BOOLEAN
  BY ServiceAssumption, PingerAssumption DEF PingInv, PingScheduled, PingerTypeOK
<1>2. /\ alive = TRUE /\ alive' = alive /\ interval' = iv /\ quiet' = quiet /\ clock' = clock
      /\ least' = Lesser(iv, least) /\ PingerSchedule(pending, iv, pend)
  BY DEF PingerReconfig, PingInv, PingScheduled, PingerTypeOK
<1>3. pend => Paced(whenSet, next, clock) /\ <<P, next>> \in pending
  BY DEF PingInv, PingScheduled, QuietInv
<1>4. /\ pending' \subseteq Ctx \X Time /\ pend' \in BOOLEAN /\ (pend' <=> iv # 0)
      /\ next' \in Time /\ whenSet' \in Time
      /\ iv # 0 => /\ Paced(whenSet', next', clock) /\ <<P, next'>> \in pending'
                   /\ Signed(next' - clock) <= iv
                   /\ Signed(next' - clock) = iv \/ (pend /\ next' = next)
  BY <1>1, <1>2, <1>3, ScheduleEffect
<1>5. least' \in Intervals \cup {0} /\ least' \in Nat
  BY <1>1, <1>2 DEF Lesser
<1>6. iv # 0 => least' # 0 /\ least' <= iv /\ (least # 0 => least' <= least)
  BY <1>1, <1>2 DEF Lesser
<1>7. PingScheduled'
  BY <1>1, <1>2, <1>4, <1>5 DEF PingScheduled, PingerTypeOK
<1>8. ASSUME iv # 0 PROVE 2 * quiet >= W \/ quiet + Signed(next' - clock) >= least'
  <2>1. CASE Signed(next' - clock) = iv
    BY <1>1, <1>5, <1>6, <1>8, <2>1
  <2>2. CASE pend /\ next' = next
    <3>1. 2 * quiet >= W \/ quiet + Signed(next - clock) >= least
      BY <2>2 DEF PingInv, QuietInv
    <3>2. least # 0 /\ Signed(next - clock) \in Int
      BY <1>1, <2>2, Differences DEF PingInv, QuietInv
    <3> QED
      BY <1>1, <1>5, <1>6, <1>8, <2>2, <3>1, <3>2
  <2> QED
    BY <1>4, <1>8, <2>1, <2>2
<1>9. QuietInv'
  BY <1>2, <1>4, <1>6, <1>8 DEF QuietInv
<1> QED
  BY <1>7, <1>9 DEF PingInv

\* The pinger is freed, and its timers with it.
\* Code: pinger_free, expire_timer_context.
LEMMA PingerFreeKeeps == PingInv /\ PingerFree => PingInv'
<1> SUFFICES ASSUME PingInv, PingerFree PROVE PingInv'
  OBVIOUS
<1>1. 0 \in 0 .. W
  BY ServiceAssumption
<1>2. PingScheduled'
  <2>1. pending' \subseteq Ctx \X Time /\ \A p \in pending' : p[1] # P
    BY DEF PingInv, PingScheduled, PingerTypeOK, PingerFree, Without
  <2>2. /\ clock' \in Time /\ whenSet' \in Time /\ next' \in Time
        /\ alive' = FALSE /\ pend' = FALSE /\ interval' = 0 /\ quiet' = 0 /\ least' = 0
    BY DEF PingInv, PingScheduled, PingerTypeOK, PingerFree
  <2> QED
    BY <1>1, <2>1, <2>2 DEF PingScheduled, PingerTypeOK
<1>3. QuietInv'
  BY DEF PingerFree, QuietInv
<1> QED
  BY <1>2, <1>3 DEF PingInv

\* A timer of the pinger comes: the one that next refers to, which begins the next wait,
\* or one that is out of date.
\* Code: pinger_timer.
LEMMA PingerTimerKeeps ==
  ASSUME PingInv, NEW p \in pending, PingerTimer(p)
  PROVE  PingInv'
<1>1. /\ clock \in Time /\ next \in Time /\ whenSet \in Time
      /\ pending \ {p} \in SUBSET (Ctx \X Time) /\ interval \in Intervals \cup {0}
      /\ W \in Nat /\ interval \in Nat /\ quiet \in 0 .. W
  BY ServiceAssumption, PingerAssumption DEF PingInv, PingScheduled, PingerTypeOK
<1>2. /\ p[1] = P /\ alive = TRUE
      /\ alive' = alive /\ interval' = interval /\ clock' = clock
  BY DEF PingerTimer, PingInv, PingScheduled, PingerTypeOK
<1>3. CASE pend /\ p[2] = next
  <2>1. PingerSchedule(pending \ {p}, interval, FALSE) /\ quiet' = 0 /\ least' = interval
    BY <1>3 DEF PingerTimer
  <2>2. interval # 0
    BY <1>3 DEF PingInv, PingScheduled
  <2>3. /\ pending' \subseteq Ctx \X Time /\ pend' \in BOOLEAN /\ (pend' <=> interval # 0)
        /\ next' \in Time /\ whenSet' \in Time
        /\ Paced(whenSet', next', clock) /\ <<P, next'>> \in pending'
        /\ Signed(next' - clock) = interval
    BY <1>1, <2>1, <2>2, ScheduleEffect
  <2>4. PingScheduled'
    BY <1>1, <1>2, <2>1, <2>2, <2>3 DEF PingScheduled, PingerTypeOK
  <2>5. QuietInv'
    BY <1>1, <1>2, <2>1, <2>2, <2>3 DEF QuietInv
  <2> QED
    BY <2>4, <2>5 DEF PingInv
<1>4. CASE ~(pend /\ p[2] = next)
  <2>1. pending' = pending \ {p} /\ UNCHANGED <<pend, whenSet, next, quiet, least>>
    BY <1>4 DEF PingerTimer
  <2>2. pend => <<P, next>> \in pending'
    BY <1>4, <2>1 DEF PingInv, PingScheduled
  <2>3. PingScheduled'
    BY <1>1, <1>2, <2>1, <2>2 DEF PingInv, PingScheduled, PingerTypeOK
  <2>4. QuietInv'
    BY <1>2, <2>1 DEF PingInv, QuietInv
  <2> QED
    BY <2>3, <2>4 DEF PingInv
<1> QED
  BY <1>3, <1>4

\* Time passes, while no timer is later than Lateness.
\* Code: GETTICKCOUNT.
LEMMA PingerTickKeeps == PingInv /\ PingerTick => PingInv'
<1> SUFFICES ASSUME PingInv, PingerTick PROVE PingInv'
  OBVIOUS
<1>1. /\ clock \in Time /\ next \in Time /\ whenSet \in Time /\ pending \subseteq Ctx \X Time
      /\ W \in Nat /\ quiet \in 0 .. W /\ least \in Nat /\ interval \in Nat
  BY ServiceAssumption, PingerAssumption DEF PingInv, PingScheduled, PingerTypeOK
<1>2. /\ clock' = (clock + 1) % W /\ UNCHANGED <<pending, pingerVars, least>>
      /\ \A p \in pending : Signed(clock - p[2]) < Lateness
      /\ quiet' = IF alive /\ 2 * quiet < W THEN quiet + 1 ELSE quiet
  BY DEF PingerTick, PunctualTick, ServiceTick
<1>3. clock' \in Time /\ quiet' \in 0 .. W
  <2>1. clock' \in Time
    BY <1>1, <1>2, ServiceAssumption, FutureNotPast
  <2> QED
    BY <1>1, <1>2, <2>1
<1>4. ASSUME pend
      PROVE  /\ Paced(whenSet, next, clock')
             /\ Signed(next - clock') = Signed(next - clock) - 1
             /\ Signed(next - clock) \in Int /\ alive
  <2>1. Paced(whenSet, next, clock) /\ alive /\ <<P, next>> \in pending
    BY <1>4 DEF PingInv, PingScheduled, QuietInv
  <2>2. Signed(clock - next) < Lateness
    BY <1>2, <2>1
  <2> QED
    BY <1>1, <1>2, <2>1, <2>2, PacedTick, Differences
<1>5. PingScheduled'
  <2>1. PingerTypeOK'
    BY <1>1, <1>2, <1>3 DEF PingInv, PingScheduled, PingerTypeOK, pingerVars
  <2>2. pend => Signed(next - clock') <= interval
    BY <1>1, <1>4 DEF PingInv, PingScheduled
  <2> QED
    BY <1>2, <2>1, <2>2 DEF PingInv, PingScheduled, pingerVars
<1>6. QuietInv'
  <2>1. UNCHANGED <<alive, pend, whenSet, next, least>>
    BY <1>2 DEF pingerVars
  <2>2. ~alive => quiet' = 0
    BY <1>2 DEF PingInv, QuietInv
  <2>3. pend => Paced(whenSet, next, clock') /\ least # 0
    BY <1>4 DEF PingInv, QuietInv
  <2>4. ASSUME pend PROVE 2 * quiet' >= W \/ quiet' + Signed(next - clock') >= least
    <3>1. 2 * quiet >= W \/ quiet + Signed(next - clock) >= least
      BY <2>4 DEF PingInv, QuietInv
    <3> QED
      BY <1>1, <1>2, <1>4, <2>4, <3>1
  <2> QED
    BY <2>1, <2>2, <2>3, <2>4 DEF QuietInv
<1> QED
  BY <1>5, <1>6 DEF PingInv

\* Every step of the pinger.
\* Code: all of pinger.c.
LEMMA PingStep == PingInv /\ [PingerNext]_pingAllVars => PingInv'
<1> SUFFICES ASSUME PingInv, [PingerNext]_pingAllVars PROVE PingInv'
  OBVIOUS
<1>1. CASE UNCHANGED pingAllVars
  BY <1>1 DEF pingAllVars, timerVars, pingerVars, PingInv, PingScheduled, PingerTypeOK,
     QuietInv
<1> QED
  BY <1>1, PingerNewKeeps, PingerReconfigKeeps, PingerFreeKeeps, PingerTimerKeeps,
     PingerTickKeeps DEF PingerNext

\* There is no pinger at first.
\* Code: the backends before pinger_new.
LEMMA PingInit == PingerInit => PingInv
<1> SUFFICES ASSUME PingerInit PROVE PingInv
  OBVIOUS
<1>1. clock \in Time /\ 0 \in Time /\ 0 \in 0 .. W /\ pending = {}
  BY ServiceAssumption DEF PingerInit, ServiceInit, Time
<1> QED
  BY <1>1 DEF PingerInit, PingInv, PingScheduled, PingerTypeOK, QuietInv

\* The invariant holds throughout.
\* Code: all of pinger.c.
LEMMA PingHolds == PingerSpec => []PingInv
  BY PingInit, PingStep, PTL DEF PingerSpec

\* While keepalives are on, the timer that next refers to is set, no further away than
\* the interval in force; while they are off no timer will ping.  For any intervals, any
\* clock, and however often the interval changes.
\* Code: pinger_schedule, pinger_reconfig, and the comparison across a wrap-around.
THEOREM PingsCorrect == PingerSpec => []PingScheduled
<1>1. PingInv => PingScheduled
  BY DEF PingInv
<1> QED
  BY <1>1, PingHolds, PTL

\* Timers that are out of date do not ping: two pings are never closer together than the
\* least interval since the first.
\* Code: pinger_timer, now == pinger->next.
THEOREM PingsRationed == PingerSpec => NoStrayPing
<1>1. ASSUME PingInv, [PingerNext]_pingAllVars, quiet # 0, quiet' = 0, alive'
      PROVE  quiet >= least
  <2>1. PICK p \in pending : PingerTimer(p) /\ pend /\ p[2] = next
    <3>1. ~PingerTick /\ ~PingerFree
      BY <1>1, ServiceAssumption DEF PingerTick, PingerFree, PingInv, PingScheduled, PingerTypeOK
    <3>2. \A iv \in Intervals : ~PingerNew(iv) /\ ~PingerReconfig(iv)
      BY <1>1 DEF PingerNew, PingerReconfig, PingInv, QuietInv
    <3>3. ~UNCHANGED pingAllVars
      BY <1>1 DEF pingAllVars
    <3> QED
      BY <1>1, <3>1, <3>2, <3>3 DEF PingerNext, PingerTimer
  <2>2. /\ clock \in Time /\ next \in Time /\ whenSet \in Time /\ W \in Nat
        /\ quiet \in Nat /\ least \in Nat
        /\ least = 0 \/ 2 * (least + Lateness) < W
        /\ Lateness \in Nat
    BY <1>1, ServiceAssumption, PingerAssumption DEF PingInv, PingScheduled, PingerTypeOK
  <2>3. /\ Paced(whenSet, next, clock)
        /\ 2 * quiet >= W \/ quiet + Signed(next - clock) >= least
    BY <1>1, <2>1 DEF PingInv, QuietInv
  <2>4. Signed(clock - next) > 0
    BY <2>1 DEF PingerTimer, Ripe, After
  <2>5. Signed(next - clock) = 0 - Signed(clock - next)
    <3>1. Span(whenSet, next) \in Int /\ Elapsed(whenSet, clock) \in Int
      BY <2>2, Differences DEF Span, Elapsed
    <3> QED
      BY <2>2, <2>3, <3>1, PacedLeft
  <2> QED
    BY <2>2, <2>3, <2>4, <2>5, Differences
<1>2. PingInv /\ [PingerNext]_pingAllVars
        => [quiet # 0 /\ quiet' = 0 /\ alive' => quiet >= least]_pingAllVars
  BY <1>1
<1> QED
  BY <1>2, PingHolds, PTL DEF PingerSpec, NoStrayPing
=============================================================================
