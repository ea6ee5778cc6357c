------------------------------- MODULE Redraw -------------------------------
(***************************************************************************)
(* The display updates of putty/terminal/terminal.c: output, bells and     *)
(* blinks ask for an update, a toplevel callback or a timer carries it     *)
(* out, and after each one comes a cooldown.  One function, term_timer,    *)
(* serves all timers of a terminal and tells them apart by their times.    *)
(*                                                                         *)
(* The timers are those of TimerService; the toplevel callbacks, which run *)
(* one at a time in their order (see Callback), are counted.               *)
(***************************************************************************)
EXTENDS TimerService

CONSTANTS
  UpdateDelay, BlinkDelay, BellDelay,   \* UPDATE_DELAY, CBLINK_DELAY, VBELL_DELAY
  Blinks,       \* "cblink" for the cursor's blink, "tblink" for blinking text
  Late,         \* a timer may come so much too late
  Callbacks     \* bound of the model: callbacks in the queue

Off == -1                          \* what the terminal does not wait for
Kinds == Blinks \cup {"vbell", "cool"}

ASSUME RedrawAssumption ==
  /\ {UpdateDelay, BlinkDelay, BellDelay, Late} \subseteq Nat /\ Callbacks \in Nat \ {0}
  /\ Blinks \subseteq {"cblink", "tblink"}
  /\ \A d \in {UpdateDelay, BlinkDelay, BellDelay} : d > 0 /\ 2 * (d + Late) < W

VARIABLES
  wup,        \* window_update_pending
  waits,      \* for each of the Kinds its time, or Off: cblink_pending and next_cblink,
              \* tblink_pending and next_tblink, in_vbell and vbell_end,
              \* window_update_cooldown and window_update_cooldown_end
  enabled,    \* the blinks in use: blink_cur && has_focus, blink_is_real
  showing,    \* TERM_SHOWING
  cbs,        \* term_update_callback callbacks in the queue
  dirty,      \* history: the window does not show the screen (the shape that the
              \* cursor has without the focus is not part of it)
  rested      \* history: ticks since term_update_callback last updated

termVars == <<wup, waits, enabled, showing, cbs, dirty, rested>>
vars == <<timerVars, termVars>>

T == CHOOSE c \in Ctx : \A d \in Ctx : d <= c    \* the terminal's address
ASSUME TerminalAssumption == T \in Ctx

\* Mutant of In: the sum does not wrap.
In_Wide(d) == clock + d
In(d) == (clock + d) % W
Timers(ats) == {<<T, at>> : at \in ats}
On(w, k) == w[k] # Off

\* term_init, and the WM_PAINT that follows.  power_on has queued a callback whose
\* request for an update was taken back.
Init ==
  /\ ServiceInit
  /\ wup = FALSE /\ waits = [k \in Kinds |-> Off] /\ rested = UpdateDelay
  /\ enabled = {} /\ showing = TRUE /\ cbs = 1 /\ dirty = FALSE
-----------------------------------------------------------------------------
\* term_schedule_cblink and term_schedule_tblink for the blinks in S: what is waited for,
\* if it was w.
Blinking(w, S) ==
  [k \in Kinds |-> IF k \notin S THEN w[k]
                   ELSE IF k \notin enabled' THEN Off
                   ELSE IF On(w, k) THEN w[k] ELSE In(BlinkDelay)]

\* w, but some kinds are no longer waited for, or one is waited for until at.
Stop(w, S) == [k \in Kinds |-> IF k \in S THEN Off ELSE w[k]]
Start(w, kind, at) == [w EXCEPT ![kind] = at]

\* The timers of w that are not in old yet have been set by schedule_timer.
SetTimers(old, w) ==
  pending' = old \cup Timers({w[k] : k \in {j \in Kinds : On(w, j) /\ w[j] # waits[j]}})

CBlink == {"cblink"} \cap Blinks

\* term_schedule_update
ScheduleUpdate ==
  /\ (~wup => cbs < Callbacks)
  /\ wup' = TRUE /\ cbs' = IF wup THEN cbs ELSE cbs + 1

\* term_update
TermUpdate(outdated) == wup' = FALSE /\ dirty' = (outdated /\ ~showing')

\* seen_disp_event, which begins the cursor's blink anew, with w for waits.
SeenDispEvent(w) ==
  /\ dirty' = TRUE /\ waits' = Blinking(Stop(w, CBlink), CBlink)
  /\ SetTimers(pending, waits')
  /\ ScheduleUpdate
-----------------------------------------------------------------------------
\* The terminal's output shows on the screen.
Output ==
  /\ UNCHANGED <<clock, enabled, showing, rested>>
  /\ SeenDispEvent(waits)

\* A visual bell: term_schedule_vbell, which may have begun some ticks ago.
Bell(d) ==
  /\ UNCHANGED <<clock, enabled, showing, rested>>
  /\ SeenDispEvent(Start(waits, "vbell", In(d)))

\* Blinking text is turned on or off, by output or in the configuration.
TextBlink(on) ==
  /\ "tblink" \in Blinks /\ on # ("tblink" \in enabled)
  /\ enabled' = IF on THEN enabled \cup {"tblink"} ELSE enabled \ {"tblink"}
  /\ waits' = Blinking(waits, {"tblink"}) /\ SetTimers(pending, waits')
  /\ UNCHANGED <<clock, wup, showing, cbs, dirty, rested>>

\* Mutant of Focus: a tab that is shown is not updated.
Focus_NoUpdate(on, shown) ==
  /\ showing' = shown
  /\ enabled' = IF on THEN enabled \cup CBlink ELSE enabled \ CBlink
  /\ waits' = Blinking(waits, CBlink) /\ SetTimers(pending, waits')
  /\ IF shown /\ showing THEN TermUpdate(dirty) ELSE UNCHANGED <<wup, dirty>>
  /\ UNCHANGED <<clock, rested>>

\* term_set_focus and a term_update at once, as WM_SETFOCUS and WM_KILLFOCUS do; or a
\* change of tabs, which sets or clears TERM_SHOWING first, and leaves a terminal that is
\* hidden without the update.
Focus(on, shown) ==
  /\ showing' = shown
  /\ enabled' = IF on THEN enabled \cup CBlink ELSE enabled \ CBlink
  /\ waits' = Blinking(waits, CBlink) /\ SetTimers(pending, waits')
  /\ IF shown THEN TermUpdate(dirty) ELSE UNCHANGED <<wup, dirty>>
  /\ UNCHANGED <<clock, rested>>

SetFocus == showing /\ UNCHANGED cbs /\ \E on \in BOOLEAN : Focus(on, TRUE)
HideTab == showing /\ UNCHANGED cbs /\ Focus(FALSE, FALSE)

\* The message loop, before it waits, tells the terminal again whether it has the focus.
SyncFocus(on) ==
  /\ showing /\ cbs = 0
  /\ enabled' = IF on THEN enabled \cup CBlink ELSE enabled \ CBlink
  /\ waits' = Blinking(waits, CBlink) /\ SetTimers(pending, waits')
  /\ UNCHANGED <<clock, wup, showing, cbs, dirty, rested>>

\* A terminal whose size is out of date gets a term_size before the update.
ShowTab ==
  /\ ~showing /\ Focus(TRUE, TRUE)
  /\ \/ UNCHANGED cbs
     \/ ~wup /\ cbs < Callbacks /\ cbs' = cbs + 1
-----------------------------------------------------------------------------
\* Mutants of UpdateCallback: the cooldown is not looked at; it has no timer.
UpdateCallback_NoCooldown(old, w, asked, outdated) ==
  IF asked
  THEN /\ TermUpdate(outdated) /\ rested' = 0
       /\ waits' = Start(w, "cool", In(UpdateDelay)) /\ SetTimers(old, waits')
  ELSE /\ wup' = asked /\ dirty' = outdated /\ UNCHANGED rested
       /\ waits' = w /\ SetTimers(old, waits')

UpdateCallback_NoTimer(old, w, asked, outdated) ==
  IF asked /\ ~On(w, "cool")
  THEN /\ TermUpdate(outdated) /\ rested' = 0
       /\ waits' = Start(w, "cool", In(UpdateDelay)) /\ SetTimers(old, w)
  ELSE /\ wup' = asked /\ dirty' = outdated /\ UNCHANGED rested
       /\ waits' = w /\ SetTimers(old, waits')

\* term_update_callback, called when the timers are old and waits, window_update_pending
\* and dirty have the values w, asked and outdated.
UpdateCallback(old, w, asked, outdated) ==
  IF asked /\ ~On(w, "cool")
  THEN /\ TermUpdate(outdated) /\ rested' = 0
       /\ waits' = Start(w, "cool", In(UpdateDelay)) /\ SetTimers(old, waits')
  ELSE /\ wup' = asked /\ dirty' = outdated /\ UNCHANGED rested
       /\ waits' = w /\ SetTimers(old, waits')

\* The callback comes up in the queue.
RunCallback ==
  /\ cbs > 0 /\ cbs' = cbs - 1 /\ UNCHANGED <<clock, enabled, showing>>
  /\ UpdateCallback(pending, waits, wup, dirty)

\* Mutant of TermTimer: there is no update at the end.
TermTimer_NoUpdate(p) ==
  /\ p \in Ripe(pending) /\ p[1] = T /\ UNCHANGED <<clock, enabled, showing, cbs, rested>>
  /\ LET meant == {k \in Kinds : waits[k] = p[2]}
         changed == meant \ {"cool"} # {} IN
     /\ waits' = Blinking(Stop(waits, meant), meant \cap Blinks)
     /\ SetTimers(pending \ {p}, waits')
     /\ wup' = (wup \/ changed) /\ dirty' = (dirty \/ changed)

\* term_timer, called by the timer p: which of the things it may be for it is for, each
\* of them or none.
TermTimer(p) ==
  /\ p \in Ripe(pending) /\ p[1] = T /\ UNCHANGED <<clock, enabled, showing, cbs>>
  /\ LET meant == {k \in Kinds : waits[k] = p[2]}
         changed == meant \ {"cool"} # {} IN
     UpdateCallback(pending \ {p}, Blinking(Stop(waits, meant), meant \cap Blinks),
                    wup \/ changed, dirty \/ changed)

Tick ==
  /\ PunctualTick(Late)
  /\ rested' = IF rested < UpdateDelay THEN rested + 1 ELSE rested
  /\ UNCHANGED <<wup, waits, enabled, showing, cbs, dirty>>

Next ==
  \/ Output \/ SetFocus \/ ShowTab \/ HideTab \/ RunCallback \/ Tick
  \/ \E d \in 1 .. BellDelay : Bell(d)
  \/ \E on \in BOOLEAN : TextBlink(on) \/ SyncFocus(on)
  \/ \E p \in pending : TermTimer(p)

Spec == Init /\ [][Next]_vars
-----------------------------------------------------------------------------
(* Properties *)

\* Type invariant.  Code: struct terminal_tag.
TypeOK ==
  /\ clock \in Time /\ pending \subseteq Ctx \X Time
  /\ {wup, showing, dirty} \subseteq BOOLEAN
  /\ waits \in [Kinds -> Time \cup {Off}] /\ enabled \subseteq Blinks
  /\ cbs \in 0 .. Callbacks /\ rested \in 0 .. UpdateDelay

\* An update that is asked for has something that will carry it out: a callback in the
\* queue, or the timer that ends the cooldown; and it is asked for while a window whose
\* terminal is showing is out of date.  Whatever the terminal waits for has its
\* timer, and the blinks in use are waited for: neither they nor a bell nor the cooldown
\* stay as they are for ever.
\* Code: term_schedule_update, which queues nothing while window_update_pending is set;
\* term_schedule_cblink, term_schedule_tblink, term_schedule_vbell, term_timer; the
\* changes of tabs.
WaitsHaveTimers ==
  /\ \A k \in Kinds : On(waits, k) => <<T, waits[k]>> \in pending
  /\ \A b \in Blinks : On(waits, b) <=> b \in enabled
UpdateScheduled ==
  /\ TypeOK /\ WaitsHaveTimers
  /\ wup => cbs > 0 \/ On(waits, "cool")
  /\ dirty /\ showing => wup

\* Updates asked for by output and blinks are never closer together than the cooldown.
\* Code: terminal.h, "We don't permit window updates too close together".
UpdatesRationed ==
  [][On(waits', "cool") /\ waits'["cool"] # waits["cool"] => rested >= UpdateDelay]_vars
=============================================================================
