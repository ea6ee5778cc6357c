------------------------------ MODULE Sessions ------------------------------
(***************************************************************************)
(* The tabs of iTerm: win/PuTTY.cpp keeps a doubly linked list of TermList *)
(* nodes, one per session, plus the globals term, backend and ldisc that   *)
(* stand for the current session (they are all that the PuTTY code was     *)
(* written for); win/MainFrm.h keeps a tab control whose items point at    *)
(* the nodes.  Everything runs in the main thread, one iteration of        *)
(* PuTTY_MessageLoop after another:                                        *)
(*                                                                         *)
(*   "handles"    a handle is activated: output arrives, a process ends;   *)
(*   "message"    at most one window message is dispatched;                *)
(*   "callback"   at most one toplevel callback is run.                    *)
(*                                                                         *)
(* Several of the hazards come from what may happen between a session's    *)
(* event and the callback queued for it, which carries no session.         *)
(*                                                                         *)
(* A session's ConPTY backend is seen from here as its input handle (see   *)
(* HandleIO), its subprocess and its exit status.  Terminal output is      *)
(* counted in pieces; any piece may ask for the window to be resized.      *)
(***************************************************************************)
EXTENDS Naturals, Sequences

CONSTANTS
  Session,         \* the TermLists that may be made, one backend and terminal each
  First,           \* the one made by PuTTY_Init
  Null,            \* the null pointer
  TabLimit,        \* the 60 in PuTTY_NewSession
  MaxBacklog,      \* MAX_BACKLOG, in pieces of output
  Settings         \* the settings the program may have been started with

ASSUME SessionAssumption == First \in Session /\ Null \notin Session
ASSUME LimitAssumption == TabLimit \in Nat /\ MaxBacklog \in Nat \ {0}
\* CONF_close_on_exit and CONF_no_remote_resize
ASSUME SettingsAssumption ==
  Settings \subseteq [close_on_exit : {"FORCE_ON", "FORCE_OFF", "AUTO"},
                     no_remote_resize : BOOLEAN]

VARIABLES
  node,                  \* "none", "live" or "freed": the TermList and its Terminal
  nxt, prv,              \* TermList.next and .prev
  head, tail, count,     \* term_head, term_tail, term_count
  curr,                  \* term_curr
  items, sel,            \* the tab control: private data of its items, m_iCurSel
  obj,                   \* "none", "live" or "freed": the Backend and its Ldisc
  nodeBe,                \* TermList.backend and .ldisc are not null
  gTerm, gBe,            \* the globals term, and backend with ldisc
  showing,               \* the terminals with TERM_SHOWING set
  input,                 \* conpty->in: "busy" (reading), "idle" (throttled), "none"
  waiting,               \* conpty->subprocess is in the handle-wait list
  exited,                \* conpty->exited
  inbuf,                 \* pieces of output in term->inbuf
  dragging,              \* term->selstate = DRAGGING
  resize,                \* term->win_resize_pending = WIN_RESIZE_NEED_SEND
  cbs,                   \* the toplevel callbacks, in order
  closed,                \* session_closed
  quit,                  \* PostQuitMessage has been called
  conf,                  \* the settings, which do not change
  phase                  \* where the message loop is

listVars == <<node, nxt, prv, head, tail, count, curr>>
tabVars  == <<items, sel>>
objVars  == <<obj, nodeBe, gTerm, gBe>>
ptyVars  == <<input, waiting, exited>>
termVars == <<inbuf, dragging, resize>>
vars == <<listVars, tabVars, objVars, showing, ptyVars, termVars,
          cbs, closed, quit, conf, phase>>

Pointer == Session \cup {Null}

\* The callbacks this part of the program queues.  Only term_out_cb has a context.
Callback == [fn : {"exit_callback", "close_session"}, ctx : {Null}]
              \cup [fn : {"term_out_cb"}, ctx : Session]

\* Type invariant.
\* Code: struct TermList, the globals of PuTTY.cpp, and of terminal.c the fields used.
TypeOK ==
  /\ node \in [Session -> {"none", "live", "freed"}]
  /\ nxt \in [Session -> Pointer] /\ prv \in [Session -> Pointer]
  /\ head \in Session /\ tail \in Session /\ curr \in Session
  /\ count \in Nat
  /\ items \in Seq(Session) /\ sel \in 1 .. Len(items)
  /\ obj \in [Session -> {"none", "live", "freed"}]
  /\ nodeBe \in [Session -> BOOLEAN]
  /\ gTerm \in Session /\ gBe \in Pointer
  /\ showing \subseteq Session
  /\ input \in [Session -> {"busy", "idle", "none"}]
  /\ waiting \in [Session -> BOOLEAN] /\ exited \in [Session -> BOOLEAN]
  /\ inbuf \in [Session -> Nat]
  /\ dragging \in [Session -> BOOLEAN] /\ resize \in [Session -> BOOLEAN]
  /\ cbs \in Seq(Callback)
  /\ closed \in BOOLEAN /\ quit \in BOOLEAN /\ conf \in Settings
  /\ phase \in {"handles", "message", "callback", "ended"}

\* PuTTY_Init and PuTTY_AttachWindow: one session, one tab.
Init ==
  /\ node = [s \in Session |-> IF s = First THEN "live" ELSE "none"]
  /\ nxt = [s \in Session |-> Null] /\ prv = [s \in Session |-> Null]
  /\ head = First /\ tail = First /\ curr = First /\ count = 1
  /\ items = <<First>> /\ sel = 1
  /\ obj = [s \in Session |-> IF s = First THEN "live" ELSE "none"]
  /\ nodeBe = [s \in Session |-> s = First]
  /\ gTerm = First /\ gBe = First
  /\ showing = {First}
  /\ input = [s \in Session |-> IF s = First THEN "busy" ELSE "none"]
  /\ waiting = [s \in Session |-> s = First]
  /\ exited = [s \in Session |-> FALSE]
  /\ inbuf = [s \in Session |-> 0]
  /\ dragging = [s \in Session |-> FALSE]
  /\ resize = [s \in Session |-> FALSE]
  /\ cbs = <<>> /\ closed = FALSE /\ quit = FALSE
  /\ conf \in Settings /\ phase = "handles"

-----------------------------------------------------------------------------
(* Terminals *)

\* term_out on n pieces of output: it is held back by a drag-select or a resize,
\* or works through all of them, or stops behind one that asks for a resize.
TermOut(s, n, held) ==
  \/ /\ held \/ resize[s]
     /\ inbuf' = [inbuf EXCEPT ![s] = n] /\ UNCHANGED resize
  \/ /\ ~held /\ ~resize[s]
     /\ inbuf' = [inbuf EXCEPT ![s] = 0] /\ UNCHANGED resize
  \/ /\ ~held /\ ~resize[s] /\ ~conf.no_remote_resize
     /\ \E left \in 0 .. (n - 1) : inbuf' = [inbuf EXCEPT ![s] = left]
     /\ resize' = [resize EXCEPT ![s] = TRUE]

\* Mutant of Throttled: an off-by-one.
Throttled_OffByOne(size) == IF size <= MaxBacklog THEN "busy" ELSE "idle"

\* handle_throttle, for the input handle of a backend.
Throttled(size) == IF size < MaxBacklog THEN "busy" ELSE "idle"

\* Mutant of Unthrottle: the handle is never restarted.
Unthrottle_Lost(b, size) == UNCHANGED input

\* wintw_unthrottle and handle_unthrottle on backend b: a handle that is reading,
\* or gone, is left alone.
Unthrottle(b, size) ==
  input' = IF b # Null /\ input[b] = "idle"
           THEN [input EXCEPT ![b] = Throttled(size)] ELSE input

\* term_update on a terminal that is showing sends off a resize request.  The
\* front end answers at once, and term_resize_request_completed queues the rest.
UpdateTerm(s, queue) ==
  /\ resize' = [resize EXCEPT ![s] = FALSE]
  /\ cbs' = IF resize[s] THEN Append(queue, [fn |-> "term_out_cb", ctx |-> s]) ELSE queue

-----------------------------------------------------------------------------
(* Handle events: the callbacks of the ConPTY backends *)

\* conpty_gotdata with data.
GotData(s) ==
  /\ phase = "handles" /\ input[s] = "busy"
  /\ inbuf[s] <= MaxBacklog   \* bound of the model: one piece beyond the limit
  /\ TermOut(s, inbuf[s] + 1, dragging[s])
  /\ input' = [input EXCEPT ![s] = Throttled(inbuf'[s])]
  /\ UNCHANGED <<listVars, tabVars, objVars, showing, waiting, exited, dragging,
                 cbs, closed, quit, phase>>

\* conpty_process_wait_callback.
ProcessExits(s) ==
  /\ phase = "handles" /\ waiting[s]
  /\ exited' = [exited EXCEPT ![s] = TRUE]
  /\ waiting' = [waiting EXCEPT ![s] = FALSE]
  /\ UNCHANGED <<listVars, tabVars, objVars, showing, input, termVars,
                 cbs, closed, quit, phase>>

\* conpty_terminate, and notify_remote_exit.
Terminate(s) ==
  /\ input' = [input EXCEPT ![s] = "none"]
  /\ waiting' = [waiting EXCEPT ![s] = FALSE]
  /\ cbs' = Append(cbs, [fn |-> "exit_callback", ctx |-> Null])
  /\ UNCHANGED <<listVars, tabVars, objVars, showing, exited, termVars,
                 closed, quit, phase>>

\* conpty_gotdata with EOF after the process has exited.
GotEof(s) == phase = "handles" /\ input[s] = "busy" /\ exited[s] /\ Terminate(s)

\* conpty_gotdata with an error or an unexpected EOF, or conpty_sentdata with an
\* error, which may come when the process has exited, too.  seat_connection_fatal does
\* nothing more.
AbnormalEnd(s) == phase = "handles" /\ input[s] # "none" /\ Terminate(s)

HandlesDone ==
  /\ phase = "handles" /\ phase' = "message"
  /\ UNCHANGED <<listVars, tabVars, objVars, showing, ptyVars, termVars,
                 cbs, closed, quit>>
-----------------------------------------------------------------------------
(* Window messages *)

\* Mutant of NewSession: the new node is not linked to its predecessor.
NewSession_NoPrev(s) ==
  /\ phase = "message" /\ node[s] = "none" /\ count <= TabLimit
  /\ node' = [node EXCEPT ![s] = "live"]
  /\ nxt' = [nxt EXCEPT ![tail] = s] /\ UNCHANGED prv
  /\ tail' = s /\ curr' = s /\ count' = count + 1 /\ UNCHANGED head
  /\ obj' = [obj EXCEPT ![s] = "live"]
  /\ nodeBe' = [nodeBe EXCEPT ![s] = TRUE]
  /\ gTerm' = s /\ gBe' = s /\ closed' = FALSE
  /\ showing' = (showing \ {gTerm}) \cup {s}
  /\ input' = [input EXCEPT ![s] = "busy"]
  /\ waiting' = [waiting EXCEPT ![s] = TRUE]
  /\ items' = Append(items, s) /\ sel' = Len(items) + 1
  /\ phase' = "callback"
  /\ UNCHANGED <<exited, termVars, cbs, quit>>

\* DoNewSession with PuTTY_NewSession and start_backend.
NewSession(s) ==
  /\ phase = "message" /\ node[s] = "none" /\ count <= TabLimit
  /\ node' = [node EXCEPT ![s] = "live"]
  /\ nxt' = [nxt EXCEPT ![tail] = s]
  /\ prv' = [prv EXCEPT ![s] = tail]
  /\ tail' = s /\ curr' = s /\ count' = count + 1 /\ UNCHANGED head
  /\ obj' = [obj EXCEPT ![s] = "live"]
  /\ nodeBe' = [nodeBe EXCEPT ![s] = TRUE]
  /\ gTerm' = s /\ gBe' = s /\ closed' = FALSE
  /\ showing' = (showing \ {gTerm}) \cup {s}
  /\ input' = [input EXCEPT ![s] = "busy"]
  /\ waiting' = [waiting EXCEPT ![s] = TRUE]
  /\ items' = Append(items, s) /\ sel' = Len(items) + 1
  /\ phase' = "callback"
  /\ UNCHANGED <<exited, termVars, cbs, quit>>

\* What TermList.backend points at, null or not.
BackendOf(s) == IF nodeBe[s] THEN s ELSE Null

\* A click on tab i, or Ctrl+Tab to it: PuTTY_SwitchSession and SetCurSel.
SwitchSession(i) ==
  /\ phase = "message" /\ i \in DOMAIN items
  /\ LET s == items[i] IN
       /\ curr' = s /\ gTerm' = s /\ gBe' = BackendOf(s)
       /\ showing' = (showing \ {gTerm}) \cup {s}
       /\ UpdateTerm(s, cbs)
  /\ sel' = i /\ phase' = "callback"
  /\ UNCHANGED <<node, nxt, prv, head, tail, count, items, obj, nodeBe, ptyVars,
                 inbuf, dragging, closed, quit>>

\* free_term_list: ldisc_free, backend_free (which calls conpty_terminate) and
\* term_free (which deletes the terminal's callbacks).
FreeTermList(s) ==
  /\ node' = [node EXCEPT ![s] = "freed"]
  /\ obj' = IF nodeBe[s] THEN [obj EXCEPT ![s] = "freed"] ELSE obj
  /\ input' = IF nodeBe[s] THEN [input EXCEPT ![s] = "none"] ELSE input
  /\ waiting' = IF nodeBe[s] THEN [waiting EXCEPT ![s] = FALSE] ELSE waiting

\* Mutant of WithoutContext: term_free leaves the callbacks alone.
WithoutContext_Forgets(queue, s) == queue

\* delete_callbacks_for_context, which term_free calls: what is kept of the first i
\* callbacks.
WithoutContext(queue, s) ==
  LET kept[i \in 0 .. Len(queue)] ==
        IF i = 0 THEN <<>>
        ELSE IF queue[i].ctx = s THEN kept[i - 1] ELSE Append(kept[i - 1], queue[i])
  IN  kept[Len(queue)]

\* The list surgery of PuTTY_RemoveSession, and the session that becomes current.
Unlink(s) ==
  \/ /\ nxt[s] # Null /\ prv[s] # Null
     /\ nxt' = [nxt EXCEPT ![prv[s]] = nxt[s]]
     /\ prv' = [prv EXCEPT ![nxt[s]] = prv[s]]
     /\ UNCHANGED <<head, tail>>
  \/ /\ nxt[s] # Null /\ prv[s] = Null
     /\ head' = nxt[s]
     /\ prv' = [prv EXCEPT ![nxt[s]] = Null]
     /\ UNCHANGED <<nxt, tail>>
  \/ /\ nxt[s] = Null
     /\ tail' = prv[s]
     /\ nxt' = [nxt EXCEPT ![prv[s]] = Null]
     /\ UNCHANGED <<prv, head>>

\* Mutant of Neighbour: the left neighbour is preferred.
Neighbour_Left(s) == IF prv[s] # Null THEN prv[s] ELSE nxt[s]

Neighbour(s) == IF nxt[s] # Null THEN nxt[s] ELSE prv[s]

\* XTabCtl's DeleteItem on the selected item: the selection keeps its index, or
\* moves to the new last item.
DeleteItem(i) ==
  /\ items' = [j \in 1 .. (Len(items) - 1) |-> IF j < i THEN items[j] ELSE items[j + 1]]
  /\ sel' = IF i = Len(items) THEN i - 1 ELSE i

\* Ctrl+Delete or the close button, once the user has confirmed: both close the
\* selected tab.
RemoveSession ==
  /\ phase = "message" /\ Len(items) > 1 /\ count > 1
  /\ LET s == items[sel]
         new == Neighbour(s) IN
       /\ Unlink(s) /\ FreeTermList(s)
       /\ nodeBe' = [nodeBe EXCEPT ![s] = FALSE]
       /\ curr' = new /\ gTerm' = new /\ gBe' = BackendOf(new)
       /\ showing' = (showing \ {gTerm}) \cup {new}
       /\ UpdateTerm(new, WithoutContext(cbs, s))
  /\ count' = count - 1
  /\ DeleteItem(sel)
  /\ phase' = "callback"
  /\ UNCHANGED <<exited, inbuf, dragging, closed, quit>>

\* term_mouse on the current terminal: a drag-select begins ...
DragBegins ==
  /\ phase = "message" /\ ~dragging[gTerm]
  /\ dragging' = [dragging EXCEPT ![gTerm] = TRUE]
  /\ phase' = "callback"
  /\ UNCHANGED <<listVars, tabVars, objVars, showing, ptyVars, inbuf, resize,
                 cbs, closed, quit>>

\* ... and ends, with the button's release or the next click, and the output that
\* was held back is dealt with.
DragEnds ==
  /\ phase = "message" /\ dragging[gTerm]
  /\ dragging' = [dragging EXCEPT ![gTerm] = FALSE]
  /\ TermOut(gTerm, inbuf[gTerm], FALSE)
  /\ Unthrottle(gBe, inbuf'[gTerm])
  /\ phase' = "callback"
  /\ UNCHANGED <<listVars, tabVars, objVars, showing, waiting, exited,
                 cbs, closed, quit>>

\* The update timer of the terminal on show, or a repaint.
Update ==
  /\ phase = "message" /\ resize[gTerm]
  /\ UpdateTerm(gTerm, cbs)
  /\ phase' = "callback"
  /\ UNCHANGED <<listVars, tabVars, objVars, showing, ptyVars, inbuf, dragging,
                 closed, quit>>

NoMessage ==
  /\ phase = "message" /\ phase' = "callback"
  /\ UNCHANGED <<listVars, tabVars, objVars, showing, ptyVars, termVars,
                 cbs, closed, quit>>

\* WM_QUIT: the loop ends, and cleanup_term_list frees every node from the head on.
Shutdown ==
  /\ phase = "message" /\ quit
  /\ node' = [s \in Session |-> IF node[s] = "live" THEN "freed" ELSE node[s]]
  /\ obj' = [s \in Session |-> IF node[s] = "live" /\ nodeBe[s] THEN "freed" ELSE obj[s]]
  /\ input' = [s \in Session |-> "none"]
  /\ waiting' = [s \in Session |-> FALSE]
  /\ phase' = "ended"
  /\ UNCHANGED <<nxt, prv, head, tail, count, curr, tabVars, nodeBe, gTerm, gBe,
                 showing, exited, termVars, cbs, closed, quit>>
-----------------------------------------------------------------------------
(* Toplevel callbacks *)

Running(fn) == phase = "callback" /\ cbs # <<>> /\ Head(cbs).fn = fn

\* Mutant of CurrentHasExited: the exit code is not looked at.
CurrentHasExited_AnyEnd == ~closed

\* The first test of exit_callback, which asks the current session's backend for
\* its exit code.
CurrentHasExited == ~closed /\ exited[gBe]

ExitCallback ==
  /\ Running("exit_callback")
  /\ \/ /\ CurrentHasExited /\ conf.close_on_exit # "FORCE_OFF"
        /\ quit' = TRUE /\ cbs' = Tail(cbs) /\ UNCHANGED closed
     \/ /\ CurrentHasExited /\ conf.close_on_exit = "FORCE_OFF"
        /\ cbs' = Append(Tail(cbs), [fn |-> "close_session", ctx |-> Null])
        /\ closed' = TRUE /\ UNCHANGED quit
     \/ /\ ~CurrentHasExited
        /\ cbs' = Tail(cbs) /\ UNCHANGED <<closed, quit>>
  /\ phase' = "handles"
  /\ UNCHANGED <<listVars, tabVars, objVars, showing, ptyVars, termVars>>

\* close_session: the globals are cleared, the TermList is not.
CloseSession ==
  /\ Running("close_session")
  /\ closed' = TRUE /\ gBe' = Null
  /\ IF gBe = Null
     THEN UNCHANGED <<obj, input, waiting>>
     ELSE /\ obj' = [obj EXCEPT ![gBe] = "freed"]
          /\ input' = [input EXCEPT ![gBe] = "none"]
          /\ waiting' = [waiting EXCEPT ![gBe] = FALSE]
  /\ cbs' = Tail(cbs) /\ phase' = "handles"
  /\ UNCHANGED <<listVars, tabVars, nodeBe, gTerm, showing, exited, termVars, quit>>

\* term_out_cb: term_out(term, false), whose remaining backlog is passed on by way
\* of the global backend, unless a drag-select holds the output back.
TermOutCb ==
  /\ Running("term_out_cb")
  /\ LET s == Head(cbs).ctx IN
       /\ TermOut(s, inbuf[s], dragging[s])
       /\ IF dragging[s] THEN UNCHANGED input ELSE Unthrottle(gBe, inbuf'[s])
  /\ cbs' = Tail(cbs) /\ phase' = "handles"
  /\ UNCHANGED <<listVars, tabVars, objVars, showing, waiting, exited, dragging,
                 closed, quit>>

NoCallback ==
  /\ phase = "callback" /\ cbs = <<>> /\ phase' = "handles"
  /\ UNCHANGED <<listVars, tabVars, objVars, showing, ptyVars, termVars,
                 cbs, closed, quit>>
-----------------------------------------------------------------------------
HandleStep ==
  \/ \E s \in Session : GotData(s) \/ ProcessExits(s) \/ GotEof(s) \/ AbnormalEnd(s)
  \/ HandlesDone

MessageStep ==
  \/ \E s \in Session : NewSession(s)
  \/ \E i \in DOMAIN items : SwitchSession(i)
  \/ RemoveSession \/ DragBegins \/ DragEnds \/ Update \/ NoMessage \/ Shutdown

CallbackStep == ExitCallback \/ CloseSession \/ TermOutCb \/ NoCallback

Next == (HandleStep \/ MessageStep \/ CallbackStep) /\ UNCHANGED conf

Spec == Init /\ [][Next]_vars
-----------------------------------------------------------------------------
(* Properties *)

Live == {s \in Session : node[s] = "live"}

\* Following the next pointers from term_head one meets each live TermList once, in
\* the order of the tabs, and ends at term_tail; the prev pointers lead back; term_count
\* is their number (which cleanup_term_list asserts at the end).
\* Code: PuTTY_NewSession, PuTTY_RemoveSession, cleanup_term_list.
ListMatchesTabs ==
  /\ count = Len(items) /\ {items[i] : i \in DOMAIN items} = Live
  /\ \A i, j \in DOMAIN items : items[i] = items[j] => i = j
  /\ head = items[1] /\ tail = items[Len(items)]
  /\ \A i \in DOMAIN items :
       /\ nxt[items[i]] = IF i = Len(items) THEN Null ELSE items[i + 1]
       /\ prv[items[i]] = IF i = 1 THEN Null ELSE items[i - 1]

\* The list is sound, the tabs show the sessions in its order, and the selected one is
\* the current session, whose terminal alone believes that it is on the screen,
\* although PuTTY_RemoveSession and the tab control each choose for themselves
\* what comes after a tab that is closed.
\* Code: DoNewSession, DoRemoveSession, OnNotify, XTabCtl's DeleteItem, TERM_SHOWING.
TabsMatchSessions ==
  /\ TypeOK
  /\ phase # "ended" => ListMatchesTabs /\ items[sel] = curr /\ showing = {curr}

\* Nothing points at memory that has been freed: the globals are the current
\* session's, a live TermList's backend is live, and every callback queued for a
\* terminal finds it.  exit_callback may ask the backend for its exit code.
\* Not so with "close on exit" off: close_session leaves the TermList's copies of
\* the pointers that it frees.
\* Code: close_session, free_term_list, PuTTY_SwitchSession, term_free.
PointersLive ==
  phase # "ended" /\ conf.close_on_exit # "FORCE_OFF" =>
    /\ gTerm = curr /\ node[curr] = "live"
    /\ gBe # Null => gBe = curr /\ obj[gBe] = "live"
    /\ \A s \in Live : nodeBe[s] => obj[s] = "live"
    /\ \A i \in DOMAIN cbs : cbs[i].ctx # Null => node[cbs[i].ctx] = "live"
    /\ ~closed => gBe # Null

\* The program ends by itself only because the session the user is looking at
\* has come to its end, not because of one in another tab.
\* Code: exit_callback, which is queued without saying for whom.
QuitsForCurrentSession == [][quit' /\ ~quit => exited[curr]]_vars

\* No session is left throttled with nobody to restart it: its output is held by a
\* drag-select or a resize, or its term_out_cb is still to come.
\* putty.h: "Notify the front end that the terminal's buffer of unprocessed
\* output has reduced", "Tells the back end that the front end buffer is
\* clearing".
\* Code: wintw_unthrottle, conpty_unthrottle.
NoStalledSession ==
  \A s \in Live :
    input[s] = "idle" =>
      \/ dragging[s] \/ resize[s]
      \/ \E i \in DOMAIN cbs : cbs[i].ctx = s

\* Without resize requests none is, and however drags and switches interleave a
\* terminal never buffers more than MAX_BACKLOG; with resize requests, the wrong
\* session may be told to read on.
\* Code: conpty_unthrottle, and term_mouse for the terminal on show only;
\* handle_throttle's test, reached from term_out of any session.
ThrottlingSound ==
  conf.no_remote_resize =>
    NoStalledSession /\ \A s \in Live : inbuf[s] <= MaxBacklog
=============================================================================
