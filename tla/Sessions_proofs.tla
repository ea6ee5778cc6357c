--------------------------- MODULE Sessions_proofs ---------------------------
(***************************************************************************)
(* The sessions, their tabs and the pointers to them, for any sessions,    *)
(* any limits and any settings.                                            *)
(***************************************************************************)
EXTENDS Sessions, WellFoundedInduction, TLAPS

-----------------------------------------------------------------------------
(* Induction, for the loop that deletes callbacks *)

\* A set of numbers that is not empty has a least element.
\* Code: none; arithmetic.
LEMMA Least ==
  ASSUME NEW T, T \subseteq Nat, T # {}
  PROVE  \E m \in T : \A n \in T : m <= n
<1>1. PICK x \in T : \A y \in T : <<y, x>> \notin OpToRel(<, Nat)
  BY WFMin, NatLessThanWellFounded, Zenon
<1>2. \A y \in T : ~(y < x)
  BY <1>1, Zenon DEF OpToRel
<1>3. QED
  BY <1>2

\* A set that has 0 and, with each number, the next one has all of them.
\* Code: none; arithmetic.
LEMMA Induction ==
  ASSUME NEW S, 0 \in S, \A n \in Nat : n \in S => n + 1 \in S
  PROVE  Nat \subseteq S
<1> SUFFICES ASSUME NEW k \in Nat, k \notin S PROVE FALSE
  OBVIOUS
<1> DEFINE T == {n \in Nat : n \notin S}
<1>1. PICK m \in T : \A n \in T : m <= n
  BY Least
<1>2. m \in Nat /\ m # 0 /\ m - 1 \in Nat /\ ~(m <= m - 1) /\ (m - 1) + 1 = m
  BY <1>1
<1>3. m - 1 \in S
  BY <1>1, <1>2
<1>4. QED
  BY <1>1, <1>2, <1>3

\* What the loop has kept of the first i callbacks, if f says so for every i.
Keeps(f, n, queue, s) ==
  f = [i \in 0 .. n |->
         IF i = 0 THEN <<>>
         ELSE IF queue[i].ctx = s THEN f[i - 1] ELSE Append(f[i - 1], queue[i])]

\* There is such a function.
\* Code: the loop of delete_callbacks_for_context, which ends.
LEMMA LoopEnds ==
  ASSUME NEW queue, NEW s, NEW n \in Nat
  PROVE  \E f : Keeps(f, n, queue, s)
<1> DEFINE S == {k \in Nat : \E f : Keeps(f, k, queue, s)}
<1>1. 0 \in S
  <2> DEFINE g == [i \in 0 .. 0 |-> <<>>]
  <2>1. Keeps(g, 0, queue, s)
    BY DEF Keeps
  <2> HIDE DEF g
  <2>2. QED
    BY <2>1
<1>2. ASSUME NEW k \in Nat, k \in S PROVE k + 1 \in S
  <2>1. PICK f : Keeps(f, k, queue, s)
    BY <1>2
  <2> DEFINE g == [i \in 0 .. k + 1 |->
                     IF i \in 0 .. k THEN f[i]
                     ELSE IF queue[i].ctx = s THEN f[i - 1] ELSE Append(f[i - 1], queue[i])]
  <2>2. \A i \in 0 .. k + 1 : i # 0 => i - 1 \in 0 .. k /\ g[i - 1] = f[i - 1]
    OBVIOUS
  <2>3. ASSUME NEW i \in 0 .. k + 1
        PROVE  g[i] = IF i = 0 THEN <<>>
                      ELSE IF queue[i].ctx = s THEN g[i - 1] ELSE Append(g[i - 1], queue[i])
    <3>1. CASE i \in 0 .. k
      <4>1. f[i] = IF i = 0 THEN <<>>
                   ELSE IF queue[i].ctx = s THEN f[i - 1] ELSE Append(f[i - 1], queue[i])
        BY <2>1, <3>1 DEF Keeps
      <4>2. QED
        BY <2>2, <3>1, <4>1
    <3>2. CASE i \notin 0 .. k
      <4>1. i # 0
        BY <3>2
      <4>2. QED
        BY <2>2, <3>2, <4>1
    <3>3. QED
      BY <3>1, <3>2
  <2>4. g = [i \in 0 .. k + 1 |-> g[i]]
    OBVIOUS
  <2> HIDE DEF g
  <2>5. Keeps(g, k + 1, queue, s)
    BY <2>3, <2>4 DEF Keeps
  <2>6. QED
    BY <2>5
<1>3. n \in S
  BY <1>1, <1>2, Induction
<1>4. QED
  BY <1>3

\* WithoutContext is defined by it.
\* Code: delete_callbacks_for_context.
LEMMA WithoutContextDef ==
  ASSUME NEW queue, NEW s, Len(queue) \in Nat
  PROVE  \E f : Keeps(f, Len(queue), queue, s) /\ WithoutContext(queue, s) = f[Len(queue)]
<1>1. PICK g : Keeps(g, Len(queue), queue, s)
  BY LoopEnds
<1> DEFINE f == CHOOSE x : Keeps(x, Len(queue), queue, s)
<1>2. Keeps(f, Len(queue), queue, s)
  BY <1>1
<1>3. WithoutContext(queue, s) = f[Len(queue)]
  BY DEF WithoutContext, Keeps
<1>4. QED
  BY <1>2, <1>3

\* What is left of a queue are callbacks of it with another context.
\* Code: delete_callbacks_for_context.
LEMMA WithoutContextKeeps ==
  ASSUME NEW S, NEW queue \in Seq(S), NEW s
  PROVE  /\ WithoutContext(queue, s) \in Seq(S)
         /\ \A j \in DOMAIN WithoutContext(queue, s) :
              \E i \in DOMAIN queue :
                WithoutContext(queue, s)[j] = queue[i] /\ queue[i].ctx # s
<1>1. PICK n \in Nat : n = Len(queue) /\ DOMAIN queue = 1 .. n
  OBVIOUS
<1>2. PICK f : Keeps(f, n, queue, s) /\ WithoutContext(queue, s) = f[n]
  BY <1>1, WithoutContextDef
<1> DEFINE Good(q) == /\ q \in Seq(S)
                      /\ \A j \in DOMAIN q : \E i \in 1 .. n : q[j] = queue[i] /\ queue[i].ctx # s
           P == {i \in Nat : i <= n => Good(f[i])}
<1> HIDE DEF Good
<1>3. 0 \in P
  <2>1. f[0] = <<>>
    BY <1>2 DEF Keeps
  <2>2. f[0] \in Seq(S) /\ \A j \in DOMAIN f[0] : FALSE
    BY <2>1
  <2>3. Good(f[0])
    BY <2>2 DEF Good
  <2>4. QED
    BY <2>3
<1>4. ASSUME NEW i \in Nat, i \in P PROVE i + 1 \in P
  <2> SUFFICES ASSUME i + 1 <= n PROVE Good(f[i + 1])
    OBVIOUS
  <2>1. Good(f[i]) /\ i + 1 \in 1 .. n
    BY <1>1, <1>4
  <2>2. f[i + 1] = IF queue[i + 1].ctx = s THEN f[i] ELSE Append(f[i], queue[i + 1])
    <3>1. i + 1 \in 0 .. n /\ i + 1 # 0 /\ (i + 1) - 1 = i
      BY <1>1
    <3>2. QED
      BY <1>2, <3>1 DEF Keeps
  <2>3. CASE queue[i + 1].ctx = s
    BY <2>1, <2>2, <2>3
  <2>4. CASE queue[i + 1].ctx # s
    <3>1. f[i] \in Seq(S) /\ queue[i + 1] \in S
      BY <1>1, <2>1 DEF Good
    <3>2. f[i + 1] = Append(f[i], queue[i + 1])
      BY <2>2, <2>4
    <3>3. f[i + 1] \in Seq(S)
      BY <3>1, <3>2
    <3>4. ASSUME NEW j \in DOMAIN f[i + 1]
          PROVE  \E k \in 1 .. n : f[i + 1][j] = queue[k] /\ queue[k].ctx # s
      <4>0. j \in DOMAIN f[i] \/ j = Len(f[i]) + 1
        <5>1. PICK m \in Nat : m = Len(f[i]) /\ DOMAIN f[i] = 1 .. m
          BY <3>1
        <5>2. DOMAIN f[i + 1] = 1 .. m + 1
          BY <3>1, <3>2, <5>1
        <5>3. QED
          BY <5>1, <5>2
      <4>1. CASE j \in DOMAIN f[i]
        <5>1. f[i + 1][j] = f[i][j]
          BY <3>1, <3>2, <4>1
        <5>2. QED
          BY <2>1, <4>1, <5>1 DEF Good
      <4>2. CASE j = Len(f[i]) + 1
        <5>1. f[i + 1][j] = queue[i + 1]
          BY <3>1, <3>2, <4>2
        <5>2. QED
          BY <2>1, <2>4, <5>1
      <4>3. QED
        BY <4>0, <4>1, <4>2
    <3>5. QED
      BY <3>3, <3>4 DEF Good
  <2>5. QED
    BY <2>3, <2>4
<1>5. n \in P
  BY <1>3, <1>4, Induction
<1>6. Good(f[n])
  BY <1>1, <1>5
<1>7. QED
  BY <1>1, <1>2, <1>6 DEF Good

-----------------------------------------------------------------------------
(* The invariant *)

\* The callbacks in a queue, and in the queue.
Elements(queue) == {queue[i] : i \in DOMAIN queue}

Queued == Elements(cbs)

\* The types of the variables that the tabs are about, and of the others.
TabTypes ==
  /\ node \in [Session -> {"none", "live", "freed"}]
  /\ nxt \in [Session -> Pointer] /\ prv \in [Session -> Pointer]
  /\ head \in Session /\ tail \in Session /\ curr \in Session
  /\ count \in Nat
  /\ items \in Seq(Session) /\ sel \in 1 .. Len(items)
  /\ gTerm \in Session /\ showing \subseteq Session

ObjTypes ==
  /\ obj \in [Session -> {"none", "live", "freed"}]
  /\ nodeBe \in [Session -> BOOLEAN] /\ gBe \in Pointer
  /\ input \in [Session -> {"busy", "idle", "none"}]
  /\ waiting \in [Session -> BOOLEAN] /\ exited \in [Session -> BOOLEAN]

TermTypes ==
  /\ inbuf \in [Session -> Nat]
  /\ dragging \in [Session -> BOOLEAN] /\ resize \in [Session -> BOOLEAN]

LoopTypes ==
  /\ cbs \in Seq(Callback)
  /\ closed \in BOOLEAN /\ quit \in BOOLEAN /\ conf \in Settings
  /\ phase \in {"handles", "message", "callback", "ended"}

\* The list and the tabs; a TermList that has not been made has no successor.
TabsInv ==
  /\ \A s \in Session : node[s] = "none" => nxt[s] = Null
  /\ IF phase = "ended" THEN Live = {}
     ELSE ListMatchesTabs /\ items[sel] = curr /\ showing = {curr} /\ gTerm = curr

\* A TermList keeps its backend; the current one's may have been cleared from the
\* globals, and then it no longer reads; a terminal's callbacks do not outlive it.
BackendInv ==
  phase # "ended" =>
    /\ gBe \in {curr, Null} /\ (gBe = Null => input[curr] = "none")
    /\ \A s \in Live : nodeBe[s]
    /\ \A c \in Queued : c.ctx # Null => c.ctx \in Live

\* Unless sessions stay when they have ended, close_session never runs.
StayInv ==
  phase # "ended" /\ conf.close_on_exit # "FORCE_OFF" =>
    /\ ~closed /\ gBe = curr
    /\ \A s \in Live : obj[s] = "live"
    /\ \A c \in Queued : c.fn # "close_session"

\* A session that has not been made has nothing to show.
FreshInv ==
  \A s \in Session : node[s] = "none" =>
    inbuf[s] = 0 /\ ~dragging[s] /\ ~resize[s] /\ input[s] = "none"

\* Without resize requests a session is throttled only during a drag-select.
ThrottleInv ==
  phase # "ended" /\ conf.no_remote_resize =>
    /\ \A s \in Session : ~resize[s]
    /\ \A c \in Queued : c.fn # "term_out_cb"
    /\ \A s \in Live : /\ inbuf[s] <= MaxBacklog
                       /\ input[s] = "busy" => inbuf[s] < MaxBacklog
                       /\ input[s] = "idle" => dragging[s]

IInv ==
  /\ TabTypes /\ ObjTypes /\ TermTypes /\ LoopTypes
  /\ TabsInv /\ BackendInv /\ StayInv /\ FreshInv /\ ThrottleInv

\* The current session is there, and the globals' terminal is its.
\* Code: the globals term and term_curr of PuTTY.cpp.
LEMMA CurrentIsLive ==
  ASSUME IInv, phase # "ended"
  PROVE  gTerm = curr /\ curr \in Live /\ curr \in Session /\ curr # Null
<1>1. ListMatchesTabs /\ items[sel] = curr /\ gTerm = curr
  BY DEF IInv, TabsInv
<1>2. sel \in DOMAIN items /\ curr \in Session /\ curr # Null
  BY SessionAssumption DEF IInv, TabTypes
<1>3. curr \in Live
  BY <1>1, <1>2 DEF ListMatchesTabs
<1>4. QED
  BY <1>1, <1>2, <1>3

\* What the run checks follows.
\* Code: all of PuTTY.cpp's session list.
LEMMA InvariantSuffices == IInv => TabsMatchSessions /\ PointersLive /\ ThrottlingSound
<1> SUFFICES ASSUME IInv PROVE TabsMatchSessions /\ PointersLive /\ ThrottlingSound
  OBVIOUS
<1>1. TypeOK
  BY DEF IInv, TabTypes, ObjTypes, TermTypes, LoopTypes, TypeOK
<1>2. TabsMatchSessions
  BY <1>1 DEF IInv, TabsInv, TabsMatchSessions
<1>3. ASSUME phase # "ended", conf.close_on_exit # "FORCE_OFF" PROVE PointersLive
  <2>1. gTerm = curr /\ curr \in Live /\ curr # Null
    BY <1>3, CurrentIsLive
  <2>2. \A i \in DOMAIN cbs : cbs[i] \in Queued
    BY DEF Queued, Elements
  <2>3. QED
    BY <1>3, <2>1, <2>2 DEF IInv, BackendInv, StayInv, PointersLive, Live
<1>4. PointersLive
  BY <1>3 DEF PointersLive
<1>5. ASSUME conf.no_remote_resize, NEW s \in Live
      PROVE  /\ inbuf[s] <= MaxBacklog
             /\ input[s] = "idle" => dragging[s]
  BY <1>5 DEF IInv, TabsInv, ThrottleInv
<1>6. ThrottlingSound
  BY <1>5 DEF ThrottlingSound, NoStalledSession
<1>7. QED
  BY <1>2, <1>4, <1>6

\* The program is started with one session.
\* Code: PuTTY_Init, PuTTY_AttachWindow.
LEMMA InitHolds == Init => IInv
<1> SUFFICES ASSUME Init PROVE IInv
  OBVIOUS
<1> USE SessionAssumption
<1>0. Live = {First}
  BY DEF Init, Live
<1>1. Queued = {}
  BY DEF Init, Queued, Elements
<1>2. TabTypes
  BY DEF Init, TabTypes, Pointer
<1>3. ObjTypes
  BY DEF Init, ObjTypes, Pointer
<1>4. TermTypes
  BY DEF Init, TermTypes
<1>5. LoopTypes
  <2>1. <<>> \in Seq(Callback)
    OBVIOUS
  <2>2. QED
    BY <2>1 DEF Init, LoopTypes
<1>6. TabsInv
  <2>1. ListMatchesTabs
    BY <1>0 DEF Init, ListMatchesTabs
  <2>2. QED
    BY <2>1 DEF Init, TabsInv
<1>7. BackendInv /\ StayInv
  BY <1>0, <1>1 DEF Init, BackendInv, StayInv
<1>8. FreshInv
  BY DEF Init, FreshInv
<1>9. ThrottleInv
  BY <1>0, <1>1, LimitAssumption DEF Init, ThrottleInv
<1>10. QED
  BY <1>2, <1>3, <1>4, <1>5, <1>6, <1>7, <1>8, <1>9 DEF IInv

-----------------------------------------------------------------------------
(* What the helpers of the actions do *)

\* Appending to the queue adds one callback.
\* Code: queue_toplevel_callback, run_toplevel_callbacks.
LEMMA AppendFacts ==
  ASSUME NEW queue \in Seq(Callback), NEW c \in Callback
  PROVE  /\ Append(queue, c) \in Seq(Callback)
         /\ \A d \in Elements(Append(queue, c)) : d \in Elements(queue) \/ d = c
<1>1. Append(queue, c) \in Seq(Callback)
  OBVIOUS
<1>2. ASSUME NEW i \in DOMAIN Append(queue, c)
      PROVE  \/ i \in DOMAIN queue /\ Append(queue, c)[i] = queue[i]
             \/ Append(queue, c)[i] = c
  OBVIOUS
<1>3. QED
  BY <1>1, <1>2 DEF Elements

\* Taking the first callback off the queue adds none.
\* Code: run_toplevel_callbacks, which takes the first callback off the queue.
LEMMA TailFacts ==
  ASSUME NEW queue \in Seq(Callback), queue # <<>>
  PROVE  /\ Head(queue) \in Callback /\ Head(queue) \in Elements(queue)
         /\ Tail(queue) \in Seq(Callback) /\ Elements(Tail(queue)) \subseteq Elements(queue)
<1>1. Head(queue) \in Callback /\ Tail(queue) \in Seq(Callback)
  OBVIOUS
<1>2. 1 \in DOMAIN queue /\ Head(queue) = queue[1]
  OBVIOUS
<1>3. ASSUME NEW i \in DOMAIN Tail(queue)
      PROVE  i + 1 \in DOMAIN queue /\ Tail(queue)[i] = queue[i + 1]
  OBVIOUS
<1>4. QED
  BY <1>1, <1>2, <1>3 DEF Elements

\* term_out leaves the other terminals alone, never adds output, and without resize
\* requests works through all of it unless a drag-select holds it back.
\* Code: term_out.
LEMMA TermOutFacts ==
  ASSUME TermTypes, NEW s \in Session, NEW n \in Nat, NEW held, TermOut(s, n, held)
  PROVE  /\ inbuf' \in [Session -> Nat] /\ resize' \in [Session -> BOOLEAN]
         /\ \A t \in Session \ {s} : inbuf'[t] = inbuf[t] /\ resize'[t] = resize[t]
         /\ inbuf'[s] <= n
         /\ conf.no_remote_resize =>
              resize' = resize /\ (~held /\ ~resize[s] => inbuf'[s] = 0)
<1>1. CASE /\ held \/ resize[s]
           /\ inbuf' = [inbuf EXCEPT ![s] = n] /\ UNCHANGED resize
  BY <1>1 DEF TermTypes
<1>2. CASE /\ ~held /\ ~resize[s]
           /\ inbuf' = [inbuf EXCEPT ![s] = 0] /\ UNCHANGED resize
  BY <1>2 DEF TermTypes
<1>3. CASE /\ ~held /\ ~resize[s] /\ ~conf.no_remote_resize
           /\ \E left \in 0 .. (n - 1) : inbuf' = [inbuf EXCEPT ![s] = left]
           /\ resize' = [resize EXCEPT ![s] = TRUE]
  <2>1. PICK left \in 0 .. (n - 1) : inbuf' = [inbuf EXCEPT ![s] = left]
    BY <1>3
  <2>2. inbuf' \in [Session -> Nat] /\ \A t \in Session \ {s} : inbuf'[t] = inbuf[t]
    BY <2>1 DEF TermTypes
  <2>3. inbuf'[s] <= n
    BY <2>1 DEF TermTypes
  <2>4. resize' \in [Session -> BOOLEAN] /\ \A t \in Session \ {s} : resize'[t] = resize[t]
    BY <1>3 DEF TermTypes
  <2>5. QED
    BY <1>3, <2>2, <2>3, <2>4
<1>4. QED
  BY <1>1, <1>2, <1>3 DEF TermOut

\* Only a throttled handle is changed, and only the one it is told to.
\* Code: handle_throttle, conpty_unthrottle.
LEMMA UnthrottleFacts ==
  ASSUME ObjTypes, NEW b \in Pointer, NEW n \in Nat, Unthrottle(b, n)
  PROVE  /\ input' \in [Session -> {"busy", "idle", "none"}]
         /\ \A t \in Session : /\ t # b => input'[t] = input[t]
                               /\ input[t] # "idle" => input'[t] = input[t]
         /\ b # Null /\ input[b] = "idle" => input'[b] = Throttled(n)
<1>1. Throttled(n) \in {"busy", "idle"}
  BY DEF Throttled
<1>2. QED
  BY <1>1 DEF Unthrottle, ObjTypes, Pointer

\* Sending off a resize request queues at most one callback, for the same terminal.
\* Code: term_update, term_resize_request_completed.
LEMMA UpdateTermFacts ==
  ASSUME TermTypes, NEW s \in Session, NEW queue \in Seq(Callback), UpdateTerm(s, queue)
  PROVE  /\ resize' \in [Session -> BOOLEAN]
         /\ \A t \in Session : resize'[t] => resize[t]
         /\ cbs' \in Seq(Callback)
         /\ \A c \in Queued' : c \in Elements(queue) \/ (c.fn = "term_out_cb" /\ c.ctx = s)
         /\ ~resize[s] => cbs' = queue
<1> DEFINE new == [fn |-> "term_out_cb", ctx |-> s]
<1>1. new \in Callback /\ new.fn = "term_out_cb" /\ new.ctx = s
  BY DEF Callback
<1>2. cbs' = IF resize[s] THEN Append(queue, new) ELSE queue
  BY DEF UpdateTerm
<1>3. Queued' = Elements(cbs')
  BY DEF Queued, Elements
<1> HIDE DEF new
<1>4. cbs' \in Seq(Callback)
  BY <1>1, <1>2, AppendFacts
<1>5. \A c \in Queued' : c \in Elements(queue) \/ c = new
  BY <1>1, <1>2, <1>3, AppendFacts
<1>6. \A c \in Queued' : c \in Elements(queue) \/ (c.fn = "term_out_cb" /\ c.ctx = s)
  <2>1. ASSUME NEW c \in Queued', c = new PROVE c.fn = "term_out_cb" /\ c.ctx = s
    BY <1>1, <2>1
  <2>2. QED
    BY <1>5, <2>1
<1>7. resize' \in [Session -> BOOLEAN] /\ \A t \in Session : resize'[t] => resize[t]
  BY DEF UpdateTerm, TermTypes
<1>8. QED
  BY <1>2, <1>4, <1>6, <1>7

\* What does not touch the list, the tabs and the terminal on show keeps them.
LEMMA SameTabs ==
  ASSUME IInv, phase # "ended", phase' # "ended",
         UNCHANGED <<listVars, tabVars, gTerm, showing>>
  PROVE  TabTypes' /\ TabsInv' /\ Live' = Live
<1>1. TabTypes'
  BY DEF IInv, TabTypes, listVars, tabVars
<1>2. Live' = Live
  BY DEF Live, listVars
<1>3. ListMatchesTabs' = ListMatchesTabs
  BY <1>2 DEF ListMatchesTabs, listVars, tabVars
<1>4. TabsInv'
  BY <1>3 DEF IInv, TabsInv, listVars, tabVars
<1>5. QED
  BY <1>1, <1>2, <1>4

-----------------------------------------------------------------------------
(* Handle events *)

\* Output arrives, perhaps for a session in another tab.
\* Code: conpty_gotdata with data.
LEMMA GotDataKeeps ==
  ASSUME IInv, conf' = conf, NEW s \in Session, GotData(s)
  PROVE  IInv'
<1> DEFINE n == inbuf[s] + 1
<1>0. /\ phase = "handles" /\ phase' = "handles" /\ input[s] = "busy"
      /\ TabTypes /\ ObjTypes /\ TermTypes /\ LoopTypes
      /\ UNCHANGED <<node, curr, obj, nodeBe, gBe, waiting, exited, dragging,
                     cbs, closed, quit>>
  BY DEF GotData, IInv, listVars, objVars
<1>1. TabTypes' /\ TabsInv' /\ Live' = Live
  BY <1>0, SameTabs DEF GotData, objVars
<1>2. n \in Nat /\ TermOut(s, n, dragging[s]) /\ dragging[s] \in BOOLEAN
  BY <1>0 DEF GotData, TermTypes
<1> HIDE DEF n
<1>3. /\ inbuf' \in [Session -> Nat] /\ resize' \in [Session -> BOOLEAN]
      /\ \A t \in Session \ {s} : inbuf'[t] = inbuf[t] /\ resize'[t] = resize[t]
      /\ inbuf'[s] <= n
      /\ conf.no_remote_resize =>
           resize' = resize /\ (~dragging[s] /\ ~resize[s] => inbuf'[s] = 0)
  BY <1>0, <1>2, TermOutFacts
<1>4. /\ input' = [input EXCEPT ![s] = Throttled(inbuf'[s])]
      /\ Throttled(inbuf'[s]) = IF inbuf'[s] < MaxBacklog THEN "busy" ELSE "idle"
  BY DEF GotData, Throttled
<1>5. ObjTypes'
  BY <1>0, <1>4 DEF ObjTypes
<1>6. TermTypes'
  BY <1>0, <1>3 DEF TermTypes
<1>7. LoopTypes'
  BY <1>0 DEF LoopTypes
<1>8. Queued' = Queued
  BY <1>0 DEF Queued, Elements
<1>9. BackendInv'
  <2>1. gBe = Null => input'[curr] = "none"
    BY <1>0, <1>4 DEF IInv, BackendInv, ObjTypes, TabTypes
  <2>2. QED
    BY <1>0, <1>1, <1>8, <2>1 DEF IInv, BackendInv
<1>10. StayInv'
  BY <1>0, <1>1, <1>8 DEF IInv, StayInv
<1>11. FreshInv'
  <2>1. node[s] # "none"
    BY <1>0 DEF IInv, FreshInv
  <2>2. QED
    BY <1>0, <1>3, <1>4, <2>1 DEF IInv, FreshInv, ObjTypes
<1>12. ThrottleInv'
  <2> SUFFICES ASSUME conf.no_remote_resize PROVE ThrottleInv'
    BY <1>0 DEF ThrottleInv
  <2>1. /\ \A t \in Session : ~resize[t]
        /\ \A c \in Queued : c.fn # "term_out_cb"
        /\ \A t \in Live : /\ inbuf[t] <= MaxBacklog
                           /\ input[t] = "busy" => inbuf[t] < MaxBacklog
                           /\ input[t] = "idle" => dragging[t]
    BY <1>0 DEF IInv, ThrottleInv
  <2>2. ASSUME s \in Live
        PROVE  /\ inbuf'[s] <= MaxBacklog
               /\ input'[s] = "busy" => inbuf'[s] < MaxBacklog
               /\ input'[s] = "idle" => dragging[s]
    <3>1. n <= MaxBacklog
      BY <1>0, <2>1, <2>2, LimitAssumption DEF n, TermTypes
    <3>2. input'[s] = IF inbuf'[s] < MaxBacklog THEN "busy" ELSE "idle"
      BY <1>0, <1>4 DEF ObjTypes
    <3>3. inbuf'[s] \in Nat /\ (~dragging[s] => inbuf'[s] = 0)
      BY <1>3, <2>1
    <3>4. QED
      BY <1>2, <1>3, <3>1, <3>2, <3>3, LimitAssumption
  <2>3. ASSUME NEW t \in Live, t # s
        PROVE  inbuf'[t] = inbuf[t] /\ input'[t] = input[t]
    BY <1>0, <1>3, <1>4, <2>3 DEF ObjTypes, Live
  <2>4. QED
    BY <1>0, <1>1, <1>3, <1>8, <2>1, <2>2, <2>3 DEF ThrottleInv
<1>13. QED
  BY <1>1, <1>5, <1>6, <1>7, <1>9, <1>10, <1>11, <1>12 DEF IInv

\* A subprocess ends.
\* Code: conpty_process_wait_callback.
LEMMA ProcessExitsKeeps ==
  ASSUME IInv, conf' = conf, NEW s \in Session, ProcessExits(s)
  PROVE  IInv'
<1>0. /\ phase = "handles" /\ phase' = "handles"
      /\ UNCHANGED <<node, curr, obj, nodeBe, gBe, input, inbuf, dragging, resize,
                     cbs, closed, quit>>
  BY DEF ProcessExits, listVars, objVars, termVars
<1>1. TabTypes' /\ TabsInv' /\ Live' = Live
  BY <1>0, SameTabs DEF ProcessExits, objVars
<1>2. Queued' = Queued
  BY <1>0 DEF Queued, Elements
<1>3. ObjTypes'
  BY <1>0 DEF ProcessExits, IInv, ObjTypes
<1>4. TermTypes' /\ LoopTypes'
  BY <1>0 DEF IInv, TermTypes, LoopTypes
<1>5. BackendInv' /\ StayInv' /\ FreshInv' /\ ThrottleInv'
  BY <1>0, <1>1, <1>2 DEF IInv, BackendInv, StayInv, FreshInv, ThrottleInv
<1>6. QED
  BY <1>1, <1>3, <1>4, <1>5 DEF IInv

\* A backend shuts itself down and queues exit_callback.
\* Code: conpty_gotdata and conpty_sentdata at the end of a session.
LEMMA TerminateKeeps ==
  ASSUME IInv, conf' = conf, NEW s \in Session, phase = "handles", Terminate(s)
  PROVE  IInv'
<1> DEFINE new == [fn |-> "exit_callback", ctx |-> Null]
<1>0. /\ phase' = "handles" /\ cbs' = Append(cbs, new)
      /\ input' = [input EXCEPT ![s] = "none"]
      /\ waiting' = [waiting EXCEPT ![s] = FALSE]
      /\ UNCHANGED <<node, curr, obj, nodeBe, gBe, exited, inbuf, dragging, resize,
                     closed, quit>>
  BY DEF Terminate, listVars, objVars, termVars
<1>1. TabTypes' /\ TabsInv' /\ Live' = Live
  BY <1>0, SameTabs DEF Terminate, objVars
<1>2. new \in Callback /\ new.fn = "exit_callback" /\ new.ctx = Null
  BY DEF Callback
<1> HIDE DEF new
<1>3. cbs' \in Seq(Callback) /\ \A c \in Queued' : c \in Queued \/ c = new
  BY <1>0, <1>2, AppendFacts DEF IInv, LoopTypes, Queued
<1>4. \A c \in Queued' : c \in Queued \/ (c.fn = "exit_callback" /\ c.ctx = Null)
  <2> SUFFICES ASSUME NEW c \in Queued', c = new PROVE c.fn = "exit_callback" /\ c.ctx = Null
    BY <1>3
  <2>1. QED
    BY <1>2
<1>5. ObjTypes'
  BY <1>0 DEF IInv, ObjTypes
<1>6. TermTypes' /\ LoopTypes'
  BY <1>0, <1>3 DEF IInv, TermTypes, LoopTypes
<1>7. \A t \in Session : input'[t] = IF t = s THEN "none" ELSE input[t]
  BY <1>0 DEF IInv, ObjTypes
<1>8. BackendInv' /\ StayInv'
  BY <1>0, <1>1, <1>4, <1>7 DEF IInv, BackendInv, StayInv, TabTypes
<1>9. FreshInv'
  BY <1>0, <1>7 DEF IInv, FreshInv
<1>10. ThrottleInv'
  BY <1>0, <1>1, <1>4, <1>7 DEF IInv, ThrottleInv, Live
<1>11. QED
  BY <1>1, <1>5, <1>6, <1>8, <1>9, <1>10 DEF IInv

\* Nothing but the place in the message loop changes.
\* Code: the step from the handles to the messages in PuTTY_MessageLoop, and an
\* iteration in which there is no message, or no callback.
LEMMA PhaseKeeps ==
  ASSUME IInv, conf' = conf, phase # "ended", phase' \in {"handles", "message", "callback"},
         UNCHANGED <<listVars, tabVars, objVars, showing, ptyVars, termVars,
                     cbs, closed, quit>>
  PROVE  IInv'
<1>0. UNCHANGED <<node, curr, obj, nodeBe, gBe, input, waiting, exited,
                  inbuf, dragging, resize, cbs, closed, quit>>
  BY DEF listVars, objVars, ptyVars, termVars
<1>1. TabTypes' /\ TabsInv' /\ Live' = Live
  BY SameTabs DEF objVars
<1>2. Queued' = Queued
  BY <1>0 DEF Queued, Elements
<1>3. ObjTypes' /\ TermTypes' /\ LoopTypes'
  BY <1>0 DEF IInv, ObjTypes, TermTypes, LoopTypes
<1>4. BackendInv' /\ StayInv' /\ FreshInv' /\ ThrottleInv'
  BY <1>0, <1>1, <1>2 DEF IInv, BackendInv, StayInv, FreshInv, ThrottleInv
<1>5. QED
  BY <1>1, <1>3, <1>4 DEF IInv

-----------------------------------------------------------------------------
(* Window messages that keep the list *)

\* A drag-select begins.
\* Code: term_mouse, when a drag-select begins.
LEMMA DragBeginsKeeps ==
  ASSUME IInv, conf' = conf, DragBegins
  PROVE  IInv'
<1>0. /\ phase = "message" /\ phase' = "callback"
      /\ dragging' = [dragging EXCEPT ![gTerm] = TRUE]
      /\ UNCHANGED <<node, curr, obj, nodeBe, gBe, input, waiting, exited, inbuf, resize,
                     cbs, closed, quit>>
  BY DEF DragBegins, listVars, objVars, ptyVars
<1>1. TabTypes' /\ TabsInv' /\ Live' = Live
  BY <1>0, SameTabs DEF DragBegins, objVars
<1>2. Queued' = Queued
  BY <1>0 DEF Queued, Elements
<1>3. gTerm \in Live
  BY <1>0, CurrentIsLive
<1>4. ObjTypes' /\ LoopTypes'
  BY <1>0 DEF IInv, ObjTypes, LoopTypes
<1>5. TermTypes' /\ \A t \in Session : dragging'[t] = (t = gTerm \/ dragging[t])
  BY <1>0 DEF IInv, TermTypes
<1>6. BackendInv' /\ StayInv'
  BY <1>0, <1>1, <1>2 DEF IInv, BackendInv, StayInv
<1>7. FreshInv'
  BY <1>0, <1>3, <1>5 DEF IInv, FreshInv, Live
<1>8. ThrottleInv'
  BY <1>0, <1>1, <1>2, <1>5 DEF IInv, ThrottleInv, Live
<1>9. QED
  BY <1>1, <1>4, <1>5, <1>6, <1>7, <1>8 DEF IInv

\* A drag-select ends, and the session that it held back reads on.
\* Code: term_mouse, when a drag-select ends; term_out, wintw_unthrottle.
LEMMA DragEndsKeeps ==
  ASSUME IInv, conf' = conf, DragEnds
  PROVE  IInv'
<1>0. /\ phase = "message" /\ phase' = "callback"
      /\ dragging' = [dragging EXCEPT ![gTerm] = FALSE]
      /\ TabTypes /\ ObjTypes /\ TermTypes /\ LoopTypes
      /\ UNCHANGED <<node, curr, obj, nodeBe, gBe, waiting, exited, cbs, closed, quit>>
  BY DEF DragEnds, IInv, listVars, objVars
<1>1. TabTypes' /\ TabsInv' /\ Live' = Live
  BY <1>0, SameTabs DEF DragEnds, objVars
<1>2. Queued' = Queued
  BY <1>0 DEF Queued, Elements
<1>3. /\ gTerm = curr /\ gTerm \in Live /\ gTerm \in Session /\ gTerm # Null
      /\ gBe \in {gTerm, Null} /\ (gBe = Null => input[gTerm] = "none")
  BY <1>0, CurrentIsLive DEF IInv, BackendInv
<1>4. inbuf[gTerm] \in Nat
  BY <1>0, <1>3 DEF TermTypes
<1>5. /\ inbuf' \in [Session -> Nat] /\ resize' \in [Session -> BOOLEAN]
      /\ \A t \in Session \ {gTerm} : inbuf'[t] = inbuf[t] /\ resize'[t] = resize[t]
      /\ inbuf'[gTerm] <= inbuf[gTerm]
      /\ conf.no_remote_resize =>
           resize' = resize /\ (~resize[gTerm] => inbuf'[gTerm] = 0)
  <2>1. TermOut(gTerm, inbuf[gTerm], FALSE)
    BY DEF DragEnds
  <2>2. QED
    BY <1>0, <1>3, <1>4, <2>1, TermOutFacts
<1>6. inbuf'[gTerm] \in Nat /\ gBe \in Pointer
  BY <1>0, <1>3, <1>5 DEF ObjTypes
<1>7. /\ input' \in [Session -> {"busy", "idle", "none"}]
      /\ \A t \in Session : /\ t # gBe => input'[t] = input[t]
                            /\ input[t] # "idle" => input'[t] = input[t]
      /\ gBe # Null /\ input[gBe] = "idle" => input'[gBe] = Throttled(inbuf'[gTerm])
  <2>1. Unthrottle(gBe, inbuf'[gTerm])
    BY DEF DragEnds
  <2>2. QED
    BY <1>0, <1>6, <2>1, UnthrottleFacts
<1>8. ObjTypes' /\ LoopTypes'
  BY <1>0, <1>7 DEF ObjTypes, LoopTypes
<1>9. TermTypes' /\ \A t \in Session : dragging'[t] = (t # gTerm /\ dragging[t])
  BY <1>0, <1>5 DEF TermTypes
<1>10. BackendInv' /\ StayInv'
  BY <1>0, <1>1, <1>2, <1>3, <1>7 DEF IInv, BackendInv, StayInv
<1>11. FreshInv'
  BY <1>0, <1>3, <1>5, <1>7, <1>9 DEF IInv, FreshInv, Live
<1>12. ThrottleInv'
  <2> SUFFICES ASSUME conf.no_remote_resize PROVE ThrottleInv'
    BY <1>0 DEF ThrottleInv
  <2>1. /\ \A t \in Session : ~resize[t]
        /\ \A c \in Queued : c.fn # "term_out_cb"
        /\ \A t \in Live : /\ inbuf[t] <= MaxBacklog
                           /\ input[t] = "busy" => inbuf[t] < MaxBacklog
                           /\ input[t] = "idle" => dragging[t]
    BY <1>0 DEF IInv, ThrottleInv
  <2>2. inbuf'[gTerm] = 0 /\ 0 < MaxBacklog /\ 0 <= MaxBacklog
    BY <1>3, <1>5, <2>1, LimitAssumption
  <2>3. input'[gTerm] # "idle"
    <3>1. CASE input[gTerm] = "idle"
      BY <1>3, <1>7, <2>2, <3>1 DEF Throttled
    <3>2. CASE input[gTerm] # "idle"
      BY <1>3, <1>7, <3>2
    <3>3. QED
      BY <3>1, <3>2
  <2>4. ASSUME NEW t \in Live, t # gTerm
        PROVE  inbuf'[t] = inbuf[t] /\ input'[t] = input[t] /\ dragging'[t] = dragging[t]
    <3>1. t \in Session /\ t # gBe
      BY <1>3, <2>4, SessionAssumption DEF Live
    <3>2. QED
      BY <1>5, <1>7, <1>0, <2>4, <3>1 DEF TermTypes
  <2>5. QED
    BY <1>0, <1>1, <1>2, <1>5, <2>1, <2>2, <2>3, <2>4 DEF ThrottleInv
<1>13. QED
  BY <1>1, <1>8, <1>9, <1>10, <1>11, <1>12 DEF IInv

\* The terminal on show is updated.
\* Code: term_update of the terminal on show.
LEMMA UpdateKeeps ==
  ASSUME IInv, conf' = conf, Update
  PROVE  IInv'
<1>0. /\ phase = "message" /\ phase' = "callback"
      /\ TabTypes /\ ObjTypes /\ TermTypes /\ LoopTypes
      /\ UNCHANGED <<node, curr, obj, nodeBe, gBe, input, waiting, exited, inbuf, dragging,
                     closed, quit>>
  BY DEF Update, IInv, listVars, objVars, ptyVars
<1>1. TabTypes' /\ TabsInv' /\ Live' = Live
  BY <1>0, SameTabs DEF Update, objVars
<1>2. gTerm \in Live /\ gTerm \in Session
  BY <1>0, CurrentIsLive
<1>3. /\ resize' \in [Session -> BOOLEAN]
      /\ \A t \in Session : resize'[t] => resize[t]
      /\ cbs' \in Seq(Callback)
      /\ \A c \in Queued' : c \in Queued \/ (c.fn = "term_out_cb" /\ c.ctx = gTerm)
      /\ ~resize[gTerm] => cbs' = cbs
  BY <1>0, <1>2, UpdateTermFacts DEF Update, LoopTypes, Queued
<1>4. ObjTypes' /\ TermTypes' /\ LoopTypes'
  BY <1>0, <1>3 DEF ObjTypes, TermTypes, LoopTypes
<1>5. BackendInv' /\ StayInv'
  BY <1>0, <1>1, <1>2, <1>3 DEF IInv, BackendInv, StayInv
<1>6. FreshInv'
  BY <1>0, <1>3 DEF IInv, FreshInv
<1>7. ThrottleInv'
  BY <1>0, <1>2 DEF IInv, ThrottleInv, Update
<1>8. QED
  BY <1>1, <1>4, <1>5, <1>6, <1>7 DEF IInv

\* Every session is freed.
\* Code: cleanup_term_list.
LEMMA ShutdownKeeps ==
  ASSUME IInv, conf' = conf, Shutdown
  PROVE  IInv'
<1>0. /\ phase' = "ended"
      /\ node' = [s \in Session |-> IF node[s] = "live" THEN "freed" ELSE node[s]]
      /\ obj' = [s \in Session |-> IF node[s] = "live" /\ nodeBe[s] THEN "freed" ELSE obj[s]]
      /\ input' = [s \in Session |-> "none"]
      /\ waiting' = [s \in Session |-> FALSE]
      /\ UNCHANGED <<nxt, prv, head, tail, count, curr, items, sel, nodeBe, gTerm, gBe,
                     showing, exited, inbuf, dragging, resize, cbs, closed, quit>>
  BY DEF Shutdown, tabVars, termVars
<1>1. TabTypes'
  BY <1>0 DEF IInv, TabTypes
<1>2. ObjTypes' /\ TermTypes' /\ LoopTypes'
  BY <1>0 DEF IInv, ObjTypes, TermTypes, LoopTypes
<1>3. \A s \in Session : node'[s] # "live" /\ (node'[s] = "none" => node[s] = "none")
  BY <1>0 DEF IInv, TabTypes
<1>4. TabsInv'
  BY <1>0, <1>3 DEF IInv, TabsInv, Live
<1>5. BackendInv' /\ StayInv' /\ ThrottleInv'
  BY <1>0 DEF BackendInv, StayInv, ThrottleInv
<1>6. FreshInv'
  BY <1>0, <1>3 DEF IInv, FreshInv
<1>7. QED
  BY <1>1, <1>2, <1>4, <1>5, <1>6 DEF IInv

-----------------------------------------------------------------------------
(* Toplevel callbacks *)

\* The program ends, or a close_session is queued, or nothing happens.
\* Code: exit_callback.
LEMMA ExitCallbackKeeps ==
  ASSUME IInv, conf' = conf, ExitCallback
  PROVE  IInv'
<1> DEFINE new == [fn |-> "close_session", ctx |-> Null]
<1>0. /\ phase = "callback" /\ phase' = "handles" /\ cbs # <<>>
      /\ TabTypes /\ ObjTypes /\ TermTypes /\ LoopTypes
      /\ UNCHANGED <<node, curr, obj, nodeBe, gBe, input, waiting, exited,
                     inbuf, dragging, resize>>
  BY DEF ExitCallback, Running, IInv, listVars, objVars, ptyVars, termVars
<1>1. TabTypes' /\ TabsInv' /\ Live' = Live
  BY <1>0, SameTabs DEF ExitCallback, objVars
<1>2. new \in Callback /\ new.fn = "close_session" /\ new.ctx = Null
  BY DEF Callback
<1>3. /\ quit' \in BOOLEAN /\ closed' \in BOOLEAN
      /\ \/ cbs' = Tail(cbs) /\ closed' = closed
         \/ cbs' = Append(Tail(cbs), new) /\ conf.close_on_exit = "FORCE_OFF"
  BY <1>0 DEF ExitCallback, LoopTypes
<1> HIDE DEF new
<1>4. /\ Tail(cbs) \in Seq(Callback) /\ Elements(Tail(cbs)) \subseteq Queued
      /\ Queued' = Elements(cbs')
  BY <1>0, TailFacts DEF LoopTypes, Queued, Elements
<1>5. cbs' \in Seq(Callback)
  BY <1>2, <1>3, <1>4, AppendFacts
<1>6. \A c \in Queued' : c \in Queued \/ (c = new /\ conf.close_on_exit = "FORCE_OFF")
  BY <1>2, <1>3, <1>4, AppendFacts
<1>7. \A c \in Queued' :
        \/ c \in Queued
        \/ c.fn = "close_session" /\ c.ctx = Null /\ conf.close_on_exit = "FORCE_OFF"
  <2>1. ASSUME NEW c \in Queued', c = new PROVE c.fn = "close_session" /\ c.ctx = Null
    BY <1>2, <2>1
  <2>2. QED
    BY <1>6, <2>1
<1>8. conf.close_on_exit # "FORCE_OFF" => closed' = closed
  BY <1>3
<1>9. ObjTypes' /\ TermTypes' /\ LoopTypes'
  BY <1>0, <1>3, <1>5 DEF ObjTypes, TermTypes, LoopTypes
<1>10. BackendInv' /\ StayInv'
  BY <1>0, <1>1, <1>7, <1>8 DEF IInv, BackendInv, StayInv
<1>11. FreshInv' /\ ThrottleInv'
  BY <1>0, <1>1, <1>7 DEF IInv, FreshInv, ThrottleInv
<1>12. QED
  BY <1>1, <1>9, <1>10, <1>11 DEF IInv

\* The current session's backend is freed and the globals are cleared.
\* Code: close_session, which a program whose tabs close never queues.
LEMMA CloseSessionKeeps ==
  ASSUME IInv, conf' = conf, CloseSession
  PROVE  IInv'
<1>0. /\ phase = "callback" /\ phase' = "handles" /\ cbs # <<>> /\ cbs' = Tail(cbs)
      /\ Head(cbs).fn = "close_session" /\ closed' = TRUE /\ gBe' = Null
      /\ TabTypes /\ ObjTypes /\ TermTypes /\ LoopTypes
      /\ UNCHANGED <<node, curr, nodeBe, exited, inbuf, dragging, resize, quit>>
  BY DEF CloseSession, Running, IInv, listVars, termVars
<1>1. TabTypes' /\ TabsInv' /\ Live' = Live
  BY <1>0, SameTabs DEF CloseSession
<1>2. /\ Head(cbs) \in Queued
      /\ cbs' \in Seq(Callback) /\ Queued' \subseteq Queued
  BY <1>0, TailFacts DEF LoopTypes, Queued, Elements
<1>3. conf.close_on_exit = "FORCE_OFF"
  BY <1>0, <1>2 DEF IInv, StayInv
<1>4. gBe = curr \/ (gBe = Null /\ input[curr] = "none")
  BY <1>0 DEF IInv, BackendInv
<1>5. curr \in Session /\ curr # Null
  BY <1>0, SessionAssumption DEF TabTypes
<1>6. /\ obj' \in [Session -> {"none", "live", "freed"}]
      /\ input' \in [Session -> {"busy", "idle", "none"}]
      /\ waiting' \in [Session -> BOOLEAN]
      /\ input'[curr] = "none"
      /\ \A t \in Session : input'[t] = input[t] \/ input'[t] = "none"
  <2>1. CASE gBe = Null
    BY <1>0, <1>4, <1>5, <2>1 DEF CloseSession, ObjTypes
  <2>2. CASE gBe # Null
    <3>1. /\ obj' = [obj EXCEPT ![curr] = "freed"]
          /\ input' = [input EXCEPT ![curr] = "none"]
          /\ waiting' = [waiting EXCEPT ![curr] = FALSE]
      BY <1>4, <2>2 DEF CloseSession
    <3>2. QED
      BY <1>0, <1>5, <3>1 DEF ObjTypes
  <2>3. QED
    BY <2>1, <2>2
<1>7. ObjTypes' /\ TermTypes' /\ LoopTypes'
  BY <1>0, <1>2, <1>6 DEF ObjTypes, TermTypes, LoopTypes, Pointer
<1>8. BackendInv'
  BY <1>0, <1>1, <1>2, <1>6 DEF IInv, BackendInv
<1>9. StayInv'
  BY <1>3 DEF StayInv
<1>10. FreshInv'
  BY <1>0, <1>6 DEF IInv, FreshInv
<1>11. ThrottleInv'
  <2> SUFFICES ASSUME conf.no_remote_resize PROVE ThrottleInv'
    BY DEF ThrottleInv
  <2>1. \A t \in Live : t \in Session
    BY DEF Live
  <2>2. QED
    BY <1>0, <1>1, <1>2, <1>6, <2>1 DEF IInv, ThrottleInv
<1>12. QED
  BY <1>1, <1>7, <1>8, <1>9, <1>10, <1>11 DEF IInv

\* Output held back by a resize is dealt with.
\* Code: term_out_cb, which without resize requests is never queued; it restarts
\* the current session's backend, whichever terminal it is for.
LEMMA TermOutCbKeeps ==
  ASSUME IInv, conf' = conf, TermOutCb
  PROVE  IInv'
<1> DEFINE s == Head(cbs).ctx
<1>0. /\ phase = "callback" /\ phase' = "handles" /\ cbs # <<>> /\ cbs' = Tail(cbs)
      /\ Head(cbs).fn = "term_out_cb"
      /\ TabTypes /\ ObjTypes /\ TermTypes /\ LoopTypes
      /\ UNCHANGED <<node, curr, obj, nodeBe, gBe, waiting, exited, dragging, closed, quit>>
  BY DEF TermOutCb, Running, IInv, listVars, objVars
<1>1. TabTypes' /\ TabsInv' /\ Live' = Live
  BY <1>0, SameTabs DEF TermOutCb, objVars
<1>2. /\ Head(cbs) \in Queued /\ Head(cbs) \in Callback
      /\ cbs' \in Seq(Callback) /\ Queued' \subseteq Queued
  BY <1>0, TailFacts DEF LoopTypes, Queued, Elements
<1>3. s \in Session /\ s \in Live
  <2>1. s \in Session /\ s # Null
    BY <1>0, <1>2, SessionAssumption DEF Callback
  <2>2. QED
    BY <1>0, <1>2, <2>1 DEF IInv, BackendInv
<1>4. ~conf.no_remote_resize
  BY <1>0, <1>2 DEF IInv, ThrottleInv
<1>5. inbuf[s] \in Nat
  BY <1>0, <1>3 DEF TermTypes
<1>6. /\ TermOut(s, inbuf[s], dragging[s])
      /\ IF dragging[s] THEN UNCHANGED input ELSE Unthrottle(gBe, inbuf'[s])
  BY DEF TermOutCb
<1> HIDE DEF s
<1>7. /\ inbuf' \in [Session -> Nat] /\ resize' \in [Session -> BOOLEAN]
      /\ \A t \in Session \ {s} : inbuf'[t] = inbuf[t] /\ resize'[t] = resize[t]
  BY <1>0, <1>3, <1>5, <1>6, TermOutFacts
<1>8. inbuf'[s] \in Nat /\ gBe \in Pointer
  BY <1>0, <1>3, <1>7 DEF ObjTypes
<1>9. /\ input' \in [Session -> {"busy", "idle", "none"}]
      /\ \A t \in Session : input[t] # "idle" => input'[t] = input[t]
  <2>1. CASE dragging[s]
    BY <1>0, <1>6, <2>1 DEF ObjTypes
  <2>2. CASE ~dragging[s]
    BY <1>0, <1>6, <1>8, <2>2, UnthrottleFacts
  <2>3. QED
    BY <2>1, <2>2
<1>10. ObjTypes' /\ TermTypes' /\ LoopTypes'
  BY <1>0, <1>2, <1>7, <1>9 DEF ObjTypes, TermTypes, LoopTypes
<1>11. curr \in Session
  BY <1>0 DEF TabTypes
<1>12. BackendInv'
  BY <1>0, <1>1, <1>2, <1>9, <1>11 DEF IInv, BackendInv
<1>13. StayInv'
  BY <1>0, <1>1, <1>2 DEF IInv, StayInv
<1>14. FreshInv'
  BY <1>0, <1>3, <1>7, <1>9 DEF IInv, FreshInv, Live
<1>15. ThrottleInv'
  BY <1>4 DEF ThrottleInv
<1>16. QED
  BY <1>1, <1>10, <1>12, <1>13, <1>14, <1>15 DEF IInv

-----------------------------------------------------------------------------
(* Window messages that change the current session *)

\* The list, tab by tab.
Chain(n) ==
  /\ n \in Nat /\ n = Len(items) /\ DOMAIN items = 1 .. n /\ sel \in 1 .. n
  /\ \A i \in 1 .. n : items[i] \in Live /\ items[i] \in Session /\ items[i] # Null
  /\ \A s \in Live : \E i \in 1 .. n : s = items[i]
  /\ \A i, j \in 1 .. n : items[i] = items[j] => i = j
  /\ count = n /\ head = items[1] /\ tail = items[n] /\ curr = items[sel]
  /\ showing = {curr} /\ gTerm = curr
  /\ \A i \in 1 .. n : /\ nxt[items[i]] = IF i = n THEN Null ELSE items[i + 1]
                       /\ prv[items[i]] = IF i = 1 THEN Null ELSE items[i - 1]

\* The invariant says so.
\* Code: PuTTY_NewSession, PuTTY_RemoveSession.
LEMMA ChainOfTabs ==
  ASSUME TabTypes, TabsInv, phase # "ended"
  PROVE  \E n : Chain(n)
<1>1. PICK n \in Nat : n = Len(items) /\ DOMAIN items = 1 .. n
  BY DEF TabTypes
<1>2. ListMatchesTabs /\ items[sel] = curr /\ showing = {curr} /\ gTerm = curr
  BY DEF TabsInv
<1>3. \A i \in 1 .. n : items[i] \in Live /\ items[i] \in Session /\ items[i] # Null
  BY <1>1, <1>2, SessionAssumption DEF ListMatchesTabs, TabTypes
<1>4. \A s \in Live : \E i \in 1 .. n : s = items[i]
  BY <1>1, <1>2 DEF ListMatchesTabs
<1>5. sel \in 1 .. n
  BY <1>1 DEF TabTypes
<1>6. /\ \A i, j \in 1 .. n : items[i] = items[j] => i = j
      /\ count = n /\ head = items[1] /\ tail = items[n]
  BY <1>1, <1>2 DEF ListMatchesTabs
<1>7. \A i \in 1 .. n : /\ nxt[items[i]] = IF i = n THEN Null ELSE items[i + 1]
                       /\ prv[items[i]] = IF i = 1 THEN Null ELSE items[i - 1]
  BY <1>1, <1>2 DEF ListMatchesTabs
<1>8. Chain(n)
  BY <1>1, <1>2, <1>3, <1>4, <1>5, <1>6, <1>7 DEF Chain
<1>9. QED
  BY <1>8

\* And after a step, that is all it says about the tabs.
\* Code: PuTTY_NewSession, PuTTY_RemoveSession, PuTTY_SwitchSession.
LEMMA TabsOfChain ==
  ASSUME NEW n, Chain(n)', phase' # "ended",
         \A s \in Session : node'[s] = "none" => nxt'[s] = Null
  PROVE  TabsInv'
<1>1. {items'[i] : i \in DOMAIN items'} = Live'
  BY DEF Chain
<1>2. ListMatchesTabs'
  BY <1>1 DEF ListMatchesTabs, Chain
<1>3. QED
  BY <1>2 DEF TabsInv, Chain

\* A click on a tab.
\* Code: PuTTY_SwitchSession, SetCurSel.
LEMMA SwitchSessionKeeps ==
  ASSUME IInv, conf' = conf, NEW k \in DOMAIN items, SwitchSession(k)
  PROVE  IInv'
<1> DEFINE s == items[k]
<1>0. /\ phase = "message" /\ phase' = "callback"
      /\ TabTypes /\ ObjTypes /\ TermTypes /\ LoopTypes
      /\ curr' = s /\ gTerm' = s /\ gBe' = BackendOf(s) /\ sel' = k
      /\ showing' = (showing \ {gTerm}) \cup {s} /\ UpdateTerm(s, cbs)
      /\ UNCHANGED <<node, nxt, prv, head, tail, count, items, obj, nodeBe,
                     input, waiting, exited, inbuf, dragging, closed, quit>>
  BY DEF SwitchSession, IInv, ptyVars
<1>1. PICK n : Chain(n)
  BY <1>0, ChainOfTabs DEF IInv
<1>2. k \in 1 .. n /\ s \in Live /\ s \in Session /\ s # Null
  BY <1>1 DEF Chain
<1>3. Live' = Live
  BY <1>0 DEF Live
<1>4. gBe' = s
  BY <1>0, <1>2 DEF IInv, BackendInv, BackendOf
<1> HIDE DEF s
<1>5. showing' = {s}
  BY <1>0, <1>1 DEF Chain
<1>6. TabTypes'
  BY <1>0, <1>2, <1>5 DEF TabTypes
<1>7. Chain(n)'
  <2>1. sel' \in 1 .. n /\ curr' = items'[sel'] /\ showing' = {curr'} /\ gTerm' = curr'
    BY <1>0, <1>2, <1>5 DEF s
  <2>2. UNCHANGED <<nxt, prv, head, tail, count, items>>
    BY <1>0
  <2>3. /\ n \in Nat /\ n = Len(items') /\ DOMAIN items' = 1 .. n
        /\ count' = n /\ head' = items'[1] /\ tail' = items'[n]
        /\ \A i, j \in 1 .. n : items'[i] = items'[j] => i = j
    BY <1>1, <2>2 DEF Chain
  <2>4. /\ \A i \in 1 .. n : items'[i] \in Live' /\ items'[i] \in Session /\ items'[i] # Null
        /\ \A t \in Live' : \E i \in 1 .. n : t = items'[i]
    BY <1>1, <1>3, <2>2 DEF Chain
  <2>5. \A i \in 1 .. n : /\ nxt'[items'[i]] = IF i = n THEN Null ELSE items'[i + 1]
                         /\ prv'[items'[i]] = IF i = 1 THEN Null ELSE items'[i - 1]
    BY <1>1, <2>2 DEF Chain
  <2>6. QED
    BY <2>1, <2>3, <2>4, <2>5 DEF Chain
<1>8. TabsInv'
  <2>1. \A t \in Session : node'[t] = "none" => nxt'[t] = Null
    BY <1>0 DEF IInv, TabsInv
  <2>2. phase' # "ended"
    BY <1>0
  <2>3. QED
    BY <1>7, <2>1, <2>2, TabsOfChain
<1>9. /\ resize' \in [Session -> BOOLEAN]
      /\ \A t \in Session : resize'[t] => resize[t]
      /\ cbs' \in Seq(Callback)
      /\ \A c \in Queued' : c \in Queued \/ (c.fn = "term_out_cb" /\ c.ctx = s)
      /\ ~resize[s] => cbs' = cbs
  BY <1>0, <1>2, UpdateTermFacts DEF LoopTypes, Queued
<1>10. ObjTypes' /\ TermTypes' /\ LoopTypes'
  BY <1>0, <1>2, <1>4, <1>9 DEF ObjTypes, TermTypes, LoopTypes, Pointer
<1>11. BackendInv' /\ StayInv'
  BY <1>0, <1>2, <1>3, <1>4, <1>9 DEF IInv, BackendInv, StayInv
<1>12. FreshInv'
  BY <1>0, <1>9 DEF IInv, FreshInv
<1>13. ThrottleInv'
  <2> SUFFICES ASSUME conf.no_remote_resize PROVE ThrottleInv'
    BY <1>0 DEF ThrottleInv
  <2>1. ~resize[s]
    BY <1>0, <1>2 DEF IInv, ThrottleInv
  <2>2. Queued' = Queued
    BY <1>9, <2>1 DEF Queued, Elements
  <2>3. QED
    BY <1>0, <1>3, <1>9, <2>2 DEF IInv, ThrottleInv
<1>14. QED
  BY <1>6, <1>8, <1>10, <1>11, <1>12, <1>13 DEF IInv

\* A session is made and its tab added.
\* Code: DoNewSession, PuTTY_NewSession, start_backend.
LEMMA NewSessionKeeps ==
  ASSUME IInv, conf' = conf, NEW s \in Session, NewSession(s)
  PROVE  IInv'
<1>0. /\ phase = "message" /\ phase' = "callback" /\ node[s] = "none"
      /\ TabTypes /\ ObjTypes /\ TermTypes /\ LoopTypes
      /\ node' = [node EXCEPT ![s] = "live"]
      /\ nxt' = [nxt EXCEPT ![tail] = s] /\ prv' = [prv EXCEPT ![s] = tail]
      /\ tail' = s /\ curr' = s /\ count' = count + 1 /\ head' = head
      /\ obj' = [obj EXCEPT ![s] = "live"]
      /\ nodeBe' = [nodeBe EXCEPT ![s] = TRUE]
      /\ gTerm' = s /\ gBe' = s /\ closed' = FALSE
      /\ showing' = (showing \ {gTerm}) \cup {s}
      /\ input' = [input EXCEPT ![s] = "busy"]
      /\ waiting' = [waiting EXCEPT ![s] = TRUE]
      /\ items' = Append(items, s) /\ sel' = Len(items) + 1
      /\ UNCHANGED <<exited, inbuf, dragging, resize, cbs, quit>>
  BY DEF NewSession, IInv, termVars
<1>1. PICK n : Chain(n)
  BY <1>0, ChainOfTabs DEF IInv
<1>2. n \in Nat /\ n >= 1 /\ n = Len(items) /\ DOMAIN items = 1 .. n
  BY <1>1 DEF Chain
<1>3. s \notin Live /\ s # Null /\ Live' = Live \cup {s}
  BY <1>0, SessionAssumption DEF Live, TabTypes
<1>4. /\ items' \in Seq(Session) /\ Len(items') = n + 1 /\ DOMAIN items' = 1 .. n + 1
      /\ items'[n + 1] = s /\ \A i \in 1 .. n : items'[i] = items[i]
  BY <1>0, <1>2 DEF TabTypes
<1>5. showing' = {s} /\ sel' = n + 1
  BY <1>0, <1>1, <1>2 DEF Chain
<1>6. TabTypes'
  <2>1. sel' \in 1 .. Len(items')
    BY <1>2, <1>4, <1>5
  <2>2. node' \in [Session -> {"none", "live", "freed"}]
    BY <1>0 DEF TabTypes
  <2>3. nxt' \in [Session -> Pointer] /\ prv' \in [Session -> Pointer]
    BY <1>0 DEF TabTypes, Pointer
  <2>4. QED
    BY <1>0, <1>4, <1>5, <2>1, <2>2, <2>3 DEF TabTypes
<1>7. \A i \in 1 .. n : items[i] # s
  BY <1>1, <1>3 DEF Chain
<1>8. tail \in Session /\ tail # s /\ tail = items[n] /\ nxt[s] = Null
  BY <1>0, <1>1, <1>2, <1>7 DEF TabTypes, Chain, IInv, TabsInv
<1>9. Chain(n + 1)'
  <2>1. \A i \in 1 .. n + 1 : items'[i] \in Live' /\ items'[i] \in Session /\ items'[i] # Null
    BY <1>1, <1>2, <1>3, <1>4 DEF Chain
  <2>2. \A t \in Live' : \E i \in 1 .. n + 1 : t = items'[i]
    BY <1>1, <1>2, <1>3, <1>4 DEF Chain
  <2>3. \A i, j \in 1 .. n + 1 : items'[i] = items'[j] => i = j
    <3>1. \A i, j \in 1 .. n : items[i] = items[j] => i = j
      BY <1>1 DEF Chain
    <3>2. \A i \in 1 .. n + 1 : i \in 1 .. n \/ i = n + 1
      BY <1>2
    <3>3. QED
      BY <1>4, <1>7, <3>1, <3>2
  <2>4. head' = items'[1] /\ tail' = items'[n + 1] /\ curr' = items'[sel'] /\ count' = n + 1
    BY <1>0, <1>1, <1>2, <1>4, <1>5 DEF Chain
  <2>5. ASSUME NEW i \in 1 .. n + 1
        PROVE  nxt'[items'[i]] = IF i = n + 1 THEN Null ELSE items'[i + 1]
    <3>1. CASE i = n + 1
      BY <1>0, <1>4, <1>8, <3>1 DEF TabTypes
    <3>2. CASE i = n
      <4>1. items'[i] = tail /\ items'[i + 1] = s
        BY <1>2, <1>4, <1>8, <3>2
      <4>2. QED
        BY <1>0, <1>2, <1>8, <3>2, <4>1 DEF TabTypes
    <3>3. CASE i \in 1 .. n /\ i # n
      <4>1. /\ i + 1 \in 1 .. n /\ items'[i] = items[i] /\ items'[i + 1] = items[i + 1]
            /\ items[i] # tail /\ items[i] \in Session /\ nxt[items[i]] = items[i + 1]
        BY <1>1, <1>2, <1>4, <1>8, <3>3 DEF Chain
      <4>2. QED
        BY <1>0, <1>2, <3>3, <4>1 DEF TabTypes
    <3>4. QED
      BY <1>2, <3>1, <3>2, <3>3
  <2>6. ASSUME NEW i \in 1 .. n + 1
        PROVE  prv'[items'[i]] = IF i = 1 THEN Null ELSE items'[i - 1]
    <3>1. CASE i = n + 1
      <4>1. items'[i] = s /\ i # 1 /\ items'[i - 1] = tail
        BY <1>2, <1>4, <1>8, <3>1
      <4>2. QED
        BY <1>0, <4>1 DEF TabTypes
    <3>2. CASE i \in 1 .. n
      <4>1. /\ items'[i] = items[i] /\ (i # 1 => items'[i - 1] = items[i - 1])
            /\ items[i] # s /\ items[i] \in Session
            /\ prv[items[i]] = IF i = 1 THEN Null ELSE items[i - 1]
        BY <1>1, <1>2, <1>4, <1>7, <3>2 DEF Chain
      <4>2. QED
        BY <1>0, <4>1 DEF TabTypes
    <3>3. QED
      BY <1>2, <3>1, <3>2
  <2>7. /\ n + 1 \in Nat /\ n + 1 = Len(items') /\ DOMAIN items' = 1 .. n + 1
        /\ sel' \in 1 .. n + 1 /\ showing' = {curr'} /\ gTerm' = curr'
    BY <1>0, <1>2, <1>4, <1>5
  <2>8. QED
    BY <2>1, <2>2, <2>3, <2>4, <2>5, <2>6, <2>7 DEF Chain
<1>10. TabsInv'
  <2>1. \A t \in Session : node'[t] = "none" => nxt'[t] = Null
    <3> SUFFICES ASSUME NEW t \in Session, node'[t] = "none" PROVE nxt'[t] = Null
      OBVIOUS
    <3>1. node[t] = "none"
      BY <1>0 DEF TabTypes
    <3>2. t # tail
      BY <1>1, <1>2, <1>8, <3>1 DEF Chain, Live
    <3>3. QED
      BY <1>0, <3>1, <3>2 DEF TabTypes, IInv, TabsInv
  <2>2. phase' # "ended"
    BY <1>0
  <2>3. QED
    BY <1>9, <2>1, <2>2, TabsOfChain
<1>11. Queued' = Queued
  BY <1>0 DEF Queued, Elements
<1>12. ObjTypes'
  BY <1>0 DEF ObjTypes, Pointer
<1>13. TermTypes' /\ LoopTypes'
  BY <1>0 DEF TermTypes, LoopTypes
<1>14. BackendInv'
  <2>1. \A t \in Live' : nodeBe'[t]
    BY <1>0, <1>3 DEF IInv, BackendInv, ObjTypes, Live
  <2>2. \A c \in Queued' : c.ctx # Null => c.ctx \in Live'
    BY <1>0, <1>3, <1>11 DEF IInv, BackendInv
  <2>3. QED
    BY <1>0, <1>3, <2>1, <2>2 DEF BackendInv
<1>15. StayInv'
  <2> SUFFICES ASSUME conf.close_on_exit # "FORCE_OFF" PROVE StayInv'
    BY <1>0 DEF StayInv
  <2>1. \A t \in Live' : obj'[t] = "live"
    BY <1>0, <1>3 DEF IInv, StayInv, ObjTypes, Live
  <2>2. QED
    BY <1>0, <1>11, <2>1 DEF IInv, StayInv
<1>16. FreshInv'
  BY <1>0 DEF IInv, FreshInv, TabTypes, ObjTypes
<1>17. ThrottleInv'
  <2> SUFFICES ASSUME conf.no_remote_resize PROVE ThrottleInv'
    BY <1>0 DEF ThrottleInv
  <2>1. inbuf[s] = 0 /\ 0 < MaxBacklog /\ input'[s] = "busy"
    BY <1>0, LimitAssumption DEF IInv, FreshInv, ObjTypes
  <2>2. \A t \in Live : input'[t] = input[t]
    BY <1>0, <1>3 DEF ObjTypes, Live
  <2>3. QED
    BY <1>0, <1>3, <1>11, <2>1, <2>2, LimitAssumption DEF IInv, ThrottleInv
<1>18. QED
  BY <1>6, <1>10, <1>12, <1>13, <1>14, <1>15, <1>16, <1>17 DEF IInv

\* Unlinking the k-th of n sessions and deleting its tab leaves the others in order;
\* the list's choice of the next session and the tab control's agree.
\* Code: PuTTY_RemoveSession, XTabCtl's DeleteItem.
LEMMA RemovalKeepsChain ==
  ASSUME TabTypes, NEW n, Chain(n), n > 1, NEW s, s = items[sel],
         Unlink(s), DeleteItem(sel), count' = count - 1,
         Live' = Live \ {s},
         curr' = Neighbour(s), gTerm' = curr', showing' = (showing \ {gTerm}) \cup {curr'}
  PROVE  /\ Chain(n - 1)' /\ items' \in Seq(Session)
         /\ nxt' \in [Session -> Pointer] /\ prv' \in [Session -> Pointer]
         /\ \A t \in Session \ Live : nxt'[t] = nxt[t]
         /\ curr' \in Live /\ curr' # s
<1> DEFINE k == sel
           m == n - 1
<1>1. /\ k \in 1 .. n /\ n \in Nat /\ m \in Nat /\ m >= 1 /\ m + 1 = n
      /\ DOMAIN items = 1 .. n /\ Len(items) = n
  BY DEF Chain
<1>2. /\ \A i \in 1 .. n : items[i] \in Live /\ items[i] \in Session /\ items[i] # Null
      /\ \A i, j \in 1 .. n : items[i] = items[j] => i = j
      /\ \A i \in 1 .. n : /\ nxt[items[i]] = IF i = n THEN Null ELSE items[i + 1]
                           /\ prv[items[i]] = IF i = 1 THEN Null ELSE items[i - 1]
  BY DEF Chain
<1>3. s = items[k] /\ s \in Live /\ s \in Session /\ s # Null
  BY <1>1, <1>2
<1>4. /\ nxt[s] = IF k = n THEN Null ELSE items[k + 1]
      /\ prv[s] = IF k = 1 THEN Null ELSE items[k - 1]
      /\ (nxt[s] = Null) <=> (k = n)
      /\ (prv[s] = Null) <=> (k = 1)
  <2>1. k # n => k + 1 \in 1 .. n
    BY <1>1
  <2>2. k # 1 => k - 1 \in 1 .. n
    BY <1>1
  <2>3. QED
    BY <1>1, <1>2, <1>3, <2>1, <2>2
<1>5. /\ items' = [j \in 1 .. m |-> IF j < k THEN items[j] ELSE items[j + 1]]
      /\ sel' = IF k = n THEN k - 1 ELSE k
  BY <1>1 DEF DeleteItem
<1> HIDE DEF k, m
<1>6. /\ items' \in Seq(Session) /\ Len(items') = m /\ DOMAIN items' = 1 .. m
      /\ sel' \in 1 .. m
  <2>1. \A j \in 1 .. m : (IF j < k THEN items[j] ELSE items[j + 1]) \in Session
    BY <1>1, <1>2
  <2>2. QED
    BY <1>1, <1>5, <2>1
<1>7. \A j \in 1 .. m : items'[j] = IF j < k THEN items[j] ELSE items[j + 1]
  BY <1>5
<1>8. /\ \A j \in 1 .. m : items'[j] \in Live' /\ items'[j] \in Session /\ items'[j] # Null
      /\ \A i, j \in 1 .. m : items'[i] = items'[j] => i = j
  <2> DEFINE from(j) == IF j < k THEN j ELSE j + 1
  <2>1. \A j \in 1 .. m : from(j) \in 1 .. n /\ from(j) # k /\ items'[j] = items[from(j)]
    BY <1>1, <1>7
  <2>2. \A i, j \in 1 .. m : from(i) = from(j) => i = j
    BY <1>1
  <2> HIDE DEF from
  <2>3. \A j \in 1 .. m : items'[j] \in Live /\ items'[j] \in Session /\ items'[j] # Null
    BY <1>2, <2>1
  <2>4. \A j \in 1 .. m : items'[j] # s
    BY <1>1, <1>2, <1>3, <2>1
  <2>5. \A i, j \in 1 .. m : items'[i] = items'[j] => i = j
    BY <1>2, <2>1, <2>2
  <2>6. QED
    BY <2>3, <2>4, <2>5
<1>9. \A t \in Live' : \E j \in 1 .. m : t = items'[j]
  <2> SUFFICES ASSUME NEW t \in Live' PROVE \E j \in 1 .. m : t = items'[j]
    OBVIOUS
  <2>1. PICK i \in 1 .. n : t = items[i]
    BY DEF Chain
  <2>2. i # k
    BY <1>3, <2>1
  <2>3. CASE i < k
    <3>1. i \in 1 .. m
      BY <1>1, <2>3
    <3>2. QED
      BY <1>7, <2>1, <2>3, <3>1
  <2>4. CASE i > k
    <3>1. i - 1 \in 1 .. m /\ ~(i - 1 < k) /\ (i - 1) + 1 = i
      BY <1>1, <2>4
    <3>2. QED
      BY <1>7, <2>1, <3>1
  <2>5. QED
    BY <1>1, <2>2, <2>3, <2>4
<1>10. /\ curr' = (IF k = n THEN items[n - 1] ELSE items[k + 1])
       /\ curr' = items'[sel'] /\ curr' \in Live /\ curr' # s
  <2>1. CASE k = n
    <3>1. /\ n - 1 \in 1 .. n /\ n - 1 \in 1 .. m /\ n - 1 < k /\ k # 1
      BY <1>1, <2>1
    <3>2. curr' = items[n - 1] /\ sel' = n - 1
      BY <1>4, <1>5, <2>1, <3>1 DEF Neighbour
    <3>3. QED
      BY <1>1, <1>2, <1>3, <1>7, <2>1, <3>1, <3>2
  <2>2. CASE k # n
    <3>1. k + 1 \in 1 .. n /\ k \in 1 .. m /\ ~(k < k) /\ k + 1 # k
      BY <1>1, <2>2
    <3>2. curr' = items[k + 1] /\ sel' = k
      BY <1>4, <1>5, <2>2, <3>1 DEF Neighbour
    <3>3. QED
      BY <1>1, <1>2, <1>3, <1>7, <2>2, <3>1, <3>2
  <2>3. QED
    BY <2>1, <2>2
<1>11. showing' = {curr'} /\ gTerm' = curr' /\ count' = m
  BY <1>1 DEF Chain, m
<1>12. /\ nxt \in [Session -> Pointer] /\ prv \in [Session -> Pointer]
       /\ head = items[1] /\ tail = items[n]
  BY DEF TabTypes, Chain
\* The three cases of the list surgery.
<1>13. /\ nxt' \in [Session -> Pointer] /\ prv' \in [Session -> Pointer]
       /\ \A t \in Session \ Live : nxt'[t] = nxt[t]
       /\ head' = items'[1] /\ tail' = items'[m]
       /\ \A j \in 1 .. m : /\ nxt'[items'[j]] = IF j = m THEN Null ELSE items'[j + 1]
                            /\ prv'[items'[j]] = IF j = 1 THEN Null ELSE items'[j - 1]
  <2>1. CASE k # n /\ k # 1
    <3>1. /\ k - 1 \in 1 .. n /\ k + 1 \in 1 .. n
          /\ nxt' = [nxt EXCEPT ![items[k - 1]] = items[k + 1]]
          /\ prv' = [prv EXCEPT ![items[k + 1]] = items[k - 1]]
          /\ head' = head /\ tail' = tail
      BY <1>1, <1>4, <2>1 DEF Unlink
    <3>2. /\ items[k - 1] \in Live /\ items[k - 1] \in Session
          /\ items[k + 1] \in Live /\ items[k + 1] \in Session
      BY <1>2, <3>1
    <3>3. /\ nxt' \in [Session -> Pointer] /\ prv' \in [Session -> Pointer]
          /\ \A t \in Session \ Live : nxt'[t] = nxt[t]
      BY <1>12, <3>1, <3>2 DEF Pointer
    <3>4. head' = items'[1] /\ tail' = items'[m]
      BY <1>1, <1>7, <1>12, <2>1, <3>1
    <3>5. ASSUME NEW j \in 1 .. m
          PROVE  nxt'[items'[j]] = IF j = m THEN Null ELSE items'[j + 1]
      <4>1. CASE j < k - 1
        <5>1. /\ j \in 1 .. n /\ j + 1 \in 1 .. m /\ j # m /\ j # n /\ j < k /\ j + 1 < k
              /\ j # k - 1
          BY <1>1, <2>1, <4>1
        <5>2. items'[j] = items[j] /\ items'[j + 1] = items[j + 1] /\ items[j] # items[k - 1]
          BY <1>2, <1>7, <3>1, <5>1
        <5>3. QED
          BY <1>2, <1>12, <3>1, <3>2, <5>1, <5>2
      <4>2. CASE j = k - 1
        <5>1. j < k /\ j + 1 = k /\ k \in 1 .. m /\ j # m
          BY <1>1, <2>1, <4>2
        <5>2. items'[j] = items[k - 1] /\ items'[j + 1] = items[k + 1]
          BY <1>7, <4>2, <5>1
        <5>3. QED
          BY <1>12, <3>1, <3>2, <5>1, <5>2
      <4>3. CASE j >= k
        <5>1. /\ j + 1 \in 1 .. n /\ ~(j < k) /\ ~(j + 1 < k) /\ j + 1 # k - 1
              /\ (j + 1 = n) <=> (j = m)
              /\ j # m => j + 1 \in 1 .. m
          BY <1>1, <4>3
        <5>2. /\ items'[j] = items[j + 1] /\ (j # m => items'[j + 1] = items[(j + 1) + 1])
              /\ items[j + 1] # items[k - 1]
          BY <1>2, <1>7, <3>1, <5>1
        <5>3. QED
          BY <1>2, <1>12, <3>1, <3>2, <5>1, <5>2
      <4>4. QED
        BY <1>1, <4>1, <4>2, <4>3
    <3>6. ASSUME NEW j \in 1 .. m
          PROVE  prv'[items'[j]] = IF j = 1 THEN Null ELSE items'[j - 1]
      <4>1. CASE j < k
        <5>1. /\ j \in 1 .. n /\ j # k + 1 /\ (j # 1 => j - 1 \in 1 .. m /\ j - 1 < k)
          BY <1>1, <4>1
        <5>2. /\ items'[j] = items[j] /\ (j # 1 => items'[j - 1] = items[j - 1])
              /\ items[j] # items[k + 1]
          BY <1>2, <1>7, <3>1, <4>1, <5>1
        <5>3. QED
          BY <1>2, <1>12, <3>1, <3>2, <5>1, <5>2
      <4>2. CASE j = k
        <5>1. j # 1 /\ ~(j < k) /\ j - 1 \in 1 .. m /\ j - 1 < k
          BY <1>1, <2>1, <4>2
        <5>2. items'[j] = items[k + 1] /\ items'[j - 1] = items[k - 1]
          BY <1>7, <4>2, <5>1
        <5>3. QED
          BY <1>12, <3>1, <3>2, <5>1, <5>2
      <4>3. CASE j > k
        <5>1. /\ j + 1 \in 1 .. n /\ ~(j < k) /\ ~(j - 1 < k) /\ j # 1 /\ j + 1 # 1
              /\ j - 1 \in 1 .. m /\ (j - 1) + 1 = j /\ (j + 1) - 1 = j /\ j + 1 # k + 1
          BY <1>1, <4>3
        <5>2. /\ items'[j] = items[j + 1] /\ items'[j - 1] = items[j]
              /\ items[j + 1] # items[k + 1]
          BY <1>2, <1>7, <3>1, <5>1
        <5>3. QED
          BY <1>2, <1>12, <3>1, <3>2, <5>1, <5>2
      <4>4. QED
        BY <1>1, <4>1, <4>2, <4>3
    <3>7. QED
      BY <3>3, <3>4, <3>5, <3>6
  <2>2. CASE k # n /\ k = 1
    <3>1. /\ 2 \in 1 .. n /\ nxt' = nxt
          /\ prv' = [prv EXCEPT ![items[2]] = Null]
          /\ head' = items[2] /\ tail' = tail
      BY <1>1, <1>4, <2>2 DEF Unlink
    <3>2. items[2] \in Session
      BY <1>2, <3>1
    <3>3. /\ nxt' \in [Session -> Pointer] /\ prv' \in [Session -> Pointer]
          /\ \A t \in Session \ Live : nxt'[t] = nxt[t]
      BY <1>12, <3>1 DEF Pointer
    <3>4. \A j \in 1 .. m : items'[j] = items[j + 1] /\ j + 1 \in 1 .. n
      BY <1>1, <1>7, <2>2
    <3>5. head' = items'[1] /\ tail' = items'[m]
      BY <1>1, <1>12, <3>1, <3>4
    <3>6. ASSUME NEW j \in 1 .. m
          PROVE  nxt'[items'[j]] = IF j = m THEN Null ELSE items'[j + 1]
      <4>1. /\ j + 1 \in 1 .. n /\ ((j + 1 = n) <=> (j = m)) /\ (j # m => j + 1 \in 1 .. m)
        BY <1>1
      <4>2. QED
        BY <1>2, <3>1, <3>4, <4>1
    <3>7. ASSUME NEW j \in 1 .. m
          PROVE  prv'[items'[j]] = IF j = 1 THEN Null ELSE items'[j - 1]
      <4>1. CASE j = 1
        BY <1>12, <3>1, <3>2, <3>4, <4>1
      <4>2. CASE j # 1
        <5>1. /\ j + 1 \in 1 .. n /\ j + 1 # 1 /\ j + 1 # 2 /\ (j + 1) - 1 = j
              /\ j - 1 \in 1 .. m /\ (j - 1) + 1 = j
          BY <1>1, <4>2
        <5>2. /\ items'[j] = items[j + 1] /\ items'[j - 1] = items[j]
              /\ items[j + 1] # items[2] /\ items[j + 1] \in Session
          BY <1>2, <3>1, <3>4, <5>1
        <5>3. QED
          BY <1>2, <1>12, <3>1, <3>2, <4>2, <5>1, <5>2
      <4>3. QED
        BY <4>1, <4>2
    <3>8. QED
      BY <3>3, <3>5, <3>6, <3>7
  <2>3. CASE k = n
    <3>1. /\ k # 1 /\ m \in 1 .. n /\ m # n
          /\ nxt' = [nxt EXCEPT ![items[m]] = Null] /\ prv' = prv
          /\ head' = head /\ tail' = items[m]
      BY <1>1, <1>4, <2>3 DEF Unlink, m
    <3>2. items[m] \in Session /\ items[m] \in Live
      BY <1>2, <3>1
    <3>3. /\ nxt' \in [Session -> Pointer] /\ prv' \in [Session -> Pointer]
          /\ \A t \in Session \ Live : nxt'[t] = nxt[t]
      BY <1>12, <3>1, <3>2 DEF Pointer
    <3>4. \A j \in 1 .. m : items'[j] = items[j] /\ j \in 1 .. n /\ j # n
      BY <1>1, <1>7, <2>3
    <3>5. head' = items'[1] /\ tail' = items'[m]
      BY <1>1, <1>12, <3>1, <3>4
    <3>6. ASSUME NEW j \in 1 .. m
          PROVE  nxt'[items'[j]] = IF j = m THEN Null ELSE items'[j + 1]
      <4>1. CASE j = m
        BY <1>12, <3>1, <3>2, <3>4, <4>1
      <4>2. CASE j # m
        <5>1. j \in 1 .. n /\ j # n /\ j + 1 \in 1 .. m
          BY <1>1, <4>2
        <5>2. items[j] # items[m] /\ items[j] \in Session /\ items'[j + 1] = items[j + 1]
          BY <1>2, <3>1, <3>4, <4>2, <5>1
        <5>3. QED
          BY <1>2, <1>12, <3>1, <3>2, <3>4, <4>2, <5>1, <5>2
      <4>3. QED
        BY <4>1, <4>2
    <3>7. ASSUME NEW j \in 1 .. m
          PROVE  prv'[items'[j]] = IF j = 1 THEN Null ELSE items'[j - 1]
      <4>1. j \in 1 .. n /\ (j # 1 => j - 1 \in 1 .. m)
        BY <1>1
      <4>2. QED
        BY <1>2, <3>1, <3>4, <4>1
    <3>8. QED
      BY <3>3, <3>5, <3>6, <3>7
  <2>4. QED
    BY <2>1, <2>2, <2>3
<1>14. Chain(m)'
  BY <1>1, <1>6, <1>8, <1>9, <1>10, <1>11, <1>13 DEF Chain
<1>15. QED
  BY <1>6, <1>10, <1>13, <1>14 DEF m

\* The session of the selected tab is freed and its neighbour is shown.
\* Code: PuTTY_RemoveSession, free_term_list, term_free.
LEMMA RemoveSessionKeeps ==
  ASSUME IInv, conf' = conf, RemoveSession
  PROVE  IInv'
<1> DEFINE s == items[sel]
           new == Neighbour(s)
           rest == WithoutContext(cbs, s)
<1>0. /\ phase = "message" /\ phase' = "callback" /\ Len(items) > 1
      /\ TabTypes /\ ObjTypes /\ TermTypes /\ LoopTypes
      /\ Unlink(s) /\ FreeTermList(s) /\ nodeBe' = [nodeBe EXCEPT ![s] = FALSE]
      /\ curr' = new /\ gTerm' = new /\ gBe' = BackendOf(new)
      /\ showing' = (showing \ {gTerm}) \cup {new} /\ UpdateTerm(new, rest)
      /\ count' = count - 1 /\ DeleteItem(sel)
      /\ UNCHANGED <<exited, inbuf, dragging, closed, quit>>
  BY DEF RemoveSession, IInv
<1>1. PICK n : Chain(n)
  BY <1>0, ChainOfTabs DEF IInv
<1>2. n > 1 /\ s \in Live /\ s \in Session /\ s # Null
  BY <1>0, <1>1 DEF Chain
<1>3. /\ rest \in Seq(Callback)
      /\ \A c \in Elements(rest) : c \in Queued /\ c.ctx # s
  <2>1. cbs \in Seq(Callback)
    BY <1>0 DEF LoopTypes
  <2>2. /\ rest \in Seq(Callback)
        /\ \A j \in DOMAIN rest : \E i \in DOMAIN cbs : rest[j] = cbs[i] /\ cbs[i].ctx # s
    BY <2>1, WithoutContextKeeps
  <2> HIDE DEF rest
  <2>3. QED
    BY <2>2 DEF Elements, Queued
<1> HIDE DEF s, rest
<1>4. /\ node' = [node EXCEPT ![s] = "freed"]
      /\ obj' = [obj EXCEPT ![s] = "freed"]
      /\ input' = [input EXCEPT ![s] = "none"]
      /\ waiting' = [waiting EXCEPT ![s] = FALSE]
  BY <1>0, <1>2 DEF IInv, BackendInv, FreeTermList
<1>5. Live' = Live \ {s}
  BY <1>0, <1>2, <1>4 DEF Live, TabTypes
<1>6. /\ Chain(n - 1)' /\ items' \in Seq(Session)
      /\ nxt' \in [Session -> Pointer] /\ prv' \in [Session -> Pointer]
      /\ \A t \in Session \ Live : nxt'[t] = nxt[t]
      /\ new \in Live /\ new # s
  BY <1>0, <1>1, <1>2, <1>5, RemovalKeepsChain DEF s
<1>7. new \in Session /\ new # Null /\ gBe' = new
  BY <1>0, <1>6, SessionAssumption DEF IInv, BackendInv, BackendOf, Live
<1> HIDE DEF new
<1>8. TabTypes'
  <2>1. /\ head' \in Session /\ tail' \in Session /\ curr' \in Session
        /\ count' \in Nat /\ sel' \in 1 .. Len(items')
        /\ gTerm' \in Session /\ showing' \subseteq Session
    BY <1>6 DEF Chain
  <2>2. node' \in [Session -> {"none", "live", "freed"}]
    BY <1>0, <1>4 DEF TabTypes
  <2>3. QED
    BY <1>6, <2>1, <2>2 DEF TabTypes
<1>9. TabsInv'
  <2>1. \A t \in Session : node'[t] = "none" => nxt'[t] = Null
    <3> SUFFICES ASSUME NEW t \in Session, node'[t] = "none" PROVE nxt'[t] = Null
      OBVIOUS
    <3>1. node[t] = "none"
      BY <1>0, <1>2, <1>4 DEF TabTypes
    <3>2. QED
      BY <1>6, <3>1 DEF IInv, TabsInv, Live
  <2>2. phase' # "ended"
    BY <1>0
  <2>3. QED
    BY <1>6, <2>1, <2>2, TabsOfChain
<1>10. /\ resize' \in [Session -> BOOLEAN]
       /\ \A t \in Session : resize'[t] => resize[t]
       /\ cbs' \in Seq(Callback)
       /\ \A c \in Queued' : c \in Elements(rest) \/ (c.fn = "term_out_cb" /\ c.ctx = new)
       /\ ~resize[new] => cbs' = rest
  BY <1>0, <1>3, <1>7, UpdateTermFacts
<1>11. ObjTypes'
  BY <1>0, <1>4, <1>7 DEF ObjTypes, Pointer
<1>12. TermTypes' /\ LoopTypes'
  BY <1>0, <1>10 DEF TermTypes, LoopTypes
<1>13. BackendInv'
  <2>1. \A t \in Live' : nodeBe'[t]
    BY <1>0, <1>5 DEF IInv, BackendInv, ObjTypes, Live
  <2>2. \A c \in Queued' : c.ctx # Null => c.ctx \in Live'
    BY <1>0, <1>3, <1>5, <1>6, <1>10 DEF IInv, BackendInv
  <2>3. QED
    BY <1>0, <1>7, <2>1, <2>2 DEF BackendInv
<1>14. StayInv'
  <2> SUFFICES ASSUME conf.close_on_exit # "FORCE_OFF" PROVE StayInv'
    BY <1>0 DEF StayInv
  <2>1. \A t \in Live' : obj'[t] = "live"
    BY <1>0, <1>4, <1>5 DEF IInv, StayInv, ObjTypes, Live
  <2>2. \A c \in Queued' : c.fn # "close_session"
    BY <1>0, <1>3, <1>10 DEF IInv, StayInv
  <2>3. QED
    BY <1>0, <1>7, <2>1, <2>2 DEF IInv, StayInv
<1>15. FreshInv'
  BY <1>0, <1>4, <1>10 DEF IInv, FreshInv, TabTypes, ObjTypes
<1>16. ThrottleInv'
  <2> SUFFICES ASSUME conf.no_remote_resize PROVE ThrottleInv'
    BY <1>0 DEF ThrottleInv
  <2>1. ~resize[new]
    BY <1>0, <1>7 DEF IInv, ThrottleInv
  <2>2. \A c \in Queued' : c \in Queued
    BY <1>3, <1>10, <2>1 DEF Queued, Elements
  <2>3. \A t \in Live' : t \in Live /\ input'[t] = input[t]
    BY <1>0, <1>4, <1>5 DEF ObjTypes, Live
  <2>4. QED
    BY <1>0, <1>10, <2>2, <2>3 DEF IInv, ThrottleInv
<1>17. QED
  BY <1>8, <1>9, <1>11, <1>12, <1>13, <1>14, <1>15, <1>16 DEF IInv

-----------------------------------------------------------------------------
(* The theorems *)

\* Every step keeps the invariant.
\* Code: PuTTY_MessageLoop.
LEMMA NextKeeps == IInv /\ [Next]_vars => IInv'
<1> SUFFICES ASSUME IInv, [Next]_vars PROVE IInv'
  OBVIOUS
<1>1. CASE UNCHANGED vars
  <2>1. UNCHANGED <<listVars, tabVars, objVars, showing, ptyVars, termVars,
                    cbs, closed, quit, conf, phase>>
    BY <1>1 DEF vars
  <2>2. CASE phase = "ended"
    BY <2>1, <2>2 DEF IInv, TabTypes, ObjTypes, TermTypes, LoopTypes, TabsInv, Live, BackendInv,
       StayInv, FreshInv, ThrottleInv, listVars, tabVars, objVars, ptyVars, termVars
  <2>3. CASE phase # "ended"
    <3>1. phase' \in {"handles", "message", "callback"}
      BY <2>1, <2>3 DEF IInv, LoopTypes
    <3>2. QED
      BY <2>1, <2>3, <3>1, PhaseKeeps
  <2>4. QED
    BY <2>2, <2>3
<1>2. CASE Next
  <2>0. conf' = conf
    BY <1>2 DEF Next
  <2>1. CASE HandleStep
    <3>1. ASSUME NEW s \in Session, GotData(s) PROVE IInv'
      BY <2>0, <3>1, GotDataKeeps
    <3>2. ASSUME NEW s \in Session, ProcessExits(s) PROVE IInv'
      BY <2>0, <3>2, ProcessExitsKeeps
    <3>3. ASSUME NEW s \in Session, GotEof(s) \/ AbnormalEnd(s) PROVE IInv'
      BY <2>0, <3>3, TerminateKeeps DEF GotEof, AbnormalEnd
    <3>4. ASSUME HandlesDone PROVE IInv'
      BY <2>0, <3>4, PhaseKeeps DEF HandlesDone
    <3>5. QED
      BY <2>1, <3>1, <3>2, <3>3, <3>4 DEF HandleStep
  <2>2. CASE MessageStep
    <3>1. ASSUME NEW s \in Session, NewSession(s) PROVE IInv'
      BY <2>0, <3>1, NewSessionKeeps
    <3>2. ASSUME NEW i \in DOMAIN items, SwitchSession(i) PROVE IInv'
      BY <2>0, <3>2, SwitchSessionKeeps
    <3>3. ASSUME NoMessage PROVE IInv'
      BY <2>0, <3>3, PhaseKeeps DEF NoMessage
    <3>4. QED
      BY <2>0, <2>2, <3>1, <3>2, <3>3, RemoveSessionKeeps, DragBeginsKeeps, DragEndsKeeps,
         UpdateKeeps, ShutdownKeeps DEF MessageStep
  <2>3. CASE CallbackStep
    <3>1. ASSUME NoCallback PROVE IInv'
      BY <2>0, <3>1, PhaseKeeps DEF NoCallback
    <3>2. QED
      BY <2>0, <2>3, <3>1, ExitCallbackKeeps, CloseSessionKeeps, TermOutCbKeeps
         DEF CallbackStep
  <2>4. QED
    BY <1>2, <2>1, <2>2, <2>3 DEF Next
<1>3. QED
  BY <1>1, <1>2

\* The invariant holds of every execution.
\* Code: all of PuTTY.cpp's session list.
THEOREM InvariantHolds == Spec => []IInv
<1>1. QED
  BY InitHolds, NextKeeps, PTL DEF Spec

\* The tabs show the sessions of a sound list in its order, and the current session is
\* the selected one, for any number of sessions made, closed and switched between.
\* Code: PuTTY_NewSession, PuTTY_RemoveSession, PuTTY_SwitchSession, DeleteItem.
THEOREM TabsCorrect == Spec => []TabsMatchSessions
<1>1. IInv => TabsMatchSessions
  BY InvariantSuffices
<1>2. QED
  BY <1>1, InvariantHolds, PTL

\* No pointer to a session's objects outlives them, unless sessions stay when they end.
\* Code: close_session, free_term_list, term_free, exit_callback.
THEOREM PointersCorrect == Spec => []PointersLive
<1>1. IInv => PointersLive
  BY InvariantSuffices
<1>2. QED
  BY <1>1, InvariantHolds, PTL

\* With resize requests off no session is left throttled or beyond its backlog.
\* Code: term_out, term_mouse, wintw_unthrottle, conpty_unthrottle.
THEOREM ThrottlingCorrect == Spec => []ThrottlingSound
<1>1. IInv => ThrottlingSound
  BY InvariantSuffices
<1>2. QED
  BY <1>1, InvariantHolds, PTL

\* The program ends by itself only when the session in the selected tab has ended: an
\* exit_callback queued for one session is answered for another one, but then
\* that one has ended too.
\* Code: exit_callback.
THEOREM QuitsCorrect == Spec => QuitsForCurrentSession
<1>1. IInv /\ [Next]_vars => [quit' /\ ~quit => exited[curr]]_vars
  <2> SUFFICES ASSUME IInv, [Next]_vars, quit', ~quit PROVE exited[curr]
    OBVIOUS
  <2>1. ExitCallback
    <3>1. quit' # quit
      OBVIOUS
    <3>2. QED
      BY <3>1 DEF vars, Next, HandleStep, MessageStep, CallbackStep, GotData, ProcessExits,
         GotEof, AbnormalEnd, Terminate, HandlesDone, NewSession, SwitchSession, RemoveSession,
         DragBegins, DragEnds, Update, NoMessage, Shutdown, CloseSession, TermOutCb, NoCallback
  <2>2. phase # "ended" /\ exited[gBe] /\ conf.close_on_exit # "FORCE_OFF"
    BY <2>1 DEF ExitCallback, Running, CurrentHasExited
  <2>3. gBe = curr
    BY <2>2 DEF IInv, StayInv
  <2>4. QED
    BY <2>2, <2>3
<1>2. QED
  BY <1>1, InvariantHolds, PTL DEF Spec, QuitsForCurrentSession
=============================================================================
