------------------------------ MODULE HandleIO ------------------------------
(***************************************************************************)
(* putty/windows/handle-io.c: blocking reads and writes on Windows HANDLEs *)
(* done by one subthread per handle, and the two-way hand-over between a   *)
(* subthread and the main thread:                                          *)
(*                                                                         *)
(*   subthread -> main   the handle's node is appended to the ready list   *)
(*                       and the auto-reset event ready_event is set;      *)
(*   main -> subthread   the handle's auto-reset event ev_from_main is set.*)
(*                                                                         *)
(* A handle is in the hands of at most one of the two at any time.  The    *)
(* module also models the rest of the main thread as the API's client: it  *)
(* may create, write to, unthrottle and free handles between two events    *)
(* and from inside the gotdata/sentdata callbacks.                         *)
(*                                                                         *)
(* One unit of data stands for one ReadFile result (input) or one byte     *)
(* (output).  The contents of a unit is its position in the stream.        *)
(***************************************************************************)
EXTENDS Naturals, Sequences, FiniteSets

CONSTANTS
  Inputs,       \* handles made by handle_input_new
  Outputs,      \* handles made by handle_output_new
  IgnoreEof,    \* the inputs created with HANDLE_FLAG_IGNOREEOF
  NoHandle,     \* no handle at all
  MaxBacklog,   \* MAX_BACKLOG, in units of data
  ReadBound,    \* bound of the model: units a source delivers before it ends
  WriteBound,   \* bound of the model: units the client writes to an output
  MaxHandles    \* bound of the model: handles that are made

ASSUME HandlesAssumption == Inputs \cap Outputs = {} /\ IgnoreEof \subseteq Inputs
ASSUME BoundsAssumption ==
  MaxBacklog \in Nat \ {0} /\ ReadBound \in Nat /\ WriteBound \in Nat /\ MaxHandles \in Nat

Handles == Inputs \cup Outputs

ASSUME NoHandleAssumption == NoHandle \notin Handles

VARIABLES
  alloc,     \* "unused", "live" or "freed": the struct handle
  moribund,  \* handle_free was called, the struct still exists
  done,      \* the subthread has been asked to terminate
  defunct,   \* main knows that the subthread has gone
  busy,      \* main believes an operation is in progress
  ev,        \* ev_from_main is set
  tpc,       \* where the subthread is
  io,        \* result of the last completed operation: len or writeerr
  ready,     \* the ready list, in order
  readyEv,   \* ready_event is set
  linked,    \* ready_node has been written (it is uninitialised memory at first)
  mpc,       \* what the main thread is doing
  cur,       \* the handle whose callback the main thread is in
  rd, buf, got, backlog,              \* inputs: see below
  acc, con, obuf, olen, lw, dev, eof  \* outputs: see below

handleVars == <<alloc, moribund, done, defunct, busy>>
inputVars  == <<rd, buf, got, backlog>>
outputVars == <<acc, con, obuf, olen, lw, dev, eof>>
mainVars   == <<mpc, cur>>
vars == <<handleVars, ev, tpc, io, ready, readyEv, linked, mainVars,
          inputVars, outputVars>>

(***************************************************************************)
(* rd: units ReadFile has returned; buf: the unit in ctx->buffer; got: the *)
(* last unit handed to gotdata; backlog: units the client has not dealt    *)
(* with yet.                                                               *)
(* acc: bytes handle_write has accepted; con: bytes consumed from          *)
(* queued_data; obuf, olen: the stretch of the stream ctx->buffer points   *)
(* at; lw: lenwritten; dev: bytes that reached the device; eof: outgoingeof*)
(***************************************************************************)

ThreadPcs == {"none",    \* CreateThread failed or not called: no subthread
              "io",      \* in ReadFile / WriteFile
              "post",    \* operation over, about to add_to_ready_list
              "wait",    \* in WaitForSingleObject(ev_from_main)
              "dying",   \* saw ctx->done, about to add_to_ready_list
              "exit"}    \* left the loop: touches ctx no more

MainPcs == {"idle",      \* outside handle_ready_callback: the event loop, or a client
            "loop",      \* in handle_ready_callback, holding ready_critsec
            "gotdata", "goteof", "sentdata", "senterr"}  \* in a callback made from it

HandleTypes ==
  /\ alloc \in [Handles -> {"unused", "live", "freed"}]
  /\ moribund \in [Handles -> BOOLEAN]
  /\ done \in [Handles -> BOOLEAN]
  /\ defunct \in [Handles -> BOOLEAN]
  /\ busy \in [Handles -> BOOLEAN]
  /\ ev \in [Handles -> BOOLEAN]
  /\ tpc \in [Handles -> ThreadPcs]
  /\ io \in [Handles -> {"none", "ok", "end"}]
  /\ linked \in [Handles -> BOOLEAN]

MainTypes ==
  /\ ready \in Seq(Handles)
  /\ readyEv \in BOOLEAN
  /\ mpc \in MainPcs
  /\ cur \in Handles \cup {NoHandle}

InputTypes ==
  /\ rd \in [Inputs -> Nat] /\ buf \in [Inputs -> Nat]
  /\ got \in [Inputs -> Nat] /\ backlog \in [Inputs -> Nat]

OutputTypes ==
  /\ acc \in [Outputs -> Nat] /\ con \in [Outputs -> Nat]
  /\ obuf \in [Outputs -> Nat] /\ olen \in [Outputs -> Nat]
  /\ lw \in [Outputs -> Nat] /\ dev \in [Outputs -> Nat]
  /\ eof \in [Outputs -> {"no", "pending", "sent"}]

\* Type invariant.  Its one relation, con <= acc, says that bufchain_consume is
\* never asked for more bytes than queued_data holds.
\* Code: the declarations of handle-io.c.
TypeOK ==
  /\ HandleTypes /\ MainTypes /\ InputTypes /\ OutputTypes
  /\ \A h \in Outputs : con[h] <= acc[h]

Init ==
  /\ alloc = [h \in Handles |-> "unused"]
  /\ moribund = [h \in Handles |-> FALSE]
  /\ done = [h \in Handles |-> FALSE]
  /\ defunct = [h \in Handles |-> FALSE]
  /\ busy = [h \in Handles |-> FALSE]
  /\ ev = [h \in Handles |-> FALSE]
  /\ tpc = [h \in Handles |-> "none"]
  /\ io = [h \in Handles |-> "none"]
  /\ ready = <<>>
  /\ readyEv = FALSE
  /\ linked = [h \in Handles |-> FALSE]
  /\ mpc = "idle"
  /\ cur = NoHandle
  /\ rd = [h \in Inputs |-> 0] /\ buf = [h \in Inputs |-> 0]
  /\ got = [h \in Inputs |-> 0] /\ backlog = [h \in Inputs |-> 0]
  /\ acc = [h \in Outputs |-> 0] /\ con = [h \in Outputs |-> 0]
  /\ obuf = [h \in Outputs |-> 0] /\ olen = [h \in Outputs |-> 0]
  /\ lw = [h \in Outputs |-> 0] /\ dev = [h \in Outputs |-> 0]
  /\ eof = [h \in Outputs |-> "no"]

-----------------------------------------------------------------------------
(* The subthreads *)

\* A successful, non-empty ReadFile, which fills ctx->buffer and ctx->len.
ReadData(h) ==
  /\ tpc[h] = "io" /\ rd[h] < ReadBound
  /\ rd' = [rd EXCEPT ![h] = @ + 1]
  /\ buf' = [buf EXCEPT ![h] = rd[h] + 1]
  /\ io' = [io EXCEPT ![h] = "ok"]
  /\ tpc' = [tpc EXCEPT ![h] = "post"]
  /\ UNCHANGED <<handleVars, ev, ready, readyEv, linked, mainVars,
                 got, backlog, outputVars>>

\* ReadFile failed, or returned 0 bytes on a handle that does not ignore that:
\* len = 0.  (A zero-byte read under HANDLE_FLAG_IGNOREEOF only loops.)
ReadEnd(h, broken) ==
  /\ tpc[h] = "io"
  /\ broken \/ h \notin IgnoreEof
  /\ io' = [io EXCEPT ![h] = "end"]
  /\ tpc' = [tpc EXCEPT ![h] = "post"]
  /\ UNCHANGED <<handleVars, ev, ready, readyEv, linked, mainVars,
                 inputVars, outputVars>>

\* WriteFile wrote n of the len bytes at ctx->buffer.
WriteData(h, n) ==
  /\ tpc[h] = "io" /\ n \in 1 .. olen[h]
  /\ dev' = [dev EXCEPT ![h] = obuf[h] + n]
  /\ lw' = [lw EXCEPT ![h] = n]
  /\ io' = [io EXCEPT ![h] = "ok"]
  /\ tpc' = [tpc EXCEPT ![h] = "post"]
  /\ UNCHANGED <<handleVars, ev, ready, readyEv, linked, mainVars,
                 inputVars, acc, con, obuf, olen, eof>>

WriteError(h) ==
  /\ tpc[h] = "io"
  /\ io' = [io EXCEPT ![h] = "end"]
  /\ tpc' = [tpc EXCEPT ![h] = "post"]
  /\ UNCHANGED <<handleVars, ev, ready, readyEv, linked, mainVars,
                 inputVars, outputVars>>

\* add_to_ready_list, and what the thread does next.  It needs ready_critsec,
\* which the main thread holds for the whole of handle_ready_callback.
ThreadAddsToReadyList(h) ==
  /\ tpc[h] \in {"post", "dying"}
  /\ mpc = "idle"
  /\ ready' = Append(ready, h)
  /\ readyEv' = TRUE
  /\ linked' = [linked EXCEPT ![h] = TRUE]
  /\ tpc' = [tpc EXCEPT ![h] =
                IF tpc[h] = "dying" \/ io[h] = "end" THEN "exit" ELSE "wait"]
  /\ UNCHANGED <<handleVars, ev, io, mainVars, inputVars, outputVars>>

\* WaitForSingleObject(ctx->ev_from_main) returns; the thread looks at ctx->done.
ThreadWakes(h) ==
  /\ tpc[h] = "wait" /\ ev[h]
  /\ ev' = [ev EXCEPT ![h] = FALSE]
  /\ tpc' = [tpc EXCEPT ![h] = IF done[h] THEN "dying" ELSE "io"]
  /\ UNCHANGED <<handleVars, io, ready, readyEv, linked, mainVars,
                 inputVars, outputVars>>

-----------------------------------------------------------------------------
(* The main thread: pieces of its handlers *)

OnList(h, list) == \E i \in DOMAIN list : list[i] = h

\* remove_from_ready_list: unlinking a node that is not on the list does
\* nothing, provided that its next and prev have been initialised.
Unlinked(h, list) == IF OnList(h, list)
                     THEN SelectSeq(list, LAMBDA x : x # h)
                     ELSE list

\* handle_destroy: bufchain_clear, CloseHandle(ev_from_main), unlink, sfree.
\* list is what the ready list holds at that point.
HandleDestroy(h, list) ==
  /\ alloc' = [alloc EXCEPT ![h] = "freed"]
  /\ ready' = Unlinked(h, list)
  /\ con' = IF h \in Outputs THEN [con EXCEPT ![h] = acc[h]] ELSE con

\* SetEvent(ev_from_main) with `done' set: ask the subthread to terminate.
SignalToDie(h) ==
  /\ done' = [done EXCEPT ![h] = TRUE]
  /\ busy' = [busy EXCEPT ![h] = TRUE]
  /\ ev' = [ev EXCEPT ![h] = TRUE]

\* Mutants of HandleThrottle: busy is ignored, the limit is off by one, busy is
\* set although no read was begun.
HandleThrottle_IgnoresBusy(h, size) ==
  IF ~defunct[h] /\ size < MaxBacklog
  THEN ev' = [ev EXCEPT ![h] = TRUE] /\ busy' = [busy EXCEPT ![h] = TRUE]
  ELSE UNCHANGED <<ev, busy>>

HandleThrottle_OffByOne(h, size) ==
  IF ~defunct[h] /\ ~busy[h] /\ size <= MaxBacklog
  THEN ev' = [ev EXCEPT ![h] = TRUE] /\ busy' = [busy EXCEPT ![h] = TRUE]
  ELSE UNCHANGED <<ev, busy>>

HandleThrottle_MarksBusy(h, size) ==
  /\ busy' = [busy EXCEPT ![h] = ~defunct[h]]
  /\ ev' = [ev EXCEPT ![h] = @ \/ (~defunct[h] /\ ~busy[h] /\ size < MaxBacklog)]

\* handle_throttle: begin another read if the backlog allows it.
HandleThrottle(h, size) ==
  IF ~defunct[h] /\ ~busy[h] /\ size < MaxBacklog
  THEN /\ ev' = [ev EXCEPT ![h] = TRUE]
       /\ busy' = [busy EXCEPT ![h] = TRUE]
  ELSE UNCHANGED <<ev, busy>>

\* Mutants of HandleTryOutput: a write in progress is ignored, a pending EOF is
\* sent ahead of the data.
HandleTryOutput_IgnoresBusy(h, from, to, e) ==
  IF from < to
  THEN /\ obuf' = [obuf EXCEPT ![h] = from]
       /\ olen' = [olen EXCEPT ![h] = to - from]
       /\ ev' = [ev EXCEPT ![h] = TRUE]
       /\ busy' = [busy EXCEPT ![h] = TRUE]
       /\ eof' = [eof EXCEPT ![h] = e]
  ELSE /\ eof' = [eof EXCEPT ![h] = IF e = "pending" THEN "sent" ELSE e]
       /\ UNCHANGED <<obuf, olen, ev, busy>>

HandleTryOutput_EofFirst(h, from, to, e) ==
  IF ~busy[h] /\ from < to /\ e # "pending"
  THEN /\ obuf' = [obuf EXCEPT ![h] = from]
       /\ olen' = [olen EXCEPT ![h] = to - from]
       /\ ev' = [ev EXCEPT ![h] = TRUE]
       /\ busy' = [busy EXCEPT ![h] = TRUE]
       /\ eof' = [eof EXCEPT ![h] = e]
  ELSE /\ eof' = [eof EXCEPT ![h] = IF ~busy[h] /\ e = "pending" THEN "sent" ELSE e]
       /\ UNCHANGED <<obuf, olen, ev, busy>>

\* handle_try_output, called when queued_data holds the bytes from+1 .. to and
\* outgoingeof is e.  When nothing is left to write and an EOF is pending the
\* client is told to close the HANDLE.  bufchain_prefix may return less than
\* everything that is queued.
HandleTryOutput(h, from, to, e) ==
  IF busy[h]
  THEN /\ eof' = [eof EXCEPT ![h] = e]
       /\ UNCHANGED <<obuf, olen, ev, busy>>
  ELSE IF from < to
  THEN /\ obuf' = [obuf EXCEPT ![h] = from]
       /\ \E n \in 1 .. (to - from) : olen' = [olen EXCEPT ![h] = n]
       /\ ev' = [ev EXCEPT ![h] = TRUE]
       /\ busy' = [busy EXCEPT ![h] = TRUE]
       /\ eof' = [eof EXCEPT ![h] = e]
  ELSE /\ eof' = [eof EXCEPT ![h] = IF e = "pending" THEN "sent" ELSE e]
       /\ UNCHANGED <<obuf, olen, ev, busy>>

-----------------------------------------------------------------------------
(* The main thread: the client's calls *)

\* Client code runs between two events and inside the callbacks.
ClientRuns == mpc # "loop"

\* A client uses a handle until it frees it.
Usable(h) == alloc[h] = "live" /\ ~moribund[h]

CanBeMade(h) ==
  /\ ClientRuns /\ alloc[h] = "unused"
  /\ Cardinality({g \in Handles : alloc[g] # "unused"}) < MaxHandles

\* A failed CreateThread goes unnoticed.
HandleInputNew(h, threadOk) ==
  /\ CanBeMade(h)
  /\ alloc' = [alloc EXCEPT ![h] = "live"]
  /\ tpc' = [tpc EXCEPT ![h] = IF threadOk THEN "io" ELSE "none"]
  /\ busy' = [busy EXCEPT ![h] = TRUE]
  /\ UNCHANGED <<moribund, done, defunct, ev, io, ready, readyEv, linked,
                 mainVars, inputVars, outputVars>>

HandleOutputNew(h, threadOk) ==
  /\ CanBeMade(h)
  /\ alloc' = [alloc EXCEPT ![h] = "live"]
  /\ tpc' = [tpc EXCEPT ![h] = IF threadOk THEN "wait" ELSE "none"]
  /\ UNCHANGED <<moribund, done, defunct, busy, ev, io, ready, readyEv, linked,
                 mainVars, inputVars, outputVars>>

\* handle_write, whose assertion is its precondition.
HandleWrite(h, n) ==
  /\ ClientRuns /\ Usable(h) /\ eof[h] = "no"
  /\ n > 0 /\ acc[h] + n <= WriteBound
  /\ acc' = [acc EXCEPT ![h] = @ + n]
  /\ HandleTryOutput(h, con[h], acc[h] + n, "no")
  /\ UNCHANGED <<alloc, moribund, done, defunct, tpc, io, ready, readyEv, linked,
                 mainVars, inputVars, con, lw, dev>>

HandleWriteEof(h) ==
  /\ ClientRuns /\ Usable(h) /\ eof[h] = "no"
  /\ HandleTryOutput(h, con[h], acc[h], "pending")
  /\ UNCHANGED <<alloc, moribund, done, defunct, tpc, io, ready, readyEv, linked,
                 mainVars, inputVars, acc, con, lw, dev>>

\* The client works off some of its backlog and calls handle_unthrottle.  It
\* does not do so for the handle whose gotdata it is in: there the backlog is
\* what gotdata returns (term_out's called_from_term_data).
HandleUnthrottle(h, size) ==
  /\ ClientRuns /\ Usable(h)
  /\ ~(mpc = "gotdata" /\ cur = h)
  /\ size <= backlog[h]
  /\ backlog' = [backlog EXCEPT ![h] = size]
  /\ HandleThrottle(h, size)
  /\ UNCHANGED <<alloc, moribund, done, defunct, tpc, io, ready, readyEv, linked,
                 mainVars, rd, buf, got, outputVars>>

\* Mutants of HandleFree: the struct goes at once, an idle subthread is not told.
HandleFree_AtOnce(h) ==
  /\ ClientRuns /\ Usable(h)
  /\ HandleDestroy(h, ready)
  /\ UNCHANGED <<moribund, done, defunct, busy, ev, tpc, io, readyEv, linked,
                 mainVars, inputVars, acc, obuf, olen, lw, dev, eof>>

HandleFree_OnlyMarks(h) ==
  /\ ClientRuns /\ Usable(h)
  /\ moribund' = [moribund EXCEPT ![h] = TRUE]
  /\ UNCHANGED <<alloc, done, defunct, busy, ev, tpc, io, ready, readyEv, linked,
                 mainVars, inputVars, outputVars>>

\* handle_free, whose assertion is its precondition.
HandleFree(h) ==
  /\ ClientRuns /\ Usable(h)
  /\ \/ /\ busy[h]
        /\ moribund' = [moribund EXCEPT ![h] = TRUE]
        /\ UNCHANGED <<alloc, done, busy, ev, ready, con>>
     \/ /\ ~busy[h] /\ defunct[h]
        /\ HandleDestroy(h, ready)
        /\ UNCHANGED <<moribund, done, busy, ev>>
     \/ /\ ~busy[h] /\ ~defunct[h]
        /\ moribund' = [moribund EXCEPT ![h] = TRUE]
        /\ SignalToDie(h)
        /\ UNCHANGED <<alloc, ready, con>>
  /\ UNCHANGED <<defunct, tpc, io, readyEv, linked, mainVars, inputVars,
                 acc, obuf, olen, lw, dev, eof>>

-----------------------------------------------------------------------------
(* The main thread: handle_ready_callback *)

\* The event loop's wait returns ready_event and calls handle_ready_callback.
MainWakes ==
  /\ mpc = "idle" /\ readyEv
  /\ readyEv' = FALSE
  /\ mpc' = "loop"
  /\ UNCHANGED <<handleVars, ev, tpc, io, ready, linked, cur, inputVars, outputVars>>

\* Mutant of MainLoopEnds: one node per event.
MainLoopEnds_Early ==
  /\ mpc = "loop"
  /\ mpc' = "idle"
  /\ UNCHANGED <<handleVars, ev, tpc, io, ready, readyEv, linked, cur,
                 inputVars, outputVars>>

MainLoopEnds ==
  /\ mpc = "loop" /\ ready = <<>>
  /\ mpc' = "idle"
  /\ UNCHANGED <<handleVars, ev, tpc, io, ready, readyEv, linked, cur,
                 inputVars, outputVars>>

\* handle_ready on a moribund handle: destroy it or tell its thread to die.
ReadyMoribund(h) ==
  /\ mpc = "loop" /\ ready # <<>> /\ h = Head(ready)
  /\ moribund[h]
  /\ \/ /\ done[h]
        /\ HandleDestroy(h, Tail(ready))
        /\ UNCHANGED <<done, busy, ev>>
     \/ /\ ~done[h]
        /\ ready' = Tail(ready)
        /\ SignalToDie(h)
        /\ UNCHANGED <<alloc, con>>
  /\ UNCHANGED <<moribund, defunct, tpc, io, readyEv, linked, mainVars,
                 inputVars, acc, obuf, olen, lw, dev, eof>>

\* handle_ready on an input, up to the call of gotdata.
ReadyInput(h) ==
  /\ mpc = "loop" /\ ready # <<>> /\ h = Head(ready)
  /\ ~moribund[h]
  /\ ready' = Tail(ready)
  /\ busy' = [busy EXCEPT ![h] = FALSE]
  /\ cur' = h
  /\ IF io[h] = "end"
     THEN /\ defunct' = [defunct EXCEPT ![h] = TRUE]
          /\ mpc' = "goteof"
          /\ UNCHANGED <<got, backlog>>
     ELSE /\ mpc' = "gotdata"
          /\ got' = [got EXCEPT ![h] = buf[h]]
          /\ backlog' = [backlog EXCEPT ![h] = @ + 1]
          /\ UNCHANGED defunct
  /\ UNCHANGED <<alloc, moribund, done, ev, tpc, io, readyEv, linked, rd, buf,
                 outputVars>>

\* gotdata returns the backlog, and handle_throttle decides about the next read.
GotdataReturns ==
  /\ mpc = "gotdata"
  /\ \E size \in 0 .. backlog[cur] :
       /\ backlog' = [backlog EXCEPT ![cur] = size]
       /\ HandleThrottle(cur, size)
  /\ mpc' = "loop" /\ UNCHANGED cur
  /\ UNCHANGED <<alloc, moribund, done, defunct, tpc, io, ready, readyEv, linked,
                 rd, buf, got, outputVars>>

\* handle_ready on an output, up to the call of sentdata.
ReadyOutput(h) ==
  /\ mpc = "loop" /\ ready # <<>> /\ h = Head(ready)
  /\ ~moribund[h]
  /\ ready' = Tail(ready)
  /\ busy' = [busy EXCEPT ![h] = FALSE]
  /\ cur' = h
  /\ IF io[h] = "end"
     THEN /\ defunct' = [defunct EXCEPT ![h] = TRUE]
          /\ mpc' = "senterr"
          /\ UNCHANGED con
     ELSE /\ mpc' = "sentdata"
          /\ con' = [con EXCEPT ![h] = @ + lw[h]]
          /\ UNCHANGED defunct
  /\ UNCHANGED <<alloc, moribund, done, ev, tpc, io, readyEv, linked, inputVars,
                 acc, obuf, olen, lw, dev, eof>>

\* Mutants of SentdataReturns: the written bytes are consumed once more, the
\* next write is not begun.
SentdataReturns_ConsumesAgain ==
  /\ mpc = "sentdata"
  /\ con' = [con EXCEPT ![cur] = @ + lw[cur]]
  /\ mpc' = "loop" /\ UNCHANGED cur
  /\ UNCHANGED <<handleVars, ev, tpc, io, ready, readyEv, linked,
                 inputVars, acc, obuf, olen, lw, dev, eof>>

SentdataReturns_Stops ==
  /\ mpc = "sentdata"
  /\ mpc' = "loop" /\ UNCHANGED cur
  /\ UNCHANGED <<handleVars, ev, tpc, io, ready, readyEv, linked,
                 inputVars, outputVars>>

\* sentdata returns after a successful write, and handle_try_output goes on.
SentdataReturns ==
  /\ mpc = "sentdata"
  /\ HandleTryOutput(cur, con[cur], acc[cur], eof[cur])
  /\ mpc' = "loop" /\ UNCHANGED cur
  /\ UNCHANGED <<alloc, moribund, done, defunct, tpc, io, ready, readyEv, linked,
                 inputVars, acc, con, lw, dev>>

\* After an EOF or an error handle_ready does not look at the handle again.
EndCallbackReturns ==
  /\ mpc \in {"goteof", "senterr"}
  /\ mpc' = "loop" /\ UNCHANGED cur
  /\ UNCHANGED <<handleVars, ev, tpc, io, ready, readyEv, linked,
                 inputVars, outputVars>>

-----------------------------------------------------------------------------
ThreadStep(h) == ThreadAddsToReadyList(h) \/ ThreadWakes(h)

DeviceStep(h) ==
  \/ h \in Inputs /\ (ReadData(h) \/ \E broken \in BOOLEAN : ReadEnd(h, broken))
  \/ h \in Outputs /\ ((\E n \in 1 .. olen[h] : WriteData(h, n)) \/ WriteError(h))

MainStep ==
  \/ MainWakes \/ MainLoopEnds
  \/ \E h \in Handles : ReadyMoribund(h)
  \/ \E h \in Inputs : ReadyInput(h)
  \/ \E h \in Outputs : ReadyOutput(h)
  \/ GotdataReturns \/ SentdataReturns \/ EndCallbackReturns

ClientStep ==
  \/ \E h \in Inputs, ok \in BOOLEAN : HandleInputNew(h, ok)
  \/ \E h \in Outputs, ok \in BOOLEAN : HandleOutputNew(h, ok)
  \/ \E h \in Outputs : (\E n \in 1 .. WriteBound : HandleWrite(h, n)) \/ HandleWriteEof(h)
  \/ \E h \in Inputs : \E size \in 0 .. backlog[h] : HandleUnthrottle(h, size)
  \/ \E h \in Handles : HandleFree(h)

Next ==
  \/ \E h \in Handles : ThreadStep(h) \/ DeviceStep(h)
  \/ MainStep
  \/ ClientStep

Spec == Init /\ [][Next]_vars

(***************************************************************************)
(* The operating system runs every runnable thread, and the message loop   *)
(* comes back to ready_event and returns from the callbacks it makes.      *)
(* A ReadFile need not return, as nobody need write to the pipe, but the   *)
(* pipes and consoles written to are assumed to be drained.                *)
(***************************************************************************)
SchedulerFairness ==
  /\ \A h \in Handles : WF_vars(ThreadStep(h))
  /\ WF_vars(MainStep)

WritesComplete == \A h \in Outputs : WF_vars(DeviceStep(h))
ReadsComplete  == \A h \in Inputs : WF_vars(DeviceStep(h))

FairSpec == Spec /\ SchedulerFairness /\ WritesComplete /\ ReadsComplete

\* A client that deals with its whole backlog and says so.
ClientDrains(h) == HandleUnthrottle(h, 0)
-----------------------------------------------------------------------------
(* Properties *)

\* Nobody is left who could touch a struct handle once it has been freed: its
\* subthread has left its loop, its node is off the ready list (and was a
\* properly initialised node when handle_destroy unlinked it), and handle_ready
\* is not about to go on using it after a callback that freed it.
\* Code: handle_free / handle_ready / the "must not touch ctx" comments.
NoUseAfterFree ==
  /\ \A h \in Handles : alloc[h] = "freed" =>
       tpc[h] = "exit" /\ linked[h] /\ ~OnList(h, ready)
  /\ mpc \in {"gotdata", "sentdata"} => alloc[cur] = "live"

\* A non-empty ready list is never left behind without the event that makes the
\* message loop look at it.
\* Code: add_to_ready_list / handle_ready_callback, an auto-reset event.
NoLostReadySignal == mpc = "idle" /\ ready # <<>> => readyEv

\* A handle is on the ready list at most once (adding a linked node again would
\* corrupt the list), its subthread is not running meanwhile, and main will look.
\* Code: add_to_ready_list / the busy flag, ready_event.
ReadyListSound ==
  /\ NoLostReadySignal
  /\ \A i \in DOMAIN ready :
       /\ tpc[ready[i]] \in {"wait", "exit"}
       /\ ~ev[ready[i]]
       /\ \A j \in DOMAIN ready : ready[i] = ready[j] => i = j

\* The buffers are never in two hands: while gotdata is looking at ctx->buffer
\* the subthread is not reading into it, and while WriteFile is writing from
\* queued_data those bytes have not been consumed (or cleared), and are the
\* next ones the device is to get.  And however reads, callbacks and unthrottles
\* interleave, a client that reports its backlog correctly never has more than
\* MAX_BACKLOG to look after.
\* Code: the ctx->buffer hand-over in both thread functions and handle_ready;
\* handle_throttle, handle_unthrottle.
BacklogBounded == \A h \in Inputs : backlog[h] <= MaxBacklog
BuffersSound ==
  /\ TypeOK /\ BacklogBounded
  /\ mpc = "gotdata" => tpc[cur] # "io" /\ buf[cur] = got[cur]
  /\ \A h \in Outputs : tpc[h] = "io" => obuf[h] = con[h] /\ obuf[h] = dev[h]

\* Every unit that is read reaches gotdata once and in order; and the outgoing EOF
\* closes the HANDLE only when everything accepted before it has reached the device.
\* Code: handle_input_threadfunc, handle_ready; handle_try_output, handle_write_eof.
InputInOrder == \A h \in Inputs : got'[h] # got[h] => got'[h] = got[h] + 1
EofAfterData == \A h \in Outputs : eof'[h] = "sent" /\ eof[h] # "sent" => dev[h] = acc[h]
StreamsInOrder == [][InputInOrder /\ EofAfterData]_vars

\* An input whose client works off its backlog is read again.
\* Code: handle_unthrottle / handle_throttle.
ReadingResumes ==
  (\A h \in Inputs : WF_vars(ClientDrains(h))) =>
    \A h \in Inputs :
      (Usable(h) /\ tpc[h] = "wait") ~> (tpc[h] = "io" \/ ~Usable(h))

\* What was queued on an output is written, and its EOF sent, unless the handle
\* is freed or fails first (or never got a subthread).
\* Code: handle_try_output, called again when a write completes.
OutputDrains ==
  \A h \in Outputs :
    (Usable(h) /\ tpc[h] # "none") ~>
      \/ con[h] = acc[h] /\ eof[h] # "pending"
      \/ defunct[h] \/ ~Usable(h)

\* A handle freed by its client is destroyed in the end, unless its subthread
\* had never been created or had left its loop before it was told to.
\* Code: handle_free and the moribund branch of handle_ready.
FreeCompletes ==
  \A h \in Handles :
    moribund[h] ~> (alloc[h] = "freed" \/ tpc[h] = "none" \/ io[h] = "end")
=============================================================================
