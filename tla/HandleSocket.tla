---------------------------- MODULE HandleSocket ----------------------------
(***************************************************************************)
(* putty/windows/handle-socket.c: a Socket made of an input and an output  *)
(* handle of handle-io.c.  A read in progress cannot be interrupted, so a  *)
(* frozen socket keeps the load of data that still comes, and releases it  *)
(* from a toplevel callback when it is thawed.  The owner of the socket    *)
(* (its plug) may freeze, thaw, write to or close it from inside any call  *)
(* it gets.                                                                *)
(*                                                                         *)
(* A socket may be made before its handles are there, by                   *)
(* make_deferred_handle_socket; its fields then share their memory, as     *)
(* members of a union, with those of an open one.  sk_handle_deferred_set_ *)
(* frozen writes to the wrong member: hs->frozen, an int, lies on top of   *)
(* the two bools output_eof_pending and start_frozen.                      *)
(*                                                                         *)
(* The handles are seen from here (see HandleIO): the input handle reads,  *)
(* or is throttled, or has ended; the output handle takes what it is given.*)
(***************************************************************************)
EXTENDS Naturals, Sequences

CONSTANTS
  Loads,       \* bound of the model: loads of data that are read
  Callbacks    \* bound of the model: handle_socket_unfreeze callbacks queued

ASSUME BoundAssumption == Loads \in Nat \ {0} /\ Callbacks \in Nat \ {0}

VARIABLES
  life,         \* "deferred", "open", "closed", or "aborted" by an assertion
  failed,       \* whose assertion it was: "none", "input" or "output"
  eofPending, startFrozen,      \* output_eof_pending, start_frozen
  frozen,       \* HandleSocketFreezeState
  inputdata,    \* the loads that are buffered
  deferClose, deferredClose,    \* defer_close, deferred_close
  reader,       \* the input handle: "busy", "idle" or "gone"
  outEof,       \* handle_write_eof has been called on the output handle
  thawCbs,      \* handle_socket_unfreeze callbacks in the queue
  connectCb,    \* sk_handle_connect_success_callback is in the queue
  pc,           \* "idle", or in a call of the plug: "receive", "thaw", "closing"
  rd, got,      \* loads read, and the last load given to the plug
  want, eofAsked    \* the plug's last sk_set_frozen; it has called sk_write_eof

lifeVars == <<life, failed>>
deferredVars == <<eofPending, startFrozen>>
openVars == <<frozen, inputdata, deferClose, deferredClose>>
handleVars == <<reader, outEof>>
cbVars == <<thawCbs, connectCb>>
plugVars == <<want, eofAsked>>
socketVars == <<lifeVars, deferredVars, openVars, handleVars, cbVars, pc, rd, got, plugVars>>

\* make_deferred_handle_socket, or make_handle_socket.
SocketInit ==
  /\ life \in {"deferred", "open"} /\ failed = "none"
  /\ eofPending = FALSE /\ startFrozen = FALSE
  /\ frozen = "UNFROZEN" /\ inputdata = <<>>
  /\ deferClose = FALSE /\ deferredClose = FALSE
  /\ reader = (IF life = "open" THEN "busy" ELSE "gone") /\ outEof = FALSE
  /\ thawCbs = 0 /\ connectCb = (life = "open")
  /\ pc = "idle" /\ rd = 0 /\ got = 0
  /\ want = FALSE /\ eofAsked = FALSE

Abort(who) == life' = "aborted" /\ failed' = who
-----------------------------------------------------------------------------
(* Before the handles are there *)

\* sk_handle_deferred_write: assert(!hs->output_eof_pending).
DeferredWrite ==
  /\ life = "deferred" /\ ~eofAsked
  /\ IF eofPending THEN Abort("output") ELSE UNCHANGED lifeVars
  /\ UNCHANGED <<deferredVars, openVars, handleVars, cbVars, pc, rd, got, plugVars>>

DeferredWriteEof ==
  /\ life = "deferred" /\ ~eofAsked /\ eofAsked' = TRUE
  /\ IF eofPending
     THEN Abort("output") /\ UNCHANGED eofPending
     ELSE eofPending' = TRUE /\ UNCHANGED lifeVars
  /\ UNCHANGED <<startFrozen, openVars, handleVars, cbVars, pc, rd, got, want>>

\* sk_handle_deferred_set_frozen: the int written to hs->frozen is 0 or 1.
DeferredSetFrozen(b) ==
  /\ life = "deferred" /\ want' = b
  /\ eofPending' = b /\ startFrozen' = FALSE
  /\ UNCHANGED <<lifeVars, openVars, handleVars, cbVars, pc, rd, got, eofAsked>>

DeferredClose ==
  /\ life = "deferred" /\ life' = "closed"
  /\ UNCHANGED <<failed, deferredVars, openVars, handleVars, cbVars, pc, rd, got, plugVars>>

\* setup_handle_socket
Setup ==
  /\ life = "deferred" /\ life' = "open"
  /\ frozen' = IF startFrozen THEN "FREEZING" ELSE "UNFROZEN"
  /\ reader' = "busy" /\ outEof' = eofPending /\ connectCb' = TRUE
  /\ UNCHANGED <<failed, deferredVars, inputdata, deferClose, deferredClose, thawCbs,
                 pc, rd, got, plugVars>>
-----------------------------------------------------------------------------
(* What the plug does with an open socket *)

\* The plug has not closed the socket.
Usable == life = "open" /\ ~deferredClose

\* sk_handle_write, with the assertion of handle_write.
Write ==
  /\ Usable /\ ~eofAsked /\ outEof /\ Abort("output")
  /\ UNCHANGED <<deferredVars, openVars, handleVars, cbVars, pc, rd, got, plugVars>>

WriteEof ==
  /\ Usable /\ ~eofAsked
  /\ eofAsked' = TRUE /\ outEof' = TRUE
  /\ UNCHANGED <<lifeVars, deferredVars, openVars, reader, cbVars, pc, rd, got, want>>

\* sk_handle_set_frozen(s, true)
Freeze ==
  /\ Usable /\ want' = TRUE
  /\ frozen' = CASE frozen = "THAWING"  -> "FROZEN"
                 [] frozen = "UNFROZEN" -> "FREEZING"
                 [] OTHER -> frozen
  /\ UNCHANGED <<lifeVars, deferredVars, inputdata, deferClose, deferredClose, handleVars,
                 cbVars, pc, rd, got, eofAsked>>

\* Mutant of Thaw: the buffered data is left until later.
Thaw_AtOnce ==
  /\ Usable /\ want' = FALSE
  /\ frozen' = "UNFROZEN"
  /\ reader' = IF reader = "idle" /\ pc = "idle" THEN "busy" ELSE reader
  /\ UNCHANGED <<lifeVars, deferredVars, inputdata, deferClose, deferredClose, outEof,
                 cbVars, pc, rd, got, eofAsked>>

\* Mutant of Thaw: no callback is queued.
Thaw_NoCallback ==
  /\ Usable /\ want' = FALSE
  /\ frozen' = CASE frozen = "FROZEN"   -> "THAWING"
                 [] frozen = "FREEZING" -> "UNFROZEN"
                 [] OTHER -> frozen
  /\ UNCHANGED <<lifeVars, deferredVars, inputdata, deferClose, deferredClose, handleVars,
                 cbVars, pc, rd, got, eofAsked>>

\* sk_handle_set_frozen(s, false): assert(bufchain_size(&hs->inputdata) == 0) if
\* FREEZING.
Thaw ==
  /\ Usable /\ want' = FALSE
  /\ \/ /\ frozen \in {"UNFROZEN", "THAWING"} /\ UNCHANGED <<lifeVars, frozen, thawCbs>>
     \/ /\ frozen = "FREEZING"
        /\ IF inputdata = <<>>
           THEN frozen' = "UNFROZEN" /\ UNCHANGED lifeVars
           ELSE Abort("input") /\ UNCHANGED frozen
        /\ UNCHANGED thawCbs
     \/ /\ frozen = "FROZEN" /\ thawCbs < Callbacks
        /\ frozen' = "THAWING" /\ thawCbs' = thawCbs + 1 /\ UNCHANGED lifeVars
  /\ UNCHANGED <<deferredVars, inputdata, deferClose, deferredClose, handleVars,
                 connectCb, pc, rd, got, eofAsked>>

\* The end of sk_handle_close: the handles and the callbacks go, then hs itself.
FreeSocket ==
  /\ life' = "closed" /\ reader' = "gone"
  /\ inputdata' = <<>> /\ thawCbs' = 0 /\ connectCb' = FALSE

\* Mutant of Close: callbacks are left behind.
Close_LeavesCallbacks ==
  /\ Usable
  /\ IF deferClose
     THEN deferredClose' = TRUE /\ UNCHANGED <<life, reader, inputdata>>
     ELSE /\ life' = "closed" /\ reader' = "gone" /\ inputdata' = <<>>
          /\ UNCHANGED deferredClose
  /\ UNCHANGED <<failed, deferredVars, frozen, deferClose, outEof, cbVars, pc, rd, got, plugVars>>

\* sk_handle_close
Close ==
  /\ Usable
  /\ IF deferClose
     THEN deferredClose' = TRUE /\ UNCHANGED <<life, reader, inputdata, cbVars>>
     ELSE FreeSocket /\ UNCHANGED deferredClose
  /\ UNCHANGED <<failed, deferredVars, frozen, deferClose, outEof, pc, rd, got, plugVars>>
-----------------------------------------------------------------------------
(* What the handles and the callback queue do *)

\* Mutants of GotData: no large backlog is returned; FREEZING is not left.
GotData_NoBacklog ==
  /\ life = "open" /\ pc = "idle" /\ reader = "busy" /\ rd < Loads
  /\ rd' = rd + 1
  /\ CASE frozen \in {"FROZEN", "THAWING"} ->
            Abort("input") /\ UNCHANGED <<frozen, inputdata, reader, pc, got>>
       [] frozen = "FREEZING" ->
            /\ inputdata' = Append(inputdata, rd + 1) /\ frozen' = "FROZEN"
            /\ UNCHANGED <<lifeVars, reader, pc, got>>
       [] frozen = "UNFROZEN" ->
            /\ got' = rd + 1 /\ pc' = "receive" /\ reader' = "idle"
            /\ UNCHANGED <<lifeVars, frozen, inputdata>>
  /\ UNCHANGED <<deferredVars, deferClose, deferredClose, outEof, cbVars, plugVars>>

GotData_StaysFreezing ==
  /\ life = "open" /\ pc = "idle" /\ reader = "busy" /\ rd < Loads
  /\ rd' = rd + 1
  /\ IF frozen = "FREEZING"
     THEN /\ inputdata' = Append(inputdata, rd + 1) /\ reader' = "idle"
          /\ UNCHANGED <<pc, got>>
     ELSE got' = rd + 1 /\ pc' = "receive" /\ reader' = "idle" /\ UNCHANGED inputdata
  /\ UNCHANGED <<lifeVars, frozen, deferredVars, deferClose, deferredClose, outEof, cbVars,
                 plugVars>>

\* handle_gotdata with data: assert(hs->frozen != FROZEN && hs->frozen != THAWING).
\* While the plug is being called the handle is not reading.
GotData ==
  /\ life = "open" /\ pc = "idle" /\ reader = "busy" /\ rd < Loads
  /\ rd' = rd + 1 /\ reader' = "idle"
  /\ CASE frozen \in {"FROZEN", "THAWING"} ->
            Abort("input") /\ UNCHANGED <<frozen, inputdata, pc, got>>
       [] frozen = "FREEZING" ->
            /\ inputdata' = Append(inputdata, rd + 1) /\ frozen' = "FROZEN"
            /\ UNCHANGED <<lifeVars, pc, got>>
       [] frozen = "UNFROZEN" ->
            /\ got' = rd + 1 /\ pc' = "receive"
            /\ UNCHANGED <<lifeVars, frozen, inputdata>>
  /\ UNCHANGED <<deferredVars, deferClose, deferredClose, outEof, cbVars, plugVars>>

\* plug_receive returns to handle_gotdata, which returns 0.
ReceiveReturns ==
  /\ pc = "receive" /\ life # "aborted" /\ pc' = "idle"
  /\ reader' = IF reader = "idle" THEN "busy" ELSE reader
  /\ UNCHANGED <<lifeVars, deferredVars, openVars, outEof, cbVars, rd, got, plugVars>>

\* handle_gotdata with EOF or an error: plug_closing.
GotEnd ==
  /\ life = "open" /\ pc = "idle" /\ reader = "busy"
  /\ reader' = "gone" /\ pc' = "closing"
  /\ UNCHANGED <<lifeVars, deferredVars, openVars, outEof, cbVars, rd, got, plugVars>>

ClosingReturns ==
  /\ pc = "closing" /\ life # "aborted" /\ pc' = "idle"
  /\ UNCHANGED <<lifeVars, deferredVars, openVars, handleVars, cbVars, rd, got, plugVars>>

\* handle_socket_unfreeze, in another state than THAWING: there is nothing to do.
UnfreezeStale ==
  /\ life = "open" /\ pc = "idle" /\ thawCbs > 0 /\ frozen # "THAWING"
  /\ thawCbs' = thawCbs - 1
  /\ UNCHANGED <<lifeVars, deferredVars, openVars, handleVars, connectCb, pc, rd, got, plugVars>>

\* handle_socket_unfreeze, up to plug_receive: assert(data.len > 0).
Unfreeze ==
  /\ life = "open" /\ pc = "idle" /\ thawCbs > 0 /\ frozen = "THAWING"
  /\ thawCbs' = thawCbs - 1
  /\ IF inputdata = <<>>
     THEN Abort("input") /\ UNCHANGED <<deferClose, got, pc>>
     ELSE /\ deferClose' = TRUE /\ got' = Head(inputdata) /\ pc' = "thaw"
          /\ UNCHANGED lifeVars
  /\ UNCHANGED <<deferredVars, frozen, inputdata, deferredClose, handleVars, connectCb, rd, plugVars>>

\* Mutant of UnfreezeReturns: the handle stays throttled.
UnfreezeReturns_Throttled ==
  /\ pc = "thaw" /\ life # "aborted" /\ pc' = "idle" /\ deferClose' = FALSE
  /\ IF deferredClose THEN FreeSocket /\ UNCHANGED frozen
     ELSE /\ inputdata' = Tail(inputdata) /\ frozen' = "UNFROZEN"
          /\ UNCHANGED <<life, reader, cbVars>>
  /\ UNCHANGED <<failed, deferredVars, deferredClose, outEof, rd, got, plugVars>>

\* plug_receive returns to handle_socket_unfreeze.  Whatever state the plug has put
\* the socket into, it is THAWING if there is more, and otherwise UNFROZEN.
UnfreezeReturns ==
  /\ pc = "thaw" /\ life # "aborted" /\ pc' = "idle" /\ deferClose' = FALSE
  /\ IF deferredClose THEN FreeSocket /\ UNCHANGED frozen
     ELSE /\ inputdata' = Tail(inputdata)
          /\ IF inputdata' # <<>>
             THEN thawCbs' = thawCbs + 1 /\ UNCHANGED <<frozen, reader>>
             ELSE /\ frozen' = "UNFROZEN" /\ UNCHANGED thawCbs
                  /\ reader' = IF reader = "idle" THEN "busy" ELSE reader
          /\ UNCHANGED <<life, connectCb>>
  /\ UNCHANGED <<failed, deferredVars, deferredClose, outEof, rd, got, plugVars>>

\* sk_handle_connect_success_callback
Connected ==
  /\ life = "open" /\ pc = "idle" /\ connectCb
  /\ connectCb' = FALSE
  /\ UNCHANGED <<lifeVars, deferredVars, openVars, handleVars, thawCbs, pc, rd, got, plugVars>>

PlugStep ==
  \/ DeferredWrite \/ DeferredWriteEof \/ DeferredClose
  \/ \E b \in BOOLEAN : DeferredSetFrozen(b)
  \/ Write \/ WriteEof \/ Freeze \/ Thaw \/ Close

LoopStep ==
  \/ Setup \/ GotData \/ GotEnd \/ UnfreezeStale \/ Unfreeze \/ Connected
  \/ ReceiveReturns \/ ClosingReturns \/ UnfreezeReturns

SocketNext == PlugStep \/ LoopStep

SocketSpec == SocketInit /\ [][SocketNext]_socketVars

\* The event loop goes on, reads complete, and the plug's functions return.
FairSocketSpec == SocketSpec /\ WF_socketVars(UnfreezeStale \/ Unfreeze) /\ WF_socketVars(GotData)
                 /\ WF_socketVars(ReceiveReturns \/ ClosingReturns \/ UnfreezeReturns)
-----------------------------------------------------------------------------
(* Properties *)

\* Type invariant.  What is buffered is one load at most, while frozen or thawing.
\* Code: struct HandleSocket, "we may receive one more load of data".
SocketTypeOK ==
  /\ life \in {"deferred", "open", "closed", "aborted"}
  /\ failed \in {"none", "input", "output"}
  /\ frozen \in {"UNFROZEN", "FREEZING", "FROZEN", "THAWING"}
  /\ inputdata \in Seq(1 .. Loads) /\ Len(inputdata) <= 1
  /\ inputdata # <<>> => frozen \in {"FROZEN", "THAWING"} \/ pc = "thaw"
  /\ eofPending \in BOOLEAN /\ startFrozen \in BOOLEAN
  /\ deferClose \in BOOLEAN /\ deferredClose \in BOOLEAN
  /\ outEof \in BOOLEAN /\ connectCb \in BOOLEAN
  /\ want \in BOOLEAN /\ eofAsked \in BOOLEAN
  /\ reader \in {"busy", "idle", "gone"}
  /\ thawCbs \in 0 .. Callbacks
  /\ pc \in {"idle", "receive", "thaw", "closing"}
  /\ rd \in 0 .. Loads /\ got \in 0 .. Loads

\* Whatever the plug does in its callbacks, it gets every load once and in order,
\* the buffered one before those that are read after it, and is told of the end
\* only when it has had them all.
\* Code: handle_gotdata, which never buffers an EOF; handle_socket_unfreeze.
EndAfterData == pc = "closing" => got = rd
InputInOrder == [][(got' # got => got' = got + 1) /\ EndAfterData']_socketVars

\* The assertions on the freeze state hold.
\* Code: the three assert()s of handle_gotdata, handle_socket_unfreeze and
\* sk_handle_set_frozen.
FreezeAssertionsHold == failed # "input"

\* A socket that its plug does not want frozen is on its way to reading: it reads,
\* or the callback that releases its data is in the queue.
\* Code: handle_socket_unfreeze, sk_handle_set_frozen.
NeverStuck ==
  life = "open" /\ pc = "idle" /\ ~want =>
    \/ inputdata = <<>> /\ reader # "idle"
    \/ frozen = "THAWING" /\ thawCbs > 0

\* No callback and no plug_receive in progress comes back to freed memory, and one
\* that finds the socket in place finds it in a state that its assertions allow.
\* Code: sk_handle_close, defer_close and delete_callbacks_for_context; the
\* assert()s on the freeze state.
NoUseAfterFree == life = "closed" => thawCbs = 0 /\ ~connectCb /\ pc # "thaw"
CallbacksSound == SocketTypeOK /\ FreezeAssertionsHold /\ NoUseAfterFree

\* Data that has been read reaches a plug that wants it.
\* Code: handle_socket_unfreeze.
DataArrives ==
  (life = "open" /\ got < rd /\ ~want) ~> (got = rd \/ want \/ life # "open")
=============================================================================
