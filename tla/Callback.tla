------------------------------ MODULE Callback ------------------------------
(***************************************************************************)
(* The objects that rely on toplevel callbacks (putty/callback.c), and the *)
(* front end that runs them once it has been notified.  An object has an   *)
(* idempotent callback that deals with its input (a packet queue, raw      *)
(* data) and may also queue itself as a plain callback.  It deletes its    *)
(* callbacks when it is freed, from inside a callback or between two, and  *)
(* its memory may then be given to a new object.                           *)
(***************************************************************************)
EXTENDS CallbackList

CONSTANT PlainUser   \* the objects that also queue plain callbacks

ASSUME PlainUserAssumption == PlainUser \subseteq Object

VARIABLES
  live,       \* the objects that exist
  queued,     \* IdempotentCallback.queued
  input,      \* the object has input that its idempotent callback is to deal with
  drained,    \* the callback being run has done its work, or its object is gone
  idle        \* idle_fn_scheduled: the front end has been notified, and will call

vars == <<listVars, live, queued, input, drained, idle>>

Idempotent(o) == [fn |-> "idempotent", obj |-> o]
Plain(o)      == [fn |-> "plain", obj |-> o]

Init ==
  /\ ListInit
  /\ live = {} /\ queued = [o \in Object |-> FALSE]
  /\ input = [o \in Object |-> FALSE] /\ drained = TRUE
  /\ idle = FALSE
-----------------------------------------------------------------------------
(* callback.c *)

\* queue_toplevel_callback's notify_frontend, when the queue was empty and no
\* callback is being run.
NotifyFrontend == idle' = (idle \/ (cbhead = Null /\ cbcurr = Null))

\* queue_idempotent_callback
QueueIdempotent(o) ==
  \/ /\ queued[o] /\ UNCHANGED <<listVars, queued, idle>>
  \/ /\ ~queued[o]
     /\ QueueToplevelCallback(Idempotent(o)) /\ NotifyFrontend
     /\ queued' = [queued EXCEPT ![o] = TRUE]

\* Mutant of Start: run_idempotent_callback does not clear queued.
Start_NeverClears ==
  RunBegins /\ drained' = (entry[cbhead].fn = "plain") /\ UNCHANGED queued

\* run_toplevel_callbacks, and run_idempotent_callback up to the call of ic->fn.
Start ==
  /\ RunBegins /\ drained' = (entry[cbhead].fn = "plain")
  /\ IF entry[cbhead].fn = "idempotent"
     THEN queued' = [queued EXCEPT ![entry[cbhead].obj] = FALSE]
     ELSE UNCHANGED queued

-----------------------------------------------------------------------------
(* The objects *)

New(o) ==
  /\ ~Deleting /\ o \notin live
  /\ live' = live \cup {o}
  /\ queued' = [queued EXCEPT ![o] = FALSE]
  /\ input' = [input EXCEPT ![o] = FALSE]
  /\ UNCHANGED <<listVars, drained, idle>>

\* Mutant of Free: the object's callbacks are left in the queue.
Free_Forgets(o) ==
  /\ ~Deleting /\ o \in live
  /\ live' = live \ {o}
  /\ UNCHANGED <<listVars, queued, input, drained, idle>>

\* An object is freed, by its owner or by its own callback: its callbacks are
\* deleted first, ...
Free(o) ==
  /\ o \in live /\ DeleteBegins(o)
  /\ UNCHANGED <<live, queued, input, drained, idle>>

DeletionGoesOn == DeleteStep /\ UNCHANGED <<live, queued, input, drained, idle>>

\* ... and then its memory goes.
Freed ==
  /\ DeleteEnds
  /\ live' = live \ {doomed}
  /\ drained' = (drained \/ (cbcurr # Null /\ entry[cbcurr].obj = doomed))
  /\ UNCHANGED <<queued, input, idle>>

\* Something is added to the object's input: bufchain_add, pq_push.
AddInput(o) ==
  /\ ~Deleting /\ o \in live
  /\ input' = [input EXCEPT ![o] = TRUE]
  /\ QueueIdempotent(o)
  /\ UNCHANGED <<live, drained>>

\* The object queues a plain callback for itself.
QueuePlain(o) ==
  /\ o \in live \cap PlainUser
  /\ QueueToplevelCallback(Plain(o)) /\ NotifyFrontend
  /\ UNCHANGED <<live, queued, input, drained>>

\* The idempotent callback being run deals with all the input there is.  More may
\* be added before it returns, by what it calls.
Drain ==
  /\ ~Deleting /\ cbcurr # Null /\ ~drained
  /\ input' = [input EXCEPT ![entry[cbcurr].obj] = FALSE] /\ drained' = TRUE
  /\ UNCHANGED <<listVars, live, queued, idle>>
-----------------------------------------------------------------------------
(* The front end *)

\* It calls run_toplevel_callbacks after an event, or because it was notified.
FrontEndRuns == Start /\ UNCHANGED <<live, input, idle>>

IdleRuns == idle /\ FrontEndRuns

\* The callback returns.
Return ==
  /\ RunEnds /\ drained
  /\ UNCHANGED <<live, queued, input, drained, idle>>

\* Mutant of IdleEnds: toplevel_callback_pending only looks at cbcurr.
IdleEnds_Early ==
  /\ ~Deleting /\ idle /\ cbcurr = Null
  /\ idle' = FALSE
  /\ UNCHANGED <<listVars, live, queued, input, drained>>

\* idle_toplevel_callback_func unschedules itself when nothing is pending.
IdleEnds ==
  /\ ~Deleting /\ idle /\ cbhead = Null /\ cbcurr = Null
  /\ idle' = FALSE
  /\ UNCHANGED <<listVars, live, queued, input, drained>>

Next ==
  \/ \E o \in Object : New(o) \/ Free(o) \/ AddInput(o) \/ QueuePlain(o)
  \/ DeletionGoesOn \/ Freed
  \/ Drain \/ FrontEndRuns \/ Return \/ IdleEnds

Spec == Init /\ [][Next]_vars

\* Callbacks return, having done their work, a deletion's loop ends, and a front end
\* that has been notified calls, however often a deletion, which is a call that
\* something else makes, comes between; other events need not come.
FairSpec ==
  /\ Spec
  /\ WF_vars(DeletionGoesOn \/ Freed)
  /\ SF_vars(Drain) /\ SF_vars(Return) /\ SF_vars(IdleRuns)
-----------------------------------------------------------------------------
(* Properties *)

\* Type invariant.  A callback that has work left belongs to an object that exists.
\* Code: struct IdempotentCallback and the static variables of callback.c.
TypeOK ==
  /\ ListTypeOK
  /\ live \subseteq Object
  /\ queued \in [Object -> BOOLEAN] /\ input \in [Object -> BOOLEAN]
  /\ drained \in BOOLEAN /\ idle \in BOOLEAN
  /\ ~drained => CurrentEntry \in {Idempotent(o) : o \in live}

InQueue(e) == \E i \in DOMAIN queue : queue[i] = e

\* No callback is queued for an object that does not exist, nor for a new one in
\* the place of the old one, which is in the queue exactly when its field queued
\* says so (run_idempotent_callback writes to the object); and the list itself
\* neither leaks structs nor has dangling pointers.
\* Code: delete_callbacks_for_context, called wherever an object is freed.
NoDanglingCallback ==
  /\ TypeOK /\ ListSound
  /\ \A i \in DOMAIN queue : queue[i].obj \in live
  /\ \A o \in live : queued[o] <=> InQueue(Idempotent(o))
  /\ \A i, j \in DOMAIN queue : queue[i] = queue[j] /\ queue[i].fn = "idempotent" => i = j

\* Input is never left behind without a callback that will see it, also when it is
\* added while the callback is being run; and a queue that is not empty has been
\* announced to the front end, though notify_frontend is called only when it was
\* empty and no callback was being run.
\* Code: run_idempotent_callback, which clears queued before the call;
\* queue_toplevel_callback and unix/gtk-common.c's idle function.
NoInputForgotten ==
  /\ \A o \in live : input[o] =>
       InQueue(Idempotent(o)) \/ (CurrentEntry = Idempotent(o) /\ ~drained)
  /\ cbhead # Null => idle

\* All input is dealt with in the end.
\* Code: the queue is first in, first out, and a callback that is queued again
\* goes behind the others.
InputHandled == \A o \in Object : (o \in live /\ input[o]) ~> (o \notin live \/ ~input[o])
=============================================================================
