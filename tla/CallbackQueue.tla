---------------------------- MODULE CallbackQueue ----------------------------
(***************************************************************************)
(* What putty/callback.c promises: toplevel callbacks are run one at a     *)
(* time, in the order they were queued, unless the context they were       *)
(* queued for is given up first.  CallbackList is the linked list that     *)
(* does it, Callback the objects that rely on it.                          *)
(***************************************************************************)
EXTENDS Naturals, Sequences

CONSTANTS
  Object,     \* the structs that callbacks are queued for: their contexts
  NoEntry,    \* no callback is being run
  MaxQueue    \* bound of the model: callbacks queued at a time

\* A plain callback has the object as its context.  The context of an idempotent
\* one is an IdempotentCallback inside the object, whose ctx is the object.
Entry == [fn : {"plain", "idempotent"}, obj : Object]

VARIABLES
  queue,   \* the callbacks not yet begun, in order
  cur      \* the one being run

queueVars == <<queue, cur>>

QueueInit == queue = <<>> /\ cur = NoEntry

\* queue_toplevel_callback
QueueToplevelCallback(e) ==
  /\ Len(queue) < MaxQueue
  /\ queue' = Append(queue, e) /\ UNCHANGED cur

\* delete_callbacks_for_context: f lists the positions of the callbacks that stay.
DeleteCallbacksForContext(o) ==
  /\ \E n \in 0 .. Len(queue) : \E f \in [1 .. n -> 1 .. Len(queue)] :
       /\ \A i, j \in 1 .. n : i < j => f[i] < f[j]
       /\ \A i \in 1 .. Len(queue) : (queue[i].obj # o <=> \E j \in 1 .. n : f[j] = i)
       /\ queue' = [j \in 1 .. n |-> queue[f[j]]]
  /\ UNCHANGED cur

\* run_toplevel_callbacks calls the first callback ...
RunBegins ==
  /\ queue # <<>> /\ cur = NoEntry
  /\ cur' = Head(queue) /\ queue' = Tail(queue)

\* ... which returns.
RunEnds ==
  /\ cur # NoEntry
  /\ cur' = NoEntry /\ UNCHANGED queue

QueueNext ==
  \/ \E e \in Entry : QueueToplevelCallback(e)
  \/ \E o \in Object : DeleteCallbacksForContext(o)
  \/ RunBegins \/ RunEnds

QueueSpec == QueueInit /\ [][QueueNext]_queueVars
=============================================================================
