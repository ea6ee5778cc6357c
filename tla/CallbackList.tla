---------------------------- MODULE CallbackList ----------------------------
(***************************************************************************)
(* The linked list of putty/callback.c: cbhead, cbtail and cbcurr, and the *)
(* loop by which delete_callbacks_for_context builds a new list out of the *)
(* structs it keeps.  It implements CallbackQueue.                         *)
(***************************************************************************)
EXTENDS Naturals, Sequences, FiniteSets

CONSTANTS
  Object, NoEntry, MaxQueue,   \* see CallbackQueue
  Cell,                        \* the memory of struct callbacks
  Null                         \* the null pointer

ASSUME QueueAssumption == MaxQueue \in Nat \ {0}
ASSUME NullAssumption == Null \notin Cell /\ Null \notin Object
ASSUME CellAssumption == IsFiniteSet(Cell) /\ MaxQueue < Cardinality(Cell)

Pointer == Cell \cup {Null}
Entry == [fn : {"plain", "idempotent"}, obj : Object]

ASSUME NoEntryAssumption == NoEntry \notin Entry

VARIABLES
  used,                      \* the cells that are allocated
  entry, next,               \* fn and ctx of a cell, and its next pointer
  cbcurr, cbhead, cbtail,
  newhead, newtail, doomed,  \* of delete_callbacks_for_context; doomed: its ctx
  queue, cells,              \* history: the callbacks in the queue and their cells; those
                             \* at the beginning of a deletion, as long as it lasts
  pos, kept                  \* history: how many of them its loop has dealt with, and the
                             \* positions of those it keeps, in order

endVars     == <<cbhead, cbtail>>
deleteVars  == <<newhead, newtail, doomed>>
loopVars    == <<pos, kept>>
historyVars == <<queue, cells, loopVars>>
listVars    == <<used, entry, next, cbcurr, endVars, deleteVars, historyVars>>

ListInit ==
  /\ used = {}
  /\ entry = [c \in Cell |-> NoEntry] /\ next = [c \in Cell |-> Null]
  /\ cbcurr = Null /\ cbhead = Null /\ cbtail = Null
  /\ newhead = Null /\ newtail = Null /\ doomed = Null
  /\ queue = <<>> /\ cells = <<>> /\ pos = 0 /\ kept = <<>>

Deleting == doomed # Null

\* A sequence without its first element, and the elements at the given positions.
Rest(s) == [i \in 1 .. Len(s) - 1 |-> s[i + 1]]
At(s, positions) == [j \in 1 .. Len(positions) |-> s[positions[j]]]

\* sfree: what was in the cell is lost.
FreeCell(c) ==
  /\ used' = used \ {c}
  /\ entry' = [entry EXCEPT ![c] = NoEntry] /\ next' = [next EXCEPT ![c] = Null]

\* queue_toplevel_callback, with the cell c that snew returns.
AppendCell(c, e) ==
  /\ used' = used \cup {c} /\ entry' = [entry EXCEPT ![c] = e]
  /\ IF cbtail # Null
     THEN next' = [next EXCEPT ![cbtail] = c, ![c] = Null] /\ UNCHANGED cbhead
     ELSE cbhead' = c /\ next' = [next EXCEPT ![c] = Null]
  /\ cbtail' = c /\ UNCHANGED <<cbcurr, deleteVars>>
  /\ queue' = Append(queue, e) /\ cells' = Append(cells, c) /\ UNCHANGED loopVars

QueueToplevelCallback(e) ==
  /\ ~Deleting /\ Len(queue) < MaxQueue
  /\ AppendCell(CHOOSE c \in Cell : c \notin used, e)

\* Mutant of RunBegins: the tail pointer outlives the last cell.
RunBegins_KeepsTail ==
  /\ ~Deleting /\ cbhead # Null /\ cbcurr = Null
  /\ cbcurr' = cbhead /\ cbhead' = next[cbhead] /\ UNCHANGED cbtail
  /\ queue' = Rest(queue) /\ cells' = Rest(cells)
  /\ UNCHANGED <<used, entry, next, deleteVars, loopVars>>

\* run_toplevel_callbacks, up to the call.
RunBegins ==
  /\ ~Deleting /\ cbhead # Null /\ cbcurr = Null
  /\ cbcurr' = cbhead /\ cbhead' = next[cbhead]
  /\ cbtail' = IF next[cbhead] = Null THEN Null ELSE cbtail
  /\ queue' = Rest(queue) /\ cells' = Rest(cells)
  /\ UNCHANGED <<used, entry, next, deleteVars, loopVars>>

\* ... and after it.
RunEnds ==
  /\ ~Deleting /\ cbcurr # Null
  /\ FreeCell(cbcurr) /\ cbcurr' = Null
  /\ UNCHANGED <<endVars, deleteVars, historyVars>>

\* delete_callbacks_for_context is called, perhaps by the callback being run, ...
DeleteBegins(o) ==
  /\ ~Deleting /\ doomed' = o
  /\ newhead' = Null /\ newtail' = Null
  /\ UNCHANGED <<used, entry, next, cbcurr, endVars, historyVars>>

\* ... frees the cell at the head ...
DeleteFrees ==
  /\ Deleting /\ cbhead # Null /\ entry[cbhead].obj = doomed
  /\ cbhead' = next[cbhead] /\ FreeCell(cbhead)
  /\ pos' = pos + 1
  /\ UNCHANGED <<cbcurr, cbtail, deleteVars, queue, cells, kept>>

\* Mutant of DeleteKeeps: the new list is built in the opposite order.
DeleteKeeps_Reverses ==
  /\ Deleting /\ cbhead # Null /\ entry[cbhead].obj # doomed
  /\ cbhead' = next[cbhead] /\ newhead' = cbhead
  /\ newtail' = IF newtail = Null THEN cbhead ELSE newtail
  /\ next' = [next EXCEPT ![cbhead] = newhead]
  /\ pos' = pos + 1 /\ kept' = Append(kept, pos + 1)
  /\ UNCHANGED <<used, entry, cbcurr, cbtail, doomed, queue, cells>>

\* ... or moves it to the new list ...
DeleteKeeps ==
  /\ Deleting /\ cbhead # Null /\ entry[cbhead].obj # doomed
  /\ cbhead' = next[cbhead] /\ newtail' = cbhead
  /\ IF newhead = Null
     THEN newhead' = cbhead /\ UNCHANGED next
     ELSE next' = [next EXCEPT ![newtail] = cbhead] /\ UNCHANGED newhead
  /\ pos' = pos + 1 /\ kept' = Append(kept, pos + 1)
  /\ UNCHANGED <<used, entry, cbcurr, cbtail, doomed, queue, cells>>

\* ... until there is none left, and puts the new list in place of the old.
DeleteEnds ==
  /\ Deleting /\ cbhead = Null
  /\ cbhead' = newhead /\ cbtail' = newtail
  /\ next' = IF newtail = Null THEN next ELSE [next EXCEPT ![newtail] = Null]
  /\ doomed' = Null /\ newhead' = Null /\ newtail' = Null
  /\ queue' = At(queue, kept) /\ cells' = At(cells, kept) /\ pos' = 0 /\ kept' = <<>>
  /\ UNCHANGED <<used, entry, cbcurr>>

DeleteStep == DeleteFrees \/ DeleteKeeps
-----------------------------------------------------------------------------
(* The queue the list stands for *)

\* The callback being run.
CurrentEntry == IF cbcurr = Null THEN NoEntry ELSE entry[cbcurr]

Queue == INSTANCE CallbackQueue WITH cur <- CurrentEntry
-----------------------------------------------------------------------------
(* Properties *)

\* The types.  The new list is there only during a deletion.
\* Code: struct callback and the static variables of callback.c.
ListTypeOK ==
  /\ used \subseteq Cell /\ \A c \in used : entry[c] \in Entry
  /\ entry \in [Cell -> Entry \cup {NoEntry}] /\ next \in [Cell -> Pointer]
  /\ {cbcurr, cbhead, cbtail, newhead, newtail} \subseteq Pointer
  /\ doomed \in Object \cup {Null}
  /\ (newhead = Null) = (newtail = Null) /\ (newhead # Null => Deleting)

\* The history variables: during a deletion the loop has kept, of the callbacks that it
\* has dealt with, those of other contexts.
HistoryOK ==
  /\ queue \in Seq(Entry) /\ cells \in Seq(Cell) /\ Len(cells) = Len(queue)
  /\ pos \in 0 .. Len(queue) /\ kept \in Seq(1 .. pos)
  /\ Len(queue) <= MaxQueue /\ (~Deleting => pos = 0)
  /\ \A i, j \in DOMAIN kept : i < j => kept[i] < kept[j]
  /\ \A i \in 1 .. pos : (queue[i].obj # doomed <=> \E j \in DOMAIN kept : kept[j] = i)

\* The positions of the callbacks that still have their cells.
Present == (pos + 1) .. Len(queue) \cup {kept[j] : j \in DOMAIN kept}

\* From cbhead on the list has the cells that the loop has not dealt with, and from
\* newhead to newtail those it has kept; outside a deletion the first list ends at cbtail.
OldListOK ==
  /\ cbhead = IF pos = Len(queue) THEN Null ELSE cells[pos + 1]
  /\ \A i \in (pos + 1) .. Len(queue) :
       next[cells[i]] = IF i = Len(queue) THEN Null ELSE cells[i + 1]
  /\ ~Deleting => cbtail = IF queue = <<>> THEN Null ELSE cells[Len(queue)]
NewListOK ==
  /\ newhead = IF kept = <<>> THEN Null ELSE cells[kept[1]]
  /\ newtail = IF kept = <<>> THEN Null ELSE cells[kept[Len(kept)]]
  /\ \A j \in 1 .. Len(kept) - 1 : next[cells[kept[j]]] = cells[kept[j + 1]]

\* A cell holds one of these callbacks, or is being run, or is free.
CellsOK ==
  /\ \A i \in Present : cells[i] # cbcurr /\ entry[cells[i]] = queue[i]
  /\ \A i, j \in Present : cells[i] = cells[j] => i = j
  /\ used = {cells[i] : i \in Present} \cup ({cbcurr} \ {Null})

\* The lists hold the callbacks of the queue in their order, and every allocated struct
\* but the one being run, each once and none that has been freed, and cbtail is the last
\* one: nothing leaks and no pointer dangles, also half way through a deletion.
\* Code: delete_callbacks_for_context, run_toplevel_callbacks.
ListSound == ListTypeOK /\ HistoryOK /\ OldListOK /\ NewListOK /\ CellsOK

\* The list behaves as the queue: callbacks are begun in the order they were
\* queued, none is lost, and a deletion takes away those of its context.
\* Code: all of callback.c but the idempotent callbacks.
ImplementsQueue == Queue!QueueSpec
=============================================================================
