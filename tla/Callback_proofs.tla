--------------------------- MODULE Callback_proofs ---------------------------
(***************************************************************************)
(* Theorems about the toplevel callbacks, and about the sockets over       *)
(* handles that release their data from one.                               *)
(*                                                                         *)
(* Callback: the linked list of callbacks is sound, also half way through  *)
(* a deletion (ListSound), and implements the queue; the objects that rely *)
(* on it are in the queue when they have to be, and never once they are    *)
(* gone.                                                                   *)
(*                                                                         *)
(* HandleSocket: what SocketTypeOK lacks to be inductive is in BufferInv:  *)
(* exactly while data is buffered the socket is frozen or thawing and the  *)
(* handle does not read; during plug_receive of handle_socket_unfreeze it  *)
(* is both, and only then is a close put off.  CountInv adds what has been *)
(* read: all of it has been given to the plug, but for what is buffered.   *)
(***************************************************************************)
EXTENDS Callback, HandleSocket, FiniteSetTheorems, SequenceTheorems, TLAPS

-----------------------------------------------------------------------------
(* Sequences and cells *)

\* A sequence without its first element.
\* Code: cbhead = cbhead->next.
LEMMA RestOf ==
  ASSUME NEW S, NEW s \in Seq(S), s # <<>>
  PROVE  /\ Rest(s) \in Seq(S) /\ Len(Rest(s)) = Len(s) - 1
         /\ \A i \in 1 .. Len(s) - 1 : Rest(s)[i] = s[i + 1]
<1>1. Len(s) \in Nat /\ Len(s) > 0 /\ s \in [1 .. Len(s) -> S]
  OBVIOUS
<1>2. Rest(s) \in [1 .. Len(s) - 1 -> S]
  BY <1>1 DEF Rest
<1>3. QED
  BY <1>1, <1>2 DEF Rest

\* The elements at some of a sequence's positions.
\* Code: the list that delete_callbacks_for_context builds.
LEMMA AtOf ==
  ASSUME NEW S, NEW s \in Seq(S), NEW n \in 0 .. Len(s), NEW p \in Seq(1 .. n)
  PROVE  /\ At(s, p) \in Seq(S) /\ Len(At(s, p)) = Len(p)
         /\ \A j \in 1 .. Len(p) : At(s, p)[j] = s[p[j]] /\ p[j] \in 1 .. n
<1>1. Len(s) \in Nat /\ Len(p) \in Nat /\ s \in [1 .. Len(s) -> S]
  OBVIOUS
<1>2. \A j \in 1 .. Len(p) : p[j] \in 1 .. n
  OBVIOUS
<1>3. At(s, p) \in [1 .. Len(p) -> S]
  BY <1>1, <1>2 DEF At
<1>4. QED
  BY <1>1, <1>2, <1>3 DEF At

\* A sequence over a set is one over a larger set.
\* Code: no line of its own; the positions kept so far.
LEMMA SeqOver ==
  ASSUME NEW S, NEW T, S \subseteq T, NEW s \in Seq(S)
  PROVE  s \in Seq(T)
<1>1. Len(s) \in Nat /\ s \in [1 .. Len(s) -> T]
  OBVIOUS
<1>2. QED
  BY <1>1

\* The cells of s and one more are no more than its length and one.
\* Code: snew, which finds memory for as many callbacks as the model allows.
LEMMA CellsBounded ==
  ASSUME NEW s, Len(s) \in Nat, NEW x
  PROVE  LET S == {s[i] : i \in 1 .. Len(s)} \cup {x}
         IN  IsFiniteSet(S) /\ Cardinality(S) <= Len(s) + 1
<1> DEFINE S == {s[i] : i \in 1 .. Len(s)} \cup {x}
           f == [i \in 1 .. Len(s) + 1 |-> IF i <= Len(s) THEN s[i] ELSE x]
<1>1. f \in Surjection(1 .. Len(s) + 1, S)
  <2>1. f \in [1 .. Len(s) + 1 -> S]
    OBVIOUS
  <2>2. ASSUME NEW t \in S PROVE \E i \in 1 .. Len(s) + 1 : f[i] = t
    <3>1. CASE t = x
      BY <3>1, f[Len(s) + 1] = x
    <3>2. CASE \E i \in 1 .. Len(s) : t = s[i]
      <4>1. PICK i \in 1 .. Len(s) : t = s[i]
        BY <3>2
      <4>2. QED
        BY <4>1
    <3>3. QED
      BY <3>1, <3>2
  <2>3. QED
    BY <2>1, <2>2 DEF Surjection
<1>2. IsFiniteSet(1 .. Len(s) + 1) /\ Cardinality(1 .. Len(s) + 1) = Len(s) + 1
  BY FS_Interval
<1> HIDE DEF S, f
<1>3. IsFiniteSet(S) /\ Cardinality(S) <= Len(s) + 1
  BY <1>1, <1>2, FS_Surjection
<1>4. QED
  BY <1>3 DEF S

\* Outside a deletion its variables are what they are at the beginning.
\* Code: the locals of delete_callbacks_for_context.
LEMMA NotDeleting ==
  ASSUME ListSound, ~Deleting
  PROVE  /\ pos = 0 /\ kept = <<>> /\ newhead = Null /\ newtail = Null
         /\ Present = 1 .. Len(queue)
<1>1. pos = 0 /\ kept \in Seq(1 .. 0)
  BY DEF ListSound, HistoryOK
<1>2. kept = <<>>
  BY <1>1
<1>3. newhead = Null /\ newtail = Null
  BY DEF ListSound, ListTypeOK
<1>4. QED
  BY <1>1, <1>2, <1>3 DEF Present, ListSound, HistoryOK

\* While the queue has room there is a cell for another callback.
\* Code: snew, of queue_toplevel_callback.
LEMMA RoomForAnother ==
  ASSUME ListSound, ~Deleting, Len(queue) < MaxQueue
  PROVE  \E c \in Cell : c \notin used
<1>1. Len(queue) \in Nat /\ Len(cells) = Len(queue)
  BY DEF ListSound, HistoryOK
<1> DEFINE S == {cells[i] : i \in 1 .. Len(cells)} \cup {cbcurr}
<1>2. IsFiniteSet(S) /\ Cardinality(S) <= Len(cells) + 1
  BY <1>1, CellsBounded
<1>3. used \subseteq S
  BY <1>1, NotDeleting DEF ListSound, CellsOK
<1> HIDE DEF S
<1>4. IsFiniteSet(used) /\ Cardinality(used) <= Cardinality(S)
  BY <1>2, <1>3, FS_Subset
<1>5. Cardinality(Cell) \in Nat /\ Cardinality(S) \in Nat /\ Cardinality(used) \in Nat
  BY <1>2, <1>4, CellAssumption, FS_CardinalityType
<1>6. used # Cell
  BY <1>1, <1>2, <1>4, <1>5, CellAssumption, QueueAssumption
<1>7. QED
  BY <1>6 DEF ListSound, ListTypeOK
-----------------------------------------------------------------------------
(* The list is sound: a step of each kind *)

\* The list is empty to begin with.
\* Code: the initial values of callback.c's static variables.
LEMMA ListInitSound == ListInit => ListSound
<1> SUFFICES ASSUME ListInit PROVE ListSound
  OBVIOUS
<1> USE QueueAssumption DEF ListInit, Deleting
<1>1. ListTypeOK
  BY DEF ListTypeOK, Pointer
<1>2. HistoryOK
  BY DEF HistoryOK
<1>3. OldListOK /\ NewListOK
  BY DEF OldListOK, NewListOK
<1>4. CellsOK
  BY DEF CellsOK, Present
<1>5. QED
  BY <1>1, <1>2, <1>3, <1>4 DEF ListSound

\* A callback that is queued goes behind the others.
\* Code: queue_toplevel_callback.
LEMMA QueueKeepsList ==
  ASSUME ListSound, NEW e \in Entry, QueueToplevelCallback(e)
  PROVE  /\ ListSound' /\ cbcurr' = cbcurr /\ ~Deleting'
         /\ cbcurr # Null => entry'[cbcurr] = entry[cbcurr]
         /\ queue' = Append(queue, e)
<1> DEFINE c == CHOOSE x \in Cell : x \notin used
<1>1. ~Deleting /\ Len(queue) < MaxQueue /\ AppendCell(c, e)
  BY DEF QueueToplevelCallback
<1>2. c \in Cell /\ c \notin used
  BY <1>1, RoomForAnother
<1> HIDE DEF c
<1>3. /\ pos = 0 /\ kept = <<>> /\ newhead = Null /\ newtail = Null
      /\ Present = 1 .. Len(queue)
  BY <1>1, NotDeleting
<1>4. /\ queue' = Append(queue, e) /\ cells' = Append(cells, c)
      /\ UNCHANGED <<pos, kept, cbcurr, newhead, newtail, doomed>>
      /\ cbtail' = c /\ used' = used \cup {c} /\ entry' = [entry EXCEPT ![c] = e]
  BY <1>1 DEF AppendCell, loopVars, deleteVars
<1>5. queue \in Seq(Entry) /\ cells \in Seq(Cell) /\ Len(cells) = Len(queue)
  BY DEF ListSound, HistoryOK
<1>6. /\ Len(queue) \in Nat /\ Len(queue') = Len(queue) + 1 /\ Len(cells') = Len(queue) + 1
      /\ queue' \in Seq(Entry) /\ cells' \in Seq(Cell)
      /\ \A i \in 1 .. Len(queue) : queue'[i] = queue[i] /\ cells'[i] = cells[i]
      /\ queue'[Len(queue) + 1] = e /\ cells'[Len(queue) + 1] = c
  BY <1>2, <1>4, <1>5
<1>7. Present' = 1 .. Len(queue) + 1
  BY <1>3, <1>4, <1>6 DEF Present
<1>8. /\ \A i \in 1 .. Len(queue) : /\ cells[i] \in Cell /\ cells[i] # c /\ cells[i] # cbcurr
                                    /\ entry[cells[i]] = queue[i]
      /\ \A i, j \in 1 .. Len(queue) : cells[i] = cells[j] => i = j
      /\ used = {cells[i] : i \in 1 .. Len(queue)} \cup ({cbcurr} \ {Null})
      /\ cbcurr # c
  BY <1>2, <1>3, <1>5, NullAssumption DEF ListSound, CellsOK
<1>9. /\ cbhead = IF Len(queue) = 0 THEN Null ELSE cells[1]
      /\ cbtail = IF Len(queue) = 0 THEN Null ELSE cells[Len(queue)]
      /\ \A i \in 1 .. Len(queue) :
           next[cells[i]] = IF i = Len(queue) THEN Null ELSE cells[i + 1]
      /\ entry \in [Cell -> Entry \cup {NoEntry}] /\ next \in [Cell -> Pointer]
  BY <1>1, <1>3, <1>5 DEF ListSound, OldListOK, ListTypeOK
<1>10. /\ cbhead' = cells'[1] /\ next' \in [Cell -> Pointer]
       /\ \A i \in 1 .. Len(queue) + 1 :
            next'[cells'[i]] = IF i = Len(queue) + 1 THEN Null ELSE cells'[i + 1]
  <2>1. CASE Len(queue) = 0
    BY <1>1, <1>2, <1>6, <1>9, <2>1 DEF AppendCell, Pointer
  <2>2. CASE Len(queue) # 0
    <3>1. cbtail = cells[Len(queue)] /\ cbtail # Null /\ cbhead = cells[1] /\ cbtail \in Cell
      BY <1>6, <1>8, <1>9, <2>2, NullAssumption
    <3>2. next' = [next EXCEPT ![cbtail] = c, ![c] = Null] /\ cbhead' = cbhead
      BY <1>1, <3>1 DEF AppendCell
    <3>3. next' \in [Cell -> Pointer] /\ next'[c] = Null /\ next'[cbtail] = c
      <4>1. cbtail # c /\ next \in [Cell -> Pointer]
        BY <1>6, <1>8, <1>9, <2>2, <3>1
      <4>2. c \in Pointer /\ Null \in Pointer
        BY <1>2 DEF Pointer
      <4>3. QED
        BY <1>2, <3>1, <3>2, <4>1, <4>2
    <3>4. ASSUME NEW i \in 1 .. Len(queue), i # Len(queue)
          PROVE  next'[cells[i]] = cells[i + 1] /\ cells'[i + 1] = cells[i + 1]
      BY <1>2, <1>6, <1>8, <1>9, <2>2, <3>1, <3>2, <3>4
    <3>5. cells'[1] = cells[1]
      BY <1>6, <2>2
    <3>6. next'[cells'[Len(queue)]] = cells'[Len(queue) + 1]
      BY <1>6, <2>2, <3>1, <3>3
    <3>7. \A i \in 1 .. Len(queue) :
            i # Len(queue) => next'[cells'[i]] = cells'[i + 1]
      BY <1>6, <3>4
    <3>8. next'[cells'[Len(queue) + 1]] = Null
      BY <1>6, <3>3
    <3>9. cbhead' = cells'[1]
      BY <3>1, <3>2, <3>5
    <3>10. QED
      BY <1>6, <3>3, <3>6, <3>7, <3>8, <3>9
  <2>3. QED
    BY <2>1, <2>2
<1>11. ListTypeOK'
  BY <1>2, <1>3, <1>4, <1>6, <1>9, <1>10 DEF ListSound, ListTypeOK, Pointer, Deleting
<1>12. HistoryOK'
  <2>1. ~Deleting' /\ kept' = <<>> /\ pos' = 0
    BY <1>1, <1>3, <1>4 DEF Deleting
  <2>2. Len(queue') <= MaxQueue
    BY <1>1, <1>6, QueueAssumption
  <2>3. QED
    BY <1>6, <2>1, <2>2 DEF HistoryOK
<1>13. OldListOK'
  <2>1. queue' # <<>> /\ pos' # Len(queue')
    BY <1>3, <1>4, <1>6
  <2>2. pos' + 1 = 1 /\ cbtail' = cells'[Len(queue')] /\ Len(queue') = Len(queue) + 1
    BY <1>3, <1>4, <1>6
  <2>3. QED
    BY <1>10, <2>1, <2>2 DEF OldListOK
<1>14. NewListOK'
  BY <1>3, <1>4 DEF NewListOK
<1>15. CellsOK'
  <2>1. \A i \in Present' : cells'[i] # cbcurr' /\ entry'[cells'[i]] = queue'[i]
    BY <1>2, <1>4, <1>6, <1>7, <1>8, <1>9
  <2>2. \A i, j \in Present' : cells'[i] = cells'[j] => i = j
    BY <1>2, <1>4, <1>6, <1>7, <1>8
  <2>3. used' = {cells'[i] : i \in Present'} \cup ({cbcurr'} \ {Null})
    BY <1>2, <1>4, <1>6, <1>7, <1>8
  <2>4. QED
    BY <2>1, <2>2, <2>3 DEF CellsOK
<1>16. cbcurr # Null => entry'[cbcurr] = entry[cbcurr]
  BY <1>2, <1>4, <1>8, <1>9
<1>17. QED
  BY <1>1, <1>4, <1>11, <1>12, <1>13, <1>14, <1>15, <1>16 DEF ListSound, Deleting

\* The head of the list is the first callback of the queue.
\* Code: cbhead.
LEMMA HeadOfList ==
  ASSUME ListSound, ~Deleting
  PROVE  /\ cbhead = Null <=> queue = <<>>
         /\ cbhead # Null => /\ cbhead = cells[1] /\ cbhead \in used
                             /\ entry[cbhead] = queue[1] /\ queue[1] \in Entry
<1>1. /\ pos = 0 /\ Present = 1 .. Len(queue)
      /\ queue \in Seq(Entry) /\ cells \in Seq(Cell) /\ Len(cells) = Len(queue)
  BY NotDeleting DEF ListSound, HistoryOK
<1>2. cbhead = IF Len(queue) = 0 THEN Null ELSE cells[1]
  BY <1>1 DEF ListSound, OldListOK
<1>3. ASSUME Len(queue) # 0
      PROVE  /\ cells[1] # Null /\ cells[1] \in used
             /\ entry[cells[1]] = queue[1] /\ queue[1] \in Entry
  <2>1. 1 \in Present /\ cells[1] \in Cell /\ queue[1] \in Entry
    BY <1>1, <1>3
  <2>2. QED
    BY <2>1, NullAssumption DEF ListSound, CellsOK
<1>4. QED
  BY <1>1, <1>2, <1>3

\* The first callback is taken out of the queue.
\* Code: run_toplevel_callbacks, up to the call.
LEMMA RunBeginsKeepsList ==
  ASSUME ListSound, RunBegins
  PROVE  /\ ListSound' /\ ~Deleting' /\ cbcurr' # Null /\ queue # <<>>
         /\ entry'[cbcurr'] = queue[1] /\ queue' = Rest(queue)
<1>1. /\ ~Deleting /\ cbhead # Null /\ cbcurr = Null
      /\ cbcurr' = cbhead /\ cbhead' = next[cbhead]
      /\ cbtail' = IF next[cbhead] = Null THEN Null ELSE cbtail
      /\ queue' = Rest(queue) /\ cells' = Rest(cells)
      /\ UNCHANGED <<used, entry, next, newhead, newtail, doomed, pos, kept>>
  BY DEF RunBegins, deleteVars, loopVars
<1>2. /\ pos = 0 /\ kept = <<>> /\ newhead = Null /\ newtail = Null
      /\ Present = 1 .. Len(queue)
  BY <1>1, NotDeleting
<1>3. /\ queue # <<>> /\ cbhead = cells[1] /\ cbhead \in used /\ entry[cbhead] = queue[1]
  BY <1>1, HeadOfList
<1>4. /\ queue \in Seq(Entry) /\ cells \in Seq(Cell) /\ Len(cells) = Len(queue)
      /\ Len(queue) \in Nat /\ Len(queue) > 0 /\ Len(queue) <= MaxQueue /\ cells # <<>>
  BY <1>3 DEF ListSound, HistoryOK
<1>5. /\ queue' \in Seq(Entry) /\ Len(queue') = Len(queue) - 1
      /\ \A i \in 1 .. Len(queue) - 1 : queue'[i] = queue[i + 1]
  BY <1>1, <1>3, <1>4, RestOf
<1>6. /\ cells' \in Seq(Cell) /\ Len(cells') = Len(queue) - 1
      /\ \A i \in 1 .. Len(queue) - 1 : cells'[i] = cells[i + 1]
  BY <1>1, <1>4, RestOf
<1>7. Present' = 1 .. Len(queue) - 1
  BY <1>1, <1>2, <1>5 DEF Present
<1>8. /\ \A i \in 1 .. Len(queue) : cells[i] \in Cell /\ entry[cells[i]] = queue[i]
      /\ \A i, j \in 1 .. Len(queue) : cells[i] = cells[j] => i = j
      /\ used = {cells[i] : i \in 1 .. Len(queue)}
  BY <1>1, <1>2, <1>4 DEF ListSound, CellsOK
<1>9. /\ cbtail = cells[Len(queue)]
      /\ \A i \in 1 .. Len(queue) :
           next[cells[i]] = IF i = Len(queue) THEN Null ELSE cells[i + 1]
  BY <1>1, <1>2, <1>3, <1>4 DEF ListSound, OldListOK
<1>10. next[cbhead] = IF Len(queue) = 1 THEN Null ELSE cells[2]
  BY <1>3, <1>4, <1>9
<1>11. ListTypeOK'
  <2>1. cbcurr' \in Pointer /\ cbhead' \in Pointer /\ cbtail' \in Pointer
    BY <1>1, <1>3, <1>4, <1>8, <1>10 DEF Pointer, ListSound, ListTypeOK
  <2>2. QED
    BY <1>1, <1>2, <2>1 DEF ListSound, ListTypeOK, Pointer, Deleting
<1>12. HistoryOK'
  <2>1. ~Deleting' /\ kept' = <<>> /\ pos' = 0
    BY <1>1, <1>2 DEF Deleting
  <2>2. Len(queue') <= MaxQueue
    BY <1>4, <1>5, QueueAssumption
  <2>3. QED
    BY <1>4, <1>5, <1>6, <2>1, <2>2 DEF HistoryOK
<1>13. OldListOK'
  <2>1. CASE Len(queue) = 1
    BY <1>1, <1>2, <1>5, <1>10, <2>1 DEF OldListOK
  <2>2. CASE Len(queue) # 1
    <3>1. cells[2] # Null /\ cells[2] = cells'[1]
      BY <1>4, <1>6, <1>8, <2>2, NullAssumption
    <3>2. cells[Len(queue)] = cells'[Len(queue) - 1]
      BY <1>4, <1>6, <2>2
    <3>3. cbhead' = cells'[1] /\ cbtail' = cells'[Len(queue')]
      BY <1>1, <1>5, <1>9, <1>10, <2>2, <3>1, <3>2
    <3>4. \A i \in 1 .. Len(queue') :
            next'[cells'[i]] = IF i = Len(queue') THEN Null ELSE cells'[i + 1]
      <4> SUFFICES ASSUME NEW i \in 1 .. Len(queue) - 1
                   PROVE  next[cells[i + 1]] =
                            IF i = Len(queue) - 1 THEN Null ELSE cells'[i + 1]
        BY <1>1, <1>5, <1>6
      <4>1. i + 1 \in 1 .. Len(queue) /\ (i + 1 = Len(queue) <=> i = Len(queue) - 1)
        BY <1>4
      <4>2. i # Len(queue) - 1 => cells'[i + 1] = cells[(i + 1) + 1]
        BY <1>4, <1>6
      <4>3. QED
        BY <1>9, <4>1, <4>2
    <3>5. QED
      BY <1>1, <1>2, <1>4, <1>5, <2>2, <3>3, <3>4 DEF OldListOK
  <2>3. QED
    BY <2>1, <2>2
<1>14. NewListOK'
  BY <1>1, <1>2 DEF NewListOK
<1>15. CellsOK'
  <2>1. \A i \in Present' : cells'[i] # cbcurr' /\ entry'[cells'[i]] = queue'[i]
    BY <1>1, <1>3, <1>4, <1>5, <1>6, <1>7, <1>8
  <2>2. \A i, j \in Present' : cells'[i] = cells'[j] => i = j
    BY <1>4, <1>6, <1>7, <1>8
  <2>3. ASSUME NEW c \in used, c # cbcurr' PROVE \E i \in Present' : c = cells'[i]
    <3>1. PICK i \in 1 .. Len(queue) : c = cells[i]
      BY <1>8
    <3>2. i # 1
      BY <1>1, <1>3, <2>3, <3>1
    <3>3. i - 1 \in Present' /\ cells'[i - 1] = c
      BY <1>4, <1>6, <1>7, <3>1, <3>2
    <3>4. QED
      BY <3>3
  <2>4. \A i \in Present' : cells'[i] \in used
    BY <1>4, <1>6, <1>7, <1>8
  <2>5. used' = {cells'[i] : i \in Present'} \cup ({cbcurr'} \ {Null})
    BY <1>1, <1>3, <2>3, <2>4
  <2>6. QED
    BY <2>1, <2>2, <2>5 DEF CellsOK
<1>16. QED
  BY <1>1, <1>3, <1>11, <1>12, <1>13, <1>14, <1>15 DEF ListSound, Deleting

\* The struct of the callback that has been run is freed.
\* Code: run_toplevel_callbacks, after the call.
LEMMA RunEndsKeepsList ==
  ASSUME ListSound, RunEnds
  PROVE  ListSound' /\ ~Deleting'
<1>1. /\ ~Deleting /\ cbcurr # Null /\ cbcurr' = Null /\ used' = used \ {cbcurr}
      /\ entry' = [entry EXCEPT ![cbcurr] = NoEntry] /\ next' = [next EXCEPT ![cbcurr] = Null]
      /\ UNCHANGED <<cbhead, cbtail, newhead, newtail, doomed, queue, cells, pos, kept>>
  BY DEF RunEnds, FreeCell, endVars, deleteVars, historyVars, loopVars
<1>2. /\ pos = 0 /\ kept = <<>> /\ newhead = Null /\ newtail = Null
      /\ Present = 1 .. Len(queue)
  BY <1>1, NotDeleting
<1>3. Present' = Present
  BY <1>1 DEF Present
<1>4. /\ queue \in Seq(Entry) /\ cells \in Seq(Cell) /\ Len(cells) = Len(queue)
      /\ Len(queue) \in Nat
  BY DEF ListSound, HistoryOK
<1>5. /\ \A i \in 1 .. Len(queue) : /\ cells[i] \in Cell /\ cells[i] # cbcurr
                                    /\ entry[cells[i]] = queue[i]
      /\ \A i, j \in 1 .. Len(queue) : cells[i] = cells[j] => i = j
      /\ used = {cells[i] : i \in 1 .. Len(queue)} \cup ({cbcurr} \ {Null})
  BY <1>2, <1>4 DEF ListSound, CellsOK
<1>6. entry \in [Cell -> Entry \cup {NoEntry}] /\ next \in [Cell -> Pointer]
  BY DEF ListSound, ListTypeOK
<1>7. \A i \in 1 .. Len(queue) :
        entry'[cells[i]] = entry[cells[i]] /\ next'[cells[i]] = next[cells[i]]
  BY <1>1, <1>5, <1>6
<1>8. ListTypeOK'
  <2>1. used' \subseteq Cell /\ \A c \in used' : entry'[c] \in Entry
    BY <1>1, <1>6 DEF ListSound, ListTypeOK
  <2>2. entry' \in [Cell -> Entry \cup {NoEntry}] /\ next' \in [Cell -> Pointer]
    BY <1>1, <1>6 DEF Pointer
  <2>3. QED
    BY <1>1, <2>1, <2>2 DEF ListSound, ListTypeOK, Pointer, Deleting
<1>9. HistoryOK'
  BY <1>1 DEF ListSound, HistoryOK, Deleting
<1>10. OldListOK'
  BY <1>1, <1>2, <1>4, <1>7 DEF ListSound, OldListOK, Deleting
<1>11. NewListOK'
  BY <1>1, <1>2 DEF NewListOK
<1>12. CellsOK'
  <2>1. \A i \in Present' : cells'[i] # cbcurr' /\ entry'[cells'[i]] = queue'[i]
    BY <1>1, <1>2, <1>3, <1>5, <1>7, NullAssumption
  <2>2. \A i, j \in Present' : cells'[i] = cells'[j] => i = j
    BY <1>1, <1>2, <1>3, <1>5
  <2>3. used' = {cells'[i] : i \in Present'} \cup ({cbcurr'} \ {Null})
    BY <1>1, <1>2, <1>3, <1>5
  <2>4. QED
    BY <2>1, <2>2, <2>3 DEF CellsOK
<1>13. QED
  BY <1>1, <1>8, <1>9, <1>10, <1>11, <1>12 DEF ListSound, Deleting

-----------------------------------------------------------------------------
(* The list is sound: the steps of a deletion *)

\* A deletion begins with the whole list as the old one.
\* Code: delete_callbacks_for_context, before the loop.
LEMMA DeleteBeginsKeepsList ==
  ASSUME ListSound, NEW o \in Object, DeleteBegins(o)
  PROVE  ListSound' /\ Deleting'
<1>1. /\ ~Deleting /\ doomed' = o /\ newhead' = Null /\ newtail' = Null
      /\ UNCHANGED <<used, entry, next, cbcurr, cbhead, cbtail, queue, cells, pos, kept>>
  BY DEF DeleteBegins, endVars, historyVars, loopVars
<1>2. /\ pos = 0 /\ kept = <<>> /\ newhead = Null /\ newtail = Null
  BY <1>1, NotDeleting
<1>3. Deleting'
  BY <1>1, NullAssumption DEF Deleting
<1>4. ListTypeOK'
  BY <1>1, <1>2 DEF ListSound, ListTypeOK, Pointer
<1>5. HistoryOK'
  BY <1>1, <1>2, <1>3 DEF ListSound, HistoryOK
<1>6. OldListOK' /\ NewListOK' /\ CellsOK'
  BY <1>1, <1>2, <1>3 DEF ListSound, OldListOK, NewListOK, CellsOK, Present
<1>7. QED
  BY <1>3, <1>4, <1>5, <1>6 DEF ListSound

\* The positions that the loop has dealt with, and the one it comes to next.
\* Code: the loop of delete_callbacks_for_context.
LEMMA LoopFacts ==
  ASSUME ListSound
  PROVE  /\ queue \in Seq(Entry) /\ cells \in Seq(Cell) /\ Len(cells) = Len(queue)
         /\ Len(queue) \in Nat /\ pos \in 0 .. Len(queue)
         /\ kept \in Seq(1 .. pos) /\ Len(kept) \in Nat /\ DOMAIN kept = 1 .. Len(kept)
         /\ \A j \in 1 .. Len(kept) : kept[j] \in 1 .. pos /\ kept[j] \in Present
         /\ \A i \in Present : i \in 1 .. Len(queue) /\ cells[i] \in Cell
         /\ cbhead = Null <=> pos = Len(queue)
         /\ pos # Len(queue) => /\ pos + 1 \in Present /\ cbhead = cells[pos + 1]
                                /\ entry[cbhead] = queue[pos + 1]
<1>1. /\ queue \in Seq(Entry) /\ cells \in Seq(Cell) /\ Len(cells) = Len(queue)
      /\ Len(queue) \in Nat /\ pos \in 0 .. Len(queue)
      /\ kept \in Seq(1 .. pos) /\ Len(kept) \in Nat /\ DOMAIN kept = 1 .. Len(kept)
  BY DEF ListSound, HistoryOK
<1>2. \A j \in 1 .. Len(kept) : kept[j] \in 1 .. pos
  BY <1>1
<1>3. Present = (pos + 1) .. Len(queue) \cup {kept[j] : j \in 1 .. Len(kept)}
  BY <1>1 DEF Present
<1>4. \A i \in Present : i \in 1 .. Len(queue) /\ cells[i] \in Cell
  BY <1>1, <1>2, <1>3
<1>5. cbhead = IF pos = Len(queue) THEN Null ELSE cells[pos + 1]
  BY DEF ListSound, OldListOK
<1>6. pos # Len(queue) => pos + 1 \in Present
  BY <1>1, <1>3
<1>7. \A i \in Present : entry[cells[i]] = queue[i]
  BY DEF ListSound, CellsOK
<1>8. QED
  BY <1>1, <1>2, <1>3, <1>4, <1>5, <1>6, <1>7, NullAssumption

\* The loop frees the callbacks of the context.
\* Code: delete_callbacks_for_context.
LEMMA DeleteFreesKeepsList ==
  ASSUME ListSound, DeleteFrees
  PROVE  /\ ListSound' /\ Deleting'
         /\ cbcurr # Null => entry'[cbcurr] = entry[cbcurr]
<1> DEFINE h == cells[pos + 1]
<1>1. /\ Deleting /\ cbhead # Null /\ entry[cbhead].obj = doomed /\ cbhead' = next[cbhead]
      /\ used' = used \ {cbhead} /\ entry' = [entry EXCEPT ![cbhead] = NoEntry]
      /\ next' = [next EXCEPT ![cbhead] = Null] /\ pos' = pos + 1
      /\ UNCHANGED <<cbcurr, cbtail, newhead, newtail, doomed, queue, cells, kept>>
  BY DEF DeleteFrees, FreeCell, deleteVars
<1>2. /\ queue \in Seq(Entry) /\ cells \in Seq(Cell) /\ Len(cells) = Len(queue)
      /\ Len(queue) \in Nat /\ pos \in 0 .. Len(queue) - 1
      /\ kept \in Seq(1 .. pos) /\ Len(kept) \in Nat /\ DOMAIN kept = 1 .. Len(kept)
      /\ \A j \in 1 .. Len(kept) : kept[j] \in 1 .. pos
      /\ pos + 1 \in Present /\ cbhead = h
      /\ \A i \in Present : i \in 1 .. Len(queue) /\ cells[i] \in Cell
  BY <1>1, LoopFacts
<1>3. queue[pos + 1].obj = doomed
  BY <1>1, LoopFacts
<1>4. Present' = Present \ {pos + 1}
  BY <1>1, <1>2 DEF Present
<1>5. /\ \A i \in Present : cells[i] # cbcurr /\ entry[cells[i]] = queue[i]
      /\ \A i, j \in Present : cells[i] = cells[j] => i = j
      /\ used = {cells[i] : i \in Present} \cup ({cbcurr} \ {Null})
  BY DEF ListSound, CellsOK
<1>6. entry \in [Cell -> Entry \cup {NoEntry}] /\ next \in [Cell -> Pointer]
  BY DEF ListSound, ListTypeOK
<1> HIDE DEF h
<1>7. h \in Cell /\ h # cbcurr /\ \A i \in Present' : cells[i] # h
  BY <1>2, <1>4, <1>5 DEF h
<1>8. \A i \in Present' :
        entry'[cells[i]] = entry[cells[i]] /\ next'[cells[i]] = next[cells[i]]
  BY <1>1, <1>2, <1>4, <1>6, <1>7
<1>9. \A i \in (pos + 1) .. Len(queue) :
        next[cells[i]] = IF i = Len(queue) THEN Null ELSE cells[i + 1]
  BY DEF ListSound, OldListOK
<1>10. cbhead' = IF pos' = Len(queue) THEN Null ELSE cells[pos' + 1]
  BY <1>1, <1>2, <1>9 DEF h
<1>11. ListTypeOK'
  <2>1. used' \subseteq Cell /\ \A c \in used' : entry'[c] \in Entry
    BY <1>1, <1>6, <1>7 DEF ListSound, ListTypeOK
  <2>2. entry' \in [Cell -> Entry \cup {NoEntry}] /\ next' \in [Cell -> Pointer]
    BY <1>1, <1>6 DEF Pointer
  <2>3. cbhead' \in Pointer
    BY <1>1, <1>2, <1>6, <1>7
  <2>4. QED
    BY <1>1, <2>1, <2>2, <2>3 DEF ListSound, ListTypeOK, Pointer, Deleting
<1>12. HistoryOK'
  <2>1. kept' \in Seq(1 .. pos') /\ pos' \in 0 .. Len(queue')
    <3>1. kept \in [1 .. Len(kept) -> 1 .. pos + 1]
      BY <1>2
    <3>2. QED
      BY <1>1, <1>2, <3>1
  <2>2. \A i \in 1 .. pos' : (queue'[i].obj # doomed' <=> \E j \in DOMAIN kept' : kept'[j] = i)
    <3>1. \A i \in 1 .. pos : (queue[i].obj # doomed <=> \E j \in DOMAIN kept : kept[j] = i)
      BY DEF ListSound, HistoryOK
    <3>2. \A j \in DOMAIN kept : kept[j] # pos + 1
      BY <1>2
    <3>3. \A i \in 1 .. pos + 1 : i \in 1 .. pos \/ i = pos + 1
      BY <1>2
    <3>4. QED
      BY <1>1, <1>3, <3>1, <3>2, <3>3
  <2>3. QED
    BY <1>1, <2>1, <2>2 DEF ListSound, HistoryOK, Deleting
<1>13. OldListOK'
  <2>1. \A i \in (pos' + 1) .. Len(queue) : i \in Present'
    BY <1>1, <1>2 DEF Present
  <2>2. ASSUME NEW i \in (pos' + 1) .. Len(queue)
        PROVE  next'[cells[i]] = IF i = Len(queue) THEN Null ELSE cells[i + 1]
    <3>1. i \in (pos + 1) .. Len(queue)
      BY <1>1, <1>2
    <3>2. QED
      BY <1>8, <1>9, <2>1, <3>1
  <2>3. QED
    BY <1>1, <1>10, <2>2 DEF OldListOK, Deleting
<1>14. NewListOK'
  <2>1. \A j \in 1 .. Len(kept) : kept[j] \in Present'
    BY <1>1, <1>2 DEF Present
  <2>2. \A j \in 1 .. Len(kept) - 1 : next[cells[kept[j]]] = cells[kept[j + 1]]
    BY DEF ListSound, NewListOK
  <2>3. \A j \in 1 .. Len(kept) - 1 : next'[cells[kept[j]]] = cells[kept[j + 1]]
    <3>1. \A j \in 1 .. Len(kept) - 1 : j \in 1 .. Len(kept)
      BY <1>2
    <3>2. QED
      BY <1>8, <2>1, <2>2, <3>1
  <2>4. QED
    BY <1>1, <2>3 DEF ListSound, NewListOK
<1>15. CellsOK'
  <2>1. \A i \in Present' : cells'[i] # cbcurr' /\ entry'[cells'[i]] = queue'[i]
    BY <1>1, <1>4, <1>5, <1>8
  <2>2. \A i, j \in Present' : cells'[i] = cells'[j] => i = j
    BY <1>1, <1>4, <1>5
  <2>3. used' = {cells'[i] : i \in Present'} \cup ({cbcurr'} \ {Null})
    <3>1. used' = used \ {h}
      BY <1>1, <1>2
    <3>2. ASSUME NEW i \in Present, i # pos + 1 PROVE i \in Present'
      BY <1>4, <3>2
    <3>3. QED
      BY <1>1, <1>2, <1>4, <1>5, <1>7, <3>1, <3>2 DEF h
  <2>4. QED
    BY <2>1, <2>2, <2>3 DEF CellsOK
<1>16. cbcurr # Null => entry'[cbcurr] = entry[cbcurr]
  BY <1>1, <1>2, <1>6, <1>7 DEF ListSound, ListTypeOK, Pointer
<1>17. QED
  BY <1>1, <1>11, <1>12, <1>13, <1>14, <1>15, <1>16 DEF ListSound, Deleting

\* The loop moves the other callbacks to the new list.
\* Code: delete_callbacks_for_context.
LEMMA DeleteKeepsKeepsList ==
  ASSUME ListSound, DeleteKeeps
  PROVE  ListSound' /\ Deleting'
<1>1. /\ Deleting /\ cbhead # Null /\ entry[cbhead].obj # doomed /\ cbhead' = next[cbhead]
      /\ newtail' = cbhead /\ pos' = pos + 1 /\ kept' = Append(kept, pos + 1)
      /\ UNCHANGED <<used, entry, cbcurr, cbtail, doomed, queue, cells>>
  BY DEF DeleteKeeps
<1>2. PICK k \in Nat, n \in Nat, h \in Cell :
        k = Len(kept) /\ n = Len(queue) /\ h = cells[pos + 1]
  BY <1>1, LoopFacts
<1>3. /\ pos \in Nat /\ pos < n /\ DOMAIN kept = 1 .. k
      /\ pos + 1 \in Present /\ cbhead = h /\ entry[h] = queue[pos + 1]
  BY <1>1, <1>2, LoopFacts
<1>4. \A j \in 1 .. k : kept[j] \in 1 .. pos /\ kept[j] \in Present
  BY <1>2, LoopFacts
<1>5. \A i \in Present : i \in 1 .. n /\ cells[i] \in Cell
  BY <1>2, LoopFacts
<1>6. /\ kept' \in Seq(1 .. pos') /\ Len(kept') = k + 1 /\ DOMAIN kept' = 1 .. k + 1
      /\ kept'[k + 1] = pos + 1 /\ \A j \in 1 .. k : kept'[j] = kept[j]
  <2>1. kept \in Seq(1 .. pos) /\ 1 .. pos \subseteq 1 .. pos + 1 /\ pos + 1 \in 1 .. pos + 1
    BY <1>3, LoopFacts
  <2>2. kept \in Seq(1 .. pos + 1)
    BY <2>1, SeqOver
  <2>3. QED
    BY <1>1, <1>2, <2>1, <2>2
<1>7. Present' = Present
  <2>1. Present = (pos + 1) .. n \cup {kept[j] : j \in 1 .. k}
    BY <1>2, <1>3 DEF Present
  <2>2. Present' = (pos + 2) .. n \cup {kept'[j] : j \in 1 .. k + 1}
    <3>1. pos' + 1 = pos + 2 /\ Len(queue') = n
      BY <1>1, <1>2, <1>3
    <3>2. QED
      BY <1>6, <3>1 DEF Present
  <2>3. {kept'[j] : j \in 1 .. k + 1} = {kept[j] : j \in 1 .. k} \cup {pos + 1}
    <3>1. \A j \in 1 .. k + 1 : j \in 1 .. k \/ j = k + 1
      BY <1>2
    <3>2. k + 1 \in 1 .. k + 1 /\ 1 .. k \subseteq 1 .. k + 1
      BY <1>2
    <3>3. QED
      BY <1>6, <3>1, <3>2
  <2>4. (pos + 1) .. n = {pos + 1} \cup (pos + 2) .. n
    BY <1>2, <1>3
  <2>5. QED
    BY <2>1, <2>2, <2>3, <2>4
<1>8. /\ \A i \in Present : cells[i] # cbcurr /\ entry[cells[i]] = queue[i]
      /\ \A i, j \in Present : cells[i] = cells[j] => i = j
      /\ used = {cells[i] : i \in Present} \cup ({cbcurr} \ {Null})
  BY DEF ListSound, CellsOK
<1>9. entry \in [Cell -> Entry \cup {NoEntry}] /\ next \in [Cell -> Pointer]
  BY DEF ListSound, ListTypeOK
<1>10. /\ \A i \in (pos + 1) .. n :
            next[cells[i]] = IF i = n THEN Null ELSE cells[i + 1]
       /\ cbhead' = IF pos + 1 = n THEN Null ELSE cells[pos + 2]
  <2>1. \A i \in (pos + 1) .. n : next[cells[i]] = IF i = n THEN Null ELSE cells[i + 1]
    BY <1>2 DEF ListSound, OldListOK
  <2>2. pos + 1 \in (pos + 1) .. n
    BY <1>2, <1>3
  <2>3. next[h] = IF pos + 1 = n THEN Null ELSE cells[(pos + 1) + 1]
    BY <1>2, <2>1, <2>2
  <2>4. (pos + 1) + 1 = pos + 2
    BY <1>3
  <2>5. QED
    BY <1>1, <1>3, <2>1, <2>3, <2>4
<1>11. /\ newhead = IF k = 0 THEN Null ELSE cells[kept[1]]
       /\ newtail = IF k = 0 THEN Null ELSE cells[kept[k]]
       /\ \A j \in 1 .. k - 1 : next[cells[kept[j]]] = cells[kept[j + 1]]
  <2>1. k = 0 <=> kept = <<>>
    BY <1>2, LoopFacts
  <2>2. QED
    BY <1>2, <2>1 DEF ListSound, NewListOK
<1>12. \A i, j \in 1 .. k : i < j => kept[i] < kept[j]
  BY <1>3 DEF ListSound, HistoryOK
\* The links: only the cell at the end of the new list gets a new one, to h.
<1>13. /\ next' \in [Cell -> Pointer]
       /\ \A i \in (pos + 2) .. n : next'[cells[i]] = next[cells[i]]
       /\ \A j \in 1 .. k - 1 : next'[cells[kept[j]]] = next[cells[kept[j]]]
       /\ k # 0 => next'[cells[kept[k]]] = h
       /\ newhead' = IF k = 0 THEN h ELSE newhead
  <2>1. CASE k = 0
    <3>1. newhead = Null
      BY <1>11, <2>1
    <3>2. next' = next /\ newhead' = h
      BY <1>3, <3>1 DEF DeleteKeeps
    <3>3. QED
      BY <1>2, <1>9, <2>1, <3>2
  <2>2. CASE k # 0
    <3>1. 1 \in 1 .. k /\ k \in 1 .. k
      BY <1>2, <2>2
    <3>2. newhead # Null /\ newtail = cells[kept[k]] /\ newtail \in Cell
      BY <1>4, <1>5, <1>11, <2>2, <3>1, NullAssumption
    <3>3. next' = [next EXCEPT ![newtail] = h] /\ newhead' = newhead
      BY <1>3, <3>2 DEF DeleteKeeps
    <3>4. ASSUME NEW i \in Present, i # kept[k] PROVE next'[cells[i]] = next[cells[i]]
      <4>1. cells[i] # newtail /\ cells[i] \in Cell
        BY <1>4, <1>5, <1>8, <3>1, <3>2, <3>4
      <4>2. QED
        BY <1>9, <3>3, <4>1
    <3>5. ASSUME NEW i \in (pos + 2) .. n PROVE i \in Present /\ i # kept[k]
      <4>1. kept[k] \in 1 .. pos
        BY <1>4, <3>1
      <4>2. i \in (pos + 1) .. Len(queue)
        BY <1>2, <1>3
      <4>3. QED
        BY <1>3, <4>1, <4>2 DEF Present
    <3>6. ASSUME NEW j \in 1 .. k - 1 PROVE kept[j] \in Present /\ kept[j] # kept[k]
      <4>1. j \in 1 .. k /\ j < k
        BY <1>2
      <4>2. kept[j] \in 1 .. pos /\ kept[k] \in 1 .. pos /\ kept[j] < kept[k]
        BY <1>4, <1>12, <3>1, <4>1
      <4>3. QED
        BY <1>4, <4>1, <4>2
    <3>7. next' \in [Cell -> Pointer] /\ next'[newtail] = h
      BY <1>2, <1>9, <3>2, <3>3 DEF Pointer
    <3>8. QED
      BY <2>2, <3>2, <3>3, <3>4, <3>5, <3>6, <3>7
  <2>3. QED
    BY <2>1, <2>2
<1>14. ListTypeOK'
  <2>1. {cbhead', newhead', newtail'} \subseteq Pointer
    BY <1>1, <1>2, <1>3, <1>9, <1>13 DEF Pointer, ListSound, ListTypeOK
  <2>2. newhead' # Null /\ newtail' # Null
    <3>1. k # 0 => cells[kept[1]] \in Cell
      BY <1>2, <1>4, <1>5
    <3>2. QED
      BY <1>1, <1>2, <1>3, <1>11, <1>13, <3>1, NullAssumption
  <2>3. QED
    BY <1>1, <1>13, <2>1, <2>2 DEF ListSound, ListTypeOK, Deleting
<1>15. HistoryOK'
  <2>1. \A i, j \in DOMAIN kept' : i < j => kept'[i] < kept'[j]
    <3> SUFFICES ASSUME NEW i \in 1 .. k + 1, NEW j \in 1 .. k + 1, i < j
                 PROVE  kept'[i] < kept'[j]
      BY <1>6
    <3>1. i \in 1 .. k /\ kept[i] \in 1 .. pos /\ kept'[i] = kept[i]
      BY <1>2, <1>4, <1>6
    <3>2. CASE j = k + 1
      BY <1>3, <1>6, <3>1, <3>2
    <3>3. CASE j \in 1 .. k
      BY <1>6, <1>12, <3>1, <3>3
    <3>4. QED
      BY <1>2, <3>2, <3>3
  <2>2. ASSUME NEW i \in 1 .. pos'
        PROVE  queue'[i].obj # doomed' <=> \E j \in DOMAIN kept' : kept'[j] = i
    <3>1. CASE i = pos + 1
      <4>1. k + 1 \in DOMAIN kept' /\ kept'[k + 1] = i
        BY <1>2, <1>6, <3>1
      <4>2. QED
        BY <1>1, <1>3, <3>1, <4>1
    <3>2. CASE i \in 1 .. pos
      <4>1. queue[i].obj # doomed <=> \E j \in 1 .. k : kept[j] = i
        BY <1>3, <3>2 DEF ListSound, HistoryOK
      <4>2. kept'[k + 1] # i
        BY <1>3, <1>6, <3>2
      <4>3. \A j \in 1 .. k + 1 : j \in 1 .. k \/ j = k + 1
        BY <1>2
      <4>4. 1 .. k \subseteq 1 .. k + 1
        BY <1>2
      <4>5. QED
        BY <1>1, <1>6, <4>1, <4>2, <4>3, <4>4
    <3>3. QED
      BY <1>1, <1>3, <3>1, <3>2
  <2>3. pos' \in 0 .. Len(queue')
    BY <1>1, <1>2, <1>3
  <2>4. QED
    BY <1>1, <1>6, <2>1, <2>2, <2>3 DEF ListSound, HistoryOK, Deleting
<1>16. OldListOK'
  <2>1. cbhead' = IF pos' = Len(queue') THEN Null ELSE cells'[pos' + 1]
    BY <1>1, <1>2, <1>3, <1>10
  <2>2. ASSUME NEW i \in (pos' + 1) .. Len(queue')
        PROVE  next'[cells'[i]] = IF i = Len(queue') THEN Null ELSE cells'[i + 1]
    <3>1. i \in (pos + 2) .. n /\ i \in (pos + 1) .. n
      BY <1>1, <1>2, <1>3
    <3>2. QED
      BY <1>1, <1>2, <1>10, <1>13, <3>1
  <2>3. QED
    BY <1>1, <2>1, <2>2 DEF OldListOK, Deleting
<1>17. NewListOK'
  <2>1. kept' # <<>> /\ kept'[1] = (IF k = 0 THEN pos + 1 ELSE kept[1])
    BY <1>2, <1>6
  <2>2. newhead' = cells'[kept'[1]] /\ newtail' = cells'[kept'[Len(kept')]]
    BY <1>1, <1>2, <1>3, <1>6, <1>11, <1>13, <2>1
  <2>3. ASSUME NEW j \in 1 .. Len(kept') - 1
        PROVE  next'[cells'[kept'[j]]] = cells'[kept'[j + 1]]
    <3>1. CASE j = k
      <4>1. k # 0 /\ k \in 1 .. k
        BY <1>2, <1>6, <3>1
      <4>2. kept'[j] = kept[k] /\ kept'[j + 1] = pos + 1
        BY <1>6, <3>1, <4>1
      <4>3. QED
        BY <1>1, <1>2, <1>13, <4>1, <4>2
    <3>2. CASE j # k
      <4>1. j \in 1 .. k - 1 /\ j \in 1 .. k /\ j + 1 \in 1 .. k
        BY <1>2, <1>6, <3>2
      <4>2. QED
        BY <1>1, <1>6, <1>11, <1>13, <4>1
    <3>3. QED
      BY <3>1, <3>2
  <2>4. QED
    BY <2>1, <2>2, <2>3 DEF NewListOK
<1>18. CellsOK'
  BY <1>1, <1>7, <1>8 DEF CellsOK
<1>19. QED
  BY <1>1, <1>14, <1>15, <1>16, <1>17, <1>18 DEF ListSound, Deleting

\* The new list takes the place of the old one.
\* Code: delete_callbacks_for_context, after the loop.
LEMMA DeleteEndsKeepsList ==
  ASSUME ListSound, DeleteEnds
  PROVE  /\ ListSound' /\ ~Deleting'
         /\ Len(queue') = Len(kept) /\ DOMAIN queue' = 1 .. Len(kept)
         /\ Len(kept) <= Len(queue) /\ queue' = [j \in 1 .. Len(kept) |-> queue[kept[j]]]
         /\ \A j \in 1 .. Len(kept) : queue'[j] = queue[kept[j]] /\ kept[j] \in 1 .. Len(queue)
         /\ \A i, j \in 1 .. Len(kept) : i < j => kept[i] < kept[j]
         /\ \A i \in 1 .. Len(queue) :
              (queue[i].obj # doomed <=> \E j \in 1 .. Len(kept) : kept[j] = i)
<1>1. /\ Deleting /\ cbhead = Null /\ cbhead' = newhead /\ cbtail' = newtail
      /\ next' = IF newtail = Null THEN next ELSE [next EXCEPT ![newtail] = Null]
      /\ doomed' = Null /\ newhead' = Null /\ newtail' = Null
      /\ queue' = At(queue, kept) /\ cells' = At(cells, kept) /\ pos' = 0 /\ kept' = <<>>
      /\ UNCHANGED <<used, entry, cbcurr>>
  BY DEF DeleteEnds
<1>2. PICK k \in Nat, n \in Nat : k = Len(kept) /\ n = Len(queue)
  BY LoopFacts
<1>3. n = Len(cells) /\ pos = n /\ n <= MaxQueue /\ DOMAIN kept = 1 .. k
  BY <1>1, <1>2, LoopFacts DEF ListSound, HistoryOK
<1>4. \A j \in 1 .. k : kept[j] \in 1 .. n /\ kept[j] \in Present /\ cells[kept[j]] \in Cell
  BY <1>2, <1>3, LoopFacts
<1>5. queue \in Seq(Entry) /\ cells \in Seq(Cell) /\ kept \in Seq(1 .. n)
  BY <1>3, LoopFacts
<1>6. queue' \in Seq(Entry) /\ Len(queue') = k /\ \A j \in 1 .. k : queue'[j] = queue[kept[j]]
  <2>1. Len(At(queue, kept)) = k /\ At(queue, kept) \in Seq(Entry)
    <3>1. n \in 0 .. Len(queue)
      BY <1>2
    <3>2. queue \in Seq(Entry) /\ kept \in Seq(1 .. n)
      BY <1>5
    <3>3. At(queue, kept) \in Seq(Entry) /\ Len(At(queue, kept)) = Len(kept)
      BY <3>1, <3>2, AtOf, Zenon
    <3>4. QED
      BY <1>2, <3>3
  <2>2. \A j \in 1 .. k : At(queue, kept)[j] = queue[kept[j]]
    BY <1>2 DEF At
  <2>3. QED
    BY <1>1, <2>1, <2>2
<1>7. cells' \in Seq(Cell) /\ Len(cells') = k /\ \A j \in 1 .. k : cells'[j] = cells[kept[j]]
  <2>1. Len(At(cells, kept)) = k /\ At(cells, kept) \in Seq(Cell)
    <3>1. n \in 0 .. Len(cells)
      BY <1>2, <1>3
    <3>2. QED
      BY <1>2, <1>5, <3>1, AtOf
  <2>2. \A j \in 1 .. k : At(cells, kept)[j] = cells[kept[j]]
    BY <1>2 DEF At
  <2>3. QED
    BY <1>1, <2>1, <2>2
<1>8. \A i, j \in 1 .. k : i < j => kept[i] < kept[j]
  BY <1>3 DEF ListSound, HistoryOK
<1>9. \A i \in 1 .. n : (queue[i].obj # doomed <=> \E j \in 1 .. k : kept[j] = i)
  BY <1>3 DEF ListSound, HistoryOK
<1>10. \A i, j \in 1 .. k : kept[i] = kept[j] => i = j
  BY <1>2, <1>4, <1>8
<1>11. Present = {kept[j] : j \in 1 .. k} /\ Present' = 1 .. k
  <2>1. (pos + 1) .. Len(queue) = {}
    BY <1>2, <1>3
  <2>2. pos' = 0 /\ DOMAIN kept' = {} /\ Len(queue') = k
    BY <1>1, <1>6
  <2>3. QED
    BY <1>2, <1>3, <2>1, <2>2 DEF Present
<1>12. /\ \A i \in Present : cells[i] # cbcurr /\ entry[cells[i]] = queue[i]
       /\ \A i, j \in Present : cells[i] = cells[j] => i = j
       /\ used = {cells[i] : i \in Present} \cup ({cbcurr} \ {Null})
  BY DEF ListSound, CellsOK
<1>13. entry \in [Cell -> Entry \cup {NoEntry}] /\ next \in [Cell -> Pointer]
  BY DEF ListSound, ListTypeOK
<1>14. /\ newhead = IF k = 0 THEN Null ELSE cells[kept[1]]
       /\ newtail = IF k = 0 THEN Null ELSE cells[kept[k]]
       /\ \A j \in 1 .. k - 1 : next[cells[kept[j]]] = cells[kept[j + 1]]
  <2>1. k = 0 <=> kept = <<>>
    BY <1>2, <1>5
  <2>2. QED
    BY <1>2, <2>1 DEF ListSound, NewListOK
<1>15. /\ next' \in [Cell -> Pointer]
       /\ \A j \in 1 .. k : next'[cells[kept[j]]] = IF j = k THEN Null ELSE cells[kept[j + 1]]
  <2>1. CASE k = 0
    BY <1>1, <1>13, <1>14, <2>1
  <2>2. CASE k # 0
    <3>1. k \in 1 .. k
      BY <1>2, <2>2
    <3>2. newtail = cells[kept[k]] /\ newtail \in Cell
      BY <1>4, <1>14, <2>2, <3>1
    <3>3. next' = [next EXCEPT ![newtail] = Null]
      BY <1>1, <3>2, NullAssumption
    <3>4. next' \in [Cell -> Pointer] /\ next'[newtail] = Null
      BY <1>13, <3>2, <3>3 DEF Pointer
    <3>5. ASSUME NEW j \in 1 .. k, j # k PROVE next'[cells[kept[j]]] = cells[kept[j + 1]]
      <4>1. cells[kept[j]] # newtail /\ cells[kept[j]] \in Cell
        BY <1>4, <1>10, <1>12, <3>1, <3>2, <3>5
      <4>2. j \in 1 .. k - 1
        BY <1>2, <3>5
      <4>3. QED
        BY <1>13, <1>14, <3>3, <4>1, <4>2
    <3>6. QED
      BY <3>2, <3>4, <3>5
  <2>3. QED
    BY <2>1, <2>2
<1>16. ListTypeOK'
  BY <1>1, <1>15 DEF ListSound, ListTypeOK, Pointer, Deleting
<1>17. k <= n
  <2> DEFINE f == [j \in 1 .. k |-> kept[j]]
  <2>1. f \in Injection(1 .. k, 1 .. n)
    <3>1. f \in [1 .. k -> 1 .. n]
      BY <1>4
    <3>2. \A i, j \in 1 .. k : f[i] = f[j] => i = j
      BY <1>10
    <3>3. QED
      BY <3>1, <3>2 DEF Injection, IsInjective
  <2>2. IsFiniteSet(1 .. n) /\ Cardinality(1 .. n) = n /\ Cardinality(1 .. k) = k
    <3>1. n \in Int /\ k \in Int /\ 1 \in Int
      BY <1>2
    <3>2. IsFiniteSet(1 .. n) /\ Cardinality(1 .. n) = IF 1 > n THEN 0 ELSE n - 1 + 1
      BY <3>1, FS_Interval
    <3>3. Cardinality(1 .. k) = IF 1 > k THEN 0 ELSE k - 1 + 1
      BY <3>1, FS_Interval
    <3>4. QED
      BY <1>2, <3>2, <3>3
  <2> HIDE DEF f
  <2>3. QED
    BY <2>1, <2>2, FS_Injection
<1>18. HistoryOK'
  <2>1. Len(queue') <= MaxQueue /\ Len(queue') \in Nat
    BY <1>2, <1>3, <1>6, <1>17, QueueAssumption
  <2>2. ~Deleting' /\ pos' = 0 /\ kept' = <<>>
    BY <1>1 DEF Deleting
  <2>3. QED
    BY <1>6, <1>7, <2>1, <2>2 DEF HistoryOK
<1>19. OldListOK'
  <2>1. k = 0 <=> queue' = <<>>
    BY <1>6
  <2>2. cbhead' = IF k = 0 THEN Null ELSE cells'[1]
    <3>1. k # 0 => 1 \in 1 .. k
      BY <1>2
    <3>2. QED
      BY <1>1, <1>7, <1>14, <3>1
  <2>3. cbtail' = IF k = 0 THEN Null ELSE cells'[k]
    <3>1. k # 0 => k \in 1 .. k
      BY <1>2
    <3>2. QED
      BY <1>1, <1>7, <1>14, <3>1
  <2>4. \A j \in 1 .. k : next'[cells'[j]] = IF j = k THEN Null ELSE cells'[j + 1]
    <3>1. \A j \in 1 .. k : j # k => j + 1 \in 1 .. k
      BY <1>2
    <3>2. QED
      BY <1>7, <1>15, <3>1
  <2>5. QED
    BY <1>1, <1>2, <1>6, <2>1, <2>2, <2>3, <2>4 DEF OldListOK
<1>20. NewListOK'
  BY <1>1 DEF NewListOK
<1>21. CellsOK'
  <2>1. \A j \in 1 .. k : cells'[j] # cbcurr' /\ entry'[cells'[j]] = queue'[j]
    BY <1>1, <1>4, <1>6, <1>7, <1>12
  <2>2. \A i, j \in 1 .. k : cells'[i] = cells'[j] => i = j
    BY <1>4, <1>7, <1>10, <1>12
  <2>3. {cells'[j] : j \in 1 .. k} = {cells[i] : i \in Present}
    BY <1>7, <1>11
  <2>4. QED
    BY <1>1, <1>11, <1>12, <2>1, <2>2, <2>3 DEF CellsOK
<1>22. ListSound' /\ ~Deleting'
  BY <1>1, <1>16, <1>18, <1>19, <1>20, <1>21 DEF ListSound, Deleting
<1>23. QED
  <2>1. queue' = [j \in 1 .. Len(kept) |-> queue[kept[j]]]
    BY <1>1 DEF At
  <2>2. QED
    BY <1>2, <1>4, <1>6, <1>8, <1>9, <1>17, <1>22, <2>1

-----------------------------------------------------------------------------
(* The callbacks being run and queued *)

\* The struct of the callback being run holds it.
\* Code: cbcurr.
LEMMA CurrentFacts ==
  ASSUME ListSound
  PROVE  /\ cbcurr = Null => CurrentEntry = NoEntry
         /\ cbcurr # Null => /\ CurrentEntry = entry[cbcurr] /\ CurrentEntry \in Entry
                             /\ CurrentEntry # NoEntry
         /\ \A i \in DOMAIN queue : queue[i] \in Entry
         /\ doomed \in Object \cup {Null}
<1>1. cbcurr # Null => cbcurr \in used
  BY DEF ListSound, CellsOK
<1>2. cbcurr # Null => entry[cbcurr] \in Entry
  BY <1>1 DEF ListSound, ListTypeOK
<1>3. queue \in Seq(Entry)
  BY DEF ListSound, HistoryOK
<1>4. \A i \in DOMAIN queue : queue[i] \in Entry
  BY <1>3
<1>5. doomed \in Object \cup {Null}
  BY DEF ListSound, ListTypeOK
<1>6. QED
  BY <1>2, <1>4, <1>5, NoEntryAssumption DEF CurrentEntry

\* The types of what the objects keep; the callback being run belongs to one that exists.
ObjectsOK ==
  /\ live \subseteq Object
  /\ queued \in [Object -> BOOLEAN] /\ input \in [Object -> BOOLEAN]
  /\ drained \in BOOLEAN /\ idle \in BOOLEAN
  /\ ~drained => CurrentEntry \in {Idempotent(o) : o \in live}

\* The callbacks in the queue are of objects that exist, each idempotent one once and as
\* its object says.
QueuedOK ==
  /\ \A i \in DOMAIN queue : queue[i].obj \in live
  /\ \A o \in live : queued[o] <=> InQueue(Idempotent(o))
  /\ \A i, j \in DOMAIN queue : queue[i] = queue[j] /\ queue[i].fn = "idempotent" => i = j

\* Input has a callback that is to come, or that is being run and has not got to it.
InputOK ==
  \A o \in live : input[o] =>
    InQueue(Idempotent(o)) \/ (CurrentEntry = Idempotent(o) /\ ~drained)

\* The front end has been notified of the callbacks in the queue: also of those that
\* stay while a deletion goes on, and of those queued while a callback is being run,
\* which it is not notified of.
Announced == queue # <<>> \/ cbcurr # Null => idle

\* The inductive invariant.
IInv == ListSound /\ ObjectsOK /\ QueuedOK /\ InputOK /\ Announced

\* What the runs check follows.
\* Code: all of callback.c.
LEMMA InvariantSuffices == IInv => NoDanglingCallback /\ NoInputForgotten
<1> SUFFICES ASSUME IInv PROVE NoDanglingCallback /\ NoInputForgotten
  OBVIOUS
<1>1. TypeOK
  BY DEF IInv, ObjectsOK, TypeOK, ListSound
<1>2. NoDanglingCallback
  BY <1>1 DEF IInv, QueuedOK, NoDanglingCallback
<1>3. cbhead # Null => queue # <<>>
  <2>1. pos # Len(queue) => queue # <<>>
    BY LoopFacts DEF IInv
  <2>2. QED
    BY <2>1, LoopFacts DEF IInv
<1>4. NoInputForgotten
  BY <1>3 DEF IInv, InputOK, Announced, NoInputForgotten
<1>5. QED
  BY <1>2, <1>4

\* Nothing is queued to begin with.
\* Code: the initial values of callback.c's static variables.
LEMMA InitHolds == Init => IInv
<1> SUFFICES ASSUME Init PROVE IInv
  OBVIOUS
<1>1. ListSound
  BY ListInitSound DEF Init
<1>2. ObjectsOK /\ InputOK
  BY DEF Init, ObjectsOK, InputOK
<1>3. QueuedOK
  BY DEF Init, ListInit, QueuedOK
<1>4. Announced
  BY DEF Init, ListInit, Announced
<1>5. QED
  BY <1>1, <1>2, <1>3, <1>4 DEF IInv

\* A step that leaves the list alone leaves what follows from it alone.
\* Code: none; the variables of the list.
LEMMA ListUnchanged ==
  ASSUME UNCHANGED listVars
  PROVE  /\ ListSound => ListSound'
         /\ CurrentEntry' = CurrentEntry /\ cbcurr' = cbcurr /\ queue' = queue
         /\ entry' = entry /\ cbhead' = cbhead /\ Deleting' = Deleting
         /\ \A e : InQueue(e)' <=> InQueue(e)
<1> USE DEF listVars, endVars, deleteVars, historyVars, loopVars
<1>1. ListSound => ListSound'
  BY DEF ListSound, ListTypeOK, HistoryOK, OldListOK, NewListOK, CellsOK, Present, Deleting
<1>2. QED
  BY <1>1 DEF CurrentEntry, InQueue, Deleting

\* A callback that is queued is behind the others.
\* Code: queue_toplevel_callback.
LEMMA AppendFacts ==
  ASSUME ListSound, NEW e \in Entry, QueueToplevelCallback(e)
  PROVE  /\ ListSound' /\ cbcurr' = cbcurr /\ CurrentEntry' = CurrentEntry
         /\ queue' = Append(queue, e) /\ Len(queue) < MaxQueue /\ ~Deleting
         /\ Len(queue) \in Nat /\ DOMAIN queue = 1 .. Len(queue)
         /\ DOMAIN queue' = 1 .. Len(queue) + 1 /\ queue'[Len(queue) + 1] = e
         /\ \A i \in DOMAIN queue : queue'[i] = queue[i]
         /\ \A x : InQueue(x)' <=> InQueue(x) \/ x = e
<1>1. /\ ListSound' /\ cbcurr' = cbcurr /\ queue' = Append(queue, e)
      /\ cbcurr # Null => entry'[cbcurr] = entry[cbcurr]
  BY QueueKeepsList
<1>2. PICK n \in Nat : n = Len(queue)
  BY LoopFacts
<1>3. /\ DOMAIN queue = 1 .. n /\ DOMAIN queue' = 1 .. n + 1 /\ queue'[n + 1] = e
      /\ \A i \in 1 .. n : queue'[i] = queue[i]
  BY <1>1, <1>2, LoopFacts
<1>4. \A i \in 1 .. n + 1 : i \in 1 .. n \/ i = n + 1
  BY <1>2
<1>5. 1 .. n \subseteq 1 .. n + 1 /\ n + 1 \in 1 .. n + 1
  BY <1>2
<1>6. \A x : InQueue(x)' <=> InQueue(x) \/ x = e
  BY <1>3, <1>4, <1>5 DEF InQueue
<1>7. Len(queue) < MaxQueue /\ ~Deleting
  BY DEF QueueToplevelCallback
<1>8. QED
  BY <1>1, <1>2, <1>3, <1>6, <1>7 DEF CurrentEntry

\* The front end knows of a callback that is queued.
\* Code: queue_toplevel_callback.
LEMMA QueueAnnounces ==
  ASSUME ListSound, Announced, idle \in BOOLEAN, NEW e \in Entry,
         QueueToplevelCallback(e), NotifyFrontend
  PROVE  Announced' /\ idle' \in BOOLEAN
<1>1. cbhead = Null <=> queue = <<>>
  BY AppendFacts, HeadOfList
<1>2. idle' \in BOOLEAN /\ (idle' <=> idle \/ (cbhead = Null /\ cbcurr = Null))
  BY DEF NotifyFrontend
<1>3. QED
  BY <1>1, <1>2 DEF Announced

\* Adding input queues the idempotent callback, unless it is queued already.
\* Code: queue_idempotent_callback, after bufchain_add or pq_push.
LEMMA AddInputKeeps ==
  ASSUME IInv, NEW o \in Object, AddInput(o)
  PROVE  IInv' /\ [Queue!QueueNext]_<<queue, CurrentEntry>>
<1>1. /\ o \in live /\ live' = live /\ drained' = drained
      /\ input' = [input EXCEPT ![o] = TRUE] /\ QueueIdempotent(o)
  BY DEF AddInput
<1>2. /\ input' \in [Object -> BOOLEAN]
      /\ \A p \in live : p # o => input'[p] = input[p]
  BY <1>1 DEF IInv, ObjectsOK
<1>3. CASE queued[o] /\ UNCHANGED <<listVars, queued, idle>>
  <2>1. /\ ListSound' /\ CurrentEntry' = CurrentEntry /\ cbcurr' = cbcurr /\ queue' = queue
        /\ \A e : InQueue(e)' <=> InQueue(e)
    BY <1>3, ListUnchanged DEF IInv
  <2>2. ObjectsOK'
    BY <1>1, <1>2, <1>3, <2>1 DEF IInv, ObjectsOK
  <2>3. QueuedOK'
    BY <1>1, <1>3, <2>1 DEF IInv, QueuedOK
  <2>4. InputOK'
    BY <1>1, <1>2, <1>3, <2>1 DEF IInv, InputOK, QueuedOK
  <2>5. Announced'
    BY <1>3, <2>1 DEF IInv, Announced
  <2>6. QED
    BY <2>1, <2>2, <2>3, <2>4, <2>5 DEF IInv
<1>4. CASE /\ ~queued[o] /\ QueueToplevelCallback(Idempotent(o)) /\ NotifyFrontend
           /\ queued' = [queued EXCEPT ![o] = TRUE]
  <2>1. PICK e \in Entry : e = Idempotent(o)
    BY DEF Entry, Idempotent
  <2>2. /\ ListSound' /\ cbcurr' = cbcurr /\ CurrentEntry' = CurrentEntry
        /\ queue' = Append(queue, e) /\ Len(queue) < MaxQueue
        /\ Len(queue) \in Nat /\ DOMAIN queue = 1 .. Len(queue)
        /\ DOMAIN queue' = 1 .. Len(queue) + 1 /\ queue'[Len(queue) + 1] = e
        /\ \A i \in DOMAIN queue : queue'[i] = queue[i]
        /\ \A x : InQueue(x)' <=> InQueue(x) \/ x = e
    BY <1>4, <2>1, AppendFacts DEF IInv
  <2>3. Announced' /\ idle' \in BOOLEAN
    BY <1>4, <2>1, QueueAnnounces DEF IInv, ObjectsOK
  <2>4. /\ queued' \in [Object -> BOOLEAN] /\ queued'[o]
        /\ \A p \in live : p # o => queued'[p] = queued[p]
    BY <1>4 DEF IInv, ObjectsOK
  <2>5. ObjectsOK'
    BY <1>1, <1>2, <2>2, <2>3, <2>4 DEF IInv, ObjectsOK
  <2>6. \A p \in live : p # o => Idempotent(p) # e
    BY <2>1 DEF Idempotent
  <2>7. e.obj = o /\ e.fn = "idempotent"
    BY <2>1 DEF Idempotent
  <2>8. \A i \in DOMAIN queue : queue[i] # e
    BY <1>1, <1>4, <2>1 DEF IInv, QueuedOK, InQueue
  <2>9. \A i \in DOMAIN queue' : i \in DOMAIN queue \/ i = Len(queue) + 1
    BY <2>2
  <2>10. QueuedOK'
    <3>1. \A i \in DOMAIN queue' : queue'[i].obj \in live'
      BY <1>1, <2>2, <2>7, <2>9 DEF IInv, QueuedOK
    <3>2. \A p \in live' : queued'[p] <=> InQueue(Idempotent(p))'
      BY <1>1, <2>1, <2>2, <2>4, <2>6 DEF IInv, QueuedOK
    <3>3. \A i, j \in DOMAIN queue' :
            queue'[i] = queue'[j] /\ queue'[i].fn = "idempotent" => i = j
      BY <2>2, <2>8, <2>9 DEF IInv, QueuedOK
    <3>4. QED
      BY <3>1, <3>2, <3>3 DEF QueuedOK
  <2>11. InputOK'
    BY <1>1, <1>2, <2>1, <2>2 DEF IInv, InputOK
  <2>12. Queue!QueueNext
    BY <2>2 DEF Queue!QueueNext, Queue!QueueToplevelCallback, Queue!Entry, Entry
  <2>13. QED
    BY <2>2, <2>3, <2>5, <2>10, <2>11, <2>12 DEF IInv
<1>5. QED
  BY <1>1, <1>3, <1>4 DEF QueueIdempotent

\* A plain callback may be queued more than once.
\* Code: queue_toplevel_callback, as make_handle_socket calls it.
LEMMA QueuePlainKeeps ==
  ASSUME IInv, NEW o \in Object, QueuePlain(o)
  PROVE  IInv' /\ [Queue!QueueNext]_<<queue, CurrentEntry>>
<1>1. /\ o \in live /\ QueueToplevelCallback(Plain(o)) /\ NotifyFrontend
      /\ UNCHANGED <<live, queued, input, drained>>
  BY DEF QueuePlain
<1>2. PICK e \in Entry : e = Plain(o)
  BY DEF Entry, Plain
<1>3. /\ ListSound' /\ cbcurr' = cbcurr /\ CurrentEntry' = CurrentEntry
      /\ queue' = Append(queue, e) /\ Len(queue) < MaxQueue
      /\ Len(queue) \in Nat /\ DOMAIN queue = 1 .. Len(queue)
      /\ DOMAIN queue' = 1 .. Len(queue) + 1 /\ queue'[Len(queue) + 1] = e
      /\ \A i \in DOMAIN queue : queue'[i] = queue[i]
      /\ \A x : InQueue(x)' <=> InQueue(x) \/ x = e
  BY <1>1, <1>2, AppendFacts DEF IInv
<1>4. Announced' /\ idle' \in BOOLEAN
  BY <1>1, <1>2, QueueAnnounces DEF IInv, ObjectsOK
<1>5. ObjectsOK'
  BY <1>1, <1>3, <1>4 DEF IInv, ObjectsOK
<1>6. e.obj = o /\ e.fn = "plain" /\ \A p \in live : Idempotent(p) # e
  BY <1>2 DEF Idempotent, Plain
<1>7. \A i \in DOMAIN queue' : i \in DOMAIN queue \/ i = Len(queue) + 1
  BY <1>3
<1>8. QueuedOK'
  <2>1. \A i \in DOMAIN queue' : queue'[i].obj \in live'
    BY <1>1, <1>3, <1>6, <1>7 DEF IInv, QueuedOK
  <2>2. \A p \in live' : queued'[p] <=> InQueue(Idempotent(p))'
    BY <1>1, <1>3, <1>6 DEF IInv, QueuedOK
  <2>3. \A i, j \in DOMAIN queue' :
          queue'[i] = queue'[j] /\ queue'[i].fn = "idempotent" => i = j
    BY <1>3, <1>6, <1>7 DEF IInv, QueuedOK
  <2>4. QED
    BY <2>1, <2>2, <2>3 DEF QueuedOK
<1>9. InputOK'
  BY <1>1, <1>3 DEF IInv, InputOK
<1>10. Queue!QueueNext
  BY <1>3 DEF Queue!QueueNext, Queue!QueueToplevelCallback, Queue!Entry, Entry
<1>11. QED
  BY <1>3, <1>4, <1>5, <1>8, <1>9, <1>10 DEF IInv

\* No callback is waiting for a new object in the memory of an old one.
\* Code: an object's constructor, e.g. ssh_ppl_setup_queues.
LEMMA NewKeeps ==
  ASSUME IInv, NEW o \in Object, New(o)
  PROVE  IInv' /\ [Queue!QueueNext]_<<queue, CurrentEntry>>
<1>1. /\ o \notin live /\ live' = live \cup {o} /\ UNCHANGED listVars
      /\ queued' = [queued EXCEPT ![o] = FALSE] /\ input' = [input EXCEPT ![o] = FALSE]
      /\ drained' = drained /\ idle' = idle
  BY DEF New
<1>2. /\ ListSound' /\ CurrentEntry' = CurrentEntry /\ cbcurr' = cbcurr /\ queue' = queue
      /\ \A e : InQueue(e)' <=> InQueue(e)
  BY <1>1, ListUnchanged DEF IInv
<1>3. /\ queued' \in [Object -> BOOLEAN] /\ input' \in [Object -> BOOLEAN]
      /\ ~queued'[o] /\ ~input'[o]
      /\ \A p \in live : queued'[p] = queued[p] /\ input'[p] = input[p]
  BY <1>1 DEF IInv, ObjectsOK
<1>4. ~InQueue(Idempotent(o))
  BY <1>1 DEF IInv, QueuedOK, InQueue, Idempotent
<1>5. ObjectsOK'
  BY <1>1, <1>2, <1>3 DEF IInv, ObjectsOK
<1>6. QueuedOK'
  <2>1. \A i \in DOMAIN queue' : queue'[i].obj \in live'
    BY <1>1, <1>2 DEF IInv, QueuedOK
  <2>2. \A p \in live' : queued'[p] <=> InQueue(Idempotent(p))'
    BY <1>1, <1>2, <1>3, <1>4 DEF IInv, QueuedOK
  <2>3. QED
    BY <1>2, <2>1, <2>2 DEF IInv, QueuedOK
<1>7. InputOK'
  BY <1>1, <1>2, <1>3 DEF IInv, InputOK
<1>8. Announced'
  BY <1>1, <1>2 DEF IInv, Announced
<1>9. QED
  BY <1>2, <1>5, <1>6, <1>7, <1>8 DEF IInv

\* The parts of the invariant that are about the objects hold as long as neither they
\* nor the queue change.
\* Code: the steps within callback.c that only rearrange the list.
LEMMA OnlyTheListMoves ==
  ASSUME IInv, ListSound', CurrentEntry' = CurrentEntry, queue' = queue, cbcurr' = cbcurr,
         UNCHANGED <<live, queued, input, drained, idle>>
  PROVE  IInv'
<1>1. ObjectsOK'
  BY DEF IInv, ObjectsOK
<1>2. QueuedOK' /\ InputOK'
  BY DEF IInv, QueuedOK, InputOK, InQueue
<1>3. Announced'
  BY DEF IInv, Announced
<1>4. QED
  BY <1>1, <1>2, <1>3 DEF IInv

\* The beginning of a deletion changes nothing but the list's own variables.
\* Code: delete_callbacks_for_context, as far as its loop, called by the object's owner.
LEMMA FreeKeeps ==
  ASSUME IInv, NEW o \in Object, Free(o)
  PROVE  IInv' /\ [Queue!QueueNext]_<<queue, CurrentEntry>>
<1>1. DeleteBegins(o) /\ UNCHANGED <<live, queued, input, drained, idle>>
  BY DEF Free
<1>2. ListSound'
  BY <1>1, DeleteBeginsKeepsList DEF IInv
<1>3. CurrentEntry' = CurrentEntry /\ queue' = queue /\ cbcurr' = cbcurr
  BY <1>1 DEF DeleteBegins, historyVars, CurrentEntry
<1>4. IInv'
  BY <1>1, <1>2, <1>3, OnlyTheListMoves
<1>5. QED
  BY <1>3, <1>4

\* Nor does its loop.
\* Code: the loop of delete_callbacks_for_context.
LEMMA DeletionGoesOnKeeps ==
  ASSUME IInv, DeletionGoesOn
  PROVE  IInv' /\ [Queue!QueueNext]_<<queue, CurrentEntry>>
<1>1. DeleteStep /\ UNCHANGED <<live, queued, input, drained, idle>>
  BY DEF DeletionGoesOn
<1>2. CASE DeleteFrees
  <2>1. ListSound' /\ (cbcurr # Null => entry'[cbcurr] = entry[cbcurr])
    BY <1>2, DeleteFreesKeepsList DEF IInv
  <2>2. queue' = queue /\ cbcurr' = cbcurr
    BY <1>2 DEF DeleteFrees
  <2>3. CurrentEntry' = CurrentEntry
    BY <2>1, <2>2 DEF CurrentEntry
  <2>4. QED
    BY <1>1, <2>1, <2>2, <2>3, OnlyTheListMoves
<1>3. CASE DeleteKeeps
  <2>1. ListSound'
    BY <1>3, DeleteKeepsKeepsList DEF IInv
  <2>2. queue' = queue /\ cbcurr' = cbcurr /\ CurrentEntry' = CurrentEntry
    BY <1>3 DEF DeleteKeeps, CurrentEntry
  <2>3. QED
    BY <1>1, <2>1, <2>2, OnlyTheListMoves
<1>4. QED
  BY <1>1, <1>2, <1>3 DEF DeleteStep

\* At its end just the callbacks of the context have left the queue.
\* Code: delete_callbacks_for_context, after its loop, and the sfree of the object.
LEMMA FreedKeeps ==
  ASSUME IInv, Freed
  PROVE  IInv' /\ [Queue!QueueNext]_<<queue, CurrentEntry>>
<1>1. /\ DeleteEnds /\ live' = live \ {doomed}
      /\ drained' = (drained \/ (cbcurr # Null /\ entry[cbcurr].obj = doomed))
      /\ UNCHANGED <<queued, input, idle>>
  BY DEF Freed
<1>2. PICK k \in Nat, n \in Nat : k = Len(kept) /\ n = Len(queue) /\ DOMAIN queue = 1 .. n
  <2>1. queue \in Seq(Entry) /\ Len(kept) \in Nat
    BY LoopFacts DEF IInv
  <2>2. QED
    BY <2>1
<1>3. /\ ListSound' /\ Len(queue') = k /\ DOMAIN queue' = 1 .. k
      /\ k <= n /\ queue' = [j \in 1 .. k |-> queue[kept[j]]]
      /\ \A j \in 1 .. k : queue'[j] = queue[kept[j]] /\ kept[j] \in 1 .. n
      /\ \A i, j \in 1 .. k : i < j => kept[i] < kept[j]
      /\ \A i \in 1 .. n : (queue[i].obj # doomed <=> \E j \in 1 .. k : kept[j] = i)
  BY <1>1, <1>2, DeleteEndsKeepsList DEF IInv
<1>4. cbcurr' = cbcurr /\ CurrentEntry' = CurrentEntry /\ doomed \in Object
  BY <1>1, CurrentFacts DEF DeleteEnds, Deleting, CurrentEntry, IInv
<1>5. \A i, j \in 1 .. k : kept[i] = kept[j] => i = j
  <2>1. \A i \in 1 .. k : kept[i] \in Nat
    BY <1>2, <1>3
  <2>2. QED
    BY <1>2, <1>3, <2>1
<1>6. \A i \in DOMAIN queue' : queue'[i].obj \in live'
  BY <1>1, <1>2, <1>3 DEF IInv, QueuedOK
<1>7. ASSUME NEW o \in live' PROVE InQueue(Idempotent(o))' <=> InQueue(Idempotent(o))
  <2>1. o # doomed /\ Idempotent(o).obj = o
    BY <1>1 DEF Idempotent
  <2>2. ASSUME InQueue(Idempotent(o)) PROVE InQueue(Idempotent(o))'
    <3>1. PICK i \in 1 .. n : queue[i] = Idempotent(o)
      BY <1>2, <2>2 DEF InQueue
    <3>2. PICK j \in 1 .. k : kept[j] = i
      BY <1>3, <2>1, <3>1
    <3>3. QED
      BY <1>3, <3>1, <3>2 DEF InQueue
  <2>3. ASSUME InQueue(Idempotent(o))' PROVE InQueue(Idempotent(o))
    <3>1. PICK j \in 1 .. k : queue'[j] = Idempotent(o)'
      BY <1>3, <2>3 DEF InQueue
    <3>2. Idempotent(o)' = Idempotent(o)
      BY DEF Idempotent
    <3>3. QED
      BY <1>2, <1>3, <3>1, <3>2 DEF InQueue
  <2>4. QED
    BY <2>2, <2>3
<1>8. QueuedOK'
  <2>1. \A o \in live' : queued'[o] <=> InQueue(Idempotent(o))'
    BY <1>1, <1>7 DEF IInv, QueuedOK
  <2>2. \A i, j \in DOMAIN queue' :
          queue'[i] = queue'[j] /\ queue'[i].fn = "idempotent" => i = j
    BY <1>2, <1>3, <1>5 DEF IInv, QueuedOK
  <2>3. QED
    BY <1>6, <2>1, <2>2 DEF QueuedOK
<1>9. /\ drained' \in BOOLEAN
      /\ ~drained' => ~drained /\ CurrentEntry \in {Idempotent(o) : o \in live'}
  <2>1. drained' \in BOOLEAN /\ (drained => drained')
    BY <1>1 DEF IInv, ObjectsOK
  <2>2. ASSUME ~drained' PROVE CurrentEntry \in {Idempotent(o) : o \in live'}
    <3>1. PICK o \in live : CurrentEntry = Idempotent(o)
      BY <2>1, <2>2 DEF IInv, ObjectsOK
    <3>2. cbcurr # Null /\ entry[cbcurr] = Idempotent(o)
      BY <3>1, CurrentFacts, NoEntryAssumption DEF IInv, ObjectsOK, Idempotent, Entry
    <3>3. o # doomed
      <4>1. entry[cbcurr].obj = o
        BY <3>2 DEF Idempotent
      <4>2. QED
        BY <1>1, <2>2, <3>2, <4>1
    <3>4. QED
      BY <1>1, <3>1, <3>3
  <2>3. QED
    BY <2>1, <2>2
<1>10. ObjectsOK'
  <2>1. (\E o \in live' : CurrentEntry = Idempotent(o)) =>
          CurrentEntry' \in {Idempotent(o) : o \in live'}
    BY <1>4
  <2>2. QED
    BY <1>1, <1>4, <1>9, <2>1 DEF IInv, ObjectsOK, Idempotent
<1>11. InputOK'
  <2>1. ASSUME NEW o \in live', input'[o]
        PROVE  InQueue(Idempotent(o))' \/ (CurrentEntry' = Idempotent(o) /\ ~drained')
    <3>1. o \in live /\ o # doomed /\ input[o]
      BY <1>1, <2>1
    <3>2. CASE InQueue(Idempotent(o))
      BY <1>7, <3>2
    <3>3. CASE CurrentEntry = Idempotent(o) /\ ~drained
      <4>1. cbcurr # Null => entry[cbcurr].obj = o
        BY <3>3, CurrentFacts DEF IInv, Idempotent
      <4>2. ~drained'
        BY <1>1, <3>1, <3>3, <4>1
      <4>3. QED
        BY <1>4, <3>3, <4>2
    <3>4. QED
      BY <3>1, <3>2, <3>3 DEF IInv, InputOK
  <2>2. QED
    BY <2>1 DEF InputOK, Idempotent
<1>12. Announced'
  <2>1. queue' # <<>> => queue # <<>>
    <3>1. queue' # <<>> => 1 \in 1 .. k
      BY <1>2, <1>3, ListSound' DEF ListSound, HistoryOK
    <3>2. QED
      BY <1>2, <1>3, <3>1
  <2>2. QED
    BY <1>1, <1>4, <2>1 DEF IInv, Announced
<1>13. Queue!DeleteCallbacksForContext(doomed)
  <2> DEFINE f == [j \in 1 .. k |-> kept[j]]
  <2>1. k \in 0 .. Len(queue) /\ f \in [1 .. k -> 1 .. Len(queue)]
    BY <1>2, <1>3
  <2>2. \A i, j \in 1 .. k : i < j => f[i] < f[j]
    BY <1>3
  <2>3. \A i \in 1 .. Len(queue) : (queue[i].obj # doomed <=> \E j \in 1 .. k : f[j] = i)
    BY <1>2, <1>3
  <2>4. queue' = [j \in 1 .. k |-> queue[f[j]]]
    BY <1>3
  <2> HIDE DEF f
  <2>5. \E m \in 0 .. Len(queue) : \E g \in [1 .. m -> 1 .. Len(queue)] :
          /\ \A i, j \in 1 .. m : i < j => g[i] < g[j]
          /\ \A i \in 1 .. Len(queue) : (queue[i].obj # doomed <=> \E j \in 1 .. m : g[j] = i)
          /\ queue' = [j \in 1 .. m |-> queue[g[j]]]
    <3> USE <2>1
    <3> WITNESS k \in 0 .. Len(queue)
    <3> WITNESS f \in [1 .. k -> 1 .. Len(queue)]
    <3> QED
      BY <2>2, <2>3, <2>4
  <2>6. QED
    BY <1>4, <2>5 DEF Queue!DeleteCallbacksForContext
<1>14. QED
  BY <1>3, <1>4, <1>8, <1>10, <1>11, <1>12, <1>13 DEF IInv, Queue!QueueNext

\* The callback being run is the one that takes its object's input.
\* Code: the idempotent callback's own work, e.g. ssh_ppl_ic_process_queue_callback.
LEMMA DrainKeeps ==
  ASSUME IInv, Drain
  PROVE  IInv' /\ [Queue!QueueNext]_<<queue, CurrentEntry>>
<1>1. /\ cbcurr # Null /\ ~drained /\ drained'
      /\ input' = [input EXCEPT ![entry[cbcurr].obj] = FALSE]
      /\ UNCHANGED listVars /\ UNCHANGED <<live, queued, idle>>
  BY DEF Drain
<1>2. /\ ListSound' /\ CurrentEntry' = CurrentEntry /\ cbcurr' = cbcurr /\ queue' = queue
      /\ \A e : InQueue(e)' <=> InQueue(e)
  BY <1>1, ListUnchanged DEF IInv
<1>3. PICK o \in live : CurrentEntry = Idempotent(o)
  BY <1>1 DEF IInv, ObjectsOK
<1>4. entry[cbcurr].obj = o /\ o \in Object
  BY <1>1, <1>3, CurrentFacts DEF IInv, Idempotent, ObjectsOK
<1>5. /\ input' \in [Object -> BOOLEAN] /\ ~input'[o]
      /\ \A p \in live : p # o => input'[p] = input[p]
  BY <1>1, <1>4 DEF IInv, ObjectsOK
<1>6. ObjectsOK'
  <2>1. drained' \in BOOLEAN
    BY DEF Drain
  <2>2. QED
    BY <1>1, <1>2, <1>5, <2>1 DEF IInv, ObjectsOK
<1>7. QueuedOK'
  BY <1>1, <1>2 DEF IInv, QueuedOK
<1>8. InputOK'
  <2>1. \A p \in live : Idempotent(p) = Idempotent(o) => p = o
    BY DEF Idempotent
  <2>2. QED
    BY <1>1, <1>2, <1>3, <1>5, <2>1 DEF IInv, InputOK
<1>9. Announced'
  BY <1>1, <1>2 DEF IInv, Announced
<1>10. QED
  BY <1>2, <1>6, <1>7, <1>8, <1>9 DEF IInv

\* The first callback of the queue is run, and may be queued again from then on.
\* Code: run_toplevel_callbacks, and run_idempotent_callback up to the call of ic->fn.
LEMMA FrontEndRunsKeeps ==
  ASSUME IInv, FrontEndRuns
  PROVE  IInv' /\ [Queue!QueueNext]_<<queue, CurrentEntry>>
<1>1. /\ RunBegins /\ UNCHANGED <<live, input, idle>>
      /\ drained' = (entry[cbhead].fn = "plain")
      /\ IF entry[cbhead].fn = "idempotent"
         THEN queued' = [queued EXCEPT ![entry[cbhead].obj] = FALSE]
         ELSE queued' = queued
  BY DEF FrontEndRuns, Start
<1>2. /\ ListSound' /\ ~Deleting' /\ cbcurr' # Null /\ queue # <<>>
      /\ entry'[cbcurr'] = queue[1] /\ queue' = Rest(queue)
  BY <1>1, RunBeginsKeepsList DEF IInv
<1>3. entry[cbhead] = queue[1] /\ cbcurr = Null /\ queue[1] \in Entry
  BY <1>1, HeadOfList DEF IInv, RunBegins
<1>4. CurrentEntry' = queue[1] /\ CurrentEntry = NoEntry
  BY <1>2, <1>3 DEF CurrentEntry
<1>5. PICK n \in Nat, h \in Entry : n = Len(queue) /\ h = queue[1]
  BY <1>3, LoopFacts DEF IInv
<1>6. /\ n > 0 /\ DOMAIN queue = 1 .. n /\ DOMAIN queue' = 1 .. n - 1
      /\ \A i \in 1 .. n - 1 : queue'[i] = queue[i + 1]
  <2>1. queue \in Seq(Entry)
    BY LoopFacts DEF IInv
  <2>2. n > 0 /\ DOMAIN queue = 1 .. n
    BY <1>2, <1>5, <2>1
  <2>3. QED
    BY <1>2, <1>5, <2>2 DEF Rest
<1>7. h.obj \in live /\ h.fn \in {"plain", "idempotent"}
  BY <1>5, <1>6 DEF IInv, QueuedOK, Entry
<1>8. /\ \A i \in 1 .. n - 1 : i + 1 \in 1 .. n /\ i + 1 # 1
      /\ \A i \in 1 .. n : i = 1 \/ (i - 1 \in 1 .. n - 1 /\ (i - 1) + 1 = i)
      /\ 1 \in 1 .. n
  BY <1>6
<1>9. \A e : InQueue(e) <=> e = h \/ InQueue(e)'
  <2>1. ASSUME NEW e, InQueue(e) PROVE e = h \/ \E i \in 1 .. n - 1 : queue'[i] = e
    <3>1. PICK i \in 1 .. n : queue[i] = e
      BY <1>6, <2>1 DEF InQueue
    <3>2. CASE i = 1
      BY <1>5, <3>1, <3>2
    <3>3. CASE i # 1
      <4>1. i - 1 \in 1 .. n - 1 /\ (i - 1) + 1 = i
        BY <1>8, <3>3
      <4>2. queue'[i - 1] = e
        BY <1>6, <3>1, <4>1
      <4>3. QED
        BY <4>1, <4>2
    <3>4. QED
      BY <3>2, <3>3
  <2>2. ASSUME NEW e, e = h \/ \E i \in 1 .. n - 1 : queue'[i] = e PROVE InQueue(e)
    BY <1>5, <1>6, <1>8, <2>2 DEF InQueue
  <2>3. QED
    BY <1>6, <2>1, <2>2 DEF InQueue
<1>10. h.fn = "idempotent" => ~InQueue(h)'
  <2>1. \A i \in 1 .. n - 1 : h.fn = "idempotent" => queue'[i] # h
    BY <1>5, <1>6, <1>8 DEF IInv, QueuedOK
  <2>2. QED
    BY <1>6, <2>1 DEF InQueue
<1>11. h.fn = "idempotent" => h = Idempotent(h.obj)
  BY DEF Entry, Idempotent
<1>12. ASSUME NEW o PROVE Idempotent(o) = h <=> h.fn = "idempotent" /\ h.obj = o
  BY DEF Entry, Idempotent
<1>13. /\ queued' \in [Object -> BOOLEAN]
       /\ \A o \in live : queued'[o] <=> queued[o] /\ Idempotent(o) # h
  <2>1. queued \in [Object -> BOOLEAN] /\ live \subseteq Object
    BY DEF IInv, ObjectsOK
  <2>2. CASE h.fn = "idempotent"
    <3>1. queued' = [queued EXCEPT ![h.obj] = FALSE]
      BY <1>1, <1>3, <1>5, <2>2
    <3>2. QED
      BY <1>12, <2>1, <2>2, <3>1
  <2>3. CASE h.fn # "idempotent"
    <3>1. queued' = queued
      BY <1>1, <1>3, <1>5, <2>3
    <3>2. QED
      BY <1>12, <2>1, <2>3, <3>1
  <2>4. QED
    BY <2>2, <2>3
<1>14. drained' \in BOOLEAN /\ (drained' <=> h.fn = "plain")
  BY <1>1, <1>3, <1>5
<1>15. ObjectsOK'
  <2>1. ~drained' => CurrentEntry' \in {Idempotent(o) : o \in live}
    BY <1>4, <1>5, <1>7, <1>11, <1>14
  <2>2. QED
    BY <1>1, <1>13, <1>14, <2>1 DEF IInv, ObjectsOK, Idempotent
<1>16. QueuedOK'
  <2>1. \A i \in DOMAIN queue' : queue'[i].obj \in live'
    BY <1>1, <1>6, <1>8 DEF IInv, QueuedOK
  <2>2. \A o \in live' : queued'[o] <=> InQueue(Idempotent(o))'
    <3>1. \A o \in live : queued[o] <=> InQueue(Idempotent(o))
      BY DEF IInv, QueuedOK
    <3>2. \A o \in live : Idempotent(o) = h => h.fn = "idempotent"
      BY <1>12
    <3>3. \A o \in live : InQueue(Idempotent(o))' <=>
                            InQueue(Idempotent(o)) /\ Idempotent(o) # h
      BY <1>9, <1>10, <3>2 DEF InQueue, Idempotent
    <3>4. QED
      BY <1>1, <1>13, <3>1, <3>3
  <2>3. ASSUME NEW i \in DOMAIN queue', NEW j \in DOMAIN queue',
               queue'[i] = queue'[j], queue'[i].fn = "idempotent"
        PROVE  i = j
    <3>1. i \in 1 .. n - 1 /\ j \in 1 .. n - 1 /\ i + 1 \in 1 .. n /\ j + 1 \in 1 .. n
      BY <1>6, <1>8
    <3>2. queue[i + 1] = queue[j + 1] /\ queue[i + 1].fn = "idempotent"
      BY <1>6, <2>3, <3>1
    <3>3. i + 1 = j + 1
      BY <1>6, <3>1, <3>2 DEF IInv, QueuedOK
    <3>4. QED
      BY <3>1, <3>3
  <2>4. QED
    BY <2>1, <2>2, <2>3 DEF QueuedOK
<1>17. InputOK'
  <2>1. ASSUME NEW o \in live, input[o]
        PROVE  InQueue(Idempotent(o))' \/ (CurrentEntry' = Idempotent(o) /\ ~drained')
    <3>1. InQueue(Idempotent(o))
      <4>1. CurrentEntry # Idempotent(o)
        BY <1>4, NoEntryAssumption DEF Idempotent, Entry, IInv, ObjectsOK
      <4>2. QED
        BY <2>1, <4>1 DEF IInv, InputOK
    <3>2. CASE Idempotent(o) = h
      BY <1>4, <1>5, <1>12, <1>14, <3>2
    <3>3. CASE Idempotent(o) # h
      BY <1>9, <3>1, <3>3 DEF InQueue, Idempotent
    <3>4. QED
      BY <3>2, <3>3
  <2>2. QED
    BY <1>1, <2>1 DEF InputOK, InQueue, Idempotent
<1>18. Announced'
  BY <1>1, <1>2 DEF IInv, Announced
<1>19. Queue!RunBegins
  <2>1. Head(queue) = queue[1] /\ Tail(queue) = Rest(queue)
    <3>1. queue \in Seq(Entry) /\ queue # <<>>
      BY <1>2, LoopFacts DEF IInv
    <3>2. Head(queue) = queue[1]
      BY <3>1
    <3>3. /\ Tail(queue) \in [1 .. Len(queue) - 1 -> Entry]
          /\ \A i \in 1 .. Len(queue) - 1 : Tail(queue)[i] = queue[i + 1]
      <4>1. Tail(queue) \in Seq(Entry) /\ Len(Tail(queue)) = Len(queue) - 1
        BY <3>1
      <4>2. \A i \in 1 .. Len(queue) - 1 : Tail(queue)[i] = queue[i + 1]
        BY <3>1
      <4>3. \A t \in Seq(Entry) : t \in [1 .. Len(t) -> Entry]
        OBVIOUS
      <4>4. Tail(queue) \in [1 .. Len(queue) - 1 -> Entry]
        BY <4>1, <4>3, Zenon
      <4>5. QED
        BY <4>2, <4>4
    <3>4. /\ Rest(queue) \in [1 .. Len(queue) - 1 -> Entry]
          /\ \A i \in 1 .. Len(queue) - 1 : Rest(queue)[i] = queue[i + 1]
      <4>1. Len(queue) \in Nat /\ \A i \in 1 .. Len(queue) - 1 : queue[i + 1] \in Entry
        BY <3>1
      <4>2. QED
        BY <4>1 DEF Rest
    <3>5. QED
      BY <3>2, <3>3, <3>4
  <2>2. QED
    BY <1>2, <1>4, <2>1 DEF Queue!RunBegins
<1>20. QED
  BY <1>2, <1>15, <1>16, <1>17, <1>18, <1>19 DEF IInv, Queue!QueueNext

\* It returns when it has done its work.
\* Code: run_toplevel_callbacks, after the call.
LEMMA ReturnKeeps ==
  ASSUME IInv, Return
  PROVE  IInv' /\ [Queue!QueueNext]_<<queue, CurrentEntry>>
<1>1. RunEnds /\ drained /\ UNCHANGED <<live, queued, input, drained, idle>>
  BY DEF Return
<1>2. ListSound' /\ cbcurr # Null /\ cbcurr' = Null /\ queue' = queue
  BY <1>1, RunEndsKeepsList DEF RunEnds, historyVars, IInv
<1>3. CurrentEntry # NoEntry /\ CurrentEntry' = NoEntry
  BY <1>2, CurrentFacts DEF IInv, CurrentEntry
<1>4. ObjectsOK'
  BY <1>1 DEF IInv, ObjectsOK
<1>5. QueuedOK' /\ InputOK'
  BY <1>1, <1>2 DEF IInv, QueuedOK, InputOK, InQueue
<1>6. Announced'
  BY <1>1, <1>2 DEF IInv, Announced
<1>7. Queue!RunEnds
  BY <1>2, <1>3 DEF Queue!RunEnds
<1>8. QED
  BY <1>2, <1>4, <1>5, <1>6, <1>7 DEF IInv, Queue!QueueNext

\* The front end's idle function stops being called when the queue is empty.
\* Code: idle_toplevel_callback_func.
LEMMA IdleEndsKeeps ==
  ASSUME IInv, IdleEnds
  PROVE  IInv' /\ [Queue!QueueNext]_<<queue, CurrentEntry>>
<1>1. /\ ~Deleting /\ cbhead = Null /\ cbcurr = Null /\ idle' = FALSE
      /\ UNCHANGED listVars /\ UNCHANGED <<live, queued, input, drained>>
  BY DEF IdleEnds
<1>2. /\ ListSound' /\ CurrentEntry' = CurrentEntry /\ cbcurr' = cbcurr /\ queue' = queue
      /\ \A e : InQueue(e)' <=> InQueue(e)
  BY <1>1, ListUnchanged DEF IInv
<1>3. queue = <<>>
  BY <1>1, HeadOfList DEF IInv
<1>4. ObjectsOK'
  BY <1>1, <1>2 DEF IInv, ObjectsOK
<1>5. QueuedOK' /\ InputOK'
  BY <1>1, <1>2 DEF IInv, QueuedOK, InputOK
<1>6. Announced'
  BY <1>1, <1>2, <1>3 DEF Announced
<1>7. QED
  BY <1>2, <1>4, <1>5, <1>6 DEF IInv
-----------------------------------------------------------------------------
(* The theorems *)

\* Every step keeps the invariant and is one of the queue, or none.
\* Code: all of callback.c.
LEMMA StepKeeps ==
  ASSUME IInv, [Next]_vars
  PROVE  IInv' /\ [Queue!QueueNext]_<<queue, CurrentEntry>>
<1>1. CASE UNCHANGED vars
  <2>1. UNCHANGED listVars /\ UNCHANGED <<live, queued, input, drained, idle>>
    BY <1>1 DEF vars
  <2>2. QED
    BY <2>1, ListUnchanged, OnlyTheListMoves DEF IInv
<1>2. ASSUME NEW o \in Object, New(o) \/ Free(o) \/ AddInput(o) \/ QueuePlain(o)
      PROVE  IInv' /\ [Queue!QueueNext]_<<queue, CurrentEntry>>
  BY <1>2, NewKeeps, FreeKeeps, AddInputKeeps, QueuePlainKeeps
<1>3. CASE DeletionGoesOn \/ Freed
  BY <1>3, DeletionGoesOnKeeps, FreedKeeps
<1>4. CASE Drain \/ FrontEndRuns \/ Return \/ IdleEnds
  BY <1>4, DrainKeeps, FrontEndRunsKeeps, ReturnKeeps, IdleEndsKeeps
<1>5. QED
  BY <1>1, <1>2, <1>3, <1>4 DEF Next

\* The inductive invariant holds.
\* Code: all of callback.c.
THEOREM InvariantHolds == Spec => []IInv
  BY InitHolds, StepKeeps, PTL DEF Spec

\* No callback is queued for an object that is gone, an object's field queued says
\* whether it is in the queue, and the linked list neither leaks nor dangles.
\* Code: delete_callbacks_for_context, run_idempotent_callback.
THEOREM NothingDangles == Spec => []NoDanglingCallback
  BY InvariantHolds, InvariantSuffices, PTL

\* Input always has a callback that is to come, and the front end knows of it.
\* Code: run_idempotent_callback, queue_toplevel_callback.
THEOREM NothingForgotten == Spec => []NoInputForgotten
  BY InvariantHolds, InvariantSuffices, PTL

\* The linked list implements the first-in-first-out queue.
\* Code: all of callback.c.
THEOREM ListImplementsQueue == Spec => ImplementsQueue
<1>1. Init => Queue!QueueInit
  BY DEF Init, ListInit, CurrentEntry, Queue!QueueInit
<1>2. IInv /\ [Next]_vars => [Queue!QueueNext]_Queue!queueVars
  BY StepKeeps DEF Queue!queueVars
<1>3. QED
  BY <1>1, <1>2, InvariantHolds, PTL DEF Spec, ImplementsQueue, Queue!QueueSpec
-----------------------------------------------------------------------------
(* Sockets over handles *)

\* Data is buffered, and the plug has not been given it yet.
Held == inputdata # <<>> /\ pc # "thaw"

BufferInv ==
  /\ life = "deferred" => inputdata = <<>> /\ pc = "idle" /\ frozen = "UNFROZEN"
  /\ deferClose <=> pc = "thaw"
  /\ life \in {"deferred", "open"} =>
       /\ inputdata # <<>> <=> frozen \in {"FROZEN", "THAWING"}
       /\ pc = "thaw" => inputdata # <<>>
       /\ pc = "receive" => inputdata = <<>>
       /\ inputdata # <<>> => reader # "busy"
       /\ pc # "thaw" => ~deferredClose
  /\ failed # "input"

\* The callbacks of a socket go with it.
CallbackInv ==
  /\ life = "closed" => thawCbs = 0 /\ ~connectCb /\ pc # "thaw"
  /\ life = "open" /\ frozen = "THAWING" => thawCbs > 0 \/ pc = "thaw"
  /\ life = "deferred" => thawCbs = 0 /\ ~connectCb

\* An idle handle is one that handle_gotdata has told of a large backlog.
ReaderInv ==
  life = "open" /\ reader = "idle" => inputdata # <<>> \/ pc = "receive"

\* All that has been read has been given to the plug, but for the one load that is held.
CountInv ==
  /\ life \in {"deferred", "open"} =>
       IF Held THEN rd = got + 1 /\ inputdata[1] = rd ELSE rd = got
  /\ pc = "closing" => rd = got

\* Only a plug that wants it has a frozen socket; start_frozen is never set.
WantInv ==
  /\ life = "open" /\ frozen \in {"FREEZING", "FROZEN"} => want
  /\ ~startFrozen

SocketIInv == SocketTypeOK /\ BufferInv /\ CallbackInv /\ ReaderInv /\ CountInv /\ WantInv

\* What the empty sequence of loads is, and what a short one becomes without its head.
\* Code: bufchain_init, bufchain_consume.
LEMMA NoData == <<>> \in Seq(1 .. Loads) /\ Len(<<>>) = 0
BY EmptySeq

LEMMA TailOfOne ==
  ASSUME NEW s \in Seq(1 .. Loads), s # <<>>, Len(s) <= 1
  PROVE  Tail(s) = <<>>
<1>1. Len(s) \in Nat \ {0}
  BY EmptySeq
<1>2. Tail(s) \in Seq(1 .. Loads) /\ Len(Tail(s)) = Len(s) - 1
  BY HeadTailProperties
<1>3. Len(Tail(s)) = 0
  BY <1>1, <1>2
<1>4. Tail(s) # <<>> => Len(Tail(s)) \in Nat \ {0}
  BY <1>2, EmptySeq
<1>5. QED
  BY <1>3, <1>4

\* The inductive invariant holds of a new socket, deferred or open.
\* Code: make_handle_socket, make_deferred_handle_socket.
LEMMA SocketInitEstablishes == SocketInit => SocketIInv
<1> SUFFICES ASSUME SocketInit PROVE SocketIInv
  OBVIOUS
<1>1. connectCb \in BOOLEAN
  BY DEF SocketInit
<1>2. inputdata = <<>> /\ inputdata \in Seq(1 .. Loads) /\ Len(inputdata) <= 1
  BY NoData DEF SocketInit
<1>3. 0 \in 0 .. Loads /\ 0 \in 0 .. Callbacks
  BY BoundAssumption
<1>4. SocketTypeOK
  BY <1>1, <1>2, <1>3 DEF SocketInit, SocketTypeOK
<1>5. BufferInv /\ CallbackInv /\ ReaderInv /\ CountInv /\ WantInv
  BY <1>2 DEF SocketInit, BufferInv, CallbackInv, ReaderInv, CountInv, WantInv, Held
<1>6. QED
  BY <1>4, <1>5 DEF SocketIInv

\* Everything the plug does with a deferred or open socket preserves it.
\* Code: the two vtables of handle-socket.c.
LEMMA PlugStepPreserves == SocketIInv /\ PlugStep => SocketIInv'
<1> SUFFICES ASSUME SocketIInv, PlugStep PROVE SocketIInv'
  OBVIOUS
<1> USE BoundAssumption
    DEF SocketIInv, SocketTypeOK, BufferInv, CallbackInv, ReaderInv, CountInv, WantInv, Held,
        lifeVars, deferredVars, openVars, handleVars, cbVars, plugVars, Abort, Usable
<1>1. CASE DeferredWrite
  BY <1>1 DEF DeferredWrite
<1>2. CASE DeferredWriteEof
  BY <1>2 DEF DeferredWriteEof
<1>3. CASE DeferredClose
  BY <1>3 DEF DeferredClose
<1>4. ASSUME NEW b \in BOOLEAN, DeferredSetFrozen(b) PROVE SocketIInv'
  BY <1>4 DEF DeferredSetFrozen
<1>5. CASE Write
  BY <1>5 DEF Write
<1>6. CASE WriteEof
  BY <1>6 DEF WriteEof
<1>7. CASE Freeze
  BY <1>7 DEF Freeze
<1>8. CASE Thaw
  <2>1. CASE frozen \in {"UNFROZEN", "THAWING"}
    BY <1>8, <2>1, ZenonT(40) DEF Thaw
  <2>2. CASE frozen = "FREEZING"
    BY <1>8, <2>2, ZenonT(40) DEF Thaw
  <2>3. CASE frozen = "FROZEN"
    <3>1. thawCbs + 1 \in 0 .. Callbacks
      BY <1>8, <2>3 DEF Thaw
    <3>2. thawCbs' \in 0 .. Callbacks /\ inputdata' = inputdata /\ pc' = pc
      BY <1>8, <2>3, <3>1 DEF Thaw
    <3>3. SocketTypeOK'
      BY <1>8, <2>3, <3>2 DEF Thaw
    <3>4. (BufferInv /\ CallbackInv /\ ReaderInv /\ CountInv /\ WantInv)'
      BY <1>8, <2>3 DEF Thaw
    <3>5. QED
      BY <3>3, <3>4
  <2>4. QED
    BY <2>1, <2>2, <2>3
<1>9. CASE Close
  <2>1. CASE deferClose
    BY <1>9, <2>1 DEF Close
  <2>2. CASE ~deferClose
    <3>1. inputdata' = <<>> /\ inputdata' \in Seq(1 .. Loads) /\ Len(inputdata') <= 1
      BY <1>9, <2>2, NoData DEF Close, FreeSocket
    <3>2. thawCbs' \in 0 .. Callbacks
      BY <1>9, <2>2 DEF Close, FreeSocket
    <3>3. SocketTypeOK'
      BY <1>9, <2>2, <3>1, <3>2 DEF Close, FreeSocket
    <3>4. (BufferInv /\ CallbackInv /\ ReaderInv /\ CountInv /\ WantInv)'
      BY <1>9, <2>2, <3>1 DEF Close, FreeSocket
    <3>5. QED
      BY <3>3, <3>4
  <2>3. QED
    BY <2>1, <2>2
<1>10. QED
  BY <1>1, <1>2, <1>3, <1>4, <1>5, <1>6, <1>7, <1>8, <1>9 DEF PlugStep

\* So does everything that comes from the handles and the callback queue.
\* Code: handle_gotdata, handle_socket_unfreeze, setup_handle_socket.
LEMMA LoopStepPreserves == SocketIInv /\ LoopStep => SocketIInv'
<1> SUFFICES ASSUME SocketIInv, LoopStep PROVE SocketIInv'
  OBVIOUS
<1> USE BoundAssumption
    DEF SocketIInv, SocketTypeOK, BufferInv, CallbackInv, ReaderInv, CountInv, WantInv, Held,
        lifeVars, deferredVars, openVars, handleVars, cbVars, plugVars, Abort
<1>1. CASE Setup
  BY <1>1 DEF Setup
<1>2. CASE GotData
  <2>1. CASE frozen \in {"FROZEN", "THAWING"}
    BY <1>2, <2>1 DEF GotData
  <2>2. CASE frozen = "FREEZING"
    <3>1. inputdata = <<>> /\ inputdata' = Append(inputdata, rd + 1)
      BY <1>2, <2>2 DEF GotData
    <3>2. rd + 1 \in 1 .. Loads
      BY <1>2 DEF GotData
    <3>3. inputdata' \in Seq(1 .. Loads) /\ Len(inputdata') = 1 /\ inputdata'[1] = rd + 1
      BY <3>1, <3>2
    <3>4. inputdata' # <<>>
      BY <3>3, EmptySeq
    <3>5. QED
      BY <1>2, <2>2, <3>1, <3>2, <3>3, <3>4 DEF GotData
  <2>3. CASE frozen = "UNFROZEN"
    BY <1>2, <2>3 DEF GotData
  <2>4. QED
    BY <2>1, <2>2, <2>3
<1>3. CASE GotEnd
  BY <1>3 DEF GotEnd
<1>4. CASE UnfreezeStale
  BY <1>4 DEF UnfreezeStale
<1>5. CASE Unfreeze
  BY <1>5 DEF Unfreeze
<1>6. CASE Connected
  BY <1>6, ZenonT(40) DEF Connected
<1>7. CASE ReceiveReturns
  BY <1>7 DEF ReceiveReturns
<1>8. CASE ClosingReturns
  BY <1>8 DEF ClosingReturns
<1>9. CASE UnfreezeReturns
  <2>1. CASE deferredClose
    <3>1. inputdata' = <<>> /\ inputdata' \in Seq(1 .. Loads) /\ Len(inputdata') <= 1
      BY <1>9, <2>1, NoData DEF UnfreezeReturns, FreeSocket
    <3>2. thawCbs' \in 0 .. Callbacks
      BY <1>9, <2>1 DEF UnfreezeReturns, FreeSocket
    <3>3. SocketTypeOK'
      BY <1>9, <2>1, <3>1, <3>2 DEF UnfreezeReturns, FreeSocket
    <3>4. (BufferInv /\ CallbackInv /\ ReaderInv /\ CountInv /\ WantInv)'
      BY <1>9, <2>1, <3>1 DEF UnfreezeReturns, FreeSocket
    <3>5. QED
      BY <3>3, <3>4
  <2>2. CASE ~deferredClose
    <3>1. inputdata' = Tail(inputdata)
      BY <1>9, <2>2 DEF UnfreezeReturns
    <3>2. inputdata # <<>> /\ inputdata \in Seq(1 .. Loads) /\ Len(inputdata) <= 1
      BY <1>9, <2>2 DEF UnfreezeReturns
    <3>3. inputdata' = <<>>
      BY <3>1, <3>2, TailOfOne
    <3>4. inputdata' \in Seq(1 .. Loads) /\ Len(inputdata') <= 1
      BY <3>3, NoData
    <3>5. SocketTypeOK'
      BY <1>9, <2>2, <3>3, <3>4 DEF UnfreezeReturns
    <3>6. (BufferInv /\ CallbackInv /\ ReaderInv /\ CountInv /\ WantInv)'
      BY <1>9, <2>2, <3>3 DEF UnfreezeReturns
    <3>7. QED
      BY <3>5, <3>6
  <2>3. QED
    BY <2>1, <2>2
<1>10. QED
  BY <1>1, <1>2, <1>3, <1>4, <1>5, <1>6, <1>7, <1>8, <1>9 DEF LoopStep

\* The inductive invariant holds always.
\* Code: struct HandleSocket, over all calls of its functions.
THEOREM SocketInvariantHolds == SocketSpec => []SocketIInv
<1>1. SocketIInv /\ UNCHANGED socketVars => SocketIInv'
  BY DEF socketVars, SocketIInv, SocketTypeOK, BufferInv, CallbackInv, ReaderInv, CountInv, WantInv, Held,
         lifeVars, deferredVars, openVars, handleVars, cbVars, plugVars
<1>2. SocketIInv /\ [SocketNext]_socketVars => SocketIInv'
  BY <1>1, PlugStepPreserves, LoopStepPreserves DEF SocketNext
<1>3. QED
  BY SocketInitEstablishes, <1>2, PTL DEF SocketSpec

\* No more than one load is ever buffered, none of the assertions on the freeze
\* state fails, and nothing comes back to a socket that has been freed.
\* Code: handle_gotdata, handle_socket_unfreeze, sk_handle_set_frozen, sk_handle_close.
THEOREM CallbacksCorrect == SocketSpec => []CallbacksSound
<1>1. SocketIInv => SocketTypeOK
  BY DEF SocketIInv
<1>2. SocketIInv => FreezeAssertionsHold
  BY DEF SocketIInv, BufferInv, FreezeAssertionsHold
<1>3. SocketIInv => NoUseAfterFree
  BY DEF SocketIInv, CallbackInv, NoUseAfterFree
<1>4. QED
  BY SocketInvariantHolds, <1>1, <1>2, <1>3, PTL DEF CallbacksSound

\* A socket that its plug wants thawed reads, or will release its data.
\* Code: handle_socket_unfreeze, sk_handle_set_frozen.
THEOREM NeverStuckCorrect == SocketSpec => []NeverStuck
<1>1. SocketIInv => NeverStuck
  BY DEF SocketIInv, SocketTypeOK, BufferInv, CallbackInv, ReaderInv, WantInv, NeverStuck
<1>2. QED
  BY SocketInvariantHolds, <1>1, PTL

\* The plug gets every load once and in order, and hears of the end after all of them.
\* Code: handle_gotdata, handle_socket_unfreeze.
THEOREM InputInOrderCorrect == SocketSpec => InputInOrder
<1>1. SocketIInv' => EndAfterData'
  BY DEF SocketIInv, CountInv, EndAfterData
<1>2. SocketIInv /\ [SocketNext]_socketVars => [got' # got => got' = got + 1]_socketVars
  <2> SUFFICES ASSUME SocketIInv, SocketNext, got' # got PROVE got' = got + 1
    OBVIOUS
  <2> USE DEF SocketIInv, SocketTypeOK, BufferInv, CountInv, WantInv, Held
  <2>1. CASE GotData
    BY <2>1 DEF GotData
  <2>2. CASE Unfreeze
    BY <2>2 DEF Unfreeze
  <2>3. CASE PlugStep
    BY <2>3 DEF PlugStep, DeferredWrite, DeferredWriteEof, DeferredClose,
         DeferredSetFrozen, Write, WriteEof, Freeze, Thaw, Close
  <2>4. CASE LoopStep /\ ~GotData /\ ~Unfreeze
    BY <2>4 DEF LoopStep, Setup, GotEnd, UnfreezeStale, Connected, ReceiveReturns,
         ClosingReturns, UnfreezeReturns
  <2>5. QED
    BY <2>1, <2>2, <2>3, <2>4 DEF SocketNext
<1>3. SocketIInv /\ SocketIInv' /\ [SocketNext]_socketVars
        => [(got' # got => got' = got + 1) /\ EndAfterData']_socketVars
  BY <1>1, <1>2
<1>4. QED
  BY SocketInvariantHolds, <1>3, PTL DEF SocketSpec, InputInOrder
=============================================================================
