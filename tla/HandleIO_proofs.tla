--------------------------- MODULE HandleIO_proofs ---------------------------
(***************************************************************************)
(* Safety of the hand-over protocol of HandleIO, for any number of handles *)
(* and any MAX_BACKLOG: the inductive invariant IInv and what follows.     *)
(***************************************************************************)
EXTENDS HandleIO, TLAPS

\* The subthread of h holds the handle.
ThreadHolds(h) == tpc[h] \in {"io", "post", "dying"}

\* Who holds the handle: nobody has a struct that does not exist, a running
\* subthread excludes the ready list and the event, and so on.
HolderInv(h) ==
  /\ alloc[h] = "unused" => tpc[h] = "none" /\ ~busy[h] /\ ~moribund[h]
  /\ alloc[h] = "unused" => ~ev[h] /\ ~defunct[h] /\ ~done[h] /\ ~OnList(h, ready)
  /\ alloc[h] = "freed" => tpc[h] = "exit" /\ linked[h] /\ ~OnList(h, ready)
  /\ ThreadHolds(h) => alloc[h] = "live" /\ busy[h] /\ ~ev[h] /\ ~OnList(h, ready)
  /\ OnList(h, ready) => /\ alloc[h] = "live" /\ busy[h] /\ ~ev[h] /\ linked[h]
                         /\ tpc[h] \in {"wait", "exit"}
  /\ ev[h] => busy[h]

\* How a subthread dies, and how main finds out.
DyingInv(h) ==
  /\ done[h] => moribund[h]
  /\ moribund[h] => busy[h]
  /\ tpc[h] \in {"io", "post"} => ~done[h]
  /\ tpc[h] = "dying" => done[h]
  /\ tpc[h] = "wait" /\ OnList(h, ready) => ~done[h] /\ io[h] = "ok"
  /\ defunct[h] => tpc[h] = "exit" /\ linked[h] /\ ~OnList(h, ready)
  /\ ~busy[h] /\ tpc[h] = "exit" => defunct[h]
  /\ tpc[h] = "exit" /\ ~done[h] => io[h] = "end"
  /\ tpc[h] = "post" => io[h] # "none"

\* Progress of the writes: what is being, or has just been, written is queued.
WriteInv(h) ==
  /\ alloc[h] = "unused" => acc[h] = 0 /\ con[h] = 0
  /\ tpc[h] = "io" \/ (tpc[h] = "wait" /\ ev[h] /\ ~done[h]) =>
       obuf[h] = con[h] /\ con[h] + olen[h] <= acc[h]
  /\ io[h] = "ok" /\ (tpc[h] = "post" \/ (tpc[h] = "wait" /\ OnList(h, ready))) =>
       con[h] + lw[h] <= acc[h]

NoDuplicates(list) == \A i, j \in DOMAIN list : list[i] = list[j] => i = j

\* A callback that main goes on from leaves the struct in place.
CallbackInv ==
  /\ mpc \in {"gotdata", "goteof"} => cur \in Inputs
  /\ mpc \in {"sentdata", "senterr"} => cur \in Outputs
  /\ mpc \in {"gotdata", "sentdata"} => alloc[cur] = "live" /\ ~defunct[cur]

IInv ==
  /\ TypeOK
  /\ \A h \in Handles : HolderInv(h) /\ DyingInv(h)
  /\ \A h \in Outputs : WriteInv(h)
  /\ NoDuplicates(ready)
  /\ CallbackInv
-----------------------------------------------------------------------------
(* The ready list *)

\* A node that is appended is on the list, and nothing else changes.
\* Code: add_to_ready_list.
LEMMA OnAppend ==
  ASSUME NEW S, NEW list \in Seq(S), NEW h \in S, NEW x \in S
  PROVE  OnList(x, Append(list, h)) <=> OnList(x, list) \/ x = h
<1>1. Append(list, h) \in Seq(S) /\ Len(Append(list, h)) = Len(list) + 1
  OBVIOUS
<1>2. \A i \in 1 .. Len(list) : Append(list, h)[i] = list[i]
  OBVIOUS
<1>3. Append(list, h)[Len(list) + 1] = h
  OBVIOUS
<1>4. DOMAIN Append(list, h) = DOMAIN list \cup {Len(list) + 1}
  BY <1>1
<1>5. DOMAIN list = 1 .. Len(list)
  OBVIOUS
<1> QED
  BY <1>2, <1>3, <1>4, <1>5, Zenon DEF OnList

\* Appending a node that is not on the list keeps the nodes distinct.
\* Code: add_to_ready_list.
LEMMA DistinctAppend ==
  ASSUME NEW S, NEW list \in Seq(S), NEW h \in S,
         NoDuplicates(list), ~OnList(h, list)
  PROVE  NoDuplicates(Append(list, h))
  BY SMT DEF NoDuplicates, OnList

\* The first node is taken off a list without duplicates: it is on it no more.
\* Code: handle_ready_callback, which unlinks ready_head->next.
LEMMA OnTail ==
  ASSUME NEW S, NEW list \in Seq(S), list # <<>>, NoDuplicates(list), NEW x \in S
  PROVE  /\ OnList(x, Tail(list)) <=> OnList(x, list) /\ x # Head(list)
         /\ NoDuplicates(Tail(list))
         /\ Tail(list) \in Seq(S)
         /\ Head(list) \in S /\ OnList(Head(list), list)
<1>1. Len(list) \in Nat \ {0} /\ DOMAIN list = 1 .. Len(list)
  OBVIOUS
<1>2. /\ Tail(list) \in Seq(S)
      /\ DOMAIN Tail(list) = 1 .. (Len(list) - 1)
      /\ \A i \in 1 .. (Len(list) - 1) : Tail(list)[i] = list[i + 1]
  BY <1>1
<1>3. Head(list) = list[1] /\ list[1] \in S
  BY <1>1
<1>4. OnList(Head(list), list)
  BY <1>1, <1>3 DEF OnList
<1>5. NoDuplicates(Tail(list))
  BY <1>1, <1>2 DEF NoDuplicates
<1>6. ASSUME OnList(x, Tail(list)) PROVE OnList(x, list) /\ x # Head(list)
  BY <1>1, <1>2, <1>3, <1>6 DEF OnList, NoDuplicates
<1>7. ASSUME OnList(x, list), x # Head(list) PROVE OnList(x, Tail(list))
  <2>1. PICK i \in 1 .. Len(list) : list[i] = x
    BY <1>1, <1>7 DEF OnList
  <2>2. i - 1 \in 1 .. (Len(list) - 1) /\ Tail(list)[i - 1] = x
    BY <1>1, <1>2, <1>3, <1>7, <2>1
  <2> QED
    BY <1>2, <2>2 DEF OnList
<1> QED
  BY <1>2, <1>3, <1>4, <1>5, <1>6, <1>7

-----------------------------------------------------------------------------
(* What the pieces of the main thread's handlers change *)

\* Asking for another read touches the busy flag and the event of h only, and
\* never while h is busy or defunct.
\* Code: handle_throttle.
LEMMA ThrottleEffect ==
  ASSUME HandleTypes, NEW h \in Handles, NEW size, HandleThrottle(h, size)
  PROVE  /\ ev' \in [Handles -> BOOLEAN] /\ busy' \in [Handles -> BOOLEAN]
         /\ \A g \in Handles \ {h} : ev'[g] = ev[g] /\ busy'[g] = busy[g]
         /\ \/ ev'[h] = ev[h] /\ busy'[h] = busy[h]
            \/ ~busy[h] /\ ~defunct[h] /\ ev'[h] /\ busy'[h]
<1>1. CASE ~defunct[h] /\ ~busy[h] /\ size < MaxBacklog
  BY <1>1 DEF HandleThrottle, HandleTypes
<1>2. CASE ~(~defunct[h] /\ ~busy[h] /\ size < MaxBacklog)
  BY <1>2 DEF HandleThrottle, HandleTypes
<1> QED
  BY <1>1, <1>2

\* Beginning a write touches h only, never while h is busy, and only for bytes
\* that are queued.
\* Code: handle_try_output.
LEMMA TryOutputEffect ==
  ASSUME HandleTypes, OutputTypes, NEW h \in Outputs,
         NEW from \in Nat, NEW to \in Nat, NEW e \in {"no", "pending", "sent"},
         HandleTryOutput(h, from, to, e)
  PROVE  /\ ev' \in [Handles -> BOOLEAN] /\ busy' \in [Handles -> BOOLEAN]
         /\ obuf' \in [Outputs -> Nat] /\ olen' \in [Outputs -> Nat]
         /\ eof' \in [Outputs -> {"no", "pending", "sent"}]
         /\ \A g \in Handles \ {h} : ev'[g] = ev[g] /\ busy'[g] = busy[g]
         /\ \A g \in Outputs \ {h} : obuf'[g] = obuf[g] /\ olen'[g] = olen[g]
         /\ \/ /\ ev'[h] = ev[h] /\ busy'[h] = busy[h]
               /\ obuf'[h] = obuf[h] /\ olen'[h] = olen[h]
            \/ /\ ~busy[h] /\ ev'[h] /\ busy'[h]
               /\ obuf'[h] = from /\ from + olen'[h] <= to
<1> h \in Handles
  BY DEF Handles
<1>1. CASE busy[h]
  BY <1>1 DEF HandleTryOutput, HandleTypes, OutputTypes
<1>2. CASE ~busy[h] /\ from < to
  <2>1. PICK n \in 1 .. (to - from) : olen' = [olen EXCEPT ![h] = n]
    BY <1>2 DEF HandleTryOutput
  <2>2. n \in Nat /\ from + n <= to
    BY <1>2
  <2>3. /\ obuf' = [obuf EXCEPT ![h] = from]
        /\ ev' = [ev EXCEPT ![h] = TRUE]
        /\ busy' = [busy EXCEPT ![h] = TRUE]
        /\ eof' = [eof EXCEPT ![h] = e]
    BY <1>2 DEF HandleTryOutput
  <2>4. /\ ev' \in [Handles -> BOOLEAN] /\ busy' \in [Handles -> BOOLEAN]
        /\ \A g \in Handles \ {h} : ev'[g] = ev[g] /\ busy'[g] = busy[g]
        /\ ev'[h] /\ busy'[h]
    BY <2>3 DEF HandleTypes
  <2>5. /\ obuf' \in [Outputs -> Nat] /\ olen' \in [Outputs -> Nat]
        /\ \A g \in Outputs \ {h} : obuf'[g] = obuf[g] /\ olen'[g] = olen[g]
        /\ obuf'[h] = from /\ olen'[h] = n
    BY <2>1, <2>2, <2>3 DEF OutputTypes
  <2>6. eof' \in [Outputs -> {"no", "pending", "sent"}]
    BY <2>3 DEF OutputTypes
  <2> QED
    BY <1>2, <2>2, <2>4, <2>5, <2>6
<1>3. CASE ~busy[h] /\ ~(from < to)
  BY <1>3 DEF HandleTryOutput, HandleTypes, OutputTypes
<1> QED
  BY <1>1, <1>2, <1>3

\* Telling a subthread to die touches h only.
\* Code: the last branch of handle_free, and the moribund branch of handle_ready.
LEMMA SignalEffect ==
  ASSUME HandleTypes, NEW h \in Handles, SignalToDie(h)
  PROVE  /\ ev' \in [Handles -> BOOLEAN] /\ busy' \in [Handles -> BOOLEAN]
         /\ done' \in [Handles -> BOOLEAN]
         /\ ev'[h] /\ busy'[h] /\ done'[h]
         /\ \A g \in Handles \ {h} :
              ev'[g] = ev[g] /\ busy'[g] = busy[g] /\ done'[g] = done[g]
  BY DEF SignalToDie, HandleTypes

\* Destroying a handle whose node is not on the list leaves the list alone.
\* Code: handle_destroy.
LEMMA DestroyEffect ==
  ASSUME HandleTypes, OutputTypes, NEW h \in Handles, NEW list,
         ~OnList(h, list), HandleDestroy(h, list)
  PROVE  /\ alloc' = [alloc EXCEPT ![h] = "freed"]
         /\ ready' = list
         /\ con' \in [Outputs -> Nat]
         /\ \A g \in Outputs : con'[g] = IF g = h THEN acc[g] ELSE con[g]
<1>1. CASE h \in Outputs
  BY <1>1 DEF HandleDestroy, Unlinked, HandleTypes, OutputTypes
<1>2. CASE h \notin Outputs
  BY <1>2 DEF HandleDestroy, Unlinked, HandleTypes, OutputTypes
<1> QED
  BY <1>1, <1>2


-----------------------------------------------------------------------------
(* Every step preserves the invariant *)

\* A subthread's ReadFile returned data.
\* Code: handle_input_threadfunc.
LEMMA ReadDataInv ==
  ASSUME IInv, NEW h \in Inputs, ReadData(h)
  PROVE  IInv'
<1> USE HandlesAssumption, BoundsAssumption
    DEF Handles, IInv, TypeOK, handleVars, mainVars, inputVars, outputVars
<1>1. TypeOK'
  BY SMTT(60) DEF ReadData, HandleTypes, MainTypes, InputTypes, OutputTypes,
    ThreadPcs, MainPcs, WriteInv, HolderInv, DyingInv, CallbackInv
<1>2. ASSUME NEW g \in Handles PROVE HolderInv(g)' /\ DyingInv(g)'
  BY SMTT(60) DEF ReadData, HandleTypes, HolderInv, DyingInv, CallbackInv,
    ThreadHolds
<1>3. ASSUME NEW g \in Outputs PROVE WriteInv(g)'
  BY SMTT(60) DEF ReadData, HandleTypes, OutputTypes, HolderInv, DyingInv,
    WriteInv, CallbackInv, ThreadHolds
<1>4. NoDuplicates(ready)' /\ CallbackInv'
  BY SMTT(60) DEF ReadData, HandleTypes, HolderInv, DyingInv, CallbackInv
<1> QED
  BY <1>1, <1>2, <1>3, <1>4

\* A subthread's ReadFile failed or found EOF.
\* Code: handle_input_threadfunc.
LEMMA ReadEndInv ==
  ASSUME IInv, NEW h \in Inputs, NEW b, ReadEnd(h, b)
  PROVE  IInv'
<1> USE HandlesAssumption, BoundsAssumption
    DEF Handles, IInv, TypeOK, handleVars, mainVars, inputVars, outputVars
<1>1. TypeOK'
  BY SMTT(60) DEF ReadEnd, HandleTypes, MainTypes, InputTypes, OutputTypes,
    ThreadPcs, MainPcs, WriteInv, HolderInv, DyingInv, CallbackInv
<1>2. ASSUME NEW g \in Handles PROVE HolderInv(g)' /\ DyingInv(g)'
  BY SMTT(60) DEF ReadEnd, HandleTypes, HolderInv, DyingInv, CallbackInv,
    ThreadHolds
<1>3. ASSUME NEW g \in Outputs PROVE WriteInv(g)'
  BY SMTT(60) DEF ReadEnd, HandleTypes, OutputTypes, HolderInv, DyingInv,
    WriteInv, CallbackInv, ThreadHolds
<1>4. NoDuplicates(ready)' /\ CallbackInv'
  BY SMTT(60) DEF ReadEnd, HandleTypes, HolderInv, DyingInv, CallbackInv
<1> QED
  BY <1>1, <1>2, <1>3, <1>4

\* A subthread's WriteFile wrote something.
\* Code: handle_output_threadfunc.
LEMMA WriteDataInv ==
  ASSUME IInv, NEW h \in Outputs, NEW n, WriteData(h, n)
  PROVE  IInv'
<1> USE HandlesAssumption, BoundsAssumption
    DEF Handles, IInv, TypeOK, handleVars, mainVars, inputVars, outputVars
<1>1. HandleTypes'
  BY DEF WriteData, HandleTypes, ThreadPcs
<1>2. MainTypes'
  BY DEF WriteData, MainTypes, MainPcs
<1>3. InputTypes'
  BY DEF WriteData, InputTypes
<1>4. OutputTypes'
  BY DEF WriteData, OutputTypes
<1>5. ASSUME NEW g \in Outputs PROVE con'[g] <= acc'[g]
  BY DEF WriteData, OutputTypes
<1>6. ASSUME NEW g \in Handles PROVE HolderInv(g)' /\ DyingInv(g)'
  BY SMTT(60) DEF WriteData, HandleTypes, HolderInv, DyingInv, CallbackInv,
    ThreadHolds
<1>7. ASSUME NEW g \in Outputs PROVE WriteInv(g)'
  BY SMTT(60) DEF WriteData, HandleTypes, OutputTypes, HolderInv, DyingInv,
    WriteInv, CallbackInv, ThreadHolds
<1>8. NoDuplicates(ready)' /\ CallbackInv'
  BY SMTT(60) DEF WriteData, HandleTypes, HolderInv, DyingInv, CallbackInv
<1> QED
  BY <1>1, <1>2, <1>3, <1>4, <1>5, <1>6, <1>7, <1>8

\* A subthread's WriteFile failed.
\* Code: handle_output_threadfunc.
LEMMA WriteErrorInv ==
  ASSUME IInv, NEW h \in Outputs, WriteError(h)
  PROVE  IInv'
<1> USE HandlesAssumption, BoundsAssumption
    DEF Handles, IInv, TypeOK, handleVars, mainVars, inputVars, outputVars
<1>1. TypeOK'
  BY SMTT(60) DEF WriteError, HandleTypes, MainTypes, InputTypes,
    OutputTypes, ThreadPcs, MainPcs, WriteInv, HolderInv, DyingInv,
    CallbackInv
<1>2. ASSUME NEW g \in Handles PROVE HolderInv(g)' /\ DyingInv(g)'
  BY SMTT(60) DEF WriteError, HandleTypes, HolderInv, DyingInv, CallbackInv,
    ThreadHolds
<1>3. ASSUME NEW g \in Outputs PROVE WriteInv(g)'
  BY SMTT(60) DEF WriteError, HandleTypes, OutputTypes, HolderInv, DyingInv,
    WriteInv, CallbackInv, ThreadHolds
<1>4. NoDuplicates(ready)' /\ CallbackInv'
  BY SMTT(60) DEF WriteError, HandleTypes, HolderInv, DyingInv, CallbackInv
<1> QED
  BY <1>1, <1>2, <1>3, <1>4

\* A subthread hands its handle over to main.
\* Code: add_to_ready_list.
LEMMA ThreadAddsToReadyListInv ==
  ASSUME IInv, NEW h \in Handles, ThreadAddsToReadyList(h)
  PROVE  IInv'
<1> USE HandlesAssumption, BoundsAssumption
    DEF Handles, IInv, TypeOK, handleVars, mainVars, inputVars, outputVars
<1>0. /\ \A g \in Handles : OnList(g, ready') <=> OnList(g, ready) \/ g = h
      /\ NoDuplicates(ready') /\ ready' \in Seq(Handles)
  BY OnAppend, DistinctAppend DEF ThreadAddsToReadyList, MainTypes, HolderInv, ThreadHolds
<1>1. TypeOK'
  BY <1>0, SMTT(60) DEF ThreadAddsToReadyList, HandleTypes, MainTypes,
    InputTypes, OutputTypes, ThreadPcs, MainPcs, WriteInv, HolderInv,
    DyingInv, CallbackInv
<1>2. ASSUME NEW g \in Handles PROVE HolderInv(g)' /\ DyingInv(g)'
  BY <1>0, SMTT(60) DEF ThreadAddsToReadyList, HandleTypes, HolderInv,
    DyingInv, CallbackInv, ThreadHolds
<1>3. ASSUME NEW g \in Outputs PROVE WriteInv(g)'
  BY <1>0, SMTT(60) DEF ThreadAddsToReadyList, HandleTypes, OutputTypes,
    HolderInv, DyingInv, WriteInv, CallbackInv, ThreadHolds
<1>4. NoDuplicates(ready)' /\ CallbackInv'
  BY <1>0, SMTT(60) DEF ThreadAddsToReadyList, HandleTypes, HolderInv,
    DyingInv, CallbackInv
<1> QED
  BY <1>1, <1>2, <1>3, <1>4

\* Main hands a handle over to its subthread.
\* Code: WaitForSingleObject in both thread functions.
LEMMA ThreadWakesInv ==
  ASSUME IInv, NEW h \in Handles, ThreadWakes(h)
  PROVE  IInv'
<1> USE HandlesAssumption, BoundsAssumption
    DEF Handles, IInv, TypeOK, handleVars, mainVars, inputVars, outputVars
<1>1. TypeOK'
  BY SMTT(60) DEF ThreadWakes, HandleTypes, MainTypes, InputTypes,
    OutputTypes, ThreadPcs, MainPcs, WriteInv, HolderInv, DyingInv,
    CallbackInv
<1>2. ASSUME NEW g \in Handles PROVE HolderInv(g)' /\ DyingInv(g)'
  BY SMTT(60) DEF ThreadWakes, HandleTypes, HolderInv, DyingInv, CallbackInv,
    ThreadHolds
<1>3. ASSUME NEW g \in Outputs PROVE WriteInv(g)'
  BY SMTT(60) DEF ThreadWakes, HandleTypes, OutputTypes, HolderInv, DyingInv,
    WriteInv, CallbackInv, ThreadHolds
<1>4. NoDuplicates(ready)' /\ CallbackInv'
  BY SMTT(60) DEF ThreadWakes, HandleTypes, HolderInv, DyingInv, CallbackInv
<1> QED
  BY <1>1, <1>2, <1>3, <1>4

\* A new input, read from at once.
\* Code: handle_input_new.
LEMMA HandleInputNewInv ==
  ASSUME IInv, NEW h \in Inputs, NEW ok \in BOOLEAN, HandleInputNew(h, ok)
  PROVE  IInv'
<1> USE HandlesAssumption, BoundsAssumption
    DEF Handles, IInv, TypeOK, handleVars, mainVars, inputVars, outputVars
<1>1. TypeOK'
  BY SMTT(60) DEF HandleInputNew, CanBeMade, HandleTypes, MainTypes, InputTypes,
    OutputTypes, ThreadPcs, MainPcs, WriteInv, HolderInv, DyingInv,
    CallbackInv
<1>2. ASSUME NEW g \in Handles PROVE HolderInv(g)' /\ DyingInv(g)'
  BY SMTT(60) DEF HandleInputNew, CanBeMade, HandleTypes, HolderInv, DyingInv,
    CallbackInv, ThreadHolds
<1>3. ASSUME NEW g \in Outputs PROVE WriteInv(g)'
  BY SMTT(60) DEF HandleInputNew, CanBeMade, HandleTypes, OutputTypes, HolderInv,
    DyingInv, WriteInv, CallbackInv, ThreadHolds
<1>4. NoDuplicates(ready)' /\ CallbackInv'
  BY SMTT(60) DEF HandleInputNew, CanBeMade, HandleTypes, HolderInv, DyingInv,
    CallbackInv
<1> QED
  BY <1>1, <1>2, <1>3, <1>4

\* A new output, whose subthread waits.
\* Code: handle_output_new.
LEMMA HandleOutputNewInv ==
  ASSUME IInv, NEW h \in Outputs, NEW ok \in BOOLEAN, HandleOutputNew(h, ok)
  PROVE  IInv'
<1> USE HandlesAssumption, BoundsAssumption
    DEF Handles, IInv, TypeOK, handleVars, mainVars, inputVars, outputVars
<1>1. TypeOK'
  BY SMTT(60) DEF HandleOutputNew, CanBeMade, HandleTypes, MainTypes, InputTypes,
    OutputTypes, ThreadPcs, MainPcs, WriteInv, HolderInv, DyingInv,
    CallbackInv
<1>2. ASSUME NEW g \in Handles PROVE HolderInv(g)' /\ DyingInv(g)'
  BY SMTT(60) DEF HandleOutputNew, CanBeMade, HandleTypes, HolderInv, DyingInv,
    CallbackInv, ThreadHolds
<1>3. ASSUME NEW g \in Outputs PROVE WriteInv(g)'
  BY SMTT(60) DEF HandleOutputNew, CanBeMade, HandleTypes, OutputTypes, HolderInv,
    DyingInv, WriteInv, CallbackInv, ThreadHolds
<1>4. NoDuplicates(ready)' /\ CallbackInv'
  BY SMTT(60) DEF HandleOutputNew, CanBeMade, HandleTypes, HolderInv, DyingInv,
    CallbackInv
<1> QED
  BY <1>1, <1>2, <1>3, <1>4

\* More data is queued, and perhaps written.
\* Code: handle_write.
LEMMA HandleWriteInv ==
  ASSUME IInv, NEW h \in Outputs, NEW n \in 1 .. WriteBound, HandleWrite(h, n)
  PROVE  IInv'
<1> USE HandlesAssumption, BoundsAssumption
    DEF Handles, IInv, TypeOK, handleVars, mainVars, inputVars, outputVars
<1>n. n \in Nat /\ acc[h] + n \in Nat /\ con[h] \in Nat
  BY DEF OutputTypes
<1>0. /\ ev' \in [Handles -> BOOLEAN] /\ busy' \in [Handles -> BOOLEAN]
      /\ obuf' \in [Outputs -> Nat] /\ olen' \in [Outputs -> Nat]
      /\ eof' \in [Outputs -> {"no", "pending", "sent"}]
      /\ \A g \in Handles \ {h} : ev'[g] = ev[g] /\ busy'[g] = busy[g]
      /\ \A g \in Outputs \ {h} : obuf'[g] = obuf[g] /\ olen'[g] = olen[g]
      /\ \/ /\ ev'[h] = ev[h] /\ busy'[h] = busy[h]
            /\ obuf'[h] = obuf[h] /\ olen'[h] = olen[h]
         \/ /\ ~busy[h] /\ ev'[h] /\ busy'[h]
            /\ obuf'[h] = con[h] /\ con[h] + olen'[h] <= acc[h] + n
  BY <1>n, TryOutputEffect DEF HandleWrite
<1>1. HandleTypes'
  BY <1>0, <1>n DEF HandleWrite, Usable, HandleTypes, ThreadPcs
<1>2. MainTypes'
  BY <1>0, <1>n DEF HandleWrite, Usable, MainTypes, MainPcs
<1>3. InputTypes'
  BY <1>0, <1>n DEF HandleWrite, Usable, InputTypes
<1>4. OutputTypes'
  BY <1>0, <1>n DEF HandleWrite, Usable, OutputTypes
<1>5. ASSUME NEW g \in Outputs PROVE con'[g] <= acc'[g]
  BY <1>0, <1>n DEF HandleWrite, Usable, OutputTypes
<1>6. ASSUME NEW g \in Handles PROVE HolderInv(g)' /\ DyingInv(g)'
  BY <1>0, <1>n, SMTT(60) DEF HandleWrite, Usable, HandleTypes, HolderInv,
    DyingInv, CallbackInv, ThreadHolds
<1>7. ASSUME NEW g \in Outputs PROVE WriteInv(g)'
  BY <1>0, <1>n, SMTT(60) DEF HandleWrite, Usable, HandleTypes, OutputTypes,
    HolderInv, DyingInv, WriteInv, CallbackInv, ThreadHolds
<1>8. NoDuplicates(ready)' /\ CallbackInv'
  BY <1>0, <1>n, SMTT(60) DEF HandleWrite, Usable, HandleTypes, HolderInv,
    DyingInv, CallbackInv
<1> QED
  BY <1>1, <1>2, <1>3, <1>4, <1>5, <1>6, <1>7, <1>8

\* EOF is queued behind the data.
\* Code: handle_write_eof.
LEMMA HandleWriteEofInv ==
  ASSUME IInv, NEW h \in Outputs, HandleWriteEof(h)
  PROVE  IInv'
<1> USE HandlesAssumption, BoundsAssumption
    DEF Handles, IInv, TypeOK, handleVars, mainVars, inputVars, outputVars
<1>0. /\ ev' \in [Handles -> BOOLEAN] /\ busy' \in [Handles -> BOOLEAN]
      /\ obuf' \in [Outputs -> Nat] /\ olen' \in [Outputs -> Nat]
      /\ eof' \in [Outputs -> {"no", "pending", "sent"}]
      /\ \A g \in Handles \ {h} : ev'[g] = ev[g] /\ busy'[g] = busy[g]
      /\ \A g \in Outputs \ {h} : obuf'[g] = obuf[g] /\ olen'[g] = olen[g]
      /\ \/ /\ ev'[h] = ev[h] /\ busy'[h] = busy[h]
            /\ obuf'[h] = obuf[h] /\ olen'[h] = olen[h]
         \/ /\ ~busy[h] /\ ev'[h] /\ busy'[h]
            /\ obuf'[h] = con[h] /\ con[h] + olen'[h] <= acc[h]
  <2> acc[h] \in Nat /\ con[h] \in Nat
    BY DEF OutputTypes
  <2> QED
    BY TryOutputEffect DEF HandleWriteEof
<1>1. TypeOK'
  BY <1>0, SMTT(60) DEF HandleWriteEof, Usable, HandleTypes, MainTypes,
    InputTypes, OutputTypes, ThreadPcs, MainPcs, WriteInv, HolderInv,
    DyingInv, CallbackInv
<1>2. ASSUME NEW g \in Handles PROVE HolderInv(g)' /\ DyingInv(g)'
  BY <1>0, SMTT(60) DEF HandleWriteEof, Usable, HandleTypes, HolderInv,
    DyingInv, CallbackInv, ThreadHolds
<1>3. ASSUME NEW g \in Outputs PROVE WriteInv(g)'
  BY <1>0, SMTT(60) DEF HandleWriteEof, Usable, HandleTypes, OutputTypes,
    HolderInv, DyingInv, WriteInv, CallbackInv, ThreadHolds
<1>4. NoDuplicates(ready)' /\ CallbackInv'
  BY <1>0, SMTT(60) DEF HandleWriteEof, Usable, HandleTypes, HolderInv,
    DyingInv, CallbackInv
<1> QED
  BY <1>1, <1>2, <1>3, <1>4

\* The client has worked off some of its backlog.
\* Code: handle_unthrottle.
LEMMA HandleUnthrottleInv ==
  ASSUME IInv, NEW h \in Inputs, NEW size \in 0 .. backlog[h], HandleUnthrottle(h, size)
  PROVE  IInv'
<1> USE HandlesAssumption, BoundsAssumption
    DEF Handles, IInv, TypeOK, handleVars, mainVars, inputVars, outputVars
<1>0. /\ ev' \in [Handles -> BOOLEAN] /\ busy' \in [Handles -> BOOLEAN]
      /\ \A g \in Handles \ {h} : ev'[g] = ev[g] /\ busy'[g] = busy[g]
      /\ \/ ev'[h] = ev[h] /\ busy'[h] = busy[h]
         \/ ~busy[h] /\ ~defunct[h] /\ ev'[h] /\ busy'[h]
  BY ThrottleEffect DEF HandleUnthrottle
<1>1. HandleTypes'
  BY <1>0 DEF HandleUnthrottle, Usable, HandleTypes, ThreadPcs
<1>2. MainTypes'
  BY <1>0 DEF HandleUnthrottle, Usable, MainTypes, MainPcs
<1>3. InputTypes'
  BY <1>0 DEF HandleUnthrottle, Usable, InputTypes
<1>4. OutputTypes'
  BY <1>0 DEF HandleUnthrottle, Usable, OutputTypes
<1>5. ASSUME NEW g \in Outputs PROVE con'[g] <= acc'[g]
  BY <1>0 DEF HandleUnthrottle, Usable, OutputTypes
<1>6. ASSUME NEW g \in Handles PROVE HolderInv(g)' /\ DyingInv(g)'
  BY <1>0, SMTT(60) DEF HandleUnthrottle, Usable, HandleTypes, HolderInv,
    DyingInv, CallbackInv, ThreadHolds
<1>7. ASSUME NEW g \in Outputs PROVE WriteInv(g)'
  BY <1>0, SMTT(60) DEF HandleUnthrottle, Usable, HandleTypes, OutputTypes,
    HolderInv, DyingInv, WriteInv, CallbackInv, ThreadHolds
<1>8. NoDuplicates(ready)' /\ CallbackInv'
  BY <1>0, SMTT(60) DEF HandleUnthrottle, Usable, HandleTypes, HolderInv,
    DyingInv, CallbackInv
<1> QED
  BY <1>1, <1>2, <1>3, <1>4, <1>5, <1>6, <1>7, <1>8

\* The client frees a handle, whoever holds it.
\* Code: handle_free.
LEMMA HandleFreeInv ==
  ASSUME IInv, NEW h \in Handles, HandleFree(h)
  PROVE  IInv'
<1> USE HandlesAssumption, BoundsAssumption
    DEF Handles, IInv, TypeOK, handleVars, mainVars, inputVars, outputVars
<1> ~OnList(h, ready) \/ busy[h]
  BY DEF HandleFree, HolderInv
<1>1. CASE busy[h]
  <2>1. HandleTypes'
    BY <1>1 DEF HandleFree, Usable, HandleTypes, ThreadPcs
  <2>2. MainTypes'
    BY <1>1 DEF HandleFree, Usable, MainTypes, MainPcs
  <2>3. InputTypes'
    BY <1>1 DEF HandleFree, Usable, InputTypes
  <2>4. OutputTypes'
    BY <1>1 DEF HandleFree, Usable, OutputTypes
  <2>5. ASSUME NEW g \in Outputs PROVE con'[g] <= acc'[g]
    BY <1>1 DEF HandleFree, Usable, OutputTypes
  <2>6. ASSUME NEW g \in Handles PROVE HolderInv(g)' /\ DyingInv(g)'
    BY <1>1, SMTT(60) DEF HandleFree, Usable, HandleTypes, HolderInv,
      DyingInv, CallbackInv, ThreadHolds
  <2>7. ASSUME NEW g \in Outputs PROVE WriteInv(g)'
    BY <1>1, SMTT(60) DEF HandleFree, Usable, HandleTypes, OutputTypes,
      HolderInv, DyingInv, WriteInv, CallbackInv, ThreadHolds
  <2>8. NoDuplicates(ready)' /\ CallbackInv'
    BY <1>1, SMTT(60) DEF HandleFree, Usable, HandleTypes, HolderInv,
      DyingInv, CallbackInv
  <2> QED
    BY <2>1, <2>2, <2>3, <2>4, <2>5, <2>6, <2>7, <2>8
<1>2. CASE ~busy[h] /\ defunct[h]
  <2> HandleDestroy(h, ready)
    BY <1>2 DEF HandleFree
  <2>0. /\ alloc' = [alloc EXCEPT ![h] = "freed"]
        /\ ready' = ready
        /\ con' \in [Outputs -> Nat]
        /\ \A g \in Outputs : con'[g] = IF g = h THEN acc[g] ELSE con[g]
    BY <1>2, DestroyEffect
  <2>1. HandleTypes'
    BY <1>2, <2>0 DEF HandleFree, Usable, HandleTypes, ThreadPcs
  <2>2. MainTypes'
    BY <1>2, <2>0 DEF HandleFree, Usable, MainTypes, MainPcs
  <2>3. InputTypes'
    BY <1>2, <2>0 DEF HandleFree, Usable, InputTypes
  <2>4. OutputTypes'
    BY <1>2, <2>0 DEF HandleFree, Usable, OutputTypes
  <2>5. ASSUME NEW g \in Outputs PROVE con'[g] <= acc'[g]
    BY <1>2, <2>0 DEF HandleFree, Usable, OutputTypes
  <2>6. ASSUME NEW g \in Handles PROVE HolderInv(g)' /\ DyingInv(g)'
    BY <1>2, <2>0, SMTT(60) DEF HandleFree, Usable, HandleTypes, HolderInv,
      DyingInv, CallbackInv, ThreadHolds
  <2>7. ASSUME NEW g \in Outputs PROVE WriteInv(g)'
    BY <1>2, <2>0, SMTT(60) DEF HandleFree, Usable, HandleTypes, OutputTypes,
      HolderInv, DyingInv, WriteInv, CallbackInv, ThreadHolds
  <2>8. NoDuplicates(ready)' /\ CallbackInv'
    BY <1>2, <2>0, SMTT(60) DEF HandleFree, Usable, HandleTypes, HolderInv,
      DyingInv, CallbackInv
  <2> QED
    BY <2>1, <2>2, <2>3, <2>4, <2>5, <2>6, <2>7, <2>8
<1>3. CASE ~busy[h] /\ ~defunct[h]
  <2> SignalToDie(h)
    BY <1>3 DEF HandleFree
  <2>0. /\ ev' \in [Handles -> BOOLEAN] /\ busy' \in [Handles -> BOOLEAN]
        /\ done' \in [Handles -> BOOLEAN]
        /\ ev'[h] /\ busy'[h] /\ done'[h]
        /\ \A g \in Handles \ {h} :
              ev'[g] = ev[g] /\ busy'[g] = busy[g] /\ done'[g] = done[g]
    BY SignalEffect
  <2>1. HandleTypes'
    BY <1>3, <2>0 DEF HandleFree, Usable, HandleTypes, ThreadPcs
  <2>2. MainTypes'
    BY <1>3, <2>0 DEF HandleFree, Usable, MainTypes, MainPcs
  <2>3. InputTypes'
    BY <1>3, <2>0 DEF HandleFree, Usable, InputTypes
  <2>4. OutputTypes'
    BY <1>3, <2>0 DEF HandleFree, Usable, OutputTypes
  <2>5. ASSUME NEW g \in Outputs PROVE con'[g] <= acc'[g]
    BY <1>3, <2>0 DEF HandleFree, Usable, OutputTypes
  <2>6. ASSUME NEW g \in Handles PROVE HolderInv(g)' /\ DyingInv(g)'
    BY <1>3, <2>0, SMTT(60) DEF HandleFree, Usable, HandleTypes, HolderInv,
      DyingInv, CallbackInv, ThreadHolds
  <2>7. ASSUME NEW g \in Outputs PROVE WriteInv(g)'
    BY <1>3, <2>0, SMTT(60) DEF HandleFree, Usable, HandleTypes, OutputTypes,
      HolderInv, DyingInv, WriteInv, CallbackInv, ThreadHolds
  <2>8. NoDuplicates(ready)' /\ CallbackInv'
    BY <1>3, <2>0, SMTT(60) DEF HandleFree, Usable, HandleTypes, HolderInv,
      DyingInv, CallbackInv
  <2> QED
    BY <2>1, <2>2, <2>3, <2>4, <2>5, <2>6, <2>7, <2>8
<1> QED
  BY <1>1, <1>2, <1>3

\* The event loop finds ready_event set.
\* Code: handle_ready_callback.
LEMMA MainWakesInv ==
  ASSUME IInv, MainWakes
  PROVE  IInv'
<1> USE HandlesAssumption, BoundsAssumption
    DEF Handles, IInv, TypeOK, handleVars, mainVars, inputVars, outputVars
<1>1. HandleTypes'
  BY DEF MainWakes, HandleTypes, ThreadPcs
<1>2. MainTypes'
  BY DEF MainWakes, MainTypes, MainPcs
<1>3. InputTypes'
  BY DEF MainWakes, InputTypes
<1>4. OutputTypes'
  BY DEF MainWakes, OutputTypes
<1>5. ASSUME NEW g \in Outputs PROVE con'[g] <= acc'[g]
  BY DEF MainWakes, OutputTypes
<1>6. ASSUME NEW g \in Handles PROVE HolderInv(g)' /\ DyingInv(g)'
  BY SMTT(60) DEF MainWakes, HandleTypes, HolderInv, DyingInv, CallbackInv,
    ThreadHolds
<1>7. ASSUME NEW g \in Outputs PROVE WriteInv(g)'
  BY SMTT(60) DEF MainWakes, HandleTypes, OutputTypes, HolderInv, DyingInv,
    WriteInv, CallbackInv, ThreadHolds
<1>8. NoDuplicates(ready)' /\ CallbackInv'
  BY SMTT(60) DEF MainWakes, HandleTypes, HolderInv, DyingInv, CallbackInv
<1> QED
  BY <1>1, <1>2, <1>3, <1>4, <1>5, <1>6, <1>7, <1>8

\* The ready list is empty.
\* Code: handle_ready_callback.
LEMMA MainLoopEndsInv ==
  ASSUME IInv, MainLoopEnds
  PROVE  IInv'
<1> USE HandlesAssumption, BoundsAssumption
    DEF Handles, IInv, TypeOK, handleVars, mainVars, inputVars, outputVars
<1>1. TypeOK'
  BY SMTT(60) DEF MainLoopEnds, HandleTypes, MainTypes, InputTypes,
    OutputTypes, ThreadPcs, MainPcs, WriteInv, HolderInv, DyingInv,
    CallbackInv
<1>2. ASSUME NEW g \in Handles PROVE HolderInv(g)' /\ DyingInv(g)'
  BY SMTT(60) DEF MainLoopEnds, HandleTypes, HolderInv, DyingInv,
    CallbackInv, ThreadHolds
<1>3. ASSUME NEW g \in Outputs PROVE WriteInv(g)'
  BY SMTT(60) DEF MainLoopEnds, HandleTypes, OutputTypes, HolderInv,
    DyingInv, WriteInv, CallbackInv, ThreadHolds
<1>4. NoDuplicates(ready)' /\ CallbackInv'
  BY SMTT(60) DEF MainLoopEnds, HandleTypes, HolderInv, DyingInv, CallbackInv
<1> QED
  BY <1>1, <1>2, <1>3, <1>4

\* A freed handle comes off the ready list.
\* Code: the first branch of handle_ready.
LEMMA ReadyMoribundInv ==
  ASSUME IInv, NEW h \in Handles, ReadyMoribund(h)
  PROVE  IInv'
<1> USE HandlesAssumption, BoundsAssumption
    DEF Handles, IInv, TypeOK, handleVars, mainVars, inputVars, outputVars
<1>0. /\ \A g \in Handles : OnList(g, Tail(ready)) <=> OnList(g, ready) /\ g # h
      /\ NoDuplicates(Tail(ready)) /\ Tail(ready) \in Seq(Handles)
      /\ OnList(h, ready)
  BY OnTail DEF ReadyMoribund, MainTypes
<1>1. CASE done[h]
  <2> HandleDestroy(h, Tail(ready))
    BY <1>1 DEF ReadyMoribund
  <2>0. /\ alloc' = [alloc EXCEPT ![h] = "freed"]
        /\ ready' = Tail(ready)
        /\ con' \in [Outputs -> Nat]
        /\ \A g \in Outputs : con'[g] = IF g = h THEN acc[g] ELSE con[g]
        /\ acc' = acc
    BY <1>0, DestroyEffect DEF ReadyMoribund
  <2>1. HandleTypes'
    BY <1>0, <1>1, <2>0 DEF ReadyMoribund, HandleTypes, ThreadPcs
  <2>2. MainTypes'
    BY <1>0, <1>1, <2>0 DEF ReadyMoribund, MainTypes, MainPcs
  <2>3. InputTypes'
    BY <1>0, <1>1, <2>0 DEF ReadyMoribund, InputTypes
  <2>4. OutputTypes'
    BY <1>0, <1>1, <2>0 DEF ReadyMoribund, OutputTypes
  <2>5. ASSUME NEW g \in Outputs PROVE con'[g] <= acc'[g]
    <3>1. con[g] \in Nat /\ acc[g] \in Nat /\ con[g] <= acc[g]
      BY DEF OutputTypes
    <3>2. acc'[g] = acc[g] /\ (con'[g] = acc[g] \/ con'[g] = con[g])
      BY <2>0
    <3> QED
      BY <3>1, <3>2
  <2>6. ASSUME NEW g \in Handles PROVE HolderInv(g)' /\ DyingInv(g)'
    BY <1>0, <1>1, <2>0, SMTT(60) DEF ReadyMoribund, HandleTypes, HolderInv,
      DyingInv, CallbackInv, ThreadHolds
  <2>7. ASSUME NEW g \in Outputs PROVE WriteInv(g)'
    BY <1>0, <1>1, <2>0, SMTT(60) DEF ReadyMoribund, HandleTypes,
      OutputTypes, HolderInv, DyingInv, WriteInv, CallbackInv, ThreadHolds
  <2>8. NoDuplicates(ready)' /\ CallbackInv'
    BY <1>0, <1>1, <2>0, SMTT(60) DEF ReadyMoribund, HandleTypes, HolderInv,
      DyingInv, CallbackInv
  <2> QED
    BY <2>1, <2>2, <2>3, <2>4, <2>5, <2>6, <2>7, <2>8
<1>2. CASE ~done[h]
  <2> SignalToDie(h) /\ ready' = Tail(ready)
    BY <1>2 DEF ReadyMoribund
  <2>0. /\ ready' = Tail(ready)
        /\ ev' \in [Handles -> BOOLEAN] /\ busy' \in [Handles -> BOOLEAN]
        /\ done' \in [Handles -> BOOLEAN]
        /\ ev'[h] /\ busy'[h] /\ done'[h]
        /\ \A g \in Handles \ {h} :
              ev'[g] = ev[g] /\ busy'[g] = busy[g] /\ done'[g] = done[g]
    BY SignalEffect
  <2>1. HandleTypes'
    BY <1>0, <1>2, <2>0 DEF ReadyMoribund, HandleTypes, ThreadPcs
  <2>2. MainTypes'
    BY <1>0, <1>2, <2>0 DEF ReadyMoribund, MainTypes, MainPcs
  <2>3. InputTypes'
    BY <1>0, <1>2, <2>0 DEF ReadyMoribund, InputTypes
  <2>4. OutputTypes'
    BY <1>0, <1>2, <2>0 DEF ReadyMoribund, OutputTypes
  <2>5. ASSUME NEW g \in Outputs PROVE con'[g] <= acc'[g]
    BY <1>0, <1>2, <2>0 DEF ReadyMoribund, OutputTypes
  <2>6. ASSUME NEW g \in Handles PROVE HolderInv(g)' /\ DyingInv(g)'
    BY <1>0, <1>2, <2>0, SMTT(60) DEF ReadyMoribund, HandleTypes, HolderInv,
      DyingInv, CallbackInv, ThreadHolds
  <2>7. ASSUME NEW g \in Outputs PROVE WriteInv(g)'
    BY <1>0, <1>2, <2>0, SMTT(60) DEF ReadyMoribund, HandleTypes,
      OutputTypes, HolderInv, DyingInv, WriteInv, CallbackInv, ThreadHolds
  <2>8. NoDuplicates(ready)' /\ CallbackInv'
    BY <1>0, <1>2, <2>0, SMTT(60) DEF ReadyMoribund, HandleTypes, HolderInv,
      DyingInv, CallbackInv
  <2> QED
    BY <2>1, <2>2, <2>3, <2>4, <2>5, <2>6, <2>7, <2>8
<1> QED
  BY <1>1, <1>2

\* An input comes off the ready list.
\* Code: handle_ready.
LEMMA ReadyInputInv ==
  ASSUME IInv, NEW h \in Inputs, ReadyInput(h)
  PROVE  IInv'
<1> USE HandlesAssumption, BoundsAssumption
    DEF Handles, IInv, TypeOK, handleVars, mainVars, inputVars, outputVars
<1>0. /\ \A g \in Handles : OnList(g, Tail(ready)) <=> OnList(g, ready) /\ g # h
      /\ NoDuplicates(Tail(ready)) /\ Tail(ready) \in Seq(Handles)
      /\ OnList(h, ready)
  BY OnTail DEF ReadyInput, MainTypes
<1>c. buf[h] \in Nat /\ backlog[h] + 1 \in Nat
  BY DEF InputTypes
<1>1. HandleTypes'
  BY <1>0, <1>c DEF ReadyInput, HandleTypes, ThreadPcs
<1>2. MainTypes'
  BY <1>0, <1>c DEF ReadyInput, MainTypes, MainPcs
<1>3. InputTypes'
  BY <1>0, <1>c DEF ReadyInput, InputTypes
<1>4. OutputTypes'
  BY <1>0, <1>c DEF ReadyInput, OutputTypes
<1>5. ASSUME NEW g \in Outputs PROVE con'[g] <= acc'[g]
  BY <1>0, <1>c DEF ReadyInput, OutputTypes
<1>6. ASSUME NEW g \in Handles PROVE HolderInv(g)' /\ DyingInv(g)'
  BY <1>0, <1>c, SMTT(60) DEF ReadyInput, HandleTypes, HolderInv, DyingInv,
    CallbackInv, ThreadHolds
<1>7. ASSUME NEW g \in Outputs PROVE WriteInv(g)'
  BY <1>0, <1>c, SMTT(60) DEF ReadyInput, HandleTypes, OutputTypes,
    HolderInv, DyingInv, WriteInv, CallbackInv, ThreadHolds
<1>8. NoDuplicates(ready)' /\ CallbackInv'
  BY <1>0, <1>c, SMTT(60) DEF ReadyInput, HandleTypes, HolderInv, DyingInv,
    CallbackInv
<1> QED
  BY <1>1, <1>2, <1>3, <1>4, <1>5, <1>6, <1>7, <1>8

\* gotdata has returned the backlog.
\* Code: handle_ready.
LEMMA GotdataReturnsInv ==
  ASSUME IInv, GotdataReturns
  PROVE  IInv'
<1> USE HandlesAssumption, BoundsAssumption
    DEF Handles, IInv, TypeOK, handleVars, mainVars, inputVars, outputVars
<1>c. cur \in Handles /\ cur \in Inputs
  BY DEF GotdataReturns, CallbackInv
<1>0. /\ ev' \in [Handles -> BOOLEAN] /\ busy' \in [Handles -> BOOLEAN]
      /\ \A g \in Handles \ {cur} : ev'[g] = ev[g] /\ busy'[g] = busy[g]
      /\ \/ ev'[cur] = ev[cur] /\ busy'[cur] = busy[cur]
         \/ ~busy[cur] /\ ~defunct[cur] /\ ev'[cur] /\ busy'[cur]
      /\ backlog' \in [Inputs -> Nat]
  <2>1. PICK size \in 0 .. backlog[cur] : backlog' = [backlog EXCEPT ![cur] = size] /\ HandleThrottle(cur, size)
    BY DEF GotdataReturns
  <2>2. size \in Nat
    BY <1>c, <2>1 DEF InputTypes
  <2> QED
    BY <1>c, <2>1, <2>2, ThrottleEffect DEF InputTypes
<1>1. TypeOK'
  BY <1>0, <1>c, SMTT(60) DEF GotdataReturns, HandleTypes, MainTypes,
    InputTypes, OutputTypes, ThreadPcs, MainPcs, WriteInv, HolderInv,
    DyingInv, CallbackInv
<1>2. ASSUME NEW g \in Handles PROVE HolderInv(g)' /\ DyingInv(g)'
  BY <1>0, <1>c, SMTT(60) DEF GotdataReturns, HandleTypes, HolderInv,
    DyingInv, CallbackInv, ThreadHolds
<1>3. ASSUME NEW g \in Outputs PROVE WriteInv(g)'
  BY <1>0, <1>c, SMTT(60) DEF GotdataReturns, HandleTypes, OutputTypes,
    HolderInv, DyingInv, WriteInv, CallbackInv, ThreadHolds
<1>4. NoDuplicates(ready)' /\ CallbackInv'
  BY <1>0, <1>c, SMTT(60) DEF GotdataReturns, HandleTypes, HolderInv,
    DyingInv, CallbackInv
<1> QED
  BY <1>1, <1>2, <1>3, <1>4

\* An output comes off the ready list.
\* Code: handle_ready.
LEMMA ReadyOutputInv ==
  ASSUME IInv, NEW h \in Outputs, ReadyOutput(h)
  PROVE  IInv'
<1> USE HandlesAssumption, BoundsAssumption
    DEF Handles, IInv, TypeOK, handleVars, mainVars, inputVars, outputVars
<1>0. /\ \A g \in Handles : OnList(g, Tail(ready)) <=> OnList(g, ready) /\ g # h
      /\ NoDuplicates(Tail(ready)) /\ Tail(ready) \in Seq(Handles)
      /\ OnList(h, ready)
  BY OnTail DEF ReadyOutput, MainTypes
<1>c. io[h] # "end" => con[h] + lw[h] <= acc[h]
  BY <1>0 DEF ReadyOutput, HandleTypes, HolderInv, DyingInv, WriteInv
<1>n. con[h] + lw[h] \in Nat
  BY DEF OutputTypes
<1>1. HandleTypes'
  BY <1>0, <1>c, <1>n DEF ReadyOutput, HandleTypes, ThreadPcs
<1>2. MainTypes'
  BY <1>0, <1>c, <1>n DEF ReadyOutput, MainTypes, MainPcs
<1>3. InputTypes'
  BY <1>0, <1>c, <1>n DEF ReadyOutput, InputTypes
<1>4. OutputTypes'
  BY <1>0, <1>c, <1>n, ZenonT(40) DEF ReadyOutput, OutputTypes
<1>5. ASSUME NEW g \in Outputs PROVE con'[g] <= acc'[g]
  BY <1>0, <1>c, <1>n, ZenonT(40) DEF ReadyOutput, OutputTypes
<1>6. ASSUME NEW g \in Handles PROVE HolderInv(g)' /\ DyingInv(g)'
  BY <1>0, <1>c, <1>n, SMTT(60) DEF ReadyOutput, HandleTypes, HolderInv,
    DyingInv, CallbackInv, ThreadHolds
<1>7. ASSUME NEW g \in Outputs PROVE WriteInv(g)'
  BY <1>0, <1>c, <1>n, SMTT(60) DEF ReadyOutput, HandleTypes, OutputTypes,
    HolderInv, DyingInv, WriteInv, CallbackInv, ThreadHolds
<1>8. NoDuplicates(ready)' /\ CallbackInv'
  BY <1>0, <1>c, <1>n, SMTT(60) DEF ReadyOutput, HandleTypes, HolderInv,
    DyingInv, CallbackInv
<1> QED
  BY <1>1, <1>2, <1>3, <1>4, <1>5, <1>6, <1>7, <1>8

\* sentdata has returned.
\* Code: handle_ready.
LEMMA SentdataReturnsInv ==
  ASSUME IInv, SentdataReturns
  PROVE  IInv'
<1> USE HandlesAssumption, BoundsAssumption
    DEF Handles, IInv, TypeOK, handleVars, mainVars, inputVars, outputVars
<1>c. cur \in Handles /\ cur \in Outputs /\ acc[cur] \in Nat /\ con[cur] \in Nat /\ eof[cur] \in {"no", "pending", "sent"}
  BY DEF SentdataReturns, CallbackInv, OutputTypes
<1>0. /\ ev' \in [Handles -> BOOLEAN] /\ busy' \in [Handles -> BOOLEAN]
      /\ obuf' \in [Outputs -> Nat] /\ olen' \in [Outputs -> Nat]
      /\ eof' \in [Outputs -> {"no", "pending", "sent"}]
      /\ \A g \in Handles \ {cur} : ev'[g] = ev[g] /\ busy'[g] = busy[g]
      /\ \A g \in Outputs \ {cur} : obuf'[g] = obuf[g] /\ olen'[g] = olen[g]
      /\ \/ /\ ev'[cur] = ev[cur] /\ busy'[cur] = busy[cur]
            /\ obuf'[cur] = obuf[cur] /\ olen'[cur] = olen[cur]
         \/ /\ ~busy[cur] /\ ev'[cur] /\ busy'[cur]
            /\ obuf'[cur] = con[cur] /\ con[cur] + olen'[cur] <= acc[cur]
  <2>1. HandleTryOutput(cur, con[cur], acc[cur], eof[cur])
    BY DEF SentdataReturns
  <2> HIDE DEF handleVars, mainVars, inputVars, outputVars, Handles
  <2> QED
    BY <1>c, <2>1, TryOutputEffect
<1>1. TypeOK'
  BY <1>0, <1>c, SMTT(60) DEF SentdataReturns, HandleTypes, MainTypes,
    InputTypes, OutputTypes, ThreadPcs, MainPcs, WriteInv, HolderInv,
    DyingInv, CallbackInv
<1>2. ASSUME NEW g \in Handles PROVE HolderInv(g)' /\ DyingInv(g)'
  BY <1>0, <1>c, SMTT(60) DEF SentdataReturns, HandleTypes, HolderInv,
    DyingInv, CallbackInv, ThreadHolds
<1>3. ASSUME NEW g \in Outputs PROVE WriteInv(g)'
  BY <1>0, <1>c, SMTT(60) DEF SentdataReturns, HandleTypes, OutputTypes,
    HolderInv, DyingInv, WriteInv, CallbackInv, ThreadHolds
<1>4. NoDuplicates(ready)' /\ CallbackInv'
  BY <1>0, <1>c, SMTT(60) DEF SentdataReturns, HandleTypes, HolderInv,
    DyingInv, CallbackInv
<1> QED
  BY <1>1, <1>2, <1>3, <1>4

\* A callback for EOF or an error has returned.
\* Code: handle_ready.
LEMMA EndCallbackReturnsInv ==
  ASSUME IInv, EndCallbackReturns
  PROVE  IInv'
<1> USE HandlesAssumption, BoundsAssumption
    DEF Handles, IInv, TypeOK, handleVars, mainVars, inputVars, outputVars
<1>1. TypeOK'
  BY SMTT(60) DEF EndCallbackReturns, HandleTypes, MainTypes, InputTypes,
    OutputTypes, ThreadPcs, MainPcs, WriteInv, HolderInv, DyingInv,
    CallbackInv
<1>2. ASSUME NEW g \in Handles PROVE HolderInv(g)' /\ DyingInv(g)'
  BY SMTT(60) DEF EndCallbackReturns, HandleTypes, HolderInv, DyingInv,
    CallbackInv, ThreadHolds
<1>3. ASSUME NEW g \in Outputs PROVE WriteInv(g)'
  BY SMTT(60) DEF EndCallbackReturns, HandleTypes, OutputTypes, HolderInv,
    DyingInv, WriteInv, CallbackInv, ThreadHolds
<1>4. NoDuplicates(ready)' /\ CallbackInv'
  BY SMTT(60) DEF EndCallbackReturns, HandleTypes, HolderInv, DyingInv,
    CallbackInv
<1> QED
  BY <1>1, <1>2, <1>3, <1>4

-----------------------------------------------------------------------------
(* The theorems *)

\* The program starts with the invariant.
\* Code: the static data of handle-io.c before the first handle is made.
LEMMA InitInv == Init => IInv
<1> SUFFICES ASSUME Init PROVE IInv
  OBVIOUS
<1> USE HandlesAssumption, BoundsAssumption DEF Init, Handles
<1>1. HandleTypes
  BY DEF HandleTypes, ThreadPcs
<1>2. MainTypes
  <2>1. <<>> \in Seq(Handles)
    OBVIOUS
  <2> QED
    BY <2>1 DEF MainTypes, MainPcs
<1>3. InputTypes
  BY DEF InputTypes
<1>4. OutputTypes /\ \A h \in Outputs : con[h] <= acc[h]
  BY DEF OutputTypes
<1>5. \A h \in Handles : ~OnList(h, ready)
  <2>1. DOMAIN <<>> = {}
    OBVIOUS
  <2> QED
    BY <2>1 DEF OnList
<1>6. \A h \in Handles : HolderInv(h) /\ DyingInv(h)
  BY <1>5 DEF HolderInv, DyingInv, ThreadHolds
<1>7. \A h \in Outputs : WriteInv(h)
  BY DEF WriteInv
<1>8. NoDuplicates(ready) /\ CallbackInv
  BY DEF NoDuplicates, CallbackInv
<1> QED
  BY <1>1, <1>2, <1>3, <1>4, <1>6, <1>7, <1>8 DEF IInv, TypeOK

\* Every step of a thread, a device, the main loop or a client preserves it.
\* Code: all of handle-io.c.
LEMMA StepInv == IInv /\ [Next]_vars => IInv'
<1> SUFFICES ASSUME IInv, [Next]_vars PROVE IInv'
  OBVIOUS
<1>1. ASSUME NEW h \in Handles, ThreadStep(h) PROVE IInv'
  BY <1>1, ThreadAddsToReadyListInv, ThreadWakesInv DEF ThreadStep
<1>2. ASSUME NEW h \in Handles, DeviceStep(h) PROVE IInv'
  BY <1>2, ReadDataInv, ReadEndInv, WriteDataInv, WriteErrorInv DEF DeviceStep
<1>3. ASSUME MainStep PROVE IInv'
  BY <1>3, MainWakesInv, MainLoopEndsInv, ReadyMoribundInv, ReadyInputInv,
     ReadyOutputInv, GotdataReturnsInv, SentdataReturnsInv, EndCallbackReturnsInv
     DEF MainStep
<1>4. ASSUME ClientStep PROVE IInv'
  BY <1>4, HandleInputNewInv, HandleOutputNewInv, HandleWriteInv,
     HandleWriteEofInv, HandleUnthrottleInv, HandleFreeInv DEF ClientStep
<1>5. CASE UNCHANGED vars
  BY <1>5 DEF vars, handleVars, mainVars, inputVars, outputVars, IInv, TypeOK,
     HandleTypes, MainTypes, InputTypes, OutputTypes, HolderInv, DyingInv,
     WriteInv, NoDuplicates, CallbackInv, ThreadHolds, OnList
<1> QED
  BY <1>1, <1>2, <1>3, <1>4, <1>5 DEF Next

\* The invariant holds throughout.
\* Code: all of handle-io.c.
LEMMA InvariantHolds == Spec => []IInv
  BY InitInv, StepInv, PTL DEF Spec

\* The variables have their types, and bufchain_consume is never asked for more
\* than queued_data holds, for any number of handles.
\* Code: handle_ready (bufchain_consume), the declarations of handle-io.c.
THEOREM TypeCorrect == Spec => []TypeOK
<1>1. IInv => TypeOK
  BY DEF IInv
<1> QED
  BY <1>1, InvariantHolds, PTL

\* No subthread, no node on the ready list and no callback in progress refers to
\* a struct handle that has been freed, for any number of handles.
\* Code: handle_free, handle_ready, handle_destroy, both thread functions.
THEOREM UseAfterFreeFreedom == Spec => []NoUseAfterFree
<1>1. IInv => NoUseAfterFree
  BY DEF IInv, NoUseAfterFree, HolderInv, CallbackInv
<1> QED
  BY <1>1, InvariantHolds, PTL

\* A node is never left on the ready list without the event, because a subthread
\* sets it under the lock and main goes back to its wait from an empty list only.
\* Code: add_to_ready_list, handle_ready_callback.
LEMMA ReadySignalKept == TypeOK /\ NoLostReadySignal /\ [Next]_vars => NoLostReadySignal'
<1> SUFFICES ASSUME TypeOK, NoLostReadySignal, [Next]_vars PROVE NoLostReadySignal'
  OBVIOUS
<1> USE DEF NoLostReadySignal
<1>1. ASSUME NEW h \in Handles, ThreadStep(h) \/ DeviceStep(h) PROVE NoLostReadySignal'
  BY <1>1 DEF ThreadStep, DeviceStep, ThreadAddsToReadyList, ThreadWakes, ReadData,
     ReadEnd, WriteData, WriteError, mainVars
<1>2. CASE MainStep
  <2>1. ASSUME MainStep, ~MainLoopEnds PROVE mpc' # "idle"
    BY <1>2, <2>1 DEF MainStep, MainWakes, MainLoopEnds, ReadyMoribund, ReadyInput,
       ReadyOutput, GotdataReturns, SentdataReturns, EndCallbackReturns, mainVars
  <2>2. CASE MainLoopEnds
    BY <2>2 DEF MainLoopEnds
  <2> QED
    BY <1>2, <2>1, <2>2
<1>3. CASE ClientStep
  <2>1. mpc' = mpc /\ readyEv' = readyEv
    BY <1>3 DEF ClientStep, HandleInputNew, HandleOutputNew, HandleWrite, HandleWriteEof,
       HandleUnthrottle, HandleFree, mainVars
  <2>2. ready = <<>> => ready' = <<>>
    <3>1. ASSUME ready = <<>>, NEW h PROVE Unlinked(h, ready) = <<>>
      BY <3>1 DEF Unlinked, OnList
    <3>2. ASSUME NEW h \in Handles, HandleFree(h), ready = <<>> PROVE ready' = <<>>
      BY <3>1, <3>2 DEF HandleFree, HandleDestroy
    <3> QED
      BY <1>3, <3>2 DEF ClientStep, HandleInputNew, HandleOutputNew, HandleWrite,
         HandleWriteEof, HandleUnthrottle
  <2> QED
    BY <2>1, <2>2
<1>4. CASE UNCHANGED vars
  BY <1>4 DEF vars, mainVars
<1> QED
  BY <1>1, <1>2, <1>3, <1>4 DEF Next

\* The ready list has its event throughout.
\* Code: add_to_ready_list, handle_ready_callback.
LEMMA ReadySignalHolds == Spec => []NoLostReadySignal
<1>1. Init => NoLostReadySignal
  BY DEF Init, NoLostReadySignal
<1> QED
  BY <1>1, ReadySignalKept, TypeCorrect, PTL DEF Spec

\* A handle is on the ready list once at most, its subthread then rests, and the
\* event loop will come to look, for any number of handles.
\* Code: add_to_ready_list, handle_ready_callback.
THEOREM ReadyListCorrect == Spec => []ReadyListSound
<1>1. IInv /\ NoLostReadySignal => ReadyListSound
  <2> SUFFICES ASSUME IInv, NEW i \in DOMAIN ready
               PROVE  /\ tpc[ready[i]] \in {"wait", "exit"}
                      /\ ~ev[ready[i]]
                      /\ \A j \in DOMAIN ready : ready[i] = ready[j] => i = j
    BY DEF ReadyListSound
  <2>1. ready[i] \in Handles /\ OnList(ready[i], ready)
    BY DEF IInv, TypeOK, MainTypes, OnList
  <2> QED
    BY <2>1 DEF IInv, HolderInv, NoDuplicates
<1> QED
  BY <1>1, InvariantHolds, ReadySignalHolds, PTL

-----------------------------------------------------------------------------
(***************************************************************************)
(* The data that crosses the hand-over: what is in ctx->buffer and in      *)
(* queued_data, who may touch it, and in which order it reaches gotdata    *)
(* and the device, for any number of handles, any MAX_BACKLOG and any      *)
(* amount of data.  It rests on the protocol invariant IInv.               *)
(***************************************************************************)

\* A unit of data has been transferred, and handle_ready has not seen it yet.
Pending(h) == io[h] = "ok" /\ (tpc[h] = "post" \/ OnList(h, ready))

\* An input: a read in progress has room for its result, and ctx->buffer holds the
\* unit last read, which is the next one for gotdata as long as it is pending.
InputInv(h) ==
  /\ alloc[h] = "unused" => backlog[h] = 0
  /\ backlog[h] <= MaxBacklog
  /\ busy[h] /\ ~done[h] => backlog[h] < MaxBacklog
  /\ buf[h] = rd[h]
  /\ ~done[h] => buf[h] = IF Pending(h) THEN got[h] + 1 ELSE got[h]

\* An output: the device has what was consumed, and the pending write.
OutputInv(h) ==
  alloc[h] # "freed" /\ ~done[h] =>
    dev[h] = IF Pending(h) THEN con[h] + lw[h] ELSE con[h]

\* While gotdata looks at the buffer the subthread rests, and if the callback has
\* woken it up then only to die.
GotdataInv ==
  mpc = "gotdata" =>
    /\ tpc[cur] \in {"wait", "dying"}
    /\ ev[cur] => done[cur]
    /\ buf[cur] = got[cur]

DataInv ==
  /\ \A h \in Inputs : InputInv(h)
  /\ \A h \in Outputs : OutputInv(h)
  /\ GotdataInv

-----------------------------------------------------------------------------
(* Every step preserves the invariant *)

\* A successful read makes its unit pending.
\* Code: handle_input_threadfunc.
LEMMA ReadDataKeepsData ==
  ASSUME IInv, DataInv, NEW h \in Inputs, ReadData(h)
  PROVE  DataInv'
<1> USE HandlesAssumption, BoundsAssumption
    DEF Handles, IInv, TypeOK, DataInv, handleVars, mainVars, inputVars, outputVars
<1>1. ASSUME NEW g \in Inputs PROVE InputInv(g)'
  BY SMTT(20) DEF ReadData, HandleTypes, InputTypes, HolderInv, DyingInv, InputInv,
    GotdataInv, CallbackInv, ThreadHolds, Pending
<1>2. ASSUME NEW g \in Outputs PROVE OutputInv(g)'
  BY SMTT(20) DEF ReadData, HandleTypes, OutputTypes, HolderInv, DyingInv,
    WriteInv, OutputInv, ThreadHolds, Pending
<1>3. GotdataInv'
  BY SMTT(20) DEF ReadData, HandleTypes, InputTypes, HolderInv, DyingInv, InputInv,
    GotdataInv, CallbackInv, ThreadHolds, Pending
<1> QED
  BY <1>1, <1>2, <1>3

\* A failed read, or EOF, leaves no unit pending.
\* Code: handle_input_threadfunc.
LEMMA ReadEndKeepsData ==
  ASSUME IInv, DataInv, NEW h \in Inputs, NEW b, ReadEnd(h, b)
  PROVE  DataInv'
<1> USE HandlesAssumption, BoundsAssumption
    DEF Handles, IInv, TypeOK, DataInv, handleVars, mainVars, inputVars, outputVars
<1>1. ASSUME NEW g \in Inputs PROVE InputInv(g)'
  BY SMTT(20) DEF ReadEnd, HandleTypes, InputTypes, HolderInv, DyingInv, InputInv,
    GotdataInv, CallbackInv, ThreadHolds, Pending
<1>2. ASSUME NEW g \in Outputs PROVE OutputInv(g)'
  BY SMTT(20) DEF ReadEnd, HandleTypes, OutputTypes, HolderInv, DyingInv,
    WriteInv, OutputInv, ThreadHolds, Pending
<1>3. GotdataInv'
  BY SMTT(20) DEF ReadEnd, HandleTypes, InputTypes, HolderInv, DyingInv, InputInv,
    GotdataInv, CallbackInv, ThreadHolds, Pending
<1> QED
  BY <1>1, <1>2, <1>3

\* The device gets the bytes that come after the consumed ones.
\* Code: handle_output_threadfunc.
LEMMA WriteDataKeepsData ==
  ASSUME IInv, DataInv, NEW h \in Outputs, NEW n, WriteData(h, n)
  PROVE  DataInv'
<1> USE HandlesAssumption, BoundsAssumption
    DEF Handles, IInv, TypeOK, DataInv, handleVars, mainVars, inputVars, outputVars
<1>1. ASSUME NEW g \in Inputs PROVE InputInv(g)'
  BY SMTT(20) DEF WriteData, HandleTypes, InputTypes, HolderInv, DyingInv, InputInv,
    GotdataInv, CallbackInv, ThreadHolds, Pending
<1>2. ASSUME NEW g \in Outputs PROVE OutputInv(g)'
  BY SMTT(20) DEF WriteData, HandleTypes, OutputTypes, HolderInv, DyingInv,
    WriteInv, OutputInv, ThreadHolds, Pending
<1>3. GotdataInv'
  BY SMTT(20) DEF WriteData, HandleTypes, InputTypes, HolderInv, DyingInv, InputInv,
    GotdataInv, CallbackInv, ThreadHolds, Pending
<1> QED
  BY <1>1, <1>2, <1>3

\* A failed write leaves nothing pending.
\* Code: handle_output_threadfunc.
LEMMA WriteErrorKeepsData ==
  ASSUME IInv, DataInv, NEW h \in Outputs, WriteError(h)
  PROVE  DataInv'
<1> USE HandlesAssumption, BoundsAssumption
    DEF Handles, IInv, TypeOK, DataInv, handleVars, mainVars, inputVars, outputVars
<1>1. ASSUME NEW g \in Inputs PROVE InputInv(g)'
  BY SMTT(20) DEF WriteError, HandleTypes, InputTypes, HolderInv, DyingInv, InputInv,
    GotdataInv, CallbackInv, ThreadHolds, Pending
<1>2. ASSUME NEW g \in Outputs PROVE OutputInv(g)'
  BY SMTT(20) DEF WriteError, HandleTypes, OutputTypes, HolderInv, DyingInv,
    WriteInv, OutputInv, ThreadHolds, Pending
<1>3. GotdataInv'
  BY SMTT(20) DEF WriteError, HandleTypes, InputTypes, HolderInv, DyingInv, InputInv,
    GotdataInv, CallbackInv, ThreadHolds, Pending
<1> QED
  BY <1>1, <1>2, <1>3

\* What was pending stays pending when the handle is handed over.
\* Code: add_to_ready_list.
LEMMA ThreadAddsToReadyListKeepsData ==
  ASSUME IInv, DataInv, NEW h \in Handles, ThreadAddsToReadyList(h)
  PROVE  DataInv'
<1> USE HandlesAssumption, BoundsAssumption
    DEF Handles, IInv, TypeOK, DataInv, handleVars, mainVars, inputVars, outputVars
<1>0. \A g \in Handles : OnList(g, ready') <=> OnList(g, ready) \/ g = h
  BY OnAppend DEF ThreadAddsToReadyList, MainTypes
<1>1. ASSUME NEW g \in Inputs PROVE InputInv(g)'
  BY <1>0, SMTT(20) DEF ThreadAddsToReadyList, HandleTypes, InputTypes, HolderInv, DyingInv, InputInv,
    GotdataInv, CallbackInv, ThreadHolds, Pending
<1>2. ASSUME NEW g \in Outputs PROVE OutputInv(g)'
  BY <1>0, SMTT(20) DEF ThreadAddsToReadyList, HandleTypes, OutputTypes, HolderInv, DyingInv,
    WriteInv, OutputInv, ThreadHolds, Pending
<1>3. GotdataInv'
  BY <1>0, SMTT(20) DEF ThreadAddsToReadyList, HandleTypes, InputTypes, HolderInv, DyingInv, InputInv,
    GotdataInv, CallbackInv, ThreadHolds, Pending
<1> QED
  BY <1>1, <1>2, <1>3

\* A subthread that wakes up touches no data, and dies if gotdata is running.
\* Code: both thread functions.
LEMMA ThreadWakesKeepsData ==
  ASSUME IInv, DataInv, NEW h \in Handles, ThreadWakes(h)
  PROVE  DataInv'
<1> USE HandlesAssumption, BoundsAssumption
    DEF Handles, IInv, TypeOK, DataInv, handleVars, mainVars, inputVars, outputVars
<1>1. ASSUME NEW g \in Inputs PROVE InputInv(g)'
  BY SMTT(20) DEF ThreadWakes, HandleTypes, InputTypes, HolderInv, DyingInv, InputInv,
    GotdataInv, CallbackInv, ThreadHolds, Pending
<1>2. ASSUME NEW g \in Outputs PROVE OutputInv(g)'
  BY SMTT(20) DEF ThreadWakes, HandleTypes, OutputTypes, HolderInv, DyingInv,
    WriteInv, OutputInv, ThreadHolds, Pending
<1>3. GotdataInv'
  BY SMTT(20) DEF ThreadWakes, HandleTypes, InputTypes, HolderInv, DyingInv, InputInv,
    GotdataInv, CallbackInv, ThreadHolds, Pending
<1> QED
  BY <1>1, <1>2, <1>3

\* A new input has nothing pending, and room for its first read.
\* Code: handle_input_new.
LEMMA HandleInputNewKeepsData ==
  ASSUME IInv, DataInv, NEW h \in Inputs, NEW ok, HandleInputNew(h, ok)
  PROVE  DataInv'
<1> USE HandlesAssumption, BoundsAssumption
    DEF Handles, IInv, TypeOK, DataInv, handleVars, mainVars, inputVars, outputVars
<1>1. ASSUME NEW g \in Inputs PROVE InputInv(g)'
  BY SMTT(20) DEF HandleInputNew, CanBeMade, HandleTypes, InputTypes, HolderInv, DyingInv, InputInv,
    GotdataInv, CallbackInv, ThreadHolds, Pending
<1>2. ASSUME NEW g \in Outputs PROVE OutputInv(g)'
  BY SMTT(20) DEF HandleInputNew, CanBeMade, HandleTypes, OutputTypes, HolderInv, DyingInv,
    WriteInv, OutputInv, ThreadHolds, Pending
<1>3. GotdataInv'
  BY SMTT(20) DEF HandleInputNew, CanBeMade, HandleTypes, InputTypes, HolderInv, DyingInv, InputInv,
    GotdataInv, CallbackInv, ThreadHolds, Pending
<1> QED
  BY <1>1, <1>2, <1>3

\* A new output has nothing pending.
\* Code: handle_output_new.
LEMMA HandleOutputNewKeepsData ==
  ASSUME IInv, DataInv, NEW h \in Outputs, NEW ok, HandleOutputNew(h, ok)
  PROVE  DataInv'
<1> USE HandlesAssumption, BoundsAssumption
    DEF Handles, IInv, TypeOK, DataInv, handleVars, mainVars, inputVars, outputVars
<1>1. ASSUME NEW g \in Inputs PROVE InputInv(g)'
  BY SMTT(20) DEF HandleOutputNew, CanBeMade, HandleTypes, InputTypes, HolderInv, DyingInv, InputInv,
    GotdataInv, CallbackInv, ThreadHolds, Pending
<1>2. ASSUME NEW g \in Outputs PROVE OutputInv(g)'
  BY SMTT(20) DEF HandleOutputNew, CanBeMade, HandleTypes, OutputTypes, HolderInv, DyingInv,
    WriteInv, OutputInv, ThreadHolds, Pending
<1>3. GotdataInv'
  BY SMTT(20) DEF HandleOutputNew, CanBeMade, HandleTypes, InputTypes, HolderInv, DyingInv, InputInv,
    GotdataInv, CallbackInv, ThreadHolds, Pending
<1> QED
  BY <1>1, <1>2, <1>3

\* Queueing bytes touches neither the pending write nor what was consumed.
\* Code: handle_write.
LEMMA HandleWriteKeepsData ==
  ASSUME IInv, DataInv, NEW h \in Outputs, NEW n \in Nat, HandleWrite(h, n)
  PROVE  DataInv'
<1> USE HandlesAssumption, BoundsAssumption
    DEF Handles, IInv, TypeOK, DataInv, handleVars, mainVars, inputVars, outputVars
<1>0. /\ \A g \in Handles \ {h} : ev'[g] = ev[g] /\ busy'[g] = busy[g]
      /\ UNCHANGED <<con, lw, dev>>
  BY DEF HandleWrite, HandleTryOutput, HandleTypes
<1>1. ASSUME NEW g \in Inputs PROVE InputInv(g)'
  BY <1>0, SMTT(20) DEF HandleWrite, HandleTypes, InputTypes, HolderInv, DyingInv, InputInv,
    GotdataInv, CallbackInv, ThreadHolds, Pending
<1>2. ASSUME NEW g \in Outputs PROVE OutputInv(g)'
  BY <1>0, SMTT(20) DEF HandleWrite, HandleTypes, OutputTypes, HolderInv, DyingInv,
    WriteInv, OutputInv, ThreadHolds, Pending
<1>3. GotdataInv'
  BY <1>0, SMTT(20) DEF HandleWrite, HandleTypes, InputTypes, HolderInv, DyingInv, InputInv,
    GotdataInv, CallbackInv, ThreadHolds, Pending
<1> QED
  BY <1>1, <1>2, <1>3

\* Announcing EOF touches neither the pending write nor what was consumed.
\* Code: handle_write_eof.
LEMMA HandleWriteEofKeepsData ==
  ASSUME IInv, DataInv, NEW h \in Outputs, HandleWriteEof(h)
  PROVE  DataInv'
<1> USE HandlesAssumption, BoundsAssumption
    DEF Handles, IInv, TypeOK, DataInv, handleVars, mainVars, inputVars, outputVars
<1>0. /\ \A g \in Handles \ {h} : ev'[g] = ev[g] /\ busy'[g] = busy[g]
      /\ UNCHANGED <<con, lw, dev>>
  BY DEF HandleWriteEof, HandleTryOutput, HandleTypes
<1>1. ASSUME NEW g \in Inputs PROVE InputInv(g)'
  BY <1>0, SMTT(20) DEF HandleWriteEof, HandleTypes, InputTypes, HolderInv, DyingInv, InputInv,
    GotdataInv, CallbackInv, ThreadHolds, Pending
<1>2. ASSUME NEW g \in Outputs PROVE OutputInv(g)'
  BY <1>0, SMTT(20) DEF HandleWriteEof, HandleTypes, OutputTypes, HolderInv, DyingInv,
    WriteInv, OutputInv, ThreadHolds, Pending
<1>3. GotdataInv'
  BY <1>0, SMTT(20) DEF HandleWriteEof, HandleTypes, InputTypes, HolderInv, DyingInv, InputInv,
    GotdataInv, CallbackInv, ThreadHolds, Pending
<1> QED
  BY <1>1, <1>2, <1>3

\* Another read is asked for only when there is room for it.
\* Code: handle_unthrottle.
LEMMA HandleUnthrottleKeepsData ==
  ASSUME IInv, DataInv, NEW h \in Inputs, NEW size \in Nat, HandleUnthrottle(h, size)
  PROVE  DataInv'
<1> USE HandlesAssumption, BoundsAssumption
    DEF Handles, IInv, TypeOK, DataInv, handleVars, mainVars, inputVars, outputVars
<1>0. /\ \A g \in Handles \ {h} : ev'[g] = ev[g] /\ busy'[g] = busy[g]
      /\ \/ ev'[h] = ev[h] /\ busy'[h] = busy[h]
         \/ ~busy[h] /\ size < MaxBacklog /\ ev'[h] /\ busy'[h]
  BY DEF HandleUnthrottle, HandleThrottle, HandleTypes
<1>1. ASSUME NEW g \in Inputs PROVE InputInv(g)'
  BY <1>0, SMTT(20) DEF HandleUnthrottle, HandleTypes, InputTypes, HolderInv, DyingInv, InputInv,
    GotdataInv, CallbackInv, ThreadHolds, Pending
<1>2. ASSUME NEW g \in Outputs PROVE OutputInv(g)'
  BY <1>0, SMTT(20) DEF HandleUnthrottle, HandleTypes, OutputTypes, HolderInv, DyingInv,
    WriteInv, OutputInv, ThreadHolds, Pending
<1>3. GotdataInv'
  BY <1>0, SMTT(20) DEF HandleUnthrottle, HandleTypes, InputTypes, HolderInv, DyingInv, InputInv,
    GotdataInv, CallbackInv, ThreadHolds, Pending
<1> QED
  BY <1>1, <1>2, <1>3

\* Freeing a handle that rests, or asking its subthread to die, loses no pending data
\* of a handle in use.
\* Code: handle_free.
LEMMA HandleFreeKeepsData ==
  ASSUME IInv, DataInv, NEW h \in Handles, HandleFree(h)
  PROVE  DataInv'
<1> USE HandlesAssumption, BoundsAssumption
    DEF Handles, IInv, TypeOK, DataInv, handleVars, mainVars, inputVars, outputVars
<1>0. /\ alloc' = alloc \/ (~busy[h] /\ alloc' = [alloc EXCEPT ![h] = "freed"])
      /\ ready' = ready
      /\ \A g \in Outputs \ {h} : con'[g] = con[g]
      /\ h \in Outputs /\ alloc' = alloc => con'[h] = con[h]
      /\ \A g \in Handles \ {h} : ev'[g] = ev[g] /\ busy'[g] = busy[g] /\ done'[g] = done[g]
      /\ \/ ev'[h] = ev[h] /\ busy'[h] = busy[h] /\ done'[h] = done[h]
         \/ ~busy[h] /\ ev'[h] /\ busy'[h] /\ done'[h]
  <2>1. CASE busy[h] /\ UNCHANGED <<alloc, done, busy, ev, ready, con>>
    BY <2>1
  <2>2. CASE ~busy[h] /\ HandleDestroy(h, ready) /\ UNCHANGED <<moribund, done, busy, ev>>
    <3>1. ~OnList(h, ready) /\ alloc[h] # "freed"
      BY <2>2 DEF HolderInv, HandleFree, Usable
    <3>2. [alloc EXCEPT ![h] = "freed"] # alloc
      BY <3>1 DEF HandleTypes
    <3> HIDE DEF Handles, handleVars, mainVars, inputVars, outputVars
    <3> QED
      BY <2>2, <3>1, <3>2, DestroyEffect
  <2>3. CASE ~busy[h] /\ SignalToDie(h) /\ UNCHANGED <<alloc, ready, con>>
    BY <2>3, SignalEffect
  <2> QED
    BY <2>1, <2>2, <2>3 DEF HandleFree
<1>1. ASSUME NEW g \in Inputs PROVE InputInv(g)'
  BY <1>0, SMTT(20) DEF HandleFree, HandleTypes, InputTypes, HolderInv, DyingInv, InputInv,
    GotdataInv, CallbackInv, ThreadHolds, Pending
<1>2. ASSUME NEW g \in Outputs PROVE OutputInv(g)'
  BY <1>0, SMTT(20) DEF HandleFree, HandleTypes, OutputTypes, HolderInv, DyingInv,
    WriteInv, OutputInv, ThreadHolds, Pending
<1>3. GotdataInv'
  BY <1>0, SMTT(20) DEF HandleFree, HandleTypes, InputTypes, HolderInv, DyingInv, InputInv,
    GotdataInv, CallbackInv, ThreadHolds, Pending
<1> QED
  BY <1>1, <1>2, <1>3

\* The event loop comes to look.
\* Code: the message loop.
LEMMA MainWakesKeepsData ==
  ASSUME IInv, DataInv, MainWakes
  PROVE  DataInv'
<1> USE HandlesAssumption, BoundsAssumption
    DEF Handles, IInv, TypeOK, DataInv, handleVars, mainVars, inputVars, outputVars
<1>1. ASSUME NEW g \in Inputs PROVE InputInv(g)'
  BY SMTT(20) DEF MainWakes, HandleTypes, InputTypes, HolderInv, DyingInv, InputInv,
    GotdataInv, CallbackInv, ThreadHolds, Pending
<1>2. ASSUME NEW g \in Outputs PROVE OutputInv(g)'
  BY SMTT(20) DEF MainWakes, HandleTypes, OutputTypes, HolderInv, DyingInv,
    WriteInv, OutputInv, ThreadHolds, Pending
<1>3. GotdataInv'
  BY SMTT(20) DEF MainWakes, HandleTypes, InputTypes, HolderInv, DyingInv, InputInv,
    GotdataInv, CallbackInv, ThreadHolds, Pending
<1> QED
  BY <1>1, <1>2, <1>3

\* The ready list is empty.
\* Code: handle_ready_callback.
LEMMA MainLoopEndsKeepsData ==
  ASSUME IInv, DataInv, MainLoopEnds
  PROVE  DataInv'
<1> USE HandlesAssumption, BoundsAssumption
    DEF Handles, IInv, TypeOK, DataInv, handleVars, mainVars, inputVars, outputVars
<1>1. ASSUME NEW g \in Inputs PROVE InputInv(g)'
  BY SMTT(20) DEF MainLoopEnds, HandleTypes, InputTypes, HolderInv, DyingInv, InputInv,
    GotdataInv, CallbackInv, ThreadHolds, Pending
<1>2. ASSUME NEW g \in Outputs PROVE OutputInv(g)'
  BY SMTT(20) DEF MainLoopEnds, HandleTypes, OutputTypes, HolderInv, DyingInv,
    WriteInv, OutputInv, ThreadHolds, Pending
<1>3. GotdataInv'
  BY SMTT(20) DEF MainLoopEnds, HandleTypes, InputTypes, HolderInv, DyingInv, InputInv,
    GotdataInv, CallbackInv, ThreadHolds, Pending
<1> QED
  BY <1>1, <1>2, <1>3

\* A freed handle comes off the ready list: its data no longer matter.
\* Code: handle_ready.
LEMMA ReadyMoribundKeepsData ==
  ASSUME IInv, DataInv, NEW h \in Handles, ReadyMoribund(h)
  PROVE  DataInv'
<1> USE HandlesAssumption, BoundsAssumption
    DEF Handles, IInv, TypeOK, DataInv, handleVars, mainVars, inputVars, outputVars
<1>a. /\ \A g \in Handles : OnList(g, Tail(ready)) <=> OnList(g, ready) /\ g # h
      /\ OnList(h, ready)
  BY OnTail DEF ReadyMoribund, MainTypes
<1>0. /\ ready' = Tail(ready)
      /\ alloc' = alloc \/ alloc' = [alloc EXCEPT ![h] = "freed"]
      /\ \A g \in Outputs \ {h} : con'[g] = con[g]
      /\ \A g \in Handles \ {h} : ev'[g] = ev[g] /\ busy'[g] = busy[g] /\ done'[g] = done[g]
      /\ busy'[h] /\ done'[h]
  <2>1. CASE done[h] /\ HandleDestroy(h, Tail(ready)) /\ UNCHANGED <<done, busy, ev>>
    <3>1. ~OnList(h, Tail(ready)) /\ busy[h]
      BY <1>a DEF HolderInv
    <3> HIDE DEF Handles, handleVars, mainVars, inputVars, outputVars
    <3> QED
      BY <2>1, <3>1, DestroyEffect
  <2>2. CASE ready' = Tail(ready) /\ SignalToDie(h) /\ UNCHANGED <<alloc, con>>
    BY <2>2, SignalEffect
  <2> QED
    BY <2>1, <2>2 DEF ReadyMoribund
<1>1. ASSUME NEW g \in Inputs PROVE InputInv(g)'
  BY <1>a, <1>0, SMTT(20) DEF ReadyMoribund, HandleTypes, InputTypes, HolderInv, DyingInv, InputInv,
    GotdataInv, CallbackInv, ThreadHolds, Pending
<1>2. ASSUME NEW g \in Outputs PROVE OutputInv(g)'
  BY <1>a, <1>0, SMTT(20) DEF ReadyMoribund, HandleTypes, OutputTypes, HolderInv, DyingInv,
    WriteInv, OutputInv, ThreadHolds, Pending
<1>3. GotdataInv'
  BY <1>a, <1>0, SMTT(20) DEF ReadyMoribund, HandleTypes, InputTypes, HolderInv, DyingInv, InputInv,
    GotdataInv, CallbackInv, ThreadHolds, Pending
<1> QED
  BY <1>1, <1>2, <1>3

\* The pending unit is handed to gotdata.
\* Code: handle_ready.
LEMMA ReadyInputKeepsData ==
  ASSUME IInv, DataInv, NEW h \in Inputs, ReadyInput(h)
  PROVE  DataInv'
<1> USE HandlesAssumption, BoundsAssumption
    DEF Handles, IInv, TypeOK, DataInv, handleVars, mainVars, inputVars, outputVars
<1>0. /\ \A g \in Handles : OnList(g, Tail(ready)) <=> OnList(g, ready) /\ g # h
      /\ OnList(h, ready)
  BY OnTail DEF ReadyInput, MainTypes
<1>1. ASSUME NEW g \in Inputs PROVE InputInv(g)'
  BY <1>0, SMTT(20) DEF ReadyInput, HandleTypes, InputTypes, HolderInv, DyingInv, InputInv,
    GotdataInv, CallbackInv, ThreadHolds, Pending
<1>2. ASSUME NEW g \in Outputs PROVE OutputInv(g)'
  BY <1>0, SMTT(20) DEF ReadyInput, HandleTypes, OutputTypes, HolderInv, DyingInv,
    WriteInv, OutputInv, ThreadHolds, Pending
<1>3. GotdataInv'
  BY <1>0, SMTT(20) DEF ReadyInput, HandleTypes, InputTypes, HolderInv, DyingInv, InputInv,
    GotdataInv, CallbackInv, ThreadHolds, Pending
<1> QED
  BY <1>1, <1>2, <1>3

\* gotdata has returned: another read is begun only when there is room for it.
\* Code: handle_ready, handle_throttle.
LEMMA GotdataReturnsKeepsData ==
  ASSUME IInv, DataInv, GotdataReturns
  PROVE  DataInv'
<1> USE HandlesAssumption, BoundsAssumption
    DEF Handles, IInv, TypeOK, DataInv, handleVars, mainVars, inputVars, outputVars
<1>c. cur \in Inputs /\ backlog[cur] \in Nat
  BY DEF GotdataReturns, CallbackInv, InputTypes
<1>0. /\ \A g \in Handles \ {cur} : ev'[g] = ev[g] /\ busy'[g] = busy[g]
      /\ \A g \in Inputs \ {cur} : backlog'[g] = backlog[g]
      /\ backlog'[cur] <= backlog[cur] /\ backlog'[cur] \in Nat
      /\ \/ ev'[cur] = ev[cur] /\ busy'[cur] = busy[cur]
         \/ ~busy[cur] /\ backlog'[cur] < MaxBacklog /\ ev'[cur] /\ busy'[cur]
  BY <1>c DEF GotdataReturns, HandleThrottle, HandleTypes, InputTypes
<1>1. ASSUME NEW g \in Inputs PROVE InputInv(g)'
  BY <1>c, <1>0, SMTT(20) DEF GotdataReturns, HandleTypes, InputTypes, HolderInv, DyingInv, InputInv,
    GotdataInv, CallbackInv, ThreadHolds, Pending
<1>2. ASSUME NEW g \in Outputs PROVE OutputInv(g)'
  BY <1>c, <1>0, SMTT(20) DEF GotdataReturns, HandleTypes, OutputTypes, HolderInv, DyingInv,
    WriteInv, OutputInv, ThreadHolds, Pending
<1>3. GotdataInv'
  BY <1>c, <1>0, SMTT(20) DEF GotdataReturns, HandleTypes, InputTypes, HolderInv, DyingInv, InputInv,
    GotdataInv, CallbackInv, ThreadHolds, Pending
<1> QED
  BY <1>1, <1>2, <1>3

\* The pending write is consumed.
\* Code: handle_ready.
LEMMA ReadyOutputKeepsData ==
  ASSUME IInv, DataInv, NEW h \in Outputs, ReadyOutput(h)
  PROVE  DataInv'
<1> USE HandlesAssumption, BoundsAssumption
    DEF Handles, IInv, TypeOK, DataInv, handleVars, mainVars, inputVars, outputVars
<1>0. /\ \A g \in Handles : OnList(g, Tail(ready)) <=> OnList(g, ready) /\ g # h
      /\ OnList(h, ready)
  BY OnTail DEF ReadyOutput, MainTypes
<1>1. ASSUME NEW g \in Inputs PROVE InputInv(g)'
  BY <1>0, SMTT(20) DEF ReadyOutput, HandleTypes, InputTypes, HolderInv, DyingInv, InputInv,
    GotdataInv, CallbackInv, ThreadHolds, Pending
<1>2. ASSUME NEW g \in Outputs PROVE OutputInv(g)'
  BY <1>0, SMTT(20) DEF ReadyOutput, HandleTypes, OutputTypes, HolderInv, DyingInv,
    WriteInv, OutputInv, ThreadHolds, Pending
<1>3. GotdataInv'
  BY <1>0, SMTT(20) DEF ReadyOutput, HandleTypes, InputTypes, HolderInv, DyingInv, InputInv,
    GotdataInv, CallbackInv, ThreadHolds, Pending
<1> QED
  BY <1>1, <1>2, <1>3

\* sentdata has returned: the next write touches no device data.
\* Code: handle_ready, handle_try_output.
LEMMA SentdataReturnsKeepsData ==
  ASSUME IInv, DataInv, SentdataReturns
  PROVE  DataInv'
<1> USE HandlesAssumption, BoundsAssumption
    DEF Handles, IInv, TypeOK, DataInv, handleVars, mainVars, inputVars, outputVars
<1>c. cur \in Outputs
  BY DEF SentdataReturns, CallbackInv
<1>0. \A g \in Handles \ {cur} : ev'[g] = ev[g] /\ busy'[g] = busy[g]
  BY <1>c DEF SentdataReturns, HandleTryOutput, HandleTypes
<1>1. ASSUME NEW g \in Inputs PROVE InputInv(g)'
  BY <1>c, <1>0, SMTT(20) DEF SentdataReturns, HandleTypes, InputTypes, HolderInv, DyingInv, InputInv,
    GotdataInv, CallbackInv, ThreadHolds, Pending
<1>2. ASSUME NEW g \in Outputs PROVE OutputInv(g)'
  BY <1>c, <1>0, SMTT(20) DEF SentdataReturns, HandleTypes, OutputTypes, HolderInv, DyingInv,
    WriteInv, OutputInv, ThreadHolds, Pending
<1>3. GotdataInv'
  BY <1>c, <1>0, SMTT(20) DEF SentdataReturns, HandleTypes, InputTypes, HolderInv, DyingInv, InputInv,
    GotdataInv, CallbackInv, ThreadHolds, Pending
<1> QED
  BY <1>1, <1>2, <1>3

\* A callback for EOF or an error has returned.
\* Code: handle_ready.
LEMMA EndCallbackReturnsKeepsData ==
  ASSUME IInv, DataInv, EndCallbackReturns
  PROVE  DataInv'
<1> USE HandlesAssumption, BoundsAssumption
    DEF Handles, IInv, TypeOK, DataInv, handleVars, mainVars, inputVars, outputVars
<1>1. ASSUME NEW g \in Inputs PROVE InputInv(g)'
  BY SMTT(20) DEF EndCallbackReturns, HandleTypes, InputTypes, HolderInv, DyingInv, InputInv,
    GotdataInv, CallbackInv, ThreadHolds, Pending
<1>2. ASSUME NEW g \in Outputs PROVE OutputInv(g)'
  BY SMTT(20) DEF EndCallbackReturns, HandleTypes, OutputTypes, HolderInv, DyingInv,
    WriteInv, OutputInv, ThreadHolds, Pending
<1>3. GotdataInv'
  BY SMTT(20) DEF EndCallbackReturns, HandleTypes, InputTypes, HolderInv, DyingInv, InputInv,
    GotdataInv, CallbackInv, ThreadHolds, Pending
<1> QED
  BY <1>1, <1>2, <1>3

-----------------------------------------------------------------------------
(* The theorems *)

\* Nothing has been read or written before the first handle is made.
\* Code: the static data of handle-io.c.
LEMMA DataInit == Init => DataInv
<1> SUFFICES ASSUME Init PROVE DataInv
  OBVIOUS
<1> USE HandlesAssumption, BoundsAssumption DEF Init, Handles
<1>1. ASSUME NEW h \in Inputs PROVE InputInv(h)
  BY DEF InputInv, Pending
<1>2. ASSUME NEW h \in Outputs PROVE OutputInv(h)
  BY DEF OutputInv, Pending
<1>3. GotdataInv
  BY DEF GotdataInv
<1> QED
  BY <1>1, <1>2, <1>3 DEF DataInv

\* Every step of a thread, a device, the main loop or a client preserves it.
\* Code: all of handle-io.c.
LEMMA DataStep == IInv /\ DataInv /\ [Next]_vars => DataInv'
<1> SUFFICES ASSUME IInv, DataInv, [Next]_vars PROVE DataInv'
  OBVIOUS
<1>1. ASSUME NEW h \in Handles, ThreadStep(h) PROVE DataInv'
  BY <1>1, ThreadAddsToReadyListKeepsData, ThreadWakesKeepsData DEF ThreadStep
<1>2. ASSUME NEW h \in Handles, DeviceStep(h) PROVE DataInv'
  BY <1>2, ReadDataKeepsData, ReadEndKeepsData, WriteDataKeepsData, WriteErrorKeepsData DEF DeviceStep
<1>3. ASSUME MainStep PROVE DataInv'
  BY <1>3, MainWakesKeepsData, MainLoopEndsKeepsData, ReadyMoribundKeepsData, ReadyInputKeepsData,
     ReadyOutputKeepsData, GotdataReturnsKeepsData, SentdataReturnsKeepsData, EndCallbackReturnsKeepsData
     DEF MainStep
<1>4. ASSUME ClientStep PROVE DataInv'
  <2>1. ASSUME NEW h \in Inputs, NEW size \in 0 .. backlog[h], HandleUnthrottle(h, size)
        PROVE  DataInv'
    <3>1. size \in Nat
      BY DEF IInv, TypeOK, InputTypes
    <3> QED
      BY <2>1, <3>1, HandleUnthrottleKeepsData
  <2>2. ASSUME NEW h \in Outputs, NEW n \in 1 .. WriteBound, HandleWrite(h, n)
        PROVE  DataInv'
    BY <2>2, BoundsAssumption, HandleWriteKeepsData
  <2> QED
    BY <1>4, <2>1, <2>2, HandleInputNewKeepsData, HandleOutputNewKeepsData, HandleWriteEofKeepsData,
       HandleFreeKeepsData DEF ClientStep
<1>5. CASE UNCHANGED vars
  BY <1>5 DEF vars, handleVars, mainVars, inputVars, outputVars, DataInv, InputInv,
     OutputInv, GotdataInv, Pending, OnList
<1> QED
  BY <1>1, <1>2, <1>3, <1>4, <1>5 DEF Next

\* Both invariants hold throughout.
\* Code: all of handle-io.c.
LEMMA DataHolds == Spec => [](IInv /\ DataInv)
<1>1. Init => DataInv
  BY DataInit
<1>2. IInv /\ DataInv /\ [Next]_vars => DataInv'
  BY DataStep
<1> QED
  BY <1>1, <1>2, InvariantHolds, PTL DEF Spec

\* The buffers are never in two hands, the bytes a WriteFile is at work on are the
\* next ones for the device, and no client has more than MAX_BACKLOG to look after,
\* for any number of handles and any MAX_BACKLOG.
\* Code: the ctx->buffer hand-over in both thread functions and handle_ready;
\* handle_throttle, handle_unthrottle.
THEOREM BuffersCorrect == Spec => []BuffersSound
<1>1. IInv /\ DataInv => BuffersSound
  <2> SUFFICES ASSUME IInv, DataInv PROVE BuffersSound
    OBVIOUS
  <2>1. TypeOK /\ BacklogBounded
    BY DEF IInv, DataInv, InputInv, BacklogBounded
  <2>2. mpc = "gotdata" => tpc[cur] # "io" /\ buf[cur] = got[cur]
    BY DEF DataInv, GotdataInv
  <2>3. ASSUME NEW h \in Outputs, tpc[h] = "io" PROVE obuf[h] = con[h] /\ obuf[h] = dev[h]
    <3>1. h \in Handles
      BY DEF Handles
    <3>2. alloc[h] = "live" /\ ~done[h] /\ ~Pending(h)
      BY <2>3, <3>1 DEF IInv, HolderInv, DyingInv, ThreadHolds, Pending
    <3> QED
      BY <2>3, <3>2 DEF IInv, DataInv, OutputInv, WriteInv
  <2> QED
    BY <2>1, <2>2, <2>3 DEF BuffersSound
<1> QED
  BY <1>1, DataHolds, PTL

\* gotdata gets the unit that comes after the last one it got.
\* Code: handle_ready.
LEMMA GotNext ==
  ASSUME IInv, DataInv, [Next]_vars, NEW h \in Inputs, got'[h] # got[h]
  PROVE  got'[h] = got[h] + 1
<1> USE DEF IInv, TypeOK, handleVars, mainVars, inputVars, outputVars
<1>1. PICK g \in Inputs : ReadyInput(g) /\ io[g] # "end"
  <2>1. \A g \in Inputs : ReadyInput(g) /\ io[g] = "end" => got' = got
    BY DEF ReadyInput
  <2>2. \A g \in Handles : ~ThreadStep(g) /\ ~DeviceStep(g)
    BY DEF ThreadStep, DeviceStep, ThreadAddsToReadyList, ThreadWakes, ReadData,
       ReadEnd, WriteData, WriteError
  <2>3. ~ClientStep /\ ~UNCHANGED vars
    BY DEF ClientStep, HandleInputNew, HandleOutputNew, HandleWrite, HandleWriteEof,
       HandleUnthrottle, HandleFree, vars
  <2>4. MainStep
    BY <2>2, <2>3 DEF Next
  <2> QED
    BY <2>1, <2>4 DEF MainStep, MainWakes, MainLoopEnds, ReadyMoribund, ReadyOutput,
       GotdataReturns, SentdataReturns, EndCallbackReturns
<1>2. g = h /\ got'[h] = buf[h]
  BY <1>1 DEF ReadyInput, InputTypes
<1>3. h \in Handles /\ OnList(h, ready)
  BY <1>1, <1>2, OnTail DEF ReadyInput, MainTypes, Handles
<1>4. ~done[h] /\ io[h] = "ok"
  BY <1>1, <1>2, <1>3 DEF ReadyInput, HandleTypes, HolderInv, DyingInv
<1> QED
  BY <1>2, <1>3, <1>4 DEF DataInv, InputInv, Pending

\* The EOF goes out only from an output that rests, with nothing left to write.
\* Code: handle_try_output.
LEMMA EofLast ==
  ASSUME IInv, DataInv, [Next]_vars, NEW h \in Outputs, eof'[h] = "sent", eof[h] # "sent"
  PROVE  dev[h] = acc[h]
<1> USE DEF IInv, TypeOK, handleVars, mainVars, inputVars, outputVars
<1>h. h \in Handles
  BY DEF Handles
<1>1. ASSUME NEW g \in Outputs, NEW to \in Nat, NEW e \in {"no", "pending", "sent"},
             HandleTryOutput(g, con[g], to, e), e = "sent" => eof[g] = "sent"
      PROVE  h = g /\ ~busy[h] /\ ~(con[h] < to) /\ e = "pending"
  BY <1>1 DEF HandleTryOutput, OutputTypes
<1>2. ~busy[h] /\ ~(con[h] < acc[h]) /\ alloc[h] = "live"
  <2>1. \A g \in Handles : ~ThreadStep(g) /\ ~DeviceStep(g)
    BY DEF ThreadStep, DeviceStep, ThreadAddsToReadyList, ThreadWakes, ReadData,
       ReadEnd, WriteData, WriteError
  <2>2. ~UNCHANGED vars
    BY DEF vars
  <2>3. CASE MainStep
    <3>1. SentdataReturns
      BY <2>3 DEF MainStep, MainWakes, MainLoopEnds, ReadyMoribund, ReadyInput,
         ReadyOutput, GotdataReturns, EndCallbackReturns
    <3>2. /\ cur \in Outputs /\ alloc[cur] = "live" /\ acc[cur] \in Nat
          /\ eof[cur] \in {"no", "pending", "sent"}
          /\ HandleTryOutput(cur, con[cur], acc[cur], eof[cur])
      BY <3>1 DEF SentdataReturns, CallbackInv, OutputTypes
    <3> QED
      BY <1>1, <3>2
  <2>4. CASE ClientStep
    <3>1. ASSUME NEW g \in Outputs, NEW n \in 1 .. WriteBound, HandleWrite(g, n)
          PROVE  FALSE
      <4>1. acc[g] + n \in Nat /\ HandleTryOutput(g, con[g], acc[g] + n, "no")
        BY <3>1, BoundsAssumption DEF HandleWrite, OutputTypes
      <4> QED
        BY <1>1, <4>1
    <3>2. PICK g \in Outputs : HandleWriteEof(g)
      BY <2>4, <3>1 DEF ClientStep, HandleInputNew, HandleOutputNew, HandleUnthrottle,
         HandleFree
    <3>3. acc[g] \in Nat /\ alloc[g] = "live" /\ HandleTryOutput(g, con[g], acc[g], "pending")
      BY <3>2 DEF HandleWriteEof, Usable, OutputTypes
    <3> QED
      BY <1>1, <3>3
  <2> QED
    BY <2>1, <2>2, <2>3, <2>4 DEF Next
<1>3. ~Pending(h) /\ ~done[h]
  BY <1>h, <1>2 DEF HolderInv, DyingInv, ThreadHolds, Pending
<1>4. con[h] = acc[h]
  BY <1>2 DEF OutputTypes
<1> QED
  BY <1>2, <1>3, <1>4 DEF DataInv, OutputInv

\* Every unit read reaches gotdata once and in order, and the outgoing EOF closes
\* the HANDLE only when everything accepted before it has reached the device, for
\* any number of handles and any amount of data.
\* Code: handle_input_threadfunc, handle_ready; handle_try_output, handle_write_eof.
THEOREM StreamsCorrect == Spec => StreamsInOrder
<1>1. IInv /\ DataInv /\ [Next]_vars => [InputInOrder /\ EofAfterData]_vars
  BY GotNext, EofLast DEF InputInOrder, EofAfterData
<1> QED
  BY <1>1, DataHolds, PTL DEF Spec, StreamsInOrder

=============================================================================
