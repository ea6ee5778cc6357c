-------------------------------- MODULE Xfer --------------------------------
(***************************************************************************)
(* File transfers over SFTP: the queue of pipelined requests in            *)
(* putty/ssh/sftp.c, and the four loops that drive it: psftp's get and put *)
(* and pscp's receiving and sending side.  Reads and writes are sent       *)
(* ahead; the server may answer them in any order, find the end of the     *)
(* file, or fail; a remote file may grow while it is read.  The connection *)
(* or the client may go at any moment, and the user may then go on with    *)
(* psftp's reget or reput where the copy ends.                             *)
(*                                                                         *)
(* Sizes and offsets count units of data.  A struct req is known by its    *)
(* offset, which no two requests of a transfer share.                      *)
(***************************************************************************)
EXTENDS Integers, Sequences, FiniteSets, SequencesExt, FiniteSetsExt

CONSTANTS
  Clients,     \* of "get" and "put" (psftp), "pscp" (downloading) and "send" (pscp uploading)
  Block,       \* rr->len of a download, 32768
  MaxTotal,    \* req_maxsize, 1048576
  Piece,       \* what put reads at a time, 4096
  Sizes,       \* sizes of the file when it is opened
  MaxSize,     \* bound of the model: the size a file grows to
  AnyOrder, Growing, Failing   \* clients whose server answers in any order, whose
               \* remote file grows, and who meet failures, local and remote

ASSUME XferAssumption ==
  /\ {Block, MaxTotal, Piece, MaxSize} \subseteq Nat \ {0} /\ Sizes \subseteq 0..MaxSize
  /\ Clients \subseteq {"get", "put", "pscp", "send"}

VARIABLES
  client,
  size,       \* the file's size: of the remote one, or the local one for "put"
  statsize,   \* act.size: what stat said before pscp opened the file
  xfer,       \* struct fxp_xfer, with its queue of struct req
  table,      \* sftp_requests: what the ids in use are for
  asked,      \* the requests the server has not carried out
  replies,    \* its replies that have not been read
  dest,       \* the copy: how much there is of it, and whether that is in order
  toret,      \* no error has been seen
  stage,      \* "copying", "done", "lost" (interrupted), or "died" (pscp's bump)
  basis,      \* what this transfer began with: "nothing", "prefix" or "gap"
  faults      \* assertions that have failed

vars == <<client, size, statsize, xfer, table, asked, replies, dest, toret, stage, basis, faults>>

Uploading == client \in {"put", "send"}

Infinite == MaxSize + MaxTotal + Block    \* UINT64_MAX

XferInit(offset) ==
  [offset |-> offset, furthestdata |-> 0, filesize |-> Infinite,
   totalsize |-> 0, eof |-> Uploading, err |-> FALSE, queue |-> <<>>]

XferDone(x) == (x.eof \/ x.err) /\ x.queue = <<>>

\* sftp_alloc_request: the k-th of the lowest ids that are not in use.
Ids(tab) == {t.id : t \in tab}
FreeId(tab, k) ==
  CHOOSE i \in 0 .. (Cardinality(Ids(tab)) + k - 1) : i \notin Ids(tab) /\ Cardinality((0..i) \ Ids(tab)) = k

\* n requests are put on the queue and sent (sftp_register, fxp_set_userdata).
Queued(s, len, n) ==
  LET at(k) == s.x.offset + (k - 1) * len
  IN  [x |-> [s.x EXCEPT !.queue = @ \o [k \in 1..n |->
                           [offset |-> at(k), len |-> len, retlen |-> 0, complete |-> 0]],
                         !.offset = @ + n * len, !.totalsize = @ + n * len],
       table |-> s.table \cup {[id |-> FreeId(s.table, k), rr |-> at(k)] : k \in 1..n},
       asked |-> s.asked \o [k \in 1..n |->
                   [id |-> FreeId(s.table, k), offset |-> at(k), len |-> len]]]

\* xfer_download_queue.
DownloadQueue(s) ==
  LET n == (MaxTotal - s.x.totalsize + Block - 1) \div Block
  IN  Queued(s, Block, IF s.x.eof \/ s.x.err \/ n < 0 THEN 0 ELSE n)

\* xfer_download_init or xfer_upload_init, and what is sent first.
Started(offset) ==
  LET s == [x |-> XferInit(offset), table |-> {}, asked |-> <<>>]
  IN  IF Uploading THEN s ELSE DownloadQueue(s)

Init ==
  /\ client \in Clients /\ size \in Sizes /\ statsize = size /\ basis = "nothing"
  /\ LET t == Started(0) IN  xfer = t.x /\ table = t.table /\ asked = t.asked
  /\ replies = <<>> /\ dest = [len |-> 0, inorder |-> TRUE, stored |-> {}]
  /\ toret = TRUE /\ stage = "copying" /\ faults = {}
-----------------------------------------------------------------------------
(* The server *)

\* What a read of this request finds.
Found(req) ==
  IF req.offset >= size THEN [id |-> req.id, status |-> "EOF", len |-> 0]
  ELSE [id |-> req.id, status |-> "DATA", len |-> Min({req.len, size - req.offset})]

\* A request is carried out, or fails.
Answer(k) ==
  LET req == asked[k]
      failed == [id |-> req.id, status |-> "FAILURE", len |-> 0]
      stored == [id |-> req.id, status |-> "OK", len |-> 0]
  IN  /\ client \in AnyOrder \/ k = 1
      /\ asked' = RemoveAt(asked, k)
      /\ \/ /\ ~Uploading /\ replies' = Append(replies, Found(req))
            /\ UNCHANGED dest
         \/ /\ Uploading /\ replies' = Append(replies, stored)
            /\ dest' = [dest EXCEPT !.stored = @ \cup (req.offset .. req.offset + req.len - 1)]
         \/ /\ client \in Failing /\ replies' = Append(replies, failed)
            /\ UNCHANGED dest
      /\ UNCHANGED <<client, size, statsize, xfer, table, toret, stage, basis, faults>>

\* The remote file grows.
Grow ==
  /\ client \in Growing /\ size < MaxSize /\ size' = size + 1
  /\ UNCHANGED <<client, statsize, xfer, table, asked, replies, dest, toret, stage, basis, faults>>
-----------------------------------------------------------------------------
(* putty/ssh/sftp.c: a reply has come *)

\* sftp_find_request: the struct req that the reply is for.
Replied(rep) == (CHOOSE t \in table : t.id = rep.id).rr
IndexOf(x, offset) == CHOOSE k \in DOMAIN x.queue : x.queue[k].offset = offset

\* Mutant of DownloadGotpkt: the sizes are not compared.
DownloadGotpkt_Unchecked(x, rep) ==
  LET k == IndexOf(x, Replied(rep))
      failed == rep.status = "FAILURE"
  IN  [x EXCEPT !.queue[k].complete = IF failed THEN -1 ELSE 1, !.queue[k].retlen = rep.len,
                !.eof = @ \/ rep.status = "EOF", !.err = @ \/ failed]

\* xfer_download_gotpkt.  The end of the file is a reply without data.  A reply with
\* less than was asked for shows the file's size; one with data beyond that is an error.
DownloadGotpkt(x, rep) ==
  LET k == IndexOf(x, Replied(rep))
      rr == x.queue[k]
      furthest == IF rep.len > 0 THEN Max({x.furthestdata, rr.offset}) ELSE x.furthestdata
      filesize == IF rep.len < rr.len THEN Min({x.filesize, rr.offset + rep.len}) ELSE x.filesize
  IN  IF rep.status = "FAILURE"
      THEN [x EXCEPT !.queue[k].complete = -1, !.err = TRUE]
      ELSE [x EXCEPT !.queue[k] = [@ EXCEPT !.complete = 1, !.retlen = rep.len],
                     !.eof = @ \/ rep.status = "EOF",
                     !.furthestdata = furthest, !.filesize = filesize,
                     !.err = @ \/ furthest > filesize]

\* ... and it returned an error.
GotError(x, rep) ==
  LET y == DownloadGotpkt(x, rep)
  IN  rep.status = "FAILURE" \/ y.furthestdata > y.filesize

\* How many requests at the head of the queue one call of xfer_download_data takes
\* off, for the first that has not failed; and all the calls of psftp's loop.
Completed(q) == {k \in DOMAIN q : \A j \in 1..k : q[j].complete # 0}
FirstData(q) == {k \in Completed(q) : \A j \in 1..(k - 1) : q[j].complete < 0}

\* Mutant of Dequeue: the requests go on counting.
Dequeue_Counted(x, n) == [x EXCEPT !.queue = SubSeq(@, n + 1, Len(@))]

Dequeue(x, n) ==
  [x EXCEPT !.queue = SubSeq(@, n + 1, Len(@)), !.totalsize = @ - n * Block]

\* The data of a request, and of the first n, appended to the local file.
AppendOne(d, rr) ==
  IF rr.complete < 0 THEN d
  ELSE [d EXCEPT !.len = @ + rr.retlen, !.inorder = @ /\ (rr.retlen > 0 => rr.offset = d.len)]

Appended(d, q, n) ==
  LET file[k \in 0..n] == IF k = 0 THEN d ELSE AppendOne(file[k - 1], q[k])
  IN  file[n]
-----------------------------------------------------------------------------
(* The loops of psftp.c *)

\* A reply is read; what remains is the same in all the loops.
Read(rep) ==
  /\ replies # <<>> /\ rep = Head(replies) /\ replies' = Tail(replies)
  /\ UNCHANGED <<client, size, statsize, basis>>

\* The loop goes on to xfer_download_queue, or ends.
GoOn(x) ==
  LET s == [x |-> x, table |-> {t \in table : t.id # Head(replies).id}, asked |-> asked]
      t == IF XferDone(x) THEN s ELSE DownloadQueue(s)
  IN  xfer' = t.x /\ table' = t.table /\ asked' = t.asked

\* One turn of the loop of sftp_get_file.  When the local file cannot be written the
\* transfer is given up, though its replies are still waited for.
Get ==
  \E rep \in Range(replies), written \in BOOLEAN :
    LET x == DownloadGotpkt(xfer, rep)
        n == Max({0} \cup Completed(x.queue))
        y == Dequeue(x, n)
        z == [y EXCEPT !.err = @ \/ ~written]
    IN  /\ client = "get" /\ stage = "copying" /\ Read(rep)
        /\ written \/ (client \in Failing /\ n > 0)
        /\ dest' = IF written THEN Appended(dest, x.queue, n) ELSE [dest EXCEPT !.inorder = FALSE]
        /\ toret' = (toret /\ written /\ ~GotError(xfer, rep))
        /\ GoOn(z) /\ stage' = IF XferDone(z) THEN "done" ELSE stage
        /\ UNCHANGED faults

\* The local file that put reads, whose position is xfer's offset.
LocalLeft == size - xfer.offset

\* sftp_put_file, and source with scp_send_filedata: xfer_upload_ready says yes, and a
\* piece is read and sent.
PutSend ==
  LET t == Queued([x |-> xfer, table |-> table, asked |-> asked], Min({Piece, LocalLeft}), 1)
  IN  /\ Uploading /\ stage = "copying" /\ toret /\ LocalLeft > 0
      /\ xfer' = t.x /\ table' = t.table /\ asked' = t.asked
      /\ UNCHANGED <<client, size, statsize, replies, dest, toret, stage, basis, faults>>

\* The local file cannot be read; pscp's source gives up with a bump.
PutReadFails ==
  /\ Uploading /\ stage = "copying" /\ client \in Failing /\ toret /\ LocalLeft > 0
  /\ toret' = FALSE /\ stage' = IF client = "send" THEN "died" ELSE stage
  /\ UNCHANGED <<client, size, statsize, xfer, table, asked, replies, dest, basis, faults>>

\* Mutant of UploadOk: an error of the server is taken for success.
UploadOk_Always(rep) == TRUE

\* xfer_upload_gotpkt's result.
UploadOk(rep) == rep.status = "OK"

\* xfer_upload_gotpkt: the request leaves the queue, wherever in it it is.
UploadGotpkt(rep) ==
  LET k == IndexOf(xfer, Replied(rep))
  IN  /\ Uploading /\ stage = "copying" /\ Read(rep)
      /\ xfer' = [xfer EXCEPT !.queue = RemoveAt(@, k), !.totalsize = @ - xfer.queue[k].len]
      /\ table' = {t \in table : t.id # rep.id}
      /\ toret' = (toret /\ UploadOk(rep))
      /\ UNCHANGED <<asked, dest, faults>>

\* sftp_put_file remembers an error, and waits for the other replies.
PutReply ==
  \E rep \in Range(replies) : client = "put" /\ UploadGotpkt(rep) /\ UNCHANGED stage

\* pscp does not: an error while it sends ends it, and scp_send_finish returns.
SendReply ==
  \E rep \in Range(replies) :
    /\ client = "send" /\ UploadGotpkt(rep)
    /\ stage' = IF UploadOk(rep) THEN stage ELSE IF LocalLeft > 0 THEN "died" ELSE "done"

\* Mutant of PutEnds: the replies are not waited for.
PutEnds_AtEof ==
  /\ Uploading /\ stage = "copying" /\ (~toret \/ LocalLeft = 0)
  /\ stage' = "done"
  /\ UNCHANGED <<client, size, statsize, xfer, table, asked, replies, dest, toret, basis, faults>>

\* The loop of sftp_put_file, or that of scp_send_finish, ends.
PutEnds ==
  /\ Uploading /\ stage = "copying" /\ (~toret \/ LocalLeft = 0) /\ XferDone(xfer)
  /\ stage' = "done"
  /\ UNCHANGED <<client, size, statsize, xfer, table, asked, replies, dest, toret, basis, faults>>
-----------------------------------------------------------------------------
(* pscp.c: sink, scp_recv_filedata and scp_finish_filerecv *)

\* One turn of sink's loop while received < act.size: one reply is read, and one call
\* of xfer_download_data made.  A read that returns nothing is a lost connection.
PscpGet ==
  \E rep \in Range(replies) :
    LET x == DownloadGotpkt(xfer, rep)
        data == FirstData(x.queue)
        n == IF GotError(xfer, rep) THEN 0 ELSE Max({0} \cup data)
        len == IF n = 0 \/ x.queue[n].complete < 0 THEN 0 ELSE x.queue[n].retlen
        room == Min({Block, statsize - dest.len})
        y == Dequeue(x, n)
        received == dest.len + len
    IN  /\ client = "pscp" /\ stage = "copying" /\ dest.len < statsize /\ Read(rep)
        /\ dest' = IF len > 0 THEN Appended(dest, x.queue, n) ELSE dest
        /\ faults' = IF len <= room THEN faults ELSE faults \cup {"actuallen <= len"}
        /\ toret' = (toret /\ ~GotError(xfer, rep) /\ len > 0)
        /\ stage' = IF GotError(xfer, rep) \/ len = 0 THEN "died" ELSE stage
        /\ GoOn(IF received < statsize THEN y ELSE [y EXCEPT !.err = TRUE])

\* scp_finish_filerecv: the requests sent ahead are waited for, until one fails.
PscpFinish ==
  \E rep \in Range(replies) :
    LET x == DownloadGotpkt(xfer, rep)
        y == IF GotError(xfer, rep) THEN x ELSE Dequeue(x, Max({0} \cup FirstData(x.queue)))
    IN  /\ client = "pscp" /\ stage = "copying" /\ dest.len >= statsize /\ Read(rep)
        /\ toret' = (toret /\ ~GotError(xfer, rep))
        /\ stage' = IF GotError(xfer, rep) THEN "done" ELSE stage
        /\ GoOn([y EXCEPT !.err = TRUE])
        /\ UNCHANGED <<dest, faults>>

\* ... and then the next request is made.
PscpEnds ==
  /\ client = "pscp" /\ stage = "copying" /\ dest.len >= statsize
  /\ XferDone([xfer EXCEPT !.err = TRUE]) /\ stage' = "done"
  /\ UNCHANGED <<client, size, statsize, xfer, table, asked, replies, dest, toret, basis, faults>>

(* Interruption, and psftp's reget and reput *)

\* How much of the local file is there when the loop is broken off: what is due may
\* have been written in part.
Written ==
  LET x == DownloadGotpkt(xfer, Head(replies))
      whole == Appended(dest, x.queue, Max({0} \cup Completed(x.queue)))
  IN  {dest.len} \cup
        IF client = "get" /\ replies # <<>> /\ dest.inorder /\ whole.inorder
        THEN dest.len .. whole.len ELSE {}

\* The connection is lost, or the client is ended.  (A client whose connection is gone
\* ends too.)  What the server has carried out remains.
Interrupt ==
  /\ stage = "copying" /\ basis = "nothing" /\ stage' = "lost"
  /\ \E len \in Written : dest' = [dest EXCEPT !.len = len]
  /\ table' = {} /\ asked' = <<>> /\ replies' = <<>>
  /\ UNCHANGED <<client, size, statsize, xfer, toret, basis, faults>>

RemoteSize == Max({0} \cup {u + 1 : u \in dest.stored})

\* Mutant of Offset: a download begins anew, and is appended to what is there.
Offset_Anew == IF client = "get" THEN 0 ELSE RemoteSize

\* get_file_posn at the end of the local file; attrs.size of fxp_fstat_recv.
Offset == IF client = "get" THEN dest.len ELSE RemoteSize

\* reget or reput, once, after an interruption or a failure.
Resume ==
  LET t == Started(Offset)
      prefix == IF client = "get" THEN dest.inorder ELSE dest.stored = 0..(Offset - 1)
  IN  /\ client \in {"get", "put"} /\ basis = "nothing"
      /\ stage = "lost" \/ (stage = "done" /\ ~toret)
      /\ basis' = (IF prefix THEN "prefix" ELSE "gap")
      /\ stage' = "copying" /\ toret' = TRUE
      /\ xfer' = t.x /\ table' = t.table /\ asked' = t.asked
      /\ UNCHANGED <<client, size, statsize, replies, dest, faults>>
-----------------------------------------------------------------------------
ClientStep ==
  \/ Get \/ PutSend \/ PutReadFails \/ PutReply \/ SendReply \/ PutEnds
  \/ PscpGet \/ PscpFinish \/ PscpEnds

Next == ClientStep \/ Interrupt \/ Resume \/ Grow \/ \E k \in DOMAIN asked : Answer(k)

\* ClientStep is enabled.
ClientCan ==
  /\ stage = "copying"
  /\ \/ replies # <<>>
     \/ Uploading /\ ((toret /\ LocalLeft > 0) \/ XferDone(xfer))
     \/ client = "pscp" /\ dest.len >= statsize /\ xfer.queue = <<>>

\* The server answers, and the client goes on: WF_vars(ClientStep) and weak fairness
\* of the Answers, with their ENABLED written out.
Fairness ==
  /\ []<>(~ClientCan) \/ []<><<ClientStep>>_vars
  /\ []<>(asked = <<>>) \/ []<><<\E k \in DOMAIN asked : Answer(k)>>_vars

Spec == Init /\ [][Next]_vars
FairSpec == Spec /\ Fairness
-----------------------------------------------------------------------------
(* Properties *)

\* A transfer that reports no error is whole.  A download has copied the file, in order
\* and without a gap, to a size it had while it was copied; though blocks come in any
\* order, and the end of the file may be seen by one request and be passed by another
\* when the file grows.  An upload has stored all of the file, whatever piece failed.
\* The same holds of a copy that was broken off anywhere and then gone on with, as long
\* as what was there had no gap; an interrupted download leaves none, unless an error was
\* reported.  pscp gives a download up only for a failure, or, as it takes a read that
\* returns nothing for a lost connection, when replies come out of order or the file grows.
\* Code: xfer_download_gotpkt's filesize and furthestdata, xfer_download_data;
\* sftp_put_file, xfer_upload_gotpkt; the restart branches of psftp.
CopiesWhole ==
  /\ stage = "done" /\ toret /\ basis # "gap" =>
       IF Uploading THEN \E n \in statsize..size : dest.stored = 0..(n - 1)
                    ELSE dest.inorder /\ dest.len \in statsize..size
  /\ stage = "lost" /\ toret => dest.inorder
  /\ stage = "died" => client \in Failing \/ (client = "pscp" /\ client \in AnyOrder \cup Growing)

\* Request ids are used again at once, but every reply finds the request it answers,
\* which is still waiting for it; and after a transfer, with psftp also one that has
\* failed, no reply is left that the next request (sftp_wait_for_reply) would take for
\* its own.
\* pscp, whose buffer is filled by these replies, finds them no longer than it asserts,
\* as long as the file does not grow.
\* Code: sftp_alloc_request, sftp_find_request, xfer_done; scp_recv_filedata.
RepliesMatch ==
  /\ faults = {} \/ client \in Growing
  /\ \A rep \in Range(replies) : rep.id \in Ids(table)
  /\ \A t \in table : \E rr \in Range(xfer.queue) : rr.offset = t.rr /\ rr.complete = 0
  /\ stage = "done" /\ (toret \/ client \in {"get", "put"}) =>
       table = {} /\ asked = <<>> /\ replies = <<>>

\* Every transfer, also one that was gone on with, comes to its end; the requests that may
\* be sent ahead never run out.
\* Code: xfer_done, req_totalsize.
TransferEnds == <>[](stage # "copying")
=============================================================================
