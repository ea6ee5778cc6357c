----------------------------- MODULE Connection2 -----------------------------
(***************************************************************************)
(* The channels of putty/ssh/connection2.c between two ends that both run  *)
(* it (the client, and the server of this repository): opening, windows,   *)
(* data, requests that want a reply, EOF, CLOSE and the reuse of channel   *)
(* numbers, for channels that forward a connection of a local socket       *)
(* (portfwd.c).  An end that is given a channel may hold its window at a   *)
(* fixed size until the first data is there, as x11fwd.c does when         *)
(* connections are shared.                                                 *)
(*                                                                         *)
(* A handler works on x = [c |-> the channel, tx |-> the packets it pushes *)
(* on out_pq, faults |-> the assertions that fail]; the ssh2_... operators *)
(* below take such an x to the next one, in the order of the calls.        *)
(***************************************************************************)
EXTENDS Integers, Sequences, SequencesExt, FiniteSets, FiniteSetsExt

CONSTANTS
  End,          \* the two ends of the SSH connection
  WinSize,      \* OUR_V2_WINSIZE
  MaxWin,       \* the 0x40000000 at which locmaxwin stops growing
  MaxPkt,       \* OUR_V2_MAXPKT
  FixedEnds,    \* ends whose accepted channels begin with a fixed window
  FixedWin,     \* that initial_fixed_window_size
  Listeners,    \* ends with forwarded ports, which open channels
  Id,           \* bound of the model: channel numbers of an end
  MaxOpens,     \* bound of the model: channels opened in all
  Load          \* bound of the model: what each end's local peer writes on the n-th channel

ASSUME EndAssumption ==
  /\ \E a, b \in End : a # b /\ End = {a, b}
  /\ (FixedEnds \cup Listeners) \subseteq End
ASSUME SizeAssumption ==
  /\ {WinSize, MaxWin, MaxPkt, FixedWin, MaxOpens} \subseteq Nat \ {0}
  /\ Id \subseteq Nat /\ Id # {} /\ Load \in [1..MaxOpens -> [End -> Nat]]

VARIABLES
  channels,     \* the tree of struct ssh2_channel of each end, by localid
  net,          \* the packets an end has sent and the other has not handled
  conn_throttle_count,  \* ssh_throttle_conn: not 0 if the end has stopped reading
  inraw,        \* of an end that has stopped: packets it has read (in_raw, in_pq), to be handled
  faults,       \* assertions that have failed
  opens,        \* history: channels opened so far; each one has a number
  stream        \* history: what the sockets at the ends of a channel were given

vars == <<channels, net, conn_throttle_count, inraw, faults, opens, stream>>

NoChannel == [localid |-> 0]
Other(e) == CHOOSE f \in End : f # e
Live == {p \in End \X Id : channels[p[1]][p[2]] # NoChannel}
ChannelAt(p) == channels[p[1]][p[2]]

\* Of the data an end's local peer wrote on a channel, how much the other end's
\* socket has not been given; whether the peer has ended it; and whether the other
\* socket was told so.
NoStream == [owed |-> 0, eof |-> FALSE, ended |-> FALSE]

\* The streams of the n-th channel.  When a socket fails, when the channel is
\* refused or its first data is its end (RcvEof), or when data comes early
\* (SocketClosing), they are cut.
NewStream == [cut |-> FALSE, early |-> FALSE, from |-> [e \in End |-> NoStream]]
Cut(n, early) == [stream EXCEPT ![n] = [NewStream EXCEPT !.cut = TRUE, !.early = @ \/ early]]
Log(n, s) == IF stream[n].cut THEN stream ELSE [stream EXCEPT ![n] = s]

\* A channel made by ssh2_channel_init; n is its number in the history.
NewChannel(id, n, unwritten) ==
  [localid |-> id, remoteid |-> 0, halfopen |-> TRUE, closes |-> {},
   pending_eof |-> FALSE, throttling_conn |-> FALSE, throttled_by_backlog |-> FALSE,
   outbuffer |-> 0, remwindow |-> 0,
   locwindow |-> WinSize, locmaxwin |-> WinSize, remlocwin |-> WinSize,
   chanreqs |-> <<>>, throttle_state |-> "UNTHROTTLED",
   fixed |-> FALSE,           \* chan->initial_fixed_window_size is set
   chan |-> "socket",         \* or "zombie", or "freed" with the channel
   input_wanted |-> FALSE,    \* the socket is not frozen
   socksbuf |-> 0,            \* data that came with the SOCKS request
   ready |-> FALSE,           \* pf->ready
   backlog |-> 0,             \* what the socket still has to send, as sk_write says
   sockeof |-> FALSE,         \* FD_CLOSE has come from the socket
   unwritten |-> unwritten,   \* bound of the model: what its peer may still write
   n |-> n]

Init ==
  /\ channels = [e \in End |-> [i \in Id |-> NoChannel]]
  /\ net = [e \in End |-> <<>>]
  /\ conn_throttle_count = [e \in End |-> 0] /\ inraw = [e \in End |-> 0]
  /\ faults = {} /\ opens = 0
  /\ stream = [n \in 1..MaxOpens |-> NewStream]
-----------------------------------------------------------------------------
(* The functions of connection2.c that act on one channel *)

\* The sum of a sequence of numbers.
Total(w) ==
  LET sum[k \in 0..Len(w)] == IF k = 0 THEN 0 ELSE sum[k - 1] + w[k]
  IN  sum[Len(w)]

Packet(type, c) == [type |-> type, to |-> c.remoteid, from |-> 0, n |-> c.n, len |-> 0]
Push(x, p) == [x EXCEPT !.tx = Append(@, p)]
Asserts(x, ok, what) == IF ok THEN x ELSE [x EXCEPT !.faults = @ \cup {what}]

\* chan_want_close: zombiechan_want_close, or chan_default_want_close.
WantClose(c) == c.chan = "zombie" \/ {"SENT_EOF", "RCVD_EOF"} \subseteq c.closes

\* ssh2_channel_destroy
Destroy(x) ==
  [Asserts(x, x.c.chanreqs = <<>>, "destroyed with requests") EXCEPT !.c.chan = "freed"]

CheckClose(x) ==
  LET c == x.c
      sends == WantClose(c) /\ c.chanreqs = <<>> /\ "SENT_CLOSE" \notin c.closes
      y == IF sends
           THEN [Push(x, Packet("CLOSE", c))
                   EXCEPT !.c.closes = @ \cup {"SENT_EOF", "SENT_CLOSE"}]
           ELSE x
  IN  IF c.halfopen THEN x
      ELSE IF {"SENT_CLOSE", "RCVD_CLOSE"} \subseteq y.c.closes THEN Destroy(y) ELSE y

\* Mutant of TryEof: the data that is still buffered is not waited for.
TryEof_AtOnce(x) ==
  IF x.c.halfopen THEN x
  ELSE CheckClose([Push(x, Packet("EOF", x.c))
                     EXCEPT !.c.pending_eof = FALSE, !.c.closes = @ \cup {"SENT_EOF"}])

TryEof(x) ==
  LET y == Asserts(x, x.c.pending_eof, "no EOF pending")
  IN  IF x.c.halfopen \/ x.c.outbuffer > 0 THEN y
      ELSE CheckClose([Push(y, Packet("EOF", x.c))
                         EXCEPT !.c.pending_eof = FALSE, !.c.closes = @ \cup {"SENT_EOF"}])

\* The packets that n units of data leave in, all but the last of them full.
DataPackets(c, n) ==
  [k \in 1..((n + MaxPkt - 1) \div MaxPkt) |->
     [Packet("DATA", c) EXCEPT !.len = Min({MaxPkt, n - (k - 1) * MaxPkt})]]

TrySend(x) ==
  LET n == IF x.c.halfopen THEN 0 ELSE Min({x.c.outbuffer, x.c.remwindow})
      y == [x EXCEPT !.tx = @ \o DataPackets(x.c, n),
                     !.c.outbuffer = @ - n, !.c.remwindow = @ - n]
  IN  IF y.c.outbuffer = 0 /\ y.c.pending_eof THEN TryEof(y) ELSE y

\* With chan_set_input_wanted; all_channels_throttled is not modelled.
CheckThrottle(x) ==
  LET y == Asserts(x, x.c.chan # "freed", "use after free")
  IN  [y EXCEPT !.c.input_wanted = /\ ~x.c.throttled_by_backlog /\ ~x.c.pending_eof
                                   /\ "SENT_EOF" \notin x.c.closes]

TrySendAndUnthrottle(x) ==
  LET y == TrySend(x)
  IN  IF "SENT_EOF" \in x.c.closes THEN x
      ELSE IF y.c.outbuffer > 0 THEN y
      ELSE CheckThrottle([y EXCEPT !.c.throttled_by_backlog = FALSE])

\* ssh2_chanreq_init, for a winadj@putty.projects.tartarus.org request.
ChanreqInit(x, size) ==
  LET y == Asserts(x, x.c.closes \cap {"SENT_CLOSE", "RCVD_CLOSE"} = {}, "request after CLOSE")
  IN  [Push(y, [Packet("REQUEST", x.c) EXCEPT !.len = size])
         EXCEPT !.c.chanreqs = Append(@, size)]

\* Mutant of SetWindow: what the other end still has is not taken off the adjustment.
SetWindow_Whole(x, newwin) ==
  IF newwin \div 2 < x.c.locwindow \/ "RCVD_EOF" \in x.c.closes THEN x
  ELSE [Push(x, [Packet("WINDOW_ADJUST", x.c) EXCEPT !.len = newwin])
          EXCEPT !.c.locwindow = newwin, !.c.remlocwin = newwin]

\* At the full window the other end is asked when it has read this adjustment.
AskOrSettle(x, newwin) ==
  IF newwin = x.c.locmaxwin
  THEN [ChanreqInit(x, newwin - x.c.locwindow) EXCEPT
          !.c.throttle_state = IF @ = "UNTHROTTLED" THEN @ ELSE "UNTHROTTLING"]
  ELSE [x EXCEPT !.c.remlocwin = newwin, !.c.throttle_state = "THROTTLED"]

Adjust(x, newwin) ==
  [Push(x, [Packet("WINDOW_ADJUST", x.c) EXCEPT !.len = newwin - x.c.locwindow])
     EXCEPT !.c.locwindow = newwin]

SetWindow(x, newwin) ==
  IF \/ x.c.closes \cap {"RCVD_EOF", "SENT_CLOSE"} # {} \/ x.c.fixed
     \/ newwin \div 2 < x.c.locwindow
  THEN x ELSE Adjust(AskOrSettle(x, newwin), newwin)

\* ssh2channel_write, ssh2channel_write_eof, ssh2channel_initiate_close: what
\* the socket at this end of the channel asks for.
Write(x, len) ==
  TrySend([Asserts(x, "SENT_EOF" \notin x.c.closes, "written after EOF")
             EXCEPT !.c.outbuffer = @ + len])

WriteEof(x) ==
  IF "SENT_EOF" \in x.c.closes THEN x ELSE TryEof([x EXCEPT !.c.pending_eof = TRUE])

InitiateClose(x) ==
  CheckClose([x EXCEPT !.c.chan = "zombie", !.c.backlog = 0, !.c.input_wanted = FALSE,
                       !.c.socksbuf = 0, !.c.unwritten = 0, !.c.pending_eof = FALSE])

\* Mutants of Unthrottle: the backlog is not taken off the window; the window is not
\* opened again.
Unthrottle_Whole(x, bufsize) == SetWindow(x, x.c.locmaxwin)
Unthrottle_Never(x, bufsize) == x

\* ... the connection stays throttled.
Unthrottle_Holds(x, bufsize) ==
  IF bufsize < x.c.locmaxwin THEN SetWindow(x, x.c.locmaxwin - bufsize) ELSE x

\* ssh2channel_unthrottle (not in "simple" mode, where there is one channel only).
Unthrottle(x, bufsize) ==
  LET y == IF bufsize < x.c.locmaxwin THEN SetWindow(x, x.c.locmaxwin - bufsize) ELSE x
  IN  [y EXCEPT !.c.throttling_conn = @ /\ bufsize > x.c.locmaxwin]

\* CHANNEL_OPEN_CONFIRMATION, with pfd_open_confirmation: the data of the SOCKS
\* request is sent, and what came before it is made up for.
Ready(x) == [x EXCEPT !.c.ready = TRUE, !.c.input_wanted = TRUE, !.c.socksbuf = 0]
Started(x) ==
  IF x.c.chan # "socket" THEN x
  ELSE IF x.c.socksbuf > 0 THEN Write(Ready(x), x.c.socksbuf) ELSE Ready(x)
Confirmed(x) ==
  LET z == CheckClose(Started(x)) IN  IF z.c.pending_eof THEN TryEof(z) ELSE z

\* CHANNEL_DATA: with a fixed window, the first data is the greeting that ends
\* x11_send's wait; then the socket has bufsize bytes to send, and the window
\* may grow and is opened again.
Greeted(x) ==
  IF x.c.fixed
  THEN SetWindow([x EXCEPT !.c.fixed = FALSE, !.c.ready = TRUE, !.c.input_wanted = TRUE], WinSize)
  ELSE x
Grown(x, bufsize) ==
  [x EXCEPT !.c.backlog = bufsize,
            !.c.locmaxwin = IF /\ x.c.remlocwin <= 0 /\ @ < MaxWin
                               /\ x.c.throttle_state = "UNTHROTTLED"
                            THEN @ + WinSize ELSE @]
Opened(x, bufsize) ==
  LET z == IF bufsize < x.c.locmaxwin THEN SetWindow(x, x.c.locmaxwin - bufsize) ELSE x
  IN  [z EXCEPT !.c.throttling_conn = @ \/ bufsize > z.c.locmaxwin]

\* CHANNEL_FAILURE: ssh2_handle_winadj_response; and what CLOSE makes of all requests.
Replied(x) ==
  [x EXCEPT !.c.remlocwin = @ + Head(x.c.chanreqs),
            !.c.throttle_state = IF @ = "UNTHROTTLING" THEN "UNTHROTTLED" ELSE @,
            !.c.chanreqs = Tail(@)]
AllReplied(x) ==
  [x EXCEPT !.c.remlocwin = @ + Total(x.c.chanreqs),
            !.c.throttle_state = IF x.c.chanreqs # <<>> /\ @ = "UNTHROTTLING"
                                 THEN "UNTHROTTLED" ELSE @,
            !.c.chanreqs = <<>>]

\* CHANNEL_EOF, and chan_send_eof: pfd_send_eof, or x11_send_eof before there is a socket.
SendEof(x) == IF x.c.fixed THEN WriteEof(x) ELSE x
GotEof(x) ==
  IF "RCVD_EOF" \in x.c.closes THEN x ELSE SendEof([x EXCEPT !.c.closes = @ \cup {"RCVD_EOF"}])

\* CHANNEL_CLOSE comes with an EOF, answers the requests that are outstanding,
\* and has the other direction ended without the data that is still there.
Ending(x) ==
  IF "SENT_EOF" \in x.c.closes THEN x ELSE CheckThrottle(WriteEof([x EXCEPT !.c.outbuffer = 0]))
GotClose(x) ==
  IF "RCVD_CLOSE" \in x.c.closes THEN x ELSE CheckClose([x EXCEPT !.c.closes = @ \cup {"RCVD_CLOSE"}])
-----------------------------------------------------------------------------
(* A packet from the other end: ssh2_connection_filter_queue *)

\* The next packet in e's in_pq, if it is of this type.
Incoming(e, type) == {p \in {net[Other(e)][k] : k \in {1} \cap DOMAIN net[Other(e)]} : p.type = type}

\* A packet is for a channel that is there, and is half-open if and only if the
\* packet answers its CHANNEL_OPEN.  Any other is answered by ssh_proto_error,
\* which ends the connection; in the model nothing takes it.
Expected(e, p) ==
  /\ p.to \in Id /\ channels[e][p.to] # NoChannel
  /\ channels[e][p.to].halfopen = (p.type \in {"OPEN_CONFIRMATION", "OPEN_FAILURE"})
  /\ p.type = "FAILURE" => channels[e][p.to].chanreqs # <<>>

At(e, id) == [c |-> channels[e][id], tx |-> <<>>, faults |-> {}]

\* What remains of a handler's work on channel id of e.
Keep(e, id, x) ==
  /\ channels' = [channels EXCEPT ![e][id] = IF x.c.chan = "freed" THEN NoChannel ELSE x.c]
  /\ faults' = faults \cup x.faults
  /\ conn_throttle_count' =
       [conn_throttle_count EXCEPT ![e] =
          @ + (IF x.c.throttling_conn THEN 1 ELSE 0)
            - (IF channels[e][id] # NoChannel /\ channels[e][id].throttling_conn
               THEN 1 ELSE 0)]

\* ... when it was for a socket, and when it was for the next packet.
Did(e, id, x) == Keep(e, id, x) /\ net' = [net EXCEPT ![e] = @ \o x.tx]
Handled(e, id, x) ==
  Keep(e, id, x) /\ net' = [net EXCEPT ![e] = @ \o x.tx, ![Other(e)] = Tail(@)]

\* alloc_channel_id_general: the lowest number that is free.
FreeIds(e) == {i \in Id : channels[e][i] = NoChannel}

\* CHANNEL_OPEN, which may be refused.
RcvOpen(e) ==
  \E p \in Incoming(e, "OPEN") :
    LET c == [NewChannel(0, p.n, Load[p.n][e]) EXCEPT !.remoteid = p.from]
        id == Min(FreeIds(e))
        a == [c EXCEPT !.localid = id, !.halfopen = FALSE, !.remwindow = p.len]
        accepted ==
          IF e \in FixedEnds
          THEN [a EXCEPT !.locwindow = FixedWin, !.locmaxwin = FixedWin, !.remlocwin = FixedWin,
                         !.fixed = TRUE]
          ELSE [a EXCEPT !.ready = TRUE, !.input_wanted = TRUE]
        confirm == [Packet("OPEN_CONFIRMATION", accepted)
                      EXCEPT !.from = id, !.len = accepted.locwindow]
    IN  /\ \/ /\ FreeIds(e) # {}
              /\ Handled(e, id, [c |-> accepted, tx |-> <<confirm>>, faults |-> {}])
           \/ /\ net' = [net EXCEPT ![e] = Append(@, Packet("OPEN_FAILURE", c)),
                                    ![Other(e)] = Tail(@)]
              /\ UNCHANGED <<channels, conn_throttle_count, faults>>
        /\ UNCHANGED <<opens, stream>>

RcvConfirmation(e) ==
  \E p \in Incoming(e, "OPEN_CONFIRMATION") :
    /\ Expected(e, p)
    /\ Handled(e, p.to, Confirmed([At(e, p.to) EXCEPT !.c.remoteid = p.from, !.c.halfopen = FALSE,
                                                      !.c.remwindow = p.len]))
    /\ UNCHANGED <<opens, stream>>

\* CHANNEL_OPEN_FAILURE: the channel and its socket are freed.
RcvOpenFailure(e) ==
  \E p \in Incoming(e, "OPEN_FAILURE") :
    /\ Expected(e, p)
    /\ Handled(e, p.to, [At(e, p.to) EXCEPT !.c.chan = "freed"])
    /\ stream' = Cut(p.n, FALSE)
    /\ UNCHANGED opens

\* What remains to be sent when the socket is given this much: it sends at once unless a
\* backlog waits for FD_WRITE; a zombie channel has no socket.
Remains(c, len) ==
  IF c.chan = "zombie" THEN {0} ELSE IF c.backlog > 0 THEN {c.backlog + len} ELSE 0..len

\* CHANNEL_DATA.  The socket has bufsize bytes to send when chan_send returns.
RcvData(e) ==
  \E p \in Incoming(e, "DATA") :
    /\ Expected(e, p)
    /\ \E bufsize \in Remains(channels[e][p.to], p.len) :
         LET x == [At(e, p.to) EXCEPT !.c.locwindow = @ - p.len, !.c.remlocwin = @ - p.len]
         IN  Handled(e, p.to, Opened(Grown(Greeted(x), bufsize), bufsize))
    /\ stream' = Log(p.n, [stream[p.n] EXCEPT !.from[Other(e)].owed = @ - p.len])
    /\ UNCHANGED opens

RcvWindowAdjust(e) ==
  \E p \in Incoming(e, "WINDOW_ADJUST") :
    LET x == At(e, p.to)
    IN  /\ Expected(e, p)
        /\ Handled(e, p.to,
             IF "SENT_EOF" \in x.c.closes THEN x
             ELSE TrySendAndUnthrottle([x EXCEPT !.c.remwindow = @ + p.len]))
        /\ UNCHANGED <<opens, stream>>

\* Mutant of RcvRequest: a reply is sent after CLOSE, too.
RcvRequest_AfterClose(e) ==
  \E p \in Incoming(e, "REQUEST") :
    /\ Expected(e, p)
    /\ Handled(e, p.to,
         Push(At(e, p.to), [Packet("FAILURE", channels[e][p.to]) EXCEPT !.len = p.len]))
    /\ UNCHANGED <<opens, stream>>

\* CHANNEL_REQUEST: winadj is none of the requests that are known.
RcvRequest(e) ==
  \E p \in Incoming(e, "REQUEST") :
    LET x == At(e, p.to)
    IN  /\ Expected(e, p)
        /\ Handled(e, p.to,
             IF "SENT_CLOSE" \in x.c.closes THEN x
             ELSE Push(x, [Packet("FAILURE", x.c) EXCEPT !.len = p.len]))
        /\ UNCHANGED <<opens, stream>>

\* Mutant of RcvFailure: CLOSE is not sent when it waited for this reply only.
RcvFailure_NoClose(e) ==
  \E p \in Incoming(e, "FAILURE") :
    LET x == At(e, p.to)
    IN  /\ Expected(e, p)
        /\ Handled(e, p.to,
             [x EXCEPT !.c.remlocwin = @ + Head(x.c.chanreqs), !.c.chanreqs = Tail(@)])
        /\ UNCHANGED <<opens, stream>>

RcvFailure(e) ==
  \E p \in Incoming(e, "FAILURE") :
    /\ Expected(e, p)
    /\ Handled(e, p.to, CheckClose(Replied(At(e, p.to))))
    /\ UNCHANGED <<opens, stream>>

\* The end of the stream is known, at a socket; there is none while the window is fixed.
Ended(e, c) == IF c.fixed THEN Cut(c.n, FALSE)
               ELSE Log(c.n, [stream[c.n] EXCEPT !.from[Other(e)].ended = TRUE])

RcvEof(e) ==
  \E p \in Incoming(e, "EOF") :
    LET x == At(e, p.to)
    IN  /\ Expected(e, p)
        /\ Handled(e, p.to, IF "RCVD_EOF" \in x.c.closes THEN x ELSE CheckClose(GotEof(x)))
        /\ stream' = Ended(e, x.c)
        /\ UNCHANGED opens

RcvClose(e) ==
  \E p \in Incoming(e, "CLOSE") :
    LET x == At(e, p.to)
    IN  /\ Expected(e, p)
        /\ Handled(e, p.to, GotClose(Ending(AllReplied(GotEof(x)))))
        /\ stream' = Ended(e, x.c)
        /\ UNCHANGED opens

\* ssh_check_frozen: while the connection is throttled its socket is frozen, and only what
\* had been read before is handled.
Reads(e) == conn_throttle_count[e] = 0 \/ inraw[e] > 0

Receive(e) ==
  /\ Reads(e)
  /\ \/ RcvOpen(e) \/ RcvConfirmation(e) \/ RcvOpenFailure(e) \/ RcvData(e)
     \/ RcvWindowAdjust(e) \/ RcvRequest(e) \/ RcvFailure(e) \/ RcvEof(e) \/ RcvClose(e)

\* Any of the packets on their way may have been read when the socket is frozen.
Freeze(e) ==
  LET waiting == Len(net'[Other(e)])
  IN  \E k \in 0..waiting :
        /\ inraw' = [inraw EXCEPT ![e] = k]
        /\ conn_throttle_count'[e] = 0 => k = 0
        /\ conn_throttle_count[e] > 0 /\ conn_throttle_count'[e] > 0 =>
             k = inraw[e] - (Len(net[Other(e)]) - waiting)
-----------------------------------------------------------------------------
(* The sockets at the two ends (portfwd.c), and their local peers *)

\* pfl_accepting or pfd_receive: a channel is opened for a new connection; with
\* a SOCKS request there may come data.
OpenChannel(e, socks) ==
  LET n == opens + 1
      id == Min(FreeIds(e))
      c == [NewChannel(id, n, Load[n][e] - socks) EXCEPT !.socksbuf = socks]
      p == [Packet("OPEN", c) EXCEPT !.from = id, !.len = c.locwindow]
  IN  /\ e \in Listeners /\ FreeIds(e) # {} /\ n <= MaxOpens /\ socks <= Load[n][e]
      /\ opens' = n
      /\ Did(e, id, [c |-> c, tx |-> <<p>>, faults |-> {}])
      /\ stream' = Log(n, [stream[n] EXCEPT !.from[e].owed = socks])

\* The channel has a socket, which is that of a live connection.
Socket(e, id) == /\ channels[e][id] # NoChannel /\ ~channels[e][id].fixed
                 /\ channels[e][id].chan = "socket"

\* pfd_receive: data, while the socket is not frozen.
SocketReceive(e, id) ==
  LET x == At(e, id)
  IN  /\ Socket(e, id) /\ x.c.input_wanted /\ ~x.c.sockeof
      /\ \E len \in 1..x.c.unwritten :
           /\ Did(e, id, Write([x EXCEPT !.c.unwritten = @ - len], len))
           /\ stream' = Log(x.c.n, [stream[x.c.n] EXCEPT !.from[e].owed = @ + len])
      /\ UNCHANGED opens

\* FD_CLOSE of a network socket: the data that is left is read, even when the
\* socket is frozen, and pfd_receive drops it unless pf->ready; then pfd_closing.
SocketClosing(e, id) ==
  LET x == At(e, id)
      y == [x EXCEPT !.c.sockeof = TRUE, !.c.unwritten = 0]
  IN  /\ Socket(e, id) /\ ~x.c.sockeof
      /\ \E len \in 0..x.c.unwritten :
           /\ Did(e, id, WriteEof(IF len > 0 /\ x.c.ready THEN Write(y, len) ELSE y))
           /\ stream' = IF len > 0 /\ ~x.c.ready THEN Cut(x.c.n, TRUE)
                        ELSE Log(x.c.n, [stream[x.c.n] EXCEPT !.from[e].owed = @ + len,
                                                              !.from[e].eof = TRUE])
      /\ UNCHANGED opens

\* pfd_closing with an error.
SocketError(e, id) ==
  LET x == At(e, id)
  IN  /\ Socket(e, id)
      /\ Did(e, id, InitiateClose(x))
      /\ stream' = Cut(x.c.n, FALSE)
      /\ UNCHANGED opens

\* pfd_sent: some of the backlog has left, and bufsize is what remains.
SocketSent(e, id) ==
  LET x == At(e, id)
  IN  /\ Socket(e, id)
      /\ \E bufsize \in 0..(x.c.backlog - 1) :
           Did(e, id, Unthrottle([x EXCEPT !.c.backlog = bufsize], bufsize))
      /\ UNCHANGED <<opens, stream>>

Next ==
  \E e \in End :
    /\ \/ Receive(e)
       \/ \E socks \in {0, 1} : OpenChannel(e, socks)
       \/ \E id \in Id :
            SocketReceive(e, id) \/ SocketClosing(e, id) \/ SocketError(e, id) \/ SocketSent(e, id)
    /\ Freeze(e)

\* The step handles the next packet that e has been sent.
Takes(e) == net[Other(e)] # <<>> /\ net'[Other(e)] = Tail(net[Other(e)])

\* Each end goes on handling packets unless it has stopped, which is WF_vars(Receive(e))
\* with its ENABLED written out (by NoProtocolError every packet can be taken), and each
\* socket's local peer goes on reading.
Fairness ==
  \A e \in End :
    /\ []<>(net[Other(e)] = <<>> \/ ~Reads(e)) \/ []<><<Takes(e)>>_net
    /\ \A id \in Id : []<>(channels[e][id] # NoChannel => channels[e][id].backlog = 0)

Spec == Init /\ [][Next]_vars
FairSpec == Spec /\ Fairness
-----------------------------------------------------------------------------
(* Properties *)

Mates(p, q) == p[1] # q[1] /\ ChannelAt(p).n = ChannelAt(q).n

\* The packets of the n-th channel, and how much those of a type come to.
Picked(w, T) ==
  LET picked[k \in 0..Len(w)] ==
        IF k = 0 THEN <<>> ELSE IF k \in T THEN Append(picked[k - 1], w[k]) ELSE picked[k - 1]
  IN  picked[Len(w)]
Of(pkts, n) == Picked(pkts, {k \in DOMAIN pkts : pkts[k].n = n})
Lens(pkts, type) == [k \in DOMAIN pkts |-> IF pkts[k].type = type THEN pkts[k].len ELSE 0]
InFlight(e, type, n) == Total(Lens(Of(net[e], n), type))

\* Though channel numbers are used again, no packet reaches a channel it was not
\* sent to, or one that is not there or not ready for it (ssh_proto_error in
\* ssh2_connection_filter_queue); each reply is taken for the request it answers;
\* and the assertions of connection2.c hold.
NoProtocolError ==
  /\ faults = {}
  /\ \A e \in End : net[Other(e)] # <<>> =>
       LET p == Head(net[Other(e)])
       IN  p.type # "OPEN" =>
             /\ Expected(e, p) /\ channels[e][p.to].n = p.n
             /\ p.type = "FAILURE" => p.len = Head(channels[e][p.to].chanreqs)

BacklogWithinWindow ==
  \A p \in Live : p[1] \notin FixedEnds =>
    /\ ChannelAt(p).locwindow + ChannelAt(p).backlog <= ChannelAt(p).locmaxwin
    /\ ~ChannelAt(p).throttling_conn

\* What ssh2_try_send counts as remwindow, the data and the WINDOW_ADJUSTs on
\* their way always make up the other end's locwindow, until EOF is sent; what
\* is on its way never exceeds that window; and remlocwin, the estimate that
\* decides whether the window grows, is never below what the acknowledged
\* adjustments come to.  So an end that keeps to its window
\* never makes the other throttle the whole connection: a channel's window and the
\* backlog of its socket fit into locmaxwin.
\* Code: ssh2_try_send, ssh2_set_window, ssh2_channel_unthrottle.
WindowsAgree ==
  /\ \A p, q \in Live : Mates(p, q) =>
      LET c == ChannelAt(p)
          d == ChannelAt(q)
          data == InFlight(p[1], "DATA", c.n)
      IN  /\ ~c.halfopen /\ "SENT_EOF" \notin c.closes =>
               c.remwindow + data + InFlight(q[1], "WINDOW_ADJUST", c.n) = d.locwindow
          /\ data <= d.locwindow
          /\ d.remlocwin + Total(d.chanreqs) >= d.locwindow
  /\ BacklogWithinWindow

\* A socket is told of the end of the data (chan_send_eof) only when it has been
\* given all that the other end's local peer wrote and ended, unless a socket
\* failed or FD_CLOSE brought data too early.
StreamsWhole ==
  \A n \in 1..MaxOpens, e \in End :
    LET s == stream[n].from[e]
    IN  s.owed >= 0 /\ (s.ended => s.eof /\ s.owed = 0)

\* An end that reads nothing more, ever: it has handled all it had read, and the connection
\* is throttled for a channel that is a zombie or is destroyed (both forget throttling_conn).
Unthrottles(e) ==
  {id \in Id : /\ channels[e][id] # NoChannel
               /\ channels[e][id].throttling_conn /\ channels[e][id].chan = "socket"}
Stuck(e) == ~Reads(e) /\ conn_throttle_count[e] > Cardinality(Unthrottles(e))

\* What a local peer has written and ended reaches the other end's socket with
\* its end, while the local peers read, unless an end is stuck: no window stays closed for
\* ever, and no connection stays throttled for a live socket.  (An end gets stuck only by a
\* channel with a fixed window: no other throttles, by WindowsAgree.)
\* Code: ssh2_set_window, ssh2channel_unthrottle, ssh_throttle_conn.
DataArrives ==
  \A n \in 1..MaxOpens, e \in End :
    stream[n].from[e].eof ~> stream[n].cut \/ stream[n].from[e].ended \/ \E f \in End : Stuck(f)

\* A channel whose socket has failed, or that has sent CLOSE, gives its number back,
\* unless an end is stuck: the two ends never wait for each other's reply or CLOSE for ever.
\* Code: ssh2_channel_check_close, ssh2_handle_winadj_response.
ChannelsClose ==
  \A e \in End, id \in Id, n \in 1..MaxOpens :
    LET Is == channels[e][id] # NoChannel /\ channels[e][id].n = n
    IN  (Is /\ (channels[e][id].chan = "zombie" \/ "SENT_CLOSE" \in channels[e][id].closes))
          ~> ~Is \/ \E f \in End : Stuck(f)
=============================================================================
