------------------------------- MODULE Sharing -------------------------------
(***************************************************************************)
(* Connection sharing: putty/ssh/sharing.c with what it uses of            *)
(* connection2.c and connection2-client.c.  The upstream passes messages   *)
(* between its SSH server and the downstreams, each of which believes that *)
(* it talks to the server alone, and translates the channel numbers of the *)
(* client's side; it clears up after a downstream that goes away, whatever *)
(* was under way.                                                          *)
(*                                                                         *)
(* The server and the downstreams keep to the protocol.  A message is a    *)
(* record of its type, the channel or port it is about and what it says.   *)
(* What a channel carries is known by a token, made up by who opened it.   *)
(* Messages within a channel that change nothing in the upstream are left  *)
(* out, and so are the channels of X11.                                    *)
(*                                                                         *)
(* The code has faults that put it out of step with its peers or with its  *)
(* own memory.  The steps that meet one are there and are recorded in      *)
(* lapses; what comes of them, some of it undefined in C, is not followed. *)
(***************************************************************************)
EXTENDS Naturals, Sequences, FiniteSets, SequencesExt, FiniteSetsExt

CONSTANTS
  Down,        \* the downstreams
  Ports,       \* what can be forwarded
  MaxActs,     \* bounds of the model: channels opened and requests made by downstreams,
  MaxServerOpens,  \* and channels opened by the server
  Persistent,  \* the connection is kept when nobody uses it (CONF_ssh_no_shell)
  None         \* no number, no token, no request

ASSUME SharingAssumption == {MaxActs, MaxServerOpens} \subseteq Nat /\ Persistent \in BOOLEAN

VARIABLES
  upstream,    \* connection2.c: chans, rpfs (rportfwds), globq (globreq_head, ...), own
               \* (the number of its own channel), started, check (its termination callback
               \* is queued), ended; sharing.c: cs
  server,      \* what the server has: chans, ports it listens at, own
  down,        \* what each downstream has: chans, ports, asked (the requests without an
               \* answer); it is "absent", "here" or "gone"
  acts,        \* channels opened and requests made so far
  toServer, fromServer, toDown, fromDown,     \* what is on its way
  lapses,      \* history: faults of the code that were met
  faults       \* who met what they must not: messages and failed assertions

vars == <<upstream, server, down, toServer, fromServer, toDown, fromDown, acts, lapses, faults>>

Msg(type, id, arg) == [type |-> type, id |-> id, arg |-> arg]
FirstFree(ids) == Min((1 .. Cardinality(ids) + 1) \ ids)
With(c, st) == [c EXCEPT !.st = st]

\* A struct ssh_sharing_connstate: sock is NULL or not; globreq is globreq_head.
NewConn == [exists |-> TRUE, sock |-> TRUE, halves |-> {}, chans |-> {}, fwds |-> {}, globreq |-> None]
NoConn == [NewConn EXCEPT !.exists = FALSE, !.sock = FALSE]

Init ==
  /\ upstream = [chans |-> {}, rpfs |-> {}, globq |-> <<>>, own |-> {}, started |-> FALSE,
                 check |-> FALSE, ended |-> FALSE, cs |-> [d \in Down |-> NoConn]]
  /\ server = [chans |-> {}, ports |-> {}, opens |-> 0, own |-> {}]
  /\ down = [d \in Down |-> [chans |-> {}, ports |-> {}, asked |-> <<>>, at |-> "absent"]]
  /\ toServer = <<>> /\ fromServer = <<>>
  /\ toDown = [d \in Down |-> <<>>] /\ fromDown = [d \in Down |-> <<>>]
  /\ acts = 0 /\ lapses = {} /\ faults = {}
-----------------------------------------------------------------------------
(* The upstream.  Its functions take and give its state u, with what it     *)
(* sends: u.toServer, u.toDown, and the faults.                             *)

U == [up |-> upstream, toServer |-> toServer, toDown |-> toDown, lapses |-> lapses, faults |-> faults]

Becomes(u) ==
  /\ upstream' = u.up /\ toServer' = u.toServer /\ toDown' = u.toDown
  /\ lapses' = u.lapses /\ faults' = u.faults

\* ssh_send_packet_from_downstream; send_packet_to_downstream.  What is written to a
\* downstream that has gone is lost.
Send(u, m) == [u EXCEPT !.toServer = Append(@, m)]
Tell(u, d, m) == IF u.up.cs[d].sock /\ down[d].at = "here" THEN [u EXCEPT !.toDown[d] = Append(@, m)] ELSE u
Fault(u, f) == [u EXCEPT !.faults = @ \cup {f}]
Lapse(u, met, what) == IF met THEN [u EXCEPT !.lapses = @ \cup {what}] ELSE u

\* alloc_channel_id
NewId(u) == FirstFree({c.us : c \in u.up.chans} \cup u.up.own)

\* ssh_alloc_sharing_channel and share_add_channel; ssh_delete_sharing_channel and
\* share_remove_channel.  Channels are listed in channels_by_server when they have a number
\* of the server's, and one that has none yet, and 0 for it, takes another's entry with it.
ByServer(u, d, sid) == {c \in u.up.cs[d].chans : c.listed /\ c.sid = sid}
List(u, d, c) ==
  LET v == IF ByServer(u, d, c.sid) = {} THEN u ELSE Fault(u, "add234")
  IN  [v EXCEPT !.up.cs[d].chans = @ \cup {[c EXCEPT !.listed = TRUE]}]
AddChannel(u, d, ds, sid, st) ==
  LET c == [ds |-> ds, us |-> NewId(u), sid |-> sid, st |-> st, listed |-> FALSE]
      v == [u EXCEPT !.up.chans = @ \cup {[us |-> c.us, d |-> d]}]
  IN  IF st = "UNACKNOWLEDGED" THEN [v EXCEPT !.up.cs[d].chans = @ \cup {c}] ELSE List(v, d, c)
DeleteChannel(u, d, c) ==
  LET others == u.up.cs[d].chans \ {c}
      v == Lapse(u, ByServer(u, d, c.sid) \ {c} # {}, "unlisted")
  IN  [v EXCEPT !.up.chans = {x \in @ : x.us # c.us}, !.up.check = TRUE,
                !.up.cs[d].chans = {[x EXCEPT !.listed = @ /\ x.sid # c.sid] : x \in others}]
SetChannel(u, d, c, e) == [u EXCEPT !.up.cs[d].chans = (@ \ {c}) \cup {e}]

Rpf(d, port) == [d |-> d, port |-> port]
Connected(u) == {d \in Down : u.up.cs[d].exists}

\* share_connstate_free, and ssh_sharing_no_more_downstreams after the last one.
FreeConn(u, d) ==
  [u EXCEPT !.up.cs[d] = NoConn, !.up.check = @ \/ Connected(u) = {d}]

\* Mutants of TryCleanup: it closes a channel for which the server has no number yet;
\* it goes although the server has not closed a channel.
TryCleanup_Early(u, d) ==
  LET cs == u.up.cs[d]
      v == [u EXCEPT
             !.toServer = @ \o SetToSeq({Msg("CLOSE", c.sid, None) : c \in cs.chans}),
             !.up.cs[d].chans = {With(c, "SENT_CLOSE") : c \in @}]
  IN  IF cs.chans = {} THEN FreeConn(v, d) ELSE v

TryCleanup_Leaves(u, d) ==
  LET cs == u.up.cs[d]
      v == [u EXCEPT
             !.toServer = @ \o SetToSeq({Msg("CLOSE", c.sid, None) : c \in {x \in cs.chans : x.st = "OPEN"}}),
             !.up.cs[d].chans = {With(c, "SENT_CLOSE") : c \in @}]
  IN  FreeConn(v, d)

\* share_try_cleanup.
TryCleanup(u, d) ==
  LET cs == u.up.cs[d]
      toClose == {c \in cs.chans : c.st \in {"OPEN", "RCVD_CLOSE"}}
      closed == {c \in toClose : c.st = "RCVD_CLOSE"}
      left == (cs.chans \ toClose) \cup {With(c, "SENT_CLOSE") : c \in toClose \ closed}
      active == {f \in cs.fwds : f.active}
      rpfs == {Rpf(d, f.port) : f \in active}
      cancelled == {f \in active : cs.globreq = Msg("CANCEL", f.port, None)}
      v == [Lapse(u, cancelled # {}, "cancelled twice") EXCEPT
             !.toServer = @ \o SetToSeq({Msg("OPEN_FAILURE", sid, None) : sid \in cs.halves})
                            \o SetToSeq({Msg("CLOSE", c.sid, None) : c \in toClose})
                            \o SetToSeq({Msg("CANCEL", f.port, "quiet") : f \in active}),
             !.up.chans = {x \in @ : x.us \notin {c.us : c \in closed}},
             !.up.check = @ \/ closed # {},
             !.up.rpfs = @ \ rpfs,
             !.up.cs[d] = [cs EXCEPT !.halves = {}, !.chans = left, !.fwds = @ \ active],
             !.faults = @ \cup {"realpf == rpf" : r \in rpfs \ u.up.rpfs}]
  IN  IF left = {} /\ active = cs.fwds THEN FreeConn(v, d) ELSE v

\* ... which is tried again after an answer to what was still under way.  Mutant: never.
Retry_Never(u, d) == u
Retry(u, d) == IF u.up.cs[d].sock THEN u ELSE TryCleanup(u, d)

\* share_got_pkt_from_downstream: a global request, which is passed on when the port is
\* not forwarded yet, or is forwarded to this downstream.  The list of requests without
\* answers never gets a tail, and so keeps only the last; and a refusal made up here
\* overtakes the answers that are still to come.
PassRequest(u, d, m) ==
  [u EXCEPT !.toServer = Append(@, m), !.up.globq = Append(@, d), !.up.cs[d].globreq = m]

GlobalRequest(u, d, m) ==
  LET known == {f \in u.up.cs[d].fwds : f.port = m.id}
      o == Lapse(u, u.up.cs[d].globreq # None, "overtaken")
      v == PassRequest(o, d, m)
  IN  CASE m.type = "FORWARD" /\ (\A r \in u.up.rpfs : r.port # m.id) ->
             [v EXCEPT !.up.rpfs = @ \cup {Rpf(d, m.id)},
                       !.up.cs[d].fwds = @ \cup {[port |-> m.id, active |-> FALSE]}]
        [] m.type = "CANCEL" /\ known # {} ->
             [v EXCEPT !.up.rpfs = @ \ {Rpf(d, m.id)}]
        [] OTHER -> Tell(o, d, Msg("REQUEST_FAILURE", None, None))

\* share_got_pkt_from_downstream: a message about the server's channel m.id.
ChannelUp(u, d, m) ==
  LET c == CHOOSE x \in ByServer(u, d, m.id) : TRUE
      v == Send(u, m)
      half == m.id \in u.up.cs[d].halves
      w == [u EXCEPT !.up.cs[d].halves = @ \ {m.id}]
  IN  CASE m.type = "OPEN_CONFIRMATION" /\ half ->
             AddChannel(Send(w, [m EXCEPT !.arg.us = NewId(u)]), d, m.arg.us, m.id, "OPEN")
        [] m.type = "OPEN_FAILURE" /\ half -> Send(w, m)
        [] m.type \in {"OPEN_CONFIRMATION", "OPEN_FAILURE"} /\ ~half ->
             Fault(u, "cited unknown channel")
        [] m.type = "CLOSE" /\ ByServer(u, d, m.id) # {} ->
             IF c.st = "RCVD_CLOSE" THEN DeleteChannel(v, d, c)
                                    ELSE SetChannel(v, d, c, With(c, "SENT_CLOSE"))
        [] OTHER -> v

\* A downstream's message comes, or the end of its connection (share_begin_cleanup).
FromDown(d) ==
  LET m == Head(fromDown[d])
  IN  /\ fromDown[d] # <<>> /\ ~upstream.ended
      /\ fromDown' = [fromDown EXCEPT ![d] = Tail(@)]
      /\ Becomes(CASE m.type = "gone" -> TryCleanup([U EXCEPT !.up.cs[d].sock = FALSE], d)
                   [] m.type = "OPEN" ->
                        AddChannel(Send(U, [m EXCEPT !.id = NewId(U)]), d, m.id, 0, "UNACKNOWLEDGED")
                   [] m.type \in {"FORWARD", "CANCEL"} -> GlobalRequest(U, d, m)
                   [] OTHER -> ChannelUp(U, d, m))
      /\ UNCHANGED <<server, down, fromServer, acts>>

\* The server closes d's channel c.  Mutant: the first CLOSE is taken for the second.
CloseDown_Once(v, d, c) == Retry(DeleteChannel(v, d, c), d)

CloseDown(v, d, c) ==
  IF c.st = "SENT_CLOSE" THEN Retry(DeleteChannel(v, d, c), d) ELSE SetChannel(v, d, c, With(c, "RCVD_CLOSE"))

\* share_got_pkt_from_server: a message about a channel of d's.
ChannelDown(u, m, d) ==
  LET c == CHOOSE x \in u.up.cs[d].chans : x.us = m.id
      v == Tell(u, d, [m EXCEPT !.id = c.ds])
  IN  CASE m.type = "OPEN_CONFIRMATION" ->
             Retry(List([v EXCEPT !.up.cs[d].chans = @ \ {c}], d,
                        [c EXCEPT !.sid = m.arg.sid, !.st = "OPEN"]), d)
        [] m.type = "OPEN_FAILURE" -> Lapse(DeleteChannel(v, d, c), ~u.up.cs[d].sock, "refused")
        [] m.type = "CLOSE" -> CloseDown(v, d, c)

\* share_got_pkt_from_server: the answer to a global request of d's.
RequestAnswered(u, m, d) ==
  LET g == u.up.cs[d].globreq
      fwd == [port |-> g.id, active |-> FALSE]
      success == m.type = "REQUEST_SUCCESS"
      others == {f \in u.up.cs[d].fwds : f.port # g.id}
      v == [Tell(u, d, m) EXCEPT !.up.cs[d].globreq = None, !.up.globq = Tail(@)]
  IN  IF g = None THEN Fault(u, "assert(globreq)")
      ELSE Retry([v EXCEPT !.up.cs[d].fwds =
                   CASE g.type = "FORWARD" /\ success -> others \cup {[fwd EXCEPT !.active = TRUE]}
                     [] (g.type = "FORWARD") # success -> others
                     [] OTHER -> @], d)

\* chan_open_forwarded_tcpip, and what follows for a downstream's forwarding.  The
\* packet is left on the queue, and is then refused as one of an unknown kind that is
\* about channel 0.
OpenFromServer(u, m) ==
  LET owners == {r.d : r \in {x \in u.up.rpfs : x.port = m.arg.port}}
      d == CHOOSE x \in owners : TRUE
      v == [Tell(u, d, m) EXCEPT !.up.cs[d].halves = @ \cup {m.id}]
  IN  CASE owners = {} -> Send(u, Msg("OPEN_FAILURE", m.id, None))
        [] owners # {} /\ ~u.up.cs[d].exists -> Fault(u, "freed connstate")
        [] OTHER -> Send(v, Msg("OPEN_FAILURE", 0, "unknown type"))

\* ssh2_connection_filter_queue.
FromServer ==
  LET m == Head(fromServer)
      answer == m.type \in {"REQUEST_SUCCESS", "REQUEST_FAILURE"}
      whose == IF answer THEN Range(SubSeq(upstream.globq, 1, 1)) ELSE {c.d : c \in {x \in upstream.chans : x.us = m.id}}
      d == CHOOSE x \in whose : TRUE
  IN  /\ fromServer # <<>> /\ ~upstream.ended
      /\ fromServer' = Tail(fromServer)
      /\ Becomes(CASE m.type = "OPEN" -> OpenFromServer(U, m)
                   [] m.type # "OPEN" /\ whose = {} -> Fault(U, "nonexistent channel")
                   [] m.type # "OPEN" /\ whose # {} /\ ~upstream.cs[d].exists -> Fault(U, "freed connstate")
                   [] OTHER -> IF answer THEN RequestAnswered(U, m, d) ELSE ChannelDown(U, m, d))
      /\ UNCHANGED <<server, down, fromDown, acts>>

ServerFree ==
  LET used == {c.sid : c \in server.chans} \cup server.own
  IN  Min((0 .. Cardinality(used)) \ used)

\* The upstream's own channel is opened; it is closed and destroyed.
OwnOpens ==
  /\ ~upstream.started
  /\ upstream' = [upstream EXCEPT !.own = {NewId(U)}, !.started = TRUE]
  /\ server' = [server EXCEPT !.own = {ServerFree}]
  /\ UNCHANGED <<down, toServer, fromServer, toDown, fromDown, lapses, faults, acts>>

OwnClosed ==
  /\ upstream.own # {} /\ ~upstream.ended
  /\ upstream' = [upstream EXCEPT !.own = {}, !.check = TRUE]
  /\ server' = [server EXCEPT !.own = {}]
  /\ UNCHANGED <<down, toServer, fromServer, toDown, fromDown, lapses, faults, acts>>

\* ssh2_check_termination_callback
CheckTermination ==
  /\ upstream.check /\ ~upstream.ended
  /\ upstream' = [upstream EXCEPT !.check = FALSE,
                    !.ended = /\ ~Persistent /\ upstream.started
                              /\ upstream.own = {} /\ upstream.chans = {} /\ Connected(U) = {}]
  /\ UNCHANGED <<server, down, toServer, fromServer, toDown, fromDown, lapses, faults, acts>>

\* share_listen_accepting: a downstream connects (bound: before the first of the acts).
Accept(d) ==
  /\ ~upstream.ended /\ down[d].at = "absent" /\ acts = 0
  /\ upstream' = [upstream EXCEPT !.cs[d] = NewConn]
  /\ down' = [down EXCEPT ![d].at = "here"]
  /\ UNCHANGED <<server, toServer, fromServer, toDown, fromDown, lapses, faults, acts>>
-----------------------------------------------------------------------------
(* The server. *)

Answer(m) == fromServer' = Append(fromServer, m)

\* It takes a message: what it does to a channel of its own, sets of ports and answers.
ServerOpened(m) ==
  \/ /\ server' = [server EXCEPT !.chans = @ \cup {[sid |-> ServerFree, us |-> m.id, tok |-> m.arg, st |-> "open"]}]
     /\ Answer(Msg("OPEN_CONFIRMATION", m.id, [sid |-> ServerFree, tok |-> m.arg]))
  \/ UNCHANGED server /\ Answer(Msg("OPEN_FAILURE", m.id, m.arg))

ServerForwards(m) ==
  \/ server' = [server EXCEPT !.ports = @ \cup {m.id}] /\ Answer(Msg("REQUEST_SUCCESS", None, None))
  \/ UNCHANGED server /\ Answer(Msg("REQUEST_FAILURE", None, None))

ServerCancels(m) ==
  /\ server' = [server EXCEPT !.ports = @ \ {m.id}]
  /\ IF m.arg = "quiet" THEN UNCHANGED fromServer ELSE Answer(Msg("REQUEST_SUCCESS", None, None))

ServerAnswered(m, c) ==
  /\ server' = [server EXCEPT !.chans = (@ \ {c}) \cup
                  IF m.type = "OPEN_CONFIRMATION" THEN {[c EXCEPT !.us = m.arg.us, !.st = "open"]} ELSE {}]
  /\ UNCHANGED fromServer

ServerClosed(c) ==
  /\ server' = [server EXCEPT !.chans = @ \ {c}]
  /\ IF c.st = "open" THEN Answer(Msg("CLOSE", c.us, c.tok)) ELSE UNCHANGED fromServer

\* What it can be sent: a channel is opened with a number of its own, answered once, and
\* closed once and by whom it belongs to; what is forwarded was not, and is until cancelled.
ServerExpects(m) ==
  LET cs == {c \in server.chans : c.sid = m.id}
  IN  CASE m.type = "OPEN" -> \A c \in server.chans : c.us # m.id
        [] m.type = "OPEN_CONFIRMATION" -> \E c \in cs : c.st = "opening" /\ c.tok = m.arg.tok
        [] m.type = "OPEN_FAILURE" -> \E c \in cs : c.st = "opening"
        [] m.type = "CLOSE" -> \E c \in cs : c.st # "opening" /\ m.arg \in {None, c.tok}
        [] m.type = "FORWARD" -> m.id \notin server.ports
        [] m.type = "CANCEL" -> m.id \in server.ports

\* A failure that answers a message already answered; a channel 0 that waits for an answer
\* takes it for its own.
Spurious(m) == m.type = "OPEN_FAILURE" /\ m.arg = "unknown type"

ServerHandles ==
  LET m == Head(toServer)
      c == CHOOSE x \in server.chans : x.sid = m.id
  IN  /\ toServer # <<>>
      /\ toServer' = Tail(toServer)
      /\ IF ServerExpects(m)
         THEN /\ CASE m.type = "OPEN" -> ServerOpened(m)
                   [] m.type = "FORWARD" -> ServerForwards(m)
                   [] m.type = "CANCEL" -> ServerCancels(m)
                   [] m.type = "CLOSE" -> ServerClosed(c)
                   [] OTHER -> ServerAnswered(m, c)
              /\ lapses' = lapses \cup IF Spurious(m) THEN {"misdirected"} ELSE {}
              /\ UNCHANGED faults
         ELSE /\ faults' = faults \cup {IF Spurious(m) THEN "OPEN answered again" ELSE m.type}
              /\ UNCHANGED <<server, fromServer, lapses>>
      /\ UNCHANGED <<upstream, down, toDown, fromDown, acts>>

\* Someone connects to a port that is forwarded; the server ends a channel.
ServerOpens(port) ==
  LET tok == <<"server", server.opens + 1>>
  IN  /\ port \in server.ports /\ server.opens < MaxServerOpens /\ ~upstream.ended
      /\ server' = [server EXCEPT !.opens = @ + 1,
                      !.chans = @ \cup {[sid |-> ServerFree, us |-> None, tok |-> tok, st |-> "opening"]}]
      /\ Answer(Msg("OPEN", ServerFree, [port |-> port, tok |-> tok]))
      /\ UNCHANGED <<upstream, down, toServer, toDown, fromDown, lapses, faults, acts>>

ServerCloses(c) ==
  /\ c.st = "open" /\ ~upstream.ended
  /\ server' = [server EXCEPT !.chans = (@ \ {c}) \cup {With(c, "closed")}]
  /\ Answer(Msg("CLOSE", c.us, c.tok))
  /\ UNCHANGED <<upstream, down, toServer, toDown, fromDown, lapses, faults, acts>>
-----------------------------------------------------------------------------
(* A downstream. *)

DownFree(d) == FirstFree({c.ds : c \in down[d].chans})
Says(d, m) == fromDown' = [fromDown EXCEPT ![d] = Append(@, m)]
SetDown(d, c, cs) == down' = [down EXCEPT ![d].chans = (@ \ {c}) \cup cs]

\* What it can be sent.
DownExpects(d, m) ==
  LET cs == {c \in down[d].chans : c.ds = m.id}
  IN  CASE m.type = "OPEN" -> TRUE
        [] m.type = "OPEN_CONFIRMATION" -> \E c \in cs : c.st = "opening" /\ c.tok = m.arg.tok
        [] m.type = "OPEN_FAILURE" -> \E c \in cs : c.st = "opening" /\ c.tok = m.arg
        [] m.type = "CLOSE" -> \E c \in cs : c.st # "opening" /\ c.tok = m.arg
        [] m.type \in {"REQUEST_SUCCESS", "REQUEST_FAILURE"} -> down[d].asked # <<>>

DownOpened(d, m) ==
  \/ /\ SetDown(d, None, {[ds |-> DownFree(d), sid |-> m.id, tok |-> m.arg.tok, st |-> "open"]})
     /\ Says(d, Msg("OPEN_CONFIRMATION", m.id, [us |-> DownFree(d), tok |-> m.arg.tok]))
  \/ UNCHANGED down /\ Says(d, Msg("OPEN_FAILURE", m.id, None))

DownAnswered(d, m, c) ==
  /\ SetDown(d, c, IF m.type = "OPEN_CONFIRMATION" THEN {[c EXCEPT !.sid = m.arg.sid, !.st = "open"]} ELSE {})
  /\ UNCHANGED fromDown

DownClosed(d, c) ==
  /\ SetDown(d, c, {})
  /\ IF c.st = "open" THEN Says(d, Msg("CLOSE", c.sid, c.tok)) ELSE UNCHANGED fromDown

DownGranted(d, m) ==
  LET a == Head(down[d].asked)
      ok == m.type = "REQUEST_SUCCESS"
  IN  /\ down' = [down EXCEPT ![d].asked = Tail(@),
                    ![d].ports = IF ok /\ a.type = "FORWARD" THEN @ \cup {a.id}
                                 ELSE IF ok THEN @ \ {a.id} ELSE @]
      /\ UNCHANGED fromDown

DownHandles(d) ==
  LET m == Head(toDown[d])
      c == CHOOSE x \in down[d].chans : x.ds = m.id
  IN  /\ toDown[d] # <<>>
      /\ toDown' = [toDown EXCEPT ![d] = Tail(@)]
      /\ IF DownExpects(d, m)
         THEN /\ CASE m.type = "OPEN" -> DownOpened(d, m)
                   [] m.type = "CLOSE" -> DownClosed(d, c)
                   [] m.type \in {"REQUEST_SUCCESS", "REQUEST_FAILURE"} -> DownGranted(d, m)
                   [] OTHER -> DownAnswered(d, m, c)
              /\ UNCHANGED faults
         ELSE faults' = faults \cup {m.type} /\ UNCHANGED <<down, fromDown>>
      /\ UNCHANGED <<upstream, server, toServer, fromServer, lapses, acts>>

DownOpens(d) ==
  LET tok == <<d, acts + 1>>
  IN  /\ down[d].at = "here" /\ acts < MaxActs
      /\ down' = [down EXCEPT ![d].chans = @ \cup {[ds |-> DownFree(d), sid |-> None, tok |-> tok, st |-> "opening"]}]
      /\ Says(d, Msg("OPEN", DownFree(d), tok))
      /\ acts' = acts + 1
      /\ UNCHANGED <<upstream, server, toServer, fromServer, toDown, lapses, faults>>

DownCloses(d, c) ==
  /\ down[d].at = "here" /\ c.st = "open"
  /\ SetDown(d, c, {With(c, "closed")})
  /\ Says(d, Msg("CLOSE", c.sid, c.tok))
  /\ UNCHANGED <<upstream, server, toServer, fromServer, toDown, lapses, faults, acts>>

DownAsks(d, port) ==
  LET m == Msg(IF port \in down[d].ports THEN "CANCEL" ELSE "FORWARD", port, None)
  IN  /\ down[d].at = "here" /\ acts < MaxActs
      /\ down' = [down EXCEPT ![d].asked = Append(@, m)]
      /\ Says(d, m)
      /\ acts' = acts + 1
      /\ UNCHANGED <<upstream, server, toServer, fromServer, toDown, lapses, faults>>

\* It goes away, and the last of what it sent may be lost.
Vanish(d) ==
  /\ down[d].at = "here"
  /\ down' = [down EXCEPT ![d] = [@ EXCEPT !.at = "gone", !.chans = {}, !.ports = {}, !.asked = <<>>]]
  /\ \E n \in 0 .. Len(fromDown[d]) :
       fromDown' = [fromDown EXCEPT ![d] = Append(SubSeq(@, 1, n), Msg("gone", None, None))]
  /\ toDown' = [toDown EXCEPT ![d] = <<>>]
  /\ UNCHANGED <<upstream, server, toServer, fromServer, lapses, faults, acts>>
-----------------------------------------------------------------------------
\* What the upstream sends arrives before anything else happens: that its messages take
\* as long as they like to reach the upstream again gives it all the orders there are.
Arrived == toServer = <<>> /\ \A d \in Down : toDown[d] = <<>>

\* After a refusal all goes on as before; what follows the other lapses is not explored.
Sound == lapses \subseteq {"refused"}

Next ==
  \/ Sound /\ ServerHandles
  \/ \E d \in Down : Sound /\ toServer = <<>> /\ DownHandles(d)
  \/ /\ Sound /\ Arrived
     /\ \/ FromServer \/ OwnOpens \/ OwnClosed \/ CheckTermination
        \/ \E port \in Ports : ServerOpens(port)
        \/ \E c \in server.chans : ServerCloses(c)
        \/ \E d \in Down :
             \/ FromDown(d) \/ Accept(d) \/ DownOpens(d) \/ Vanish(d)
             \/ \E c \in down[d].chans : DownCloses(d, c)
             \/ \E port \in Ports : DownAsks(d, port)

\* The upstream looks at what comes, and at its callbacks; the server and the downstreams
\* read.  Weak fairness of FromServer, FromDown, CheckTermination and the handlers, with
\* the conditions under which they can be taken, and what they do, written out.
Stopped == upstream.ended \/ ~Sound
Fairness ==
  /\ []<>(fromServer = <<>> \/ Stopped) \/ []<><<Len(fromServer') < Len(fromServer)>>_fromServer
  /\ []<>(~upstream.check \/ Stopped) \/ []<><<upstream.check /\ ~upstream'.check>>_upstream
  /\ []<>(toServer = <<>> \/ ~Sound) \/ []<><<Len(toServer') < Len(toServer)>>_toServer
  /\ \A d \in Down :
       /\ []<>(fromDown[d] = <<>> \/ Stopped) \/ []<><<Len(fromDown'[d]) < Len(fromDown[d])>>_fromDown
       /\ []<>(toDown[d] = <<>> \/ ~Sound) \/ []<><<Len(toDown'[d]) < Len(toDown[d])>>_toDown

Spec == Init /\ [][Next]_vars
FairSpec == Spec /\ Fairness
-----------------------------------------------------------------------------
(* Properties *)

TypeOK ==
  /\ upstream.chans \subseteq [us : Nat, d : Down] /\ upstream.rpfs \subseteq [d : Down, port : Ports]
  /\ upstream.globq \in Seq(Down) /\ {upstream.started, upstream.check, upstream.ended} \subseteq BOOLEAN
  /\ \A d \in Down : \A c \in upstream.cs[d].chans :
       c.st \in {"UNACKNOWLEDGED", "OPEN", "SENT_CLOSE", "RCVD_CLOSE"}
  /\ \A d \in Down : down[d].at \in {"absent", "here", "gone"}

\* Neither the server nor a downstream is sent what its own conversation does not allow:
\* an answer it did not ask for, a number that is not in use, the number of another
\* channel, a second CLOSE; and the upstream's own assertions hold.  Three sets of channel
\* numbers are translated, and a downstream may go between any two messages.
\* The exceptions are faults of the code, in the README: each OPEN that is passed to a
\* downstream is also refused, for channel 0; and of what follows that refusal when it meets
\* a channel 0 that waits for an answer, a request that is made while another has none, the
\* loss of another channel's entry in channels_by_server, or a downstream that goes while it
\* cancels a forwarding, nothing is claimed.
\* Code: share_got_pkt_from_server, share_got_pkt_from_downstream, share_try_cleanup.
NoConfusion == TypeOK /\ (Sound => faults \subseteq {"OPEN answered again"})

TablesAgree ==
  /\ upstream.chans = UNION {{[us |-> c.us, d |-> d] : c \in upstream.cs[d].chans} : d \in Down}
  /\ \A i \in DOMAIN upstream.globq : upstream.cs[upstream.globq[i]].exists
  /\ \A d \in Down : \A f \in upstream.cs[d].fwds :
       f.active => \/ Rpf(d, f.port) \in upstream.rpfs
                   \/ upstream.cs[d].globreq = Msg("CANCEL", f.port, None)

ServersOwned ==
  /\ \A c \in server.chans : c.st # "opening" =>
       \E x \in upstream.chans : x.us = c.us /\
         \E y \in upstream.cs[x.d].chans :
           y.us = c.us /\ (y.sid = c.sid \/ y.st = "UNACKNOWLEDGED")
  /\ \A c \in server.chans : c.st = "opening" =>
       \/ \E d \in Down : c.sid \in upstream.cs[d].halves
       \/ \E m \in Range(fromServer) : m.type = "OPEN" /\ m.id = c.sid
  /\ \A port \in server.ports :
       \E r \in upstream.rpfs : r.port = port /\ upstream.cs[r.d].exists

\* The connection layer and the sharing code know the same channels and the same
\* forwardings, and what the connection layer holds of a downstream (channels, requests
\* without an answer, forwardings in use) outlives no connstate.  Each channel and port
\* of the server's, once it has all that was sent to it, is somebody's: of a downstream,
\* or of the upstream that clears up after one.  None is forgotten when its downstream goes,
\* whatever was under way but a request to cancel a forwarding, and while none of the other
\* faults that NoConfusion excepts has been met.
\* Code: connection2.c's channels, rportfwds and globreq list hold pointers to a
\* connstate that share_try_cleanup frees; it is tried again after answers.
NothingForgotten == Sound => TablesAgree /\ (Arrived => ServersOwned)

\* After a downstream has gone, all that was kept for it goes as well, and a connection
\* that nobody uses any more ends, unless it is persistent.  (Not so when the server refuses
\* a channel of a downstream that has gone: nothing looks whether that was the last thing to
\* wait for.  And nothing is claimed after the faults that NoConfusion excepts.)
\* Code: share_try_cleanup, ssh_sharing_no_more_downstreams, ssh2_check_termination.
Unused == upstream.started /\ upstream.own = {} /\ \A d \in Down : down[d].at # "here"
ConnectionEnds ==
  /\ \A d \in Down : (down[d].at = "gone") ~> (~upstream.cs[d].exists \/ lapses # {})
  /\ ~Persistent => (<>[]Unused => <>(upstream.ended \/ lapses # {}))
=============================================================================
