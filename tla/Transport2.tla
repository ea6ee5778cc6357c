----------------------------- MODULE Transport2 -----------------------------
(***************************************************************************)
(* SSH-2 key exchange: the coroutine of putty/ssh/transport2.c at both     *)
(* ends of a connection, with the binary packet protocol under it          *)
(* (bpp2.c) and a higher layer over it.  Either end may repeat the key     *)
(* exchange, both at once included, while the higher layers go on sending, *)
(* and the user of the client may change the settings.                     *)
(*                                                                         *)
(* A KEXINIT is [no, conf]: the how many-th of its sender, from which      *)
(* settings.  Keys are known by the two KEXINITs they were agreed from.    *)
(* Each end is one thread; its callbacks run in any order.                 *)
(***************************************************************************)
EXTENDS Integers, Sequences, SequencesExt

CONSTANTS
  Bugs,        \* the servers' bugs: "none", "norekey" (BUG_SSH2_REKEY) or
               \* "filter" (BUG_REQUIRES_FILTERED_KEXINIT)
  MaxRekeys,   \* bound of the model: reasons to repeat the key exchange
  MaxConf,     \* bound: changes of the settings
  MaxSent      \* bound: for each end, the packets of its higher layer

ASSUME Transport2Assumption ==
  /\ Bugs \subseteq {"none", "norekey", "filter"} /\ Bugs # {}
  /\ MaxRekeys \in Nat /\ MaxConf \in Nat /\ MaxSent \in [{"client", "server"} -> Nat \ {0}]

VARIABLES
  bug,      \* remote_bugs, as the client sees the server
  end,      \* struct ssh2_transport_state and struct ssh2_bpp_state of each end
  reasons,  \* how many times something has asked for a repeated key exchange
  got       \* what the higher layer of each end has received

vars == <<bug, end, reasons, got>>

Ends == {"client", "server"}
Other(e) == IF e = "client" THEN "server" ELSE "client"

NoKeys == [client |-> 0, server |-> 0, conf |-> 0]
NoKexinit == [no |-> 0, conf |-> 0]
Pkt(type, arg) == [type |-> type, arg |-> arg]

NewEnd == [
  stage |-> "start",     \* crState: "start", or waiting in "kexinit", "kex", "newkeys",
                         \* "service" (request or accept) or "idle", the loop at the end
  in_pq |-> <<>>, out_pq |-> <<>>, pq_out_higher |-> <<>>,
  wake |-> TRUE,         \* ic_process_queue or ic_pq_out_higher is queued
  higher_layer_ok |-> FALSE, kex_in_progress |-> FALSE,
  rekey_class |-> "INITIAL", deferred |-> FALSE,   \* deferred_rekey_reason
  expired |-> {},        \* directions of which stats says expired
  ours |-> NoKexinit, theirs |-> NoKexinit,   \* outgoing_kexinit, incoming_kexinit
  kexinit_delayed |-> FALSE,
  outkeys |-> NoKeys, inkeys |-> NoKeys, outseq |-> 0, inseq |-> 0,
  pending_newkeys |-> FALSE,
  raw |-> <<>>,          \* sent, and not yet decoded by the other end
  confs |-> <<>>,        \* history: the settings of our KEXINITs
  conf |-> 0, honour |-> 0, authdone |-> FALSE,
  submitted |-> 0, late |-> {}, failed |-> FALSE]

Init ==
  /\ bug \in Bugs /\ end = [e \in Ends |-> NewEnd] /\ reasons = 0
  /\ got = [e \in Ends |-> <<>>]
-----------------------------------------------------------------------------
(* Packets out *)

Push(s, p) == [s EXCEPT !.out_pq = Append(@, p)]

\* ssh2_bpp_handle_output: with the keys of this moment.
HandleOutput(s) ==
  LET wire == [i \in DOMAIN s.out_pq |->
                 [pkt |-> s.out_pq[i], keys |-> s.outkeys, seq |-> s.outseq + i - 1]]
  IN  [s EXCEPT !.raw = @ \o wire, !.outseq = @ + Len(s.out_pq), !.out_pq = <<>>]

PassThrough(s) == [s EXCEPT !.out_pq = @ \o s.pq_out_higher, !.pq_out_higher = <<>>]

\* ssh_proto_error: the connection is dead.
ProtoError(s) == [s EXCEPT !.failed = TRUE]
-----------------------------------------------------------------------------
(* The coroutine: each operator is what it does with the packet it has waited for *)

\* begin_key_exchange.
Begin(e, s) ==
  LET kexinit == [no |-> s.ours.no + 1, conf |-> s.conf]
      delayed == e = "client" /\ bug = "filter" /\ s.theirs = NoKexinit
      t == [s EXCEPT !.ours = kexinit, !.kexinit_delayed = delayed, !.confs = Append(@, s.conf),
                     !.kex_in_progress = TRUE, !.stage = "kexinit"]
  IN  IF delayed THEN t ELSE Push(t, Pkt("KEXINIT", kexinit))

\* Mutant of GetKexinit: the KEXINIT that was put off is forgotten.
GetKexinit_Unsent(e, s, p) ==
  LET t == [s EXCEPT !.theirs = p.arg, !.stage = "kex"]
  IN  IF e = "client" THEN Push(t, Pkt("KEXDH_INIT", 0)) ELSE t

\* The other side's KEXINIT; the client begins the exchange proper.
GetKexinit(e, s, p) ==
  LET t == [s EXCEPT !.theirs = p.arg, !.stage = "kex"]
      u == IF s.kexinit_delayed THEN Push(t, Pkt("KEXINIT", s.ours)) ELSE t
  IN  IF e = "client" THEN Push(u, Pkt("KEXDH_INIT", 0)) ELSE u

Agreed(e, s) ==
  LET c == IF e = "client" THEN s.ours ELSE s.theirs
      v == IF e = "client" THEN s.theirs ELSE s.ours
  IN  [client |-> c.no, server |-> v.no, conf |-> c.conf]

\* Mutant of SwitchOutput: NEWKEYS is not put into wire format first.
SwitchOutput_Queued(e, s) ==
  [Push(s, Pkt("NEWKEYS", 0)) EXCEPT !.expired = @ \ {"out"}, !.outkeys = Agreed(e, s), !.outseq = 0]

\* NEWKEYS goes out under the old keys, and everything after it under the new ones.
SwitchOutput(e, s) ==
  [HandleOutput(Push(s, Pkt("NEWKEYS", 0)))
     EXCEPT !.expired = @ \ {"out"}, !.outkeys = Agreed(e, s), !.outseq = 0]

\* Mutant of GetKex: what was held back waits for the loop.
GetKex_Holding(e, s, p) ==
  LET t == IF e = "server" THEN Push(s, Pkt("KEXDH_REPLY", 0)) ELSE s
  IN  [SwitchOutput(e, t) EXCEPT !.stage = "newkeys"]

\* The end of the exchange proper: ssh2kex_coroutine, and our NEWKEYS.
GetKex(e, s, p) ==
  LET t == IF e = "server" THEN Push(s, Pkt("KEXDH_REPLY", 0)) ELSE s
  IN  [PassThrough(SwitchOutput(e, t)) EXCEPT !.stage = "newkeys"]

SwitchInput(e, s) ==
  [s EXCEPT !.expired = @ \ {"in"}, !.inkeys = Agreed(e, s), !.inseq = 0,
            !.pending_newkeys = FALSE]

\* Mutant of GetNewkeys: settings changed meanwhile are left for another time.
GetNewkeys_Forgetful(e, s) ==
  LET t == [SwitchInput(e, s) EXCEPT !.kex_in_progress = FALSE]
  IN  IF s.higher_layer_ok THEN [t EXCEPT !.rekey_class = "NONE", !.stage = "idle"]
      ELSE IF e = "client" THEN [Push(t, Pkt("SERVICE_REQUEST", 0)) EXCEPT !.stage = "service"]
      ELSE [t EXCEPT !.stage = "service"]

\* The other side's NEWKEYS.
GetNewkeys(e, s) ==
  LET t == SwitchInput(e, s)
      over == [t EXCEPT !.kex_in_progress = FALSE]
  IN  IF s.deferred THEN Begin(e, [t EXCEPT !.deferred = FALSE])
      ELSE IF s.higher_layer_ok THEN [over EXCEPT !.rekey_class = "NONE", !.stage = "idle"]
      ELSE IF e = "client" THEN [Push(over, Pkt("SERVICE_REQUEST", 0)) EXCEPT !.stage = "service"]
      ELSE [over EXCEPT !.stage = "service"]

\* SERVICE_REQUEST or SERVICE_ACCEPT.
GetService(e, s) ==
  LET t == [s EXCEPT !.higher_layer_ok = TRUE, !.rekey_class = "NONE", !.stage = "idle"]
  IN  IF e = "server" THEN Push(t, Pkt("SERVICE_ACCEPT", 0)) ELSE t

Expected(e, stage) ==
  CASE stage = "kexinit" -> "KEXINIT"
    [] stage = "kex"     -> IF e = "client" THEN "KEXDH_REPLY" ELSE "KEXDH_INIT"
    [] stage = "newkeys" -> "NEWKEYS"
    [] stage = "service" -> IF e = "client" THEN "SERVICE_ACCEPT" ELSE "SERVICE_REQUEST"

\* Why to begin a key exchange, once the loop at the end has resumed.  The data limits
\* are looked at if there is no other reason.
Reason(s) ==
  IF s.in_pq # <<>> THEN "SERVER"
  ELSE IF s.rekey_class \notin {"NONE", "POST_USERAUTH"} THEN s.rekey_class
  ELSE IF s.expired # {} THEN "NORMAL" ELSE "NONE"

Refused(e, class) == class = "NORMAL" /\ e = "client" /\ bug = "norekey"

\* Mutant of Idle: the packets of the higher layer are passed through last.
Idle_PassingLate(e, s) ==
  LET class == Reason(s)
  IN  PassThrough(IF class = "NONE" \/ Refused(e, class) THEN [s EXCEPT !.rekey_class = "NONE"]
                  ELSE Begin(e, [s EXCEPT !.rekey_class = class]))

\* The loop at the end.  A KEXINIT stays on the queue for begin_key_exchange.
Idle(e, s) ==
  LET t == PassThrough(s)
      class == Reason(t)
  IN  IF t.in_pq # <<>> /\ Head(t.in_pq).type # "KEXINIT" THEN ProtoError(t)
      ELSE IF class = "NONE" THEN [t EXCEPT !.rekey_class = "NONE"]
      ELSE IF Refused(e, class) THEN [t EXCEPT !.rekey_class = "NONE", !.expired = {}]
      ELSE Begin(e, [t EXCEPT !.rekey_class = class, !.wake = class = "SERVER"])
-----------------------------------------------------------------------------
(* ssh2_transport_process_queue *)

\* ssh2_transport_filter_queue: packets for the higher layer leave the front of the queue.
Leading(q) == SelectInSeq(q \o <<Pkt("end", 0)>>, LAMBDA p : p.type # "HIGHER") - 1

Filter(x) ==
  LET n == Leading(x.s.in_pq)
      s == [x.s EXCEPT !.in_pq = SubSeq(@, n + 1, Len(@))]
  IN  IF n > 0 /\ ~s.higher_layer_ok THEN [x EXCEPT !.s = ProtoError(s)]
      ELSE [s |-> s, got |-> x.got \o SubSeq(x.s.in_pq, 1, n)]

\* The packet the coroutine has waited for wakes it.
Taken(e, s, p) ==
  IF p.type # Expected(e, s.stage) THEN ProtoError(s)
  ELSE CASE s.stage = "kexinit" -> GetKexinit(e, s, p)
         [] s.stage = "kex"     -> GetKex(e, s, p)
         [] s.stage = "newkeys" -> GetNewkeys(e, s)
         [] s.stage = "service" -> GetService(e, s)

Popped(s) == [s EXCEPT !.in_pq = Tail(@)]

\* It goes on from one wait to the next, if the packet for it is there.
Resume(e, x) ==
  LET y == Filter(x)
  IN  IF y.s.failed \/ y.s.in_pq = <<>> \/ y.s.stage = "idle" THEN y
      ELSE [y EXCEPT !.s = Taken(e, Popped(@), Head(@.in_pq))]

\* Where there is nothing to wait for: at the start, and in the loop at the end.
Start(e, x) ==
  CASE x.s.failed -> x
    [] x.s.stage = "start" -> [x EXCEPT !.s = Begin(e, @)]
    [] x.s.stage = "idle"  -> [x EXCEPT !.s = Idle(e, @)]
    [] OTHER -> x

\* From one crReturnV to the next.  Four packets are the most that one call takes.
Call(e, x) ==
  LET y == Filter(x)
      z == Start(e, y)
  IN  IF y.s.stage = "idle" /\ z.s.stage = "idle" THEN z
      ELSE Resume(e, Resume(e, Resume(e, Resume(e, z))))

Process(e) ==
  LET z == Call(e, [s |-> [end[e] EXCEPT !.wake = FALSE], got |-> got[e]])
  IN  /\ end[e].wake /\ ~end[e].failed
      /\ end' = [end EXCEPT ![e] = z.s] /\ got' = [got EXCEPT ![e] = z.got]
      /\ UNCHANGED <<bug, reasons>>
-----------------------------------------------------------------------------
(* The binary packet protocol's callbacks *)

\* ic_out_pq.
Output(e) ==
  /\ ~end[e].failed /\ end[e].out_pq # <<>>
  /\ end' = [end EXCEPT ![e] = HandleOutput(@)]
  /\ UNCHANGED <<bug, reasons, got>>

\* Mutant of Suspended: the input after NEWKEYS is decoded at once.
Suspended_Never(e) == FALSE

\* pending_newkeys: ssh2_bpp_handle_input has stopped after NEWKEYS.
Suspended(e) == end[e].pending_newkeys

Authentic(e, w) == w.keys = end[e].inkeys /\ w.seq = end[e].inseq

\* ic_in_raw: the next packet is decoded.
Input(e) ==
  LET from == Other(e)
      w == Head(end[from].raw)
      s == [end[e] EXCEPT !.in_pq = Append(@, w.pkt), !.inseq = @ + 1, !.wake = TRUE,
                          !.pending_newkeys = w.pkt.type = "NEWKEYS"]
  IN  /\ ~end[e].failed /\ ~Suspended(e) /\ end[from].raw # <<>>
      /\ end' = [end EXCEPT ![from].raw = Tail(@),
                            ![e] = IF Authentic(e, w) THEN s ELSE ProtoError(@)]
      /\ UNCHANGED <<bug, reasons, got>>
-----------------------------------------------------------------------------
(* The higher layer, the user and the timer *)

\* The higher layer sends a packet.  The client's layer, userauth, goes first.
Submit(e) ==
  LET n == end[e].submitted + 1
      late == end[e].stage = "newkeys"
  IN  /\ ~end[e].failed /\ end[e].higher_layer_ok /\ n <= MaxSent[e]
      /\ e = "server" => got[e] # <<>>
      /\ end' = [end EXCEPT ![e].pq_out_higher = Append(@, Pkt("HIGHER", n)),
                            ![e].submitted = n, ![e].wake = TRUE,
                            ![e].late = IF late THEN @ \cup {n} ELSE @]
      /\ UNCHANGED <<bug, reasons, got>>

\* ssh2_transport_notify_auth_done.
AuthDone ==
  /\ ~end["client"].failed /\ ~end["client"].authdone /\ got["client"] # <<>>
  /\ end' = [end EXCEPT !["client"].authdone = TRUE, !["client"].rekey_class = "POST_USERAUTH",
                        !["client"].wake = TRUE]
  /\ UNCHANGED <<bug, reasons, got>>

HasReason == reasons < MaxRekeys /\ reasons' = reasons + 1 /\ UNCHANGED <<bug, got>>

\* ssh2_transport_timer, and SS_REKEY from the user of the client: if no key exchange
\* is in progress, it is asked for.
Rekey(e) ==
  /\ ~end[e].failed /\ end[e].stage # "start" /\ HasReason
  /\ end' = IF end[e].kex_in_progress THEN end
            ELSE [end EXCEPT ![e].rekey_class = "NORMAL", ![e].wake = TRUE]

\* dts_consume: the limit for the data under these keys is passed.
Expire(e, dir) ==
  /\ ~end[e].failed /\ end[e].higher_layer_ok /\ dir \notin end[e].expired /\ HasReason
  /\ end' = [end EXCEPT ![e].expired = @ \cup {dir}]

\* ssh2_transport_reconfigure, with settings that need new keys.  The server takes no
\* key exchange while it waits for SERVICE_REQUEST, so the settings change later.  (The
\* delayed compression that makes a rekey inadvisable is not modelled.)
Reconfigure ==
  LET s == end["client"]
      t == [s EXCEPT !.conf = @ + 1,
                     !.honour = IF s.authdone /\ bug # "norekey" THEN s.conf + 1 ELSE @]
  IN  /\ ~s.failed /\ s.higher_layer_ok /\ s.conf < MaxConf
      /\ end' = [end EXCEPT !["client"] =
                   IF s.kex_in_progress THEN [t EXCEPT !.deferred = TRUE]
                   ELSE [t EXCEPT !.rekey_class = "NORMAL", !.wake = TRUE]]
      /\ UNCHANGED <<bug, reasons, got>>

Next ==
  \/ \E e \in Ends : Process(e) \/ Output(e) \/ Input(e) \/ Submit(e) \/ Rekey(e)
                     \/ \E dir \in {"in", "out"} : Expire(e, dir)
  \/ AuthDone \/ Reconfigure

\* Callbacks that are queued run, data that has been sent is delivered, and the layer
\* that authenticates the user begins by itself.
FirstSubmit == end["client"].submitted = 0 /\ Submit("client")

CanProcess(e) == end[e].wake /\ ~end[e].failed
CanOutput(e) == end[e].out_pq # <<>> /\ ~end[e].failed
CanInput(e) == end[Other(e)].raw # <<>> /\ ~end[e].failed /\ ~Suspended(e)
CanFirst == end["client"].submitted = 0 /\ end["client"].higher_layer_ok /\ ~end["client"].failed

\* Weak fairness, with ENABLED written out.
Fairness ==
  /\ \A e \in Ends : /\ []<>(~CanProcess(e)) \/ []<><<Process(e)>>_vars
                     /\ []<>(~CanOutput(e)) \/ []<><<Output(e)>>_vars
                     /\ []<>(~CanInput(e)) \/ []<><<Input(e)>>_vars
  /\ []<>(~CanFirst) \/ []<><<FirstSubmit>>_vars

Spec == Init /\ [][Next]_vars
FairSpec == Spec /\ Fairness
-----------------------------------------------------------------------------
(* Properties *)

\* No end meets a packet that it does not expect or cannot authenticate, whoever began
\* the key exchange, and when both did: every packet finds the receiver with the keys
\* and the sequence number it was sent with, though NEWKEYS travels in each direction by
\* itself, data follows it at once, and callbacks encode and decode at any time.
\* Code: the proto errors of ssh2_transport_process_queue; ssh_bpp_handle_output before
\* ssh2_bpp_new_outgoing_crypto; pending_newkeys.
KeysAgree ==
  \A e \in Ends : end[Other(e)].raw # <<>> /\ ~Suspended(e) => Authentic(e, Head(end[Other(e)].raw))

NoProtocolError == (\A e \in Ends : ~end[e].failed) /\ KeysAgree

\* A packet that is held back while no key exchange is in progress and nothing is about
\* to run was sent by the higher layer between our NEWKEYS and the other side's.
\* Code: the pq_concatenate of pq_out_higher after NEWKEYS and in the loop.
OnlyLateWait ==
  \A e \in Ends : end[e].stage = "idle" /\ ~end[e].wake =>
    {p.arg : p \in ToSet(end[e].pq_out_higher)} \subseteq end[e].late

\* Between KEXINIT and NEWKEYS no packet of the higher layer is sent; those that have
\* waited arrive once and in order; and those that go on waiting are as OnlyLateWait says.
\* Code: pq_out_higher, which is passed through outside of a key exchange only.
Sent(e) == [k \in DOMAIN end[e].raw |-> end[e].raw[k].pkt] \o end[e].out_pq
SentInOrder ==
  \A e \in Ends :
    /\ \A i \in DOMAIN Sent(e) : \A j \in (i + 1)..Len(Sent(e)) :
         Sent(e)[i].type = "KEXINIT" /\ Sent(e)[j].type = "HIGHER" =>
           \E k \in i..j : Sent(e)[k].type = "NEWKEYS"
    /\ \A k \in DOMAIN got[e] : got[e][k].arg = k
QuietDuringKex == OnlyLateWait /\ SentInOrder

\* Every key exchange comes to its end at both ends.
\* Code: ssh2_transport_process_queue.
KexEnds == \A e \in Ends : end[e].kex_in_progress ~> ~end[e].kex_in_progress

\* Settings that need new keys are used in the end, whether they were changed during a
\* key exchange or outside of one, if they were changed after the user was authenticated and
\* the server can rekey at all; earlier changes can be lost (README).
\* Code: deferred_rekey_reason, rekey_class.
SettingsUsed ==
  \A v \in 1..MaxConf : end["client"].honour = v ~> end["client"].outkeys.conf >= v

\* transport2.c:1882: "Now our end of the key exchange is complete, we can send all our
\* queued higher-layer packets."  So none is held while no key exchange is in progress
\* and nothing is about to run.
NothingHeld ==
  \A e \in Ends : end[e].stage = "idle" /\ ~end[e].wake => end[e].pq_out_higher = <<>>
=============================================================================
