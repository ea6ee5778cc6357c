--------------------------- MODULE Transport2_proofs ---------------------------
(***************************************************************************)
(* The two ends of a connection stay in step through all key exchanges:    *)
(* no packet comes that its receiver does not expect or cannot             *)
(* authenticate, whatever the number of exchanges, changes of the settings *)
(* and packets of the higher layers, and the higher layers are quiet in    *)
(* between.                                                                *)
(*                                                                         *)
(* The stream of packets in each direction is a walk through places: which *)
(* packet comes next is known from the number of the exchange and what has *)
(* been sent in it.  Each end knows its place in its own stream and in the *)
(* other's from where its coroutine waits.                                 *)
(***************************************************************************)
EXTENDS Transport2, WellFoundedInduction, TLAPS

-----------------------------------------------------------------------------
(* Walks *)

\* Where a stream of packets is: which packet of which key exchange comes next (a KEXINIT,
\* that of the method, NEWKEYS, or that of the service), and how many of the higher
\* layer's there have been.
Places == [round : Nat \ {0}, at : {"K", "D", "N", "S"}, high : Nat]

After(a) ==
  LET over == a.at = "S" \/ (a.at = "N" /\ a.round # 1)
  IN  [round |-> IF over THEN a.round + 1 ELSE a.round,
       at |-> IF a.at = "K" THEN "D" ELSE IF a.at = "D" THEN "N" ELSE IF over THEN "K" ELSE "S",
       high |-> a.high]

TypeAt(e, a) ==
  IF a.at = "K" THEN "KEXINIT"
  ELSE IF a.at = "D" THEN IF e = "client" THEN "KEXDH_INIT" ELSE "KEXDH_REPLY"
  ELSE IF a.at = "N" THEN "NEWKEYS"
  ELSE IF e = "client" THEN "SERVICE_REQUEST" ELSE "SERVICE_ACCEPT"

\* What the two ends E have done for good: the KEXINITs they have made, and whether the
\* service has been granted, and accepted.
View(E) == [confs |-> [e \in Ends |-> E[e].confs],
            ready |-> E["server"].higher_layer_ok, open |-> E["client"].higher_layer_ok]

Kexinit(v, e, n) == IF n = 0 THEN NoKexinit ELSE [no |-> n, conf |-> v.confs[e][n]]
KeysOf(v, k) == IF k = 0 THEN NoKeys
                ELSE [client |-> k, server |-> k, conf |-> v.confs["client"][k]]

\* n packets of the higher layer later.
Past(a, n) == [round |-> a.round, at |-> a.at, high |-> a.high + n]

\* Packet p of end e's leads from one place to another.
Step(v, e, a, p, b) ==
  IF p.type = "HIGHER"
  THEN v.open /\ a.at = "K" /\ p.arg = a.high + 1 /\ b = Past(a, 1)
  ELSE /\ p.type = TypeAt(e, a) /\ b = After(a)
       /\ a.at = "K" => a.round <= Len(v.confs[e]) /\ p.arg = Kexinit(v, e, a.round)
       /\ a.at = "S" /\ e = "server" => v.ready

\* The key exchanges that are complete.
Passed(a) == IF a.at = "S" THEN a.round ELSE a.round - 1

\* Where an end is in its own stream, and in the other's.
At(k, c, n) == [round |-> k, at |-> c, high |-> n]
Sending(e, s, n) ==
  LET r == s.ours.no
  IN  CASE s.stage = "start" -> At(1, "K", n)
        [] s.stage = "kexinit" -> At(r, IF s.kexinit_delayed THEN "K" ELSE "D", n)
        [] s.stage = "kex" -> At(r, IF e = "client" THEN "N" ELSE "D", n)
        [] s.stage = "newkeys" -> IF r = 1 THEN At(1, "S", n) ELSE At(r + 1, "K", n)
        [] s.stage = "service" -> IF e = "client" THEN At(2, "K", n) ELSE At(1, "S", n)
        [] s.stage = "idle" -> At(r + 1, "K", n)
Awaiting(s, n) ==
  LET r == s.ours.no
  IN  CASE s.stage = "start" -> At(1, "K", n)
        [] s.stage = "kexinit" -> At(r, "K", n)
        [] s.stage = "kex" -> At(r, "D", n)
        [] s.stage = "newkeys" -> At(r, "N", n)
        [] s.stage = "service" -> At(1, "S", n)
        [] s.stage = "idle" -> At(r + 1, "K", n)

\* The packets of q lead from a to b.
Walks(v, e, q, a, b, f) ==
  /\ f \in [0 .. Len(q) -> Places] /\ f[0] = a /\ f[Len(q)] = b
  /\ \A i \in 1 .. Len(q) : Step(v, e, f[i - 1], q[i], f[i])
Path(v, e, q, a, b) == \E f : Walks(v, e, q, a, b, f)

\* ... in wire format, with the keys of their place; n and m are the sequence numbers
\* of the next packet before and after them.
Coded(v, a, n, w, m) ==
  /\ Passed(a) <= Len(v.confs["client"])
  /\ w.keys = KeysOf(v, Passed(a)) /\ w.seq = n
  /\ m = IF w.pkt.type = "NEWKEYS" THEN 0 ELSE n + 1
Wire(v, e, q, a, n, b, m) ==
  \E f \in [0 .. Len(q) -> Places], g \in [0 .. Len(q) -> Nat] :
    /\ f[0] = a /\ f[Len(q)] = b /\ g[0] = n /\ g[Len(q)] = m
    /\ \A i \in 1 .. Len(q) : /\ Step(v, e, f[i - 1], q[i].pkt, f[i])
                              /\ Coded(v, f[i - 1], g[i - 1], q[i], g[i])

\* A set of numbers has a least one.
LEMMA Least ==
  ASSUME NEW T, T \subseteq Nat, T # {}
  PROVE  \E m \in T : \A n \in T : m <= n
<1>1. PICK x \in T : \A y \in T : <<y, x>> \notin OpToRel(<, Nat)
  BY WFMin, NatLessThanWellFounded, Zenon
<1>2. \A y \in T : ~(y < x)
  BY <1>1, Zenon DEF OpToRel
<1>3. QED
  BY <1>2

LEMMA PathEmpty ==
  ASSUME NEW v, NEW e, NEW a \in Places
  PROVE  Path(v, e, <<>>, a, a) /\ \A b : Path(v, e, <<>>, a, b) => b = a
<1>1. Path(v, e, <<>>, a, a)
  <2> DEFINE f == [i \in 0 .. 0 |-> a]
  <2>1. f \in [0 .. Len(<<>>) -> Places] /\ f[0] = a
    OBVIOUS
  <2> HIDE DEF f
  <2>2. QED
    BY <2>1 DEF Path, Walks
<1>2. QED
  BY <1>1 DEF Path, Walks

\* One more packet.
\* Code: pq_base_push.
LEMMA PathAppend ==
  ASSUME NEW v, NEW e, NEW S, NEW q \in Seq(S), NEW p \in S, NEW a, NEW b,
         Path(v, e, q, a, b), NEW c \in Places, Step(v, e, b, p, c)
  PROVE  Path(v, e, Append(q, p), a, c)
<1> DEFINE r == Append(q, p)
<1>1. PICK f \in [0 .. Len(q) -> Places] :
        /\ f[0] = a /\ f[Len(q)] = b
        /\ \A i \in 1 .. Len(q) : Step(v, e, f[i - 1], q[i], f[i])
  BY DEF Path, Walks
<1> DEFINE g == [i \in 0 .. Len(r) |-> IF i = Len(r) THEN c ELSE f[i]]
<1>2. /\ Len(q) \in Nat /\ Len(r) = Len(q) + 1 /\ r[Len(q) + 1] = p
      /\ \A i \in 1 .. Len(q) : r[i] = q[i]
  OBVIOUS
<1> HIDE DEF r
<1>3. g \in [0 .. Len(r) -> Places] /\ g[0] = a /\ g[Len(r)] = c
  BY <1>1, <1>2
<1>4. ASSUME NEW i \in 1 .. Len(r) PROVE Step(v, e, g[i - 1], r[i], g[i])
  <2>1. CASE i = Len(r)
    BY <1>1, <1>2, <2>1
  <2>2. CASE i # Len(r)
    <3>1. i \in 1 .. Len(q) /\ g[i] = f[i] /\ g[i - 1] = f[i - 1] /\ r[i] = q[i]
      BY <1>2, <2>2
    <3>2. QED
      BY <1>1, <3>1
  <2>3. QED
    BY <2>1, <2>2
<1> HIDE DEF g
<1>5. Path(v, e, r, a, c)
  BY <1>3, <1>4 DEF Path, Walks
<1>6. QED
  BY <1>5 DEF r

\* One packet less.
\* Code: pq_pop.
LEMMA PathTail ==
  ASSUME NEW v, NEW e, NEW S, NEW q \in Seq(S), q # <<>>, NEW a, NEW b, Path(v, e, q, a, b)
  PROVE  \E c \in Places : Step(v, e, a, Head(q), c) /\ Path(v, e, Tail(q), c, b)
<1> DEFINE r == Tail(q)
<1>1. PICK f \in [0 .. Len(q) -> Places] :
        /\ f[0] = a /\ f[Len(q)] = b
        /\ \A i \in 1 .. Len(q) : Step(v, e, f[i - 1], q[i], f[i])
  BY DEF Path, Walks
<1>2. /\ Len(q) \in Nat /\ Len(q) >= 1 /\ Len(r) = Len(q) - 1 /\ Head(q) = q[1]
      /\ \A i \in 1 .. Len(r) : r[i] = q[i + 1]
  OBVIOUS
<1> HIDE DEF r
<1> DEFINE g == [i \in 0 .. Len(r) |-> f[i + 1]]
<1>3. g \in [0 .. Len(r) -> Places] /\ g[0] = f[1] /\ g[Len(r)] = b /\ f[1] \in Places
  BY <1>1, <1>2
<1>4. ASSUME NEW i \in 1 .. Len(r) PROVE Step(v, e, g[i - 1], r[i], g[i])
  <2>1. i + 1 \in 1 .. Len(q) /\ g[i] = f[i + 1] /\ g[i - 1] = f[(i + 1) - 1] /\ r[i] = q[i + 1]
    BY <1>2
  <2>2. QED
    BY <1>1, <2>1
<1> HIDE DEF g
<1>5. Path(v, e, r, f[1], b)
  BY <1>3, <1>4 DEF Path, Walks
<1>6. Step(v, e, a, Head(q), f[1])
  <2>1. 1 \in 1 .. Len(q)
    BY <1>2
  <2>2. QED
    BY <1>1, <1>2, <2>1
<1>7. QED
  BY <1>3, <1>5, <1>6 DEF r

\* Two walks in succession.
\* Code: pq_base_concatenate.
LEMMA PathConcat ==
  ASSUME NEW v, NEW e, NEW S, NEW q \in Seq(S), NEW r \in Seq(S), NEW a, NEW b, NEW c,
         Path(v, e, q, a, b), Path(v, e, r, b, c)
  PROVE  Path(v, e, q \o r, a, c)
<1> DEFINE z == q \o r
<1>1. PICK f \in [0 .. Len(q) -> Places] :
        /\ f[0] = a /\ f[Len(q)] = b
        /\ \A i \in 1 .. Len(q) : Step(v, e, f[i - 1], q[i], f[i])
  BY DEF Path, Walks
<1>2. PICK g \in [0 .. Len(r) -> Places] :
        /\ g[0] = b /\ g[Len(r)] = c
        /\ \A i \in 1 .. Len(r) : Step(v, e, g[i - 1], r[i], g[i])
  BY DEF Path, Walks
<1> DEFINE h == [i \in 0 .. Len(z) |-> IF i <= Len(q) THEN f[i] ELSE g[i - Len(q)]]
<1>3. /\ Len(q) \in Nat /\ Len(r) \in Nat /\ Len(z) = Len(q) + Len(r)
      /\ \A i \in 1 .. Len(q) : z[i] = q[i]
      /\ \A i \in (Len(q) + 1) .. Len(z) : z[i] = r[i - Len(q)]
  OBVIOUS
<1> HIDE DEF z
<1>4. h \in [0 .. Len(z) -> Places] /\ h[0] = a /\ h[Len(z)] = c
  BY <1>1, <1>2, <1>3
<1>5. ASSUME NEW i \in 1 .. Len(z) PROVE Step(v, e, h[i - 1], z[i], h[i])
  <2>1. CASE i <= Len(q)
    <3>1. i \in 1 .. Len(q) /\ h[i] = f[i] /\ h[i - 1] = f[i - 1] /\ z[i] = q[i]
      BY <1>3, <2>1
    <3>2. QED
      BY <1>1, <3>1
  <2>2. CASE i > Len(q)
    <3>1. /\ i - Len(q) \in 1 .. Len(r) /\ h[i] = g[i - Len(q)]
          /\ h[i - 1] = g[(i - Len(q)) - 1] /\ z[i] = r[i - Len(q)]
      BY <1>1, <1>2, <1>3, <2>2, SMTT(30)
    <3>2. QED
      BY <1>2, <3>1
  <2>3. QED
    BY <1>3, <2>1, <2>2
<1> HIDE DEF h
<1>6. Path(v, e, z, a, c)
  BY <1>4, <1>5 DEF Path, Walks
<1>7. QED
  BY <1>6 DEF z

\* Packets of the higher layer, the first of them the h + 1st.
Highers(q, h) == \A i \in DOMAIN q : q[i] = Pkt("HIGHER", h + i)

\* Where they lead to.
\* Code: ssh2_transport_filter_queue.
LEMMA Pasts ==
  ASSUME NEW a \in Places
  PROVE  /\ Past(a, 0) = a
         /\ \A n \in Nat : Past(a, n) \in Places /\ Past(Past(a, n), 1) = Past(a, n + 1)
         /\ \A n \in Nat \ {0} : Past(a, n) = Past(Past(a, n - 1), 1)
  BY DEF Places, Past

\* What the higher layer has sent is passed on.
\* Code: pq_concatenate of pq_out_higher.
LEMMA PathHighers ==
  ASSUME NEW v, NEW e, NEW S, NEW q \in Seq(S), NEW r \in Seq(S), NEW a, NEW b \in Places,
         Path(v, e, q, a, b), Highers(r, b.high), r # <<>> => v.open /\ b.at = "K"
  PROVE  Path(v, e, q \o r, a, Past(b, Len(r)))
<1> DEFINE f == [i \in 0 .. Len(r) |-> Past(b, i)]
<1>1. Len(r) \in Nat /\ DOMAIN r = 1 .. Len(r) /\ b.high \in Nat
  BY DEF Places
<1>2. f \in [0 .. Len(r) -> Places] /\ f[0] = b /\ f[Len(r)] = Past(b, Len(r))
  BY <1>1, Pasts
<1>3. ASSUME NEW i \in 1 .. Len(r) PROVE Step(v, e, f[i - 1], r[i], f[i])
  <2>1. r[i] = Pkt("HIGHER", b.high + i) /\ v.open /\ b.at = "K"
    BY <1>1 DEF Highers
  <2>2. f[i - 1] = Past(b, i - 1) /\ f[i] = Past(b, i) /\ i \in Nat \ {0}
    BY <1>1
  <2> HIDE DEF f
  <2>3. f[i - 1].at = "K" /\ f[i - 1].high = b.high + (i - 1)
    BY <2>1, <2>2 DEF Past
  <2>4. f[i] = Past(f[i - 1], 1)
    BY <2>2, Pasts
  <2>5. r[i].type = "HIGHER" /\ r[i].arg = b.high + i
    BY <2>1 DEF Pkt
  <2>6. b.high + i = f[i - 1].high + 1
    BY <1>1, <2>2, <2>3
  <2>7. QED
    BY <2>1, <2>3, <2>4, <2>5, <2>6 DEF Step
<1> HIDE DEF f
<1>4. Path(v, e, r, b, Past(b, Len(r)))
  BY <1>2, <1>3 DEF Path, Walks
<1>5. QED
  BY <1>4, PathConcat

\* Packets of the higher layer at the beginning of a walk.
\* Code: ssh2_transport_filter_queue.
LEMMA PathLeading ==
  ASSUME NEW v, NEW e, NEW S, NEW q \in Seq(S), NEW a \in Places, NEW b, Path(v, e, q, a, b),
         NEW n \in 0 .. Len(q), \A i \in 1 .. n : q[i].type = "HIGHER"
  PROVE  /\ \A i \in 1 .. n : q[i].arg = a.high + i
         /\ n > 0 => v.open
         /\ Past(a, n) \in Places
         /\ Path(v, e, SubSeq(q, n + 1, Len(q)), Past(a, n), b)
<1> DEFINE r == SubSeq(q, n + 1, Len(q))
<1>1. PICK f \in [0 .. Len(q) -> Places] :
        /\ f[0] = a /\ f[Len(q)] = b
        /\ \A i \in 1 .. Len(q) : Step(v, e, f[i - 1], q[i], f[i])
  BY DEF Path, Walks
<1>2. /\ Len(q) \in Nat /\ n \in Nat /\ n <= Len(q) /\ Len(r) = Len(q) - n
      /\ \A i \in 1 .. Len(r) : r[i] = q[i + n]
  <2>1. Len(q) \in Nat /\ n \in 0 .. Len(q)
    OBVIOUS
  <2>2. Len(r) = Len(q) - n /\ \A i \in 1 .. Len(r) : r[i] = q[i + n]
    BY <2>1
  <2>3. QED
    BY <2>1, <2>2
<1>3. a.high \in Nat /\ a = [round |-> a.round, at |-> a.at, high |-> a.high]
  BY DEF Places
<1> HIDE DEF r
<1>4. \A i \in 0 .. n : f[i] = Past(a, i)
  <2> DEFINE T == {i \in 0 .. n : f[i] # Past(a, i)}
  <2> SUFFICES ASSUME T # {} PROVE FALSE
    OBVIOUS
  <2>1. T \subseteq Nat
    BY <1>2
  <2>2. PICK i \in T : \A j \in T : i <= j
    BY <2>1, Least
  <2>3. i \in 0 .. n /\ f[i] # Past(a, i)
    OBVIOUS
  <2>4. i # 0
    BY <1>1, <2>3, Pasts
  <2>5. i - 1 \in 0 .. n /\ ~(i <= i - 1)
    BY <1>2, <2>3, <2>4
  <2>6. f[i - 1] = Past(a, i - 1)
    BY <2>2, <2>5
  <2> HIDE DEF T
  <2>7. i \in 1 .. Len(q) /\ i \in 1 .. n
    BY <1>2, <2>3, <2>4
  <2>8. Step(v, e, f[i - 1], q[i], f[i]) /\ q[i].type = "HIGHER"
    BY <1>1, <2>7
  <2>9. f[i] = Past(f[i - 1], 1)
    BY <2>8 DEF Step
  <2>10. Past(Past(a, i - 1), 1) = Past(a, i)
    BY <1>2, <2>3, <2>4, Pasts
  <2>11. QED
    BY <2>3, <2>6, <2>9, <2>10
<1>5. ASSUME NEW i \in 1 .. n PROVE q[i].arg = a.high + i /\ v.open
  <2>1. Step(v, e, f[i - 1], q[i], f[i]) /\ q[i].type = "HIGHER"
    BY <1>1, <1>2
  <2>2. q[i].arg = f[i - 1].high + 1 /\ v.open
    BY <2>1 DEF Step
  <2>3. f[i - 1] = Past(a, i - 1) /\ Past(a, i - 1).high = a.high + (i - 1)
    BY <1>2, <1>3, <1>4 DEF Past
  <2>4. QED
    BY <1>2, <1>3, <2>2, <2>3
<1> DEFINE g == [i \in 0 .. Len(r) |-> f[i + n]]
<1>6. g \in [0 .. Len(r) -> Places] /\ g[0] = Past(a, n) /\ g[Len(r)] = b
  <2>1. g[0] = f[n] /\ g[Len(r)] = f[Len(q)]
    BY <1>2
  <2>2. g \in [0 .. Len(r) -> Places]
    BY <1>1, <1>2
  <2>3. QED
    BY <1>1, <1>2, <1>4, <2>1, <2>2
<1>7. ASSUME NEW i \in 1 .. Len(r) PROVE Step(v, e, g[i - 1], r[i], g[i])
  <2>1. i + n \in 1 .. Len(q) /\ g[i] = f[i + n] /\ g[i - 1] = f[(i + n) - 1] /\ r[i] = q[i + n]
    BY <1>2
  <2>2. QED
    BY <1>1, <2>1
<1> HIDE DEF g
<1>8. Path(v, e, r, Past(a, n), b)
  BY <1>6, <1>7 DEF Path, Walks
<1>9. Past(a, n) \in Places
  BY <1>2, Pasts
<1>10. QED
  BY <1>2, <1>5, <1>8, <1>9 DEF r

\* The keys do not change but with NEWKEYS.
\* Code: ssh2_bpp_new_outgoing_crypto, ssh2_bpp_new_incoming_crypto.
LEMMA StepPassed ==
  ASSUME NEW v, NEW e, NEW a \in Places, NEW p, NEW b, Step(v, e, a, p, b)
  PROVE  Passed(b) = IF p.type = "NEWKEYS" THEN Passed(a) + 1 ELSE Passed(a)
<1>1. a.round \in Nat /\ a.at \in {"K", "D", "N", "S"}
  BY DEF Places
<1>2. CASE p.type = "HIGHER"
  <2>1. b.at = a.at /\ b.round = a.round
    BY <1>2 DEF Step, Past
  <2>2. QED
    BY <1>2, <2>1 DEF Passed
<1>3. CASE p.type # "HIGHER"
  <2>1. p.type = TypeAt(e, a) /\ b = After(a)
    BY <1>3 DEF Step
  <2>2. QED
    BY <1>1, <2>1 DEF Passed, After, TypeAt
<1>4. QED
  BY <1>2, <1>3

\* As long as there is no NEWKEYS they are the same.
Steady(q, f, k) ==
  \A n \in 0 .. Len(q) : (\A i \in 1 .. n : q[i].type # "NEWKEYS") => Passed(f[n]) = k

\* Code: ssh2_bpp_handle_output.
LEMMA PathPassed ==
  ASSUME NEW v, NEW e, NEW S, NEW q \in Seq(S), NEW a, NEW b, NEW f, Walks(v, e, q, a, b, f)
  PROVE  Steady(q, f, Passed(a))
<1>1. /\ f \in [0 .. Len(q) -> Places] /\ f[0] = a /\ f[Len(q)] = b
      /\ \A i \in 1 .. Len(q) : Step(v, e, f[i - 1], q[i], f[i])
  BY DEF Walks
<1>2. Len(q) \in Nat
  OBVIOUS
<1>3. ASSUME NEW n \in 0 .. Len(q), \A i \in 1 .. n : q[i].type # "NEWKEYS"
      PROVE  Passed(f[n]) = Passed(a)
  <2> DEFINE T == {i \in 0 .. n : Passed(f[i]) # Passed(a)}
  <2> SUFFICES ASSUME T # {} PROVE FALSE
    BY <1>2
  <2>1. T \subseteq Nat
    BY <1>2
  <2>2. PICK i \in T : \A j \in T : i <= j
    BY <2>1, Least
  <2>3. i \in 0 .. n /\ Passed(f[i]) # Passed(a)
    OBVIOUS
  <2>4. i # 0
    BY <1>1, <2>3
  <2>5. i - 1 \in 0 .. n /\ ~(i <= i - 1)
    BY <1>2, <2>3, <2>4
  <2>6. Passed(f[i - 1]) = Passed(a)
    BY <2>2, <2>5
  <2> HIDE DEF T
  <2>7. i \in 1 .. Len(q) /\ i \in 1 .. n /\ i - 1 \in 0 .. Len(q)
    BY <1>2, <2>3, <2>4
  <2>8. Step(v, e, f[i - 1], q[i], f[i]) /\ q[i].type # "NEWKEYS" /\ f[i - 1] \in Places
    BY <1>1, <1>3, <2>7
  <2>9. Passed(f[i]) = Passed(f[i - 1])
    BY <2>8, StepPassed
  <2>10. QED
    BY <2>3, <2>6, <2>9
<1>4. QED
  BY <1>3 DEF Steady

\* One packet less on the wire.
\* Code: ssh2_bpp_handle_input.
LEMMA WireTail ==
  ASSUME NEW v, NEW e, NEW S, NEW q \in Seq(S), q # <<>>,
         NEW a, NEW n, NEW b, NEW m, Wire(v, e, q, a, n, b, m)
  PROVE  \E c \in Places, k \in Nat :
           /\ Step(v, e, a, Head(q).pkt, c) /\ Coded(v, a, n, Head(q), k)
           /\ Wire(v, e, Tail(q), c, k, b, m)
<1> DEFINE r == Tail(q)
<1>1. PICK f \in [0 .. Len(q) -> Places], g \in [0 .. Len(q) -> Nat] :
        /\ f[0] = a /\ f[Len(q)] = b /\ g[0] = n /\ g[Len(q)] = m
        /\ \A i \in 1 .. Len(q) : /\ Step(v, e, f[i - 1], q[i].pkt, f[i])
                                  /\ Coded(v, f[i - 1], g[i - 1], q[i], g[i])
  BY DEF Wire
<1>2. /\ Len(q) \in Nat /\ Len(q) >= 1 /\ Len(r) = Len(q) - 1 /\ Head(q) = q[1]
      /\ \A i \in 1 .. Len(r) : r[i] = q[i + 1]
  OBVIOUS
<1> HIDE DEF r
<1> DEFINE x == [i \in 0 .. Len(r) |-> f[i + 1]]
           y == [i \in 0 .. Len(r) |-> g[i + 1]]
<1>3. /\ x \in [0 .. Len(r) -> Places] /\ x[0] = f[1] /\ x[Len(r)] = b /\ f[1] \in Places
      /\ y \in [0 .. Len(r) -> Nat] /\ y[0] = g[1] /\ y[Len(r)] = m /\ g[1] \in Nat
  BY <1>1, <1>2
<1>4. ASSUME NEW i \in 1 .. Len(r)
      PROVE  Step(v, e, x[i - 1], r[i].pkt, x[i]) /\ Coded(v, x[i - 1], y[i - 1], r[i], y[i])
  <2>1. /\ i + 1 \in 1 .. Len(q) /\ r[i] = q[i + 1]
        /\ x[i] = f[i + 1] /\ x[i - 1] = f[(i + 1) - 1]
        /\ y[i] = g[i + 1] /\ y[i - 1] = g[(i + 1) - 1]
    BY <1>2
  <2>2. QED
    BY <1>1, <2>1
<1> HIDE DEF x, y
<1>5. Wire(v, e, r, f[1], g[1], b, m)
  BY <1>3, <1>4 DEF Wire
<1>6. Step(v, e, a, Head(q).pkt, f[1]) /\ Coded(v, a, n, Head(q), g[1])
  <2>1. 1 \in 1 .. Len(q)
    BY <1>2
  <2>2. Step(v, e, f[1 - 1], q[1].pkt, f[1]) /\ Coded(v, f[1 - 1], g[1 - 1], q[1], g[1])
    BY <1>1, <2>1
  <2>3. QED
    BY <1>1, <1>2, <2>2
<1>7. QED
  BY <1>3, <1>5, <1>6 DEF r

\* The elements of two sequences, one after the other.
\* Code: pq_base_concatenate.
LEMMA Concat ==
  ASSUME NEW S, NEW q \in Seq(S), NEW T, NEW r \in Seq(T)
  PROVE  /\ q \o r \in Seq(S \cup T) /\ Len(q \o r) = Len(q) + Len(r)
         /\ \A i \in 1 .. Len(q) : (q \o r)[i] = q[i]
         /\ \A i \in (Len(q) + 1) .. (Len(q) + Len(r)) : (q \o r)[i] = r[i - Len(q)]
<1>1. q \in Seq(S \cup T) /\ r \in Seq(S \cup T)
  OBVIOUS
<1>2. QED
  BY <1>1

LEMMA ConcatSame ==
  ASSUME NEW S, NEW q \in Seq(S), NEW r \in Seq(S)
  PROVE  /\ q \o r \in Seq(S) /\ Len(q \o r) = Len(q) + Len(r)
         /\ \A i \in 1 .. Len(q) : (q \o r)[i] = q[i]
         /\ \A i \in (Len(q) + 1) .. (Len(q) + Len(r)) : (q \o r)[i] = r[i - Len(q)]
OBVIOUS

\* Packets in wire format, as ssh2_bpp_handle_output makes them.
Encoded(q, k, n) == [i \in DOMAIN q |-> [pkt |-> q[i], keys |-> k, seq |-> n + i - 1]]

\* The packets that are queued are encoded, all with the same keys; NEWKEYS can only be
\* the last of them.
\* Code: ssh2_bpp_handle_output.
LEMMA WireEncode ==
  ASSUME NEW v, NEW e, NEW S, NEW q \in Seq(S), NEW U, NEW r \in Seq(U),
         NEW a, NEW n, NEW b, NEW m, NEW c,
         Wire(v, e, q, a, n, b, m), Path(v, e, r, b, c),
         \A i \in 1 .. Len(r) - 1 : r[i].type # "NEWKEYS", Passed(b) <= Len(v.confs["client"])
  PROVE  Wire(v, e, q \o Encoded(r, KeysOf(v, Passed(b)), m), a, n, c,
              IF Len(r) > 0 /\ r[Len(r)].type = "NEWKEYS" THEN 0 ELSE m + Len(r))
<1> DEFINE w == Encoded(r, KeysOf(v, Passed(b)), m)
           z == q \o w
           last == IF Len(r) > 0 /\ r[Len(r)].type = "NEWKEYS" THEN 0 ELSE m + Len(r)
<1>1. PICK f \in [0 .. Len(q) -> Places], g \in [0 .. Len(q) -> Nat] :
        /\ f[0] = a /\ f[Len(q)] = b /\ g[0] = n /\ g[Len(q)] = m
        /\ \A i \in 1 .. Len(q) : /\ Step(v, e, f[i - 1], q[i].pkt, f[i])
                                  /\ Coded(v, f[i - 1], g[i - 1], q[i], g[i])
  BY DEF Wire
<1>13. PICK x : Walks(v, e, r, b, c, x)
  BY DEF Path
<1>2. /\ x \in [0 .. Len(r) -> Places] /\ x[0] = b /\ x[Len(r)] = c
      /\ \A i \in 1 .. Len(r) : Step(v, e, x[i - 1], r[i], x[i])
      /\ Steady(r, x, Passed(b))
  BY <1>13, PathPassed DEF Walks
<1>3. /\ Len(q) \in Nat /\ Len(r) \in Nat /\ DOMAIN r = 1 .. Len(r)
      /\ \A i \in 1 .. Len(r) : r[i] \in U
  OBVIOUS
<1>4. /\ w \in Seq([pkt : U, keys : {KeysOf(v, Passed(b))}, seq : Int]) /\ Len(w) = Len(r)
      /\ \A i \in 1 .. Len(r) :
           w[i].pkt = r[i] /\ w[i].keys = KeysOf(v, Passed(b)) /\ w[i].seq = m + i - 1
  <2>1. m \in Nat
    <3>1. Len(q) \in 0 .. Len(q)
      BY <1>3
    <3>2. QED
      BY <1>1, <3>1
  <2>2. \A i \in 1 .. Len(r) : [pkt |-> r[i], keys |-> KeysOf(v, Passed(b)), seq |-> m + i - 1]
                                 \in [pkt : U, keys : {KeysOf(v, Passed(b))}, seq : Int]
    BY <1>3, <2>1
  <2>3. w = [i \in 1 .. Len(r) |-> [pkt |-> r[i], keys |-> KeysOf(v, Passed(b)), seq |-> m + i - 1]]
    BY <1>3 DEF Encoded
  <2> HIDE DEF w
  <2>4. QED
    BY <1>3, <2>2, <2>3
<1> HIDE DEF w
<1>12. PICK X : w \in Seq(X)
  BY <1>4
<1>5. /\ Len(z) = Len(q) + Len(r)
      /\ \A i \in 1 .. Len(q) : z[i] = q[i]
      /\ \A i \in (Len(q) + 1) .. Len(z) : z[i] = w[i - Len(q)]
  <2>1. /\ Len(q \o w) = Len(q) + Len(w)
        /\ \A i \in 1 .. Len(q) : (q \o w)[i] = q[i]
        /\ \A i \in (Len(q) + 1) .. (Len(q) + Len(w)) : (q \o w)[i] = w[i - Len(q)]
    BY <1>12, Concat
  <2>2. Len(w) = Len(r)
    BY <1>4
  <2>3. QED
    BY <2>1, <2>2
<1> HIDE DEF z
<1> DEFINE h == [i \in 0 .. Len(z) |-> IF i <= Len(q) THEN f[i] ELSE x[i - Len(q)]]
           k == [i \in 0 .. Len(z) |-> IF i <= Len(q) THEN g[i]
                                       ELSE IF i = Len(z) THEN last ELSE m + (i - Len(q))]
<1>6. m \in Nat /\ last \in Nat
  <2>1. Len(q) \in 0 .. Len(q)
    BY <1>3
  <2>2. m \in Nat
    BY <1>1, <2>1
  <2>3. QED
    BY <1>3, <2>2
<1> HIDE DEF last
<1>7. /\ h \in [0 .. Len(z) -> Places] /\ h[0] = a /\ h[Len(z)] = c
      /\ k \in [0 .. Len(z) -> Nat] /\ k[0] = n
  BY <1>1, <1>2, <1>3, <1>5, <1>6
<1>8. k[Len(z)] = last
  <2>1. CASE Len(r) = 0
    BY <1>1, <1>3, <1>5, <1>6, <2>1 DEF last
  <2>2. CASE Len(r) # 0
    BY <1>3, <1>5, <2>2
  <2>3. QED
    BY <2>1, <2>2
<1>9. ASSUME NEW i \in 1 .. Len(z)
      PROVE  Step(v, e, h[i - 1], z[i].pkt, h[i]) /\ Coded(v, h[i - 1], k[i - 1], z[i], k[i])
  <2>1. CASE i <= Len(q)
    <3>1. /\ i \in 1 .. Len(q) /\ z[i] = q[i]
          /\ h[i] = f[i] /\ h[i - 1] = f[i - 1] /\ k[i] = g[i] /\ k[i - 1] = g[i - 1]
      BY <1>3, <1>5, <2>1
    <3>2. QED
      BY <1>1, <3>1
  <2>2. CASE i > Len(q)
    <3> DEFINE j == i - Len(q)
    <3>1. /\ j \in 1 .. Len(r) /\ z[i] = w[j] /\ h[i] = x[j]
          /\ h[i - 1] = x[j - 1] /\ j - 1 \in 0 .. Len(r)
      <4>1. i \in (Len(q) + 1) .. Len(z) /\ j \in 1 .. Len(r)
        BY <1>3, <1>5, <2>2
      <4>4. z[i] = w[j] /\ h[i] = x[j]
        BY <1>3, <1>5, <2>2, <4>1
      <4>2. h[i - 1] = x[j - 1]
        <5>1. CASE i = Len(q) + 1
          BY <1>1, <1>2, <1>3, <1>5, <5>1
        <5>2. CASE i # Len(q) + 1
          <6>1. i - 1 \in 0 .. Len(z) /\ ~(i - 1 <= Len(q)) /\ (i - 1) - Len(q) = j - 1
            BY <1>3, <1>5, <2>2, <5>2
          <6>2. h[i - 1] = x[(i - 1) - Len(q)]
            BY <6>1
          <6>3. QED
            BY <6>1, <6>2
        <5>3. QED
          BY <5>1, <5>2
      <4>3. QED
        BY <1>3, <4>1, <4>2, <4>4
    <3>2. k[i - 1] = m + j - 1
      BY <1>1, <1>3, <1>5, <1>6, <2>2
    <3>3. k[i] = IF j = Len(r) THEN last ELSE m + j
      BY <1>3, <1>5, <2>2
    <3> HIDE DEF j, h, k
    <3>4. Step(v, e, x[j - 1], r[j], x[j])
      BY <1>2, <3>1
    <3>5. z[i].pkt = r[j] /\ z[i].keys = KeysOf(v, Passed(b)) /\ z[i].seq = m + j - 1
      BY <1>4, <3>1
    <3>6. Passed(x[j - 1]) = Passed(b)
      <4>1. \A y \in 1 .. j - 1 : r[y].type # "NEWKEYS"
        BY <1>3, <3>1
      <4>2. QED
        BY <1>2, <3>1, <4>1 DEF Steady
    <3>7. k[i] = IF r[j].type = "NEWKEYS" THEN 0 ELSE (m + j - 1) + 1
      <4>1. CASE j = Len(r)
        BY <1>3, <1>6, <3>1, <3>3, <4>1 DEF last
      <4>2. CASE j # Len(r)
        <5>1. j \in 1 .. Len(r) - 1
          <6>1. Len(r) \in Nat /\ j \in 1 .. Len(r)
            BY <1>3, <3>1
          <6>2. QED
            BY <6>1, <4>2
        <5>2. r[j].type # "NEWKEYS" /\ k[i] = m + j
          BY <3>3, <4>2, <5>1
        <5>3. m \in Nat /\ j \in Nat
          BY <1>6, <5>1
        <5>4. m + j = (m + j - 1) + 1
          BY <5>3
        <5>5. QED
          BY <5>2, <5>4
      <4>3. QED
        BY <4>1, <4>2
    <3>8. QED
      BY <3>1, <3>2, <3>4, <3>5, <3>6, <3>7 DEF Coded
  <2>3. QED
    BY <1>3, <1>5, <2>1, <2>2
<1> HIDE DEF h, k
<1>10. Wire(v, e, z, a, n, c, last)
  BY <1>7, <1>8, <1>9 DEF Wire
<1>11. QED
  BY <1>10 DEF z, w, last

-----------------------------------------------------------------------------
(* Views *)

Views == [confs : [Ends -> Seq(Nat)], ready : BOOLEAN, open : BOOLEAN]

\* What has been done for good stays done.
Grown(v, w) ==
  /\ \A e \in Ends : /\ Len(v.confs[e]) <= Len(w.confs[e])
                     /\ \A i \in 1 .. Len(v.confs[e]) : w.confs[e][i] = v.confs[e][i]
  /\ (v.ready => w.ready) /\ (v.open => w.open)

LEMMA GrownAgain ==
  ASSUME NEW u \in Views, NEW v \in Views, NEW w \in Views, Grown(u, v), Grown(v, w)
  PROVE  Grown(u, w)
<1>1. ASSUME NEW e \in Ends
      PROVE  /\ Len(u.confs[e]) <= Len(w.confs[e])
             /\ \A i \in 1 .. Len(u.confs[e]) : w.confs[e][i] = u.confs[e][i]
  <2>1. u.confs[e] \in Seq(Nat) /\ v.confs[e] \in Seq(Nat) /\ w.confs[e] \in Seq(Nat)
    BY DEF Views
  <2>2. Len(u.confs[e]) \in Nat /\ Len(v.confs[e]) \in Nat /\ Len(w.confs[e]) \in Nat
    BY <2>1
  <2>3. Len(u.confs[e]) <= Len(v.confs[e]) /\ Len(v.confs[e]) <= Len(w.confs[e])
    BY DEF Grown
  <2>4. ASSUME NEW i \in 1 .. Len(u.confs[e]) PROVE w.confs[e][i] = u.confs[e][i]
    <3>1. i \in 1 .. Len(v.confs[e])
      BY <2>2, <2>3
    <3>2. QED
      BY <3>1 DEF Grown
  <2>5. QED
    BY <2>2, <2>3, <2>4
<1>2. (u.ready => w.ready) /\ (u.open => w.open)
  BY DEF Grown
<1>3. QED
  BY <1>1, <1>2 DEF Grown

\* KEXINITs and keys are as they were.
LEMMA KexinitGrows ==
  ASSUME NEW v \in Views, NEW w, Grown(v, w)
  PROVE  /\ \A e \in Ends : \A n \in 0 .. Len(v.confs[e]) : Kexinit(w, e, n) = Kexinit(v, e, n)
         /\ \A k \in 0 .. Len(v.confs["client"]) : KeysOf(w, k) = KeysOf(v, k)
<1>1. ASSUME NEW e \in Ends, NEW n \in 0 .. Len(v.confs[e]) PROVE Kexinit(w, e, n) = Kexinit(v, e, n)
  <2>1. n = 0 \/ n \in 1 .. Len(v.confs[e])
    OBVIOUS
  <2>2. QED
    BY <2>1 DEF Kexinit, Grown
<1>2. ASSUME NEW k \in 0 .. Len(v.confs["client"]) PROVE KeysOf(w, k) = KeysOf(v, k)
  <2>1. "client" \in Ends /\ (k = 0 \/ k \in 1 .. Len(v.confs["client"]))
    BY DEF Ends
  <2>2. QED
    BY <2>1 DEF KeysOf, Grown
<1>3. QED
  BY <1>1, <1>2

LEMMA StepGrows ==
  ASSUME NEW v \in Views, NEW w \in Views, Grown(v, w), NEW e \in Ends,
         NEW a \in Places, NEW p, NEW b, Step(v, e, a, p, b)
  PROVE  Step(w, e, a, p, b)
<1>1. CASE p.type = "HIGHER"
  BY <1>1 DEF Step, Grown
<1>2. CASE p.type # "HIGHER"
  <2>1. /\ p.type = TypeAt(e, a) /\ b = After(a)
        /\ a.at = "S" /\ e = "server" => w.ready
    BY <1>2 DEF Step, Grown
  <2>2. ASSUME a.at = "K" PROVE a.round <= Len(w.confs[e]) /\ p.arg = Kexinit(w, e, a.round)
    <3>1. a.round <= Len(v.confs[e]) /\ p.arg = Kexinit(v, e, a.round)
      BY <1>2, <2>2 DEF Step
    <3>2. Len(v.confs[e]) <= Len(w.confs[e])
      BY DEF Grown
    <3>3. a.round \in Nat /\ Len(v.confs[e]) \in Nat /\ Len(w.confs[e]) \in Nat
      BY DEF Places, Views
    <3>4. a.round \in 0 .. Len(v.confs[e])
      BY <3>1, <3>3
    <3>5. QED
      BY <3>1, <3>2, <3>3, <3>4, KexinitGrows
  <2>3. QED
    BY <1>2, <2>1, <2>2 DEF Step
<1>3. QED
  BY <1>1, <1>2

LEMMA PathGrows ==
  ASSUME NEW v \in Views, NEW w \in Views, Grown(v, w), NEW e \in Ends,
         NEW S, NEW q \in Seq(S), NEW a, NEW b, Path(v, e, q, a, b)
  PROVE  Path(w, e, q, a, b)
<1>1. PICK f \in [0 .. Len(q) -> Places] :
        /\ f[0] = a /\ f[Len(q)] = b
        /\ \A i \in 1 .. Len(q) : Step(v, e, f[i - 1], q[i], f[i])
  BY DEF Path, Walks
<1>2. ASSUME NEW i \in 1 .. Len(q) PROVE Step(w, e, f[i - 1], q[i], f[i])
  <2>1. i - 1 \in 0 .. Len(q)
    OBVIOUS
  <2>2. f[i - 1] \in Places
    BY <1>1, <2>1
  <2>3. QED
    BY <1>1, <2>2, StepGrows
<1>3. QED
  BY <1>1, <1>2 DEF Path, Walks

LEMMA WireGrows ==
  ASSUME NEW v \in Views, NEW w \in Views, Grown(v, w), NEW e \in Ends,
         NEW S, NEW q \in Seq(S), NEW a, NEW n, NEW b, NEW m, Wire(v, e, q, a, n, b, m)
  PROVE  Wire(w, e, q, a, n, b, m)
<1>1. PICK f \in [0 .. Len(q) -> Places], g \in [0 .. Len(q) -> Nat] :
        /\ f[0] = a /\ f[Len(q)] = b /\ g[0] = n /\ g[Len(q)] = m
        /\ \A i \in 1 .. Len(q) : /\ Step(v, e, f[i - 1], q[i].pkt, f[i])
                                  /\ Coded(v, f[i - 1], g[i - 1], q[i], g[i])
  BY DEF Wire
<1>2. ASSUME NEW i \in 1 .. Len(q)
      PROVE  Step(w, e, f[i - 1], q[i].pkt, f[i]) /\ Coded(w, f[i - 1], g[i - 1], q[i], g[i])
  <2>1. i - 1 \in 0 .. Len(q)
    OBVIOUS
  <2>2. f[i - 1] \in Places
    BY <1>1, <2>1
  <2>3. Step(w, e, f[i - 1], q[i].pkt, f[i])
    BY <1>1, <2>2, StepGrows
  <2>4. Passed(f[i - 1]) \in Nat
    BY <2>2 DEF Places, Passed
  <2>5. Passed(f[i - 1]) <= Len(v.confs["client"]) /\ Len(v.confs["client"]) <= Len(w.confs["client"])
    BY <1>1 DEF Coded, Grown, Ends
  <2>6. Len(v.confs["client"]) \in Nat /\ Len(w.confs["client"]) \in Nat
    BY DEF Views, Ends
  <2>7. KeysOf(w, Passed(f[i - 1])) = KeysOf(v, Passed(f[i - 1]))
    <3>1. Passed(f[i - 1]) \in 0 .. Len(v.confs["client"])
      BY <2>4, <2>5, <2>6
    <3>2. QED
      BY <3>1, KexinitGrows
  <2>8. Passed(f[i - 1]) <= Len(w.confs["client"])
    BY <2>4, <2>5, <2>6
  <2>9. Coded(v, f[i - 1], g[i - 1], q[i], g[i])
    BY <1>1
  <2>10. QED
    BY <2>3, <2>7, <2>8, <2>9 DEF Coded
<1>3. QED
  BY <1>1, <1>2 DEF Wire

-----------------------------------------------------------------------------
(* Types *)

Kexinits == [no : Nat, conf : Nat]
Args == Nat \cup Kexinits
Types == {"KEXINIT", "KEXDH_INIT", "KEXDH_REPLY", "NEWKEYS", "SERVICE_REQUEST", "SERVICE_ACCEPT",
          "HIGHER"}
Packets == [type : Types, arg : Args]
Keys == [client : Nat, server : Nat, conf : Nat]
Frames == [pkt : Packets, keys : Keys, seq : Nat]
Stages == {"start", "kexinit", "kex", "newkeys", "service", "idle"}
Classes == {"NONE", "INITIAL", "SERVER", "NORMAL", "POST_USERAUTH"}
EndStates == [
  stage : Stages, in_pq : Seq(Packets), out_pq : Seq(Packets), pq_out_higher : Seq(Packets),
  wake : BOOLEAN, higher_layer_ok : BOOLEAN, kex_in_progress : BOOLEAN,
  rekey_class : Classes, deferred : BOOLEAN, expired : SUBSET {"in", "out"},
  ours : Kexinits, theirs : Kexinits, kexinit_delayed : BOOLEAN,
  outkeys : Keys, inkeys : Keys, outseq : Nat, inseq : Nat, pending_newkeys : BOOLEAN,
  raw : Seq(Frames), confs : Seq(Nat), conf : Nat, honour : Nat, authdone : BOOLEAN,
  submitted : Nat, late : SUBSET Nat, failed : BOOLEAN]

-----------------------------------------------------------------------------
(* What an end has sent *)

\* From b and sequence number m: what is in wire format already, n being the number of
\* the next packet after it, and then what is queued.
Out(v, e, raw, n, q, b, m, d) ==
  \E c \in Places : Wire(v, e, raw, b, m, c, n) /\ Path(v, e, q, c, d)

LEMMA PathPlaces ==
  ASSUME NEW v, NEW e, NEW S, NEW q \in Seq(S), NEW a, NEW b, Path(v, e, q, a, b)
  PROVE  a \in Places /\ b \in Places
<1>1. PICK f \in [0 .. Len(q) -> Places] : f[0] = a /\ f[Len(q)] = b
  BY DEF Path, Walks
<1>2. 0 \in 0 .. Len(q) /\ Len(q) \in 0 .. Len(q)
  OBVIOUS
<1>3. QED
  BY <1>1, <1>2

LEMMA WirePlaces ==
  ASSUME NEW v, NEW e, NEW S, NEW q \in Seq(S), NEW a, NEW n, NEW b, NEW m, Wire(v, e, q, a, n, b, m)
  PROVE  a \in Places /\ b \in Places /\ n \in Nat /\ m \in Nat
<1>1. PICK f \in [0 .. Len(q) -> Places], g \in [0 .. Len(q) -> Nat] :
        f[0] = a /\ f[Len(q)] = b /\ g[0] = n /\ g[Len(q)] = m
  BY DEF Wire
<1>2. 0 \in 0 .. Len(q) /\ Len(q) \in 0 .. Len(q)
  OBVIOUS
<1>3. QED
  BY <1>1, <1>2

LEMMA OutEmpty ==
  ASSUME NEW v, NEW e, NEW a \in Places
  PROVE  Out(v, e, <<>>, 0, <<>>, a, 0, a)
<1> DEFINE f == [i \in 0 .. 0 |-> a]
           g == [i \in 0 .. 0 |-> 0]
<1>1. /\ f \in [0 .. Len(<<>>) -> Places] /\ f[0] = a /\ f[Len(<<>>)] = a
      /\ g \in [0 .. Len(<<>>) -> Nat] /\ g[0] = 0 /\ g[Len(<<>>)] = 0 /\ 1 .. Len(<<>>) = {}
  OBVIOUS
<1> HIDE DEF f, g
<1>2. Wire(v, e, <<>>, a, 0, a, 0)
  BY <1>1 DEF Wire
<1>3. QED
  BY <1>2, PathEmpty DEF Out

\* Code: pq_push of out_pq.
LEMMA OutPush ==
  ASSUME NEW v, NEW e, NEW raw, NEW n, NEW S, NEW q \in Seq(S), NEW b, NEW m, NEW d,
         Out(v, e, raw, n, q, b, m, d),
         NEW p \in S, NEW x \in Places, Step(v, e, d, p, x)
  PROVE  Out(v, e, raw, n, Append(q, p), b, m, x)
<1>1. PICK c \in Places : Wire(v, e, raw, b, m, c, n) /\ Path(v, e, q, c, d)
  BY DEF Out
<1>2. Path(v, e, Append(q, p), c, x)
  BY <1>1, PathAppend
<1>3. QED
  BY <1>1, <1>2 DEF Out

\* Code: pq_concatenate of pq_out_higher.
LEMMA OutHighers ==
  ASSUME NEW v, NEW e, NEW raw, NEW n, NEW S, NEW q \in Seq(S), NEW b, NEW m, NEW d \in Places,
         Out(v, e, raw, n, q, b, m, d),
         NEW r \in Seq(S), Highers(r, d.high), r # <<>> => v.open /\ d.at = "K"
  PROVE  Out(v, e, raw, n, q \o r, b, m, Past(d, Len(r)))
<1>1. PICK c \in Places : Wire(v, e, raw, b, m, c, n) /\ Path(v, e, q, c, d)
  BY DEF Out
<1>2. Path(v, e, q \o r, c, Past(d, Len(r)))
  BY <1>1, PathHighers
<1>3. QED
  BY <1>1, <1>2 DEF Out

LEMMA OutGrows ==
  ASSUME NEW v \in Views, NEW w \in Views, Grown(v, w), NEW e \in Ends,
         NEW T, NEW raw \in Seq(T), NEW n, NEW S, NEW q \in Seq(S), NEW b, NEW m, NEW d,
         Out(v, e, raw, n, q, b, m, d)
  PROVE  Out(w, e, raw, n, q, b, m, d)
<1>1. PICK c \in Places : Wire(v, e, raw, b, m, c, n) /\ Path(v, e, q, c, d)
  BY DEF Out
<1>2. Wire(w, e, raw, b, m, c, n) /\ Path(w, e, q, c, d)
  BY <1>1, WireGrows, PathGrows
<1>3. QED
  BY <1>2 DEF Out

\* Without NEWKEYS all that is queued is for the same keys.
LEMMA SameKeys ==
  ASSUME NEW v, NEW e, NEW S, NEW q \in Seq(S), NEW c, NEW d, Path(v, e, q, c, d),
         \A i \in 1 .. Len(q) : q[i].type # "NEWKEYS"
  PROVE  Passed(c) = Passed(d)
<1>1. PICK f : Walks(v, e, q, c, d, f)
  BY DEF Path
<1>2. Steady(q, f, Passed(c)) /\ f[Len(q)] = d
  BY <1>1, PathPassed DEF Walks
<1>3. Len(q) \in 0 .. Len(q)
  OBVIOUS
<1>4. QED
  BY <1>2, <1>3 DEF Steady

\* Code: ssh2_bpp_handle_output.
LEMMA OutEncode ==
  ASSUME NEW v, NEW e, NEW T, NEW raw \in Seq(T), NEW n, NEW S, NEW q \in Seq(S),
         NEW b, NEW m, NEW d, Out(v, e, raw, n, q, b, m, d),
         \A i \in 1 .. Len(q) : q[i].type # "NEWKEYS", Passed(d) <= Len(v.confs["client"])
  PROVE  Out(v, e, raw \o Encoded(q, KeysOf(v, Passed(d)), n), n + Len(q), <<>>, b, m, d)
<1>1. PICK c \in Places : Wire(v, e, raw, b, m, c, n) /\ Path(v, e, q, c, d)
  BY DEF Out
<1>2. Passed(c) = Passed(d)
  BY <1>1, SameKeys
<1>3. Len(q) \in Nat
  OBVIOUS
<1>4. \A i \in 1 .. Len(q) - 1 : q[i].type # "NEWKEYS"
  BY <1>3
<1>5. ~(Len(q) > 0 /\ q[Len(q)].type = "NEWKEYS")
  <2>1. Len(q) > 0 => Len(q) \in 1 .. Len(q)
    BY <1>3
  <2>2. QED
    BY <2>1
<1>6. Wire(v, e, raw \o Encoded(q, KeysOf(v, Passed(c)), n), b, m, d,
              IF Len(q) > 0 /\ q[Len(q)].type = "NEWKEYS" THEN 0 ELSE n + Len(q))
  BY <1>1, <1>2, <1>4, WireEncode
<1>7. d \in Places
  BY <1>1, PathPlaces
<1>8. Path(v, e, <<>>, d, d)
  BY <1>7, PathEmpty
<1>9. QED
  BY <1>2, <1>5, <1>6, <1>7, <1>8 DEF Out

\* NEWKEYS is put into wire format, with everything before it.
\* Code: ssh_bpp_handle_output before ssh2_bpp_new_outgoing_crypto.
LEMMA OutNewkeys ==
  ASSUME NEW v, NEW e, NEW T, NEW raw \in Seq(T), NEW n, NEW S, NEW q \in Seq(S),
         NEW b, NEW m, NEW d, Out(v, e, raw, n, q, b, m, d),
         \A i \in 1 .. Len(q) : q[i].type # "NEWKEYS", Passed(d) <= Len(v.confs["client"]),
         NEW p \in S, NEW x \in Places, Step(v, e, d, p, x), p.type = "NEWKEYS"
  PROVE  Out(v, e, raw \o Encoded(Append(q, p), KeysOf(v, Passed(d)), n), 0, <<>>, b, m, x)
<1> DEFINE r == Append(q, p)
<1>1. PICK c \in Places : Wire(v, e, raw, b, m, c, n) /\ Path(v, e, q, c, d)
  BY DEF Out
<1>2. Passed(c) = Passed(d) /\ Path(v, e, r, c, x)
  BY <1>1, SameKeys, PathAppend
<1>3. /\ Len(q) \in Nat /\ Len(r) = Len(q) + 1 /\ r \in Seq(S) /\ r[Len(q) + 1] = p
      /\ \A i \in 1 .. Len(q) : r[i] = q[i]
  OBVIOUS
<1> HIDE DEF r
<1>4. \A i \in 1 .. Len(r) - 1 : r[i].type # "NEWKEYS"
  BY <1>3
<1>5. Len(r) > 0 /\ r[Len(r)].type = "NEWKEYS"
  BY <1>3
<1>6. Wire(v, e, raw \o Encoded(r, KeysOf(v, Passed(c)), n), b, m, x,
              IF Len(r) > 0 /\ r[Len(r)].type = "NEWKEYS" THEN 0 ELSE n + Len(r))
  BY <1>1, <1>2, <1>3, <1>4, WireEncode
<1>7. Path(v, e, <<>>, x, x)
  BY PathEmpty
<1>8. Out(v, e, raw \o Encoded(r, KeysOf(v, Passed(d)), n), 0, <<>>, b, m, x)
  BY <1>2, <1>5, <1>6, <1>7 DEF Out
<1>9. QED
  BY <1>8 DEF r

\* The other end decodes a packet.
\* Code: ssh2_bpp_handle_input.
LEMMA OutDecode ==
  ASSUME NEW v, NEW e, NEW T, NEW raw \in Seq(T), raw # <<>>, NEW n, NEW q, NEW b, NEW m, NEW d,
         Out(v, e, raw, n, q, b, m, d)
  PROVE  \E c \in Places, k \in Nat :
           /\ Step(v, e, b, Head(raw).pkt, c) /\ Coded(v, b, m, Head(raw), k)
           /\ Out(v, e, Tail(raw), n, q, c, k, d)
<1>1. PICK x \in Places : Wire(v, e, raw, b, m, x, n) /\ Path(v, e, q, x, d)
  BY DEF Out
<1>2. PICK c \in Places, k \in Nat :
           /\ Step(v, e, b, Head(raw).pkt, c) /\ Coded(v, b, m, Head(raw), k)
           /\ Wire(v, e, Tail(raw), c, k, x, n)
  BY <1>1, WireTail
<1>3. Out(v, e, Tail(raw), n, q, c, k, d)
  BY <1>1, <1>2 DEF Out
<1>4. QED
  BY <1>2, <1>3

\* All that is under way is one walk.
LEMMA OutWalk ==
  ASSUME NEW v, NEW e, NEW S, NEW raw \in Seq([pkt : S, keys : Keys, seq : Nat]), NEW n,
         NEW q \in Seq(S), NEW b, NEW m, NEW d, Out(v, e, raw, n, q, b, m, d)
  PROVE  Path(v, e, [k \in DOMAIN raw |-> raw[k].pkt] \o q, b, d)
<1> DEFINE r == [k \in DOMAIN raw |-> raw[k].pkt]
<1>1. PICK c \in Places : Wire(v, e, raw, b, m, c, n) /\ Path(v, e, q, c, d)
  BY DEF Out
<1>2. PICK f \in [0 .. Len(raw) -> Places], g \in [0 .. Len(raw) -> Nat] :
        /\ f[0] = b /\ f[Len(raw)] = c
        /\ \A i \in 1 .. Len(raw) : Step(v, e, f[i - 1], raw[i].pkt, f[i])
  BY <1>1 DEF Wire
<1>3. /\ Len(raw) \in Nat /\ DOMAIN raw = 1 .. Len(raw)
      /\ \A i \in 1 .. Len(raw) : raw[i].pkt \in S
  <2> DEFINE F == [pkt : S, keys : Keys, seq : Nat]
  <2>1. raw \in Seq(F) /\ \A w \in F : w.pkt \in S
    OBVIOUS
  <2> HIDE DEF F
  <2>2. \A i \in 1 .. Len(raw) : raw[i] \in F
    BY <2>1
  <2>3. QED
    BY <2>1, <2>2
<1>4. r \in Seq(S) /\ Len(r) = Len(raw) /\ \A i \in 1 .. Len(r) : r[i] = raw[i].pkt
  BY <1>3
<1> HIDE DEF r
<1>5. Path(v, e, r, b, c)
  BY <1>2, <1>4 DEF Path, Walks
<1>6. Path(v, e, r \o q, b, d)
  BY <1>1, <1>4, <1>5, PathConcat
<1>7. QED
  BY <1>6 DEF r

-----------------------------------------------------------------------------
(* What the operators of the coroutine change *)

SameIn(s, t) == /\ t.in_pq = s.in_pq /\ t.inseq = s.inseq /\ t.inkeys = s.inkeys
                /\ t.pending_newkeys = s.pending_newkeys
SameOut(s, t) == /\ t.raw = s.raw /\ t.outseq = s.outseq /\ t.outkeys = s.outkeys
                 /\ t.out_pq = s.out_pq
SameHigher(s, t) == /\ t.pq_out_higher = s.pq_out_higher /\ t.submitted = s.submitted
                    /\ t.late = s.late
SameKex(s, t) == /\ t.ours = s.ours /\ t.theirs = s.theirs /\ t.confs = s.confs
                 /\ t.kexinit_delayed = s.kexinit_delayed
SameState(s, t) == /\ t.higher_layer_ok = s.higher_layer_ok /\ t.deferred = s.deferred
                   /\ t.failed = s.failed

LEMMA PktType ==
  /\ \A t \in Types, n \in Nat : Pkt(t, n) \in Packets
  /\ \A t \in Types, k \in Kexinits : Pkt(t, k) \in Packets
<1>1. Nat \subseteq Args /\ Kexinits \subseteq Args
  BY Zenon DEF Args
<1>2. \A t \in Types, x \in Args : Pkt(t, x) \in Packets
  BY DEF Pkt, Packets
<1>3. QED
  BY <1>1, <1>2

\* Code: pq_push.
LEMMA PushFields ==
  ASSUME NEW s \in EndStates, NEW p \in Packets
  PROVE  /\ Push(s, p) \in EndStates /\ Push(s, p).out_pq = Append(s.out_pq, p)
         /\ Push(s, p).raw = s.raw /\ Push(s, p).outseq = s.outseq
         /\ Push(s, p).outkeys = s.outkeys
         /\ SameIn(s, Push(s, p)) /\ SameHigher(s, Push(s, p)) /\ SameKex(s, Push(s, p))
         /\ SameState(s, Push(s, p))
         /\ Push(s, p).stage = s.stage /\ Push(s, p).wake = s.wake
<1>1. Append(s.out_pq, p) \in Seq(Packets)
  BY DEF EndStates
<1>2. QED
  BY <1>1 DEF EndStates, Push, SameIn, SameHigher, SameKex, SameState

\* Code: pq_concatenate of pq_out_higher.
LEMMA PassThroughFields ==
  ASSUME NEW s \in EndStates
  PROVE  LET t == PassThrough(s) IN
         /\ t \in EndStates /\ t.out_pq = s.out_pq \o s.pq_out_higher /\ t.pq_out_higher = <<>>
         /\ t.raw = s.raw /\ t.outseq = s.outseq /\ t.outkeys = s.outkeys
         /\ t.submitted = s.submitted /\ t.late = s.late
         /\ SameIn(s, t) /\ SameKex(s, t) /\ SameState(s, t)
         /\ t.stage = s.stage /\ t.wake = s.wake
<1>1. s.out_pq \o s.pq_out_higher \in Seq(Packets) /\ <<>> \in Seq(Packets)
  BY DEF EndStates
<1>2. PassThrough(s) \in EndStates
  BY <1>1 DEF EndStates, PassThrough
<1>3. /\ PassThrough(s).out_pq = s.out_pq \o s.pq_out_higher
      /\ PassThrough(s).pq_out_higher = <<>>
  BY DEF EndStates, PassThrough
<1>4. QED
  BY <1>2, <1>3 DEF EndStates, PassThrough, SameIn, SameKex, SameState

\* Code: ssh2_bpp_handle_output.
LEMMA HandleOutputFields ==
  ASSUME NEW s \in EndStates
  PROVE  LET t == HandleOutput(s) IN
         /\ t \in EndStates /\ t.out_pq = <<>>
         /\ t.raw = s.raw \o Encoded(s.out_pq, s.outkeys, s.outseq)
         /\ t.outseq = s.outseq + Len(s.out_pq) /\ t.outkeys = s.outkeys
         /\ SameIn(s, t) /\ SameHigher(s, t) /\ SameKex(s, t) /\ SameState(s, t)
         /\ t.stage = s.stage /\ t.wake = s.wake
<1> DEFINE w == Encoded(s.out_pq, s.outkeys, s.outseq)
<1>1. /\ s.out_pq \in Seq(Packets) /\ s.outkeys \in Keys /\ s.outseq \in Nat
      /\ s.raw \in Seq(Frames)
  BY DEF EndStates
<1>2. Len(s.out_pq) \in Nat /\ DOMAIN s.out_pq = 1 .. Len(s.out_pq)
  BY <1>1
<1>3. w \in Seq(Frames)
  <2>1. \A i \in 1 .. Len(s.out_pq) :
          [pkt |-> s.out_pq[i], keys |-> s.outkeys, seq |-> s.outseq + i - 1] \in Frames
    BY <1>1, <1>2 DEF Frames
  <2>2. QED
    BY <1>2, <2>1 DEF Encoded
<1>4. HandleOutput(s) = [s EXCEPT !.raw = @ \o w, !.outseq = @ + Len(s.out_pq), !.out_pq = <<>>]
  BY DEF HandleOutput, Encoded
<1> HIDE DEF w
<1>5. s.raw \o w \in Seq(Frames) /\ s.outseq + Len(s.out_pq) \in Nat /\ <<>> \in Seq(Packets)
  BY <1>1, <1>2, <1>3
<1>6. QED
  <2>1. HandleOutput(s) \in EndStates
    BY <1>4, <1>5, ZenonT(30) DEF EndStates
  <2>2. QED
    BY <1>4, <2>1, ZenonT(30) DEF EndStates, SameIn, SameHigher, SameKex, SameState, w

\* Code: begin_key_exchange.
LEMMA BeginFields ==
  ASSUME NEW e, NEW s \in EndStates
  PROVE  LET t == Begin(e, s) IN
         /\ t \in EndStates /\ t.stage = "kexinit" /\ t.wake = s.wake
         /\ t.ours = [no |-> s.ours.no + 1, conf |-> s.conf] /\ t.theirs = s.theirs
         /\ t.confs = Append(s.confs, s.conf)
         /\ t.out_pq = IF t.kexinit_delayed THEN s.out_pq
                       ELSE Append(s.out_pq, Pkt("KEXINIT", t.ours))
         /\ t.raw = s.raw /\ t.outseq = s.outseq /\ t.outkeys = s.outkeys
         /\ SameIn(s, t) /\ SameHigher(s, t) /\ SameState(s, t)
<1> DEFINE kexinit == [no |-> s.ours.no + 1, conf |-> s.conf]
           delayed == e = "client" /\ bug = "filter" /\ s.theirs = NoKexinit
           u == [s EXCEPT !.ours = kexinit, !.kexinit_delayed = delayed, !.confs = Append(@, s.conf),
                     !.kex_in_progress = TRUE, !.stage = "kexinit"]
<1>1. /\ kexinit \in Kexinits /\ delayed \in BOOLEAN
      /\ Append(s.confs, s.conf) \in Seq(Nat)
  BY DEF EndStates, Kexinits
<1>5. Pkt("KEXINIT", kexinit) \in Packets
  <2>1. kexinit \in Kexinits
    BY DEF EndStates, Kexinits
  <2> HIDE DEF kexinit
  <2>2. "KEXINIT" \in Types
    BY DEF Types
  <2>3. QED
    BY <2>1, <2>2, PktType
<1>2. Begin(e, s) = IF delayed THEN u ELSE Push(u, Pkt("KEXINIT", kexinit))
  BY DEF Begin
<1> HIDE DEF delayed
<1>3. u \in EndStates
  BY <1>1 DEF EndStates, Stages
<1>4. /\ u.stage = "kexinit" /\ u.wake = s.wake
      /\ u.ours = kexinit /\ u.theirs = s.theirs
      /\ u.confs = Append(s.confs, s.conf) /\ u.kexinit_delayed = delayed
      /\ u.out_pq = s.out_pq /\ u.raw = s.raw /\ u.outseq = s.outseq /\ u.outkeys = s.outkeys
      /\ SameIn(s, u) /\ SameHigher(s, u) /\ SameState(s, u)
  BY DEF EndStates, SameIn, SameHigher, SameState
<1> HIDE DEF u, kexinit
<1>6. CASE delayed
  BY <1>2, <1>3, <1>4, <1>6 DEF kexinit
<1>7. CASE ~delayed
  <2> DEFINE t == Push(u, Pkt("KEXINIT", kexinit))
  <2>1. /\ t \in EndStates /\ t.out_pq = Append(u.out_pq, Pkt("KEXINIT", kexinit))
        /\ t.raw = u.raw /\ t.outseq = u.outseq /\ t.outkeys = u.outkeys
        /\ SameIn(u, t) /\ SameHigher(u, t) /\ SameKex(u, t) /\ SameState(u, t)
        /\ t.stage = u.stage /\ t.wake = u.wake
    BY <1>3, <1>5, PushFields
  <2>2. Begin(e, s) = t
    BY <1>2, <1>7
  <2> HIDE DEF t
  <2>3. QED
    BY <1>4, <1>7, <2>1, <2>2 DEF kexinit, SameIn, SameHigher, SameKex, SameState
<1>8. QED
  BY <1>1, <1>6, <1>7

-----------------------------------------------------------------------------
(* One end *)

\* End e with view v is at aw in the stream of the other end.  Of that stream, what is
\* before c.a has been decoded, and c.n is the next sequence number; g has been received.
Receives(v, e, s, g, c, aw) ==
  /\ aw.high = Len(g) /\ (g # <<>> => v.open)
  /\ \A k \in 1 .. Len(g) : g[k].arg = k
  /\ Passed(aw) <= Len(v.confs["client"]) /\ s.inkeys = KeysOf(v, Passed(aw))
  /\ s.pending_newkeys => s.in_pq # <<>>
  /\ \A i \in 1 .. Len(s.in_pq) :
       (s.in_pq[i].type = "NEWKEYS") <=> (s.pending_newkeys /\ i = Len(s.in_pq))
  /\ c.n = IF s.pending_newkeys THEN 0 ELSE s.inseq
  /\ Path(v, Other(e), s.in_pq, aw, c.a)

\* It is at se in its own stream.  Of that, the other end has decoded what is before c.b,
\* and c.m is the next sequence number.
Sends(v, e, s, c, se) ==
  /\ Len(s.pq_out_higher) <= s.submitted /\ se.high = s.submitted - Len(s.pq_out_higher)
  /\ Highers(s.pq_out_higher, se.high) /\ (s.pq_out_higher # <<>> => v.open)
  /\ \A i \in 1 .. Len(s.out_pq) : s.out_pq[i].type # "NEWKEYS"
  /\ Passed(se) <= Len(v.confs["client"]) /\ s.outkeys = KeysOf(v, Passed(se))
  /\ Out(v, e, s.raw, s.outseq, s.out_pq, c.b, c.m, se)

Typed(v, s, g) == v \in Views /\ s \in EndStates /\ g \in Seq(Packets)
Stands(v, e, s, g, c, aw, se) ==
  /\ Typed(v, s, g) /\ aw \in Places /\ se \in Places
  /\ Receives(v, e, s, g, c, aw) /\ Sends(v, e, s, c, se)

LEMMA StandsSame ==
  ASSUME NEW v, NEW e, NEW s, NEW g, NEW c, NEW aw, NEW se, Stands(v, e, s, g, c, aw, se),
         NEW t \in EndStates, SameIn(s, t), SameOut(s, t), SameHigher(s, t)
  PROVE  Stands(v, e, t, g, c, aw, se)
<1>1. Receives(v, e, t, g, c, aw)
  BY DEF Stands, Receives, SameIn
<1>2. Sends(v, e, t, c, se)
  BY DEF Stands, Sends, SameOut, SameHigher
<1>3. QED
  BY <1>1, <1>2 DEF Stands, Typed

LEMMA OtherEnd == \A e \in Ends : Other(e) \in Ends /\ Other(e) # e /\ Other(Other(e)) = e
  BY DEF Other, Ends

LEMMA PassedNat == \A a \in Places : Passed(a) \in Nat
  BY DEF Places, Passed

LEMMA StandsGrow ==
  ASSUME NEW v, NEW e \in Ends, NEW s, NEW g, NEW c, NEW aw, NEW se, Stands(v, e, s, g, c, aw, se),
         NEW w \in Views, Grown(v, w)
  PROVE  Stands(w, e, s, g, c, aw, se)
<1>1. /\ v \in Views /\ s \in EndStates /\ aw \in Places /\ se \in Places
      /\ Passed(aw) \in Nat /\ Passed(se) \in Nat
  BY PassedNat DEF Stands, Typed
<1>2. Len(v.confs["client"]) \in Nat /\ Len(w.confs["client"]) \in Nat
  BY <1>1 DEF Views, Ends
<1>3. Len(v.confs["client"]) <= Len(w.confs["client"]) /\ (v.open => w.open)
  BY DEF Grown, Ends
<1>4. /\ s.in_pq \in Seq(Packets) /\ s.out_pq \in Seq(Packets) /\ s.raw \in Seq(Frames)
  BY <1>1 DEF EndStates
<1>5. Receives(w, e, s, g, c, aw)
  <2>1. Receives(v, e, s, g, c, aw)
    BY DEF Stands
  <2>2. Passed(aw) <= Len(v.confs["client"])
    BY <2>1 DEF Receives
  <2>3. Passed(aw) <= Len(w.confs["client"]) /\ KeysOf(w, Passed(aw)) = KeysOf(v, Passed(aw))
    BY <1>1, <1>2, <1>3, <2>2, KexinitGrows
  <2>4. Path(w, Other(e), s.in_pq, aw, c.a)
    BY <1>1, <1>4, <2>1, PathGrows, OtherEnd DEF Receives
  <2>5. QED
    BY <1>3, <2>1, <2>3, <2>4 DEF Receives
<1>6. Sends(w, e, s, c, se)
  <2>1. Sends(v, e, s, c, se)
    BY DEF Stands
  <2>2. Passed(se) <= Len(v.confs["client"])
    BY <2>1 DEF Sends
  <2>3. Passed(se) <= Len(w.confs["client"]) /\ KeysOf(w, Passed(se)) = KeysOf(v, Passed(se))
    BY <1>1, <1>2, <1>3, <2>2, KexinitGrows
  <2>4. Out(w, e, s.raw, s.outseq, s.out_pq, c.b, c.m, se)
    BY <1>1, <1>4, <2>1, OutGrows DEF Sends
  <2>5. QED
    BY <1>3, <2>1, <2>3, <2>4 DEF Sends
<1>7. QED
  BY <1>5, <1>6 DEF Stands, Typed

\* Code: ssh2_transport_filter_queue.
LEMMA LeadingFact ==
  ASSUME NEW q \in Seq(Packets)
  PROVE  /\ Leading(q) \in 0 .. Len(q)
         /\ \A i \in 1 .. Leading(q) : q[i].type = "HIGHER"
         /\ Leading(q) < Len(q) => q[Leading(q) + 1].type # "HIGHER"
<1> DEFINE r == q \o <<Pkt("end", 0)>>
           I == {i \in 1 .. Len(r) : r[i].type # "HIGHER"}
<1>1. /\ Len(q) \in Nat /\ Len(r) = Len(q) + 1 /\ r[Len(q) + 1] = Pkt("end", 0)
      /\ \A i \in 1 .. Len(q) : r[i] = q[i]
  <2>1. <<Pkt("end", 0)>> \in Seq({Pkt("end", 0)}) /\ Len(<<Pkt("end", 0)>>) = 1
    OBVIOUS
  <2>2. /\ Len(r) = Len(q) + 1
        /\ \A i \in 1 .. Len(q) : r[i] = q[i]
        /\ \A i \in (Len(q) + 1) .. (Len(q) + 1) : r[i] = <<Pkt("end", 0)>>[i - Len(q)]
    BY <2>1, Concat
  <2>3. Len(q) \in Nat
    OBVIOUS
  <2> HIDE DEF r
  <2>4. r[Len(q) + 1] = <<Pkt("end", 0)>>[1]
    BY <2>2, <2>3
  <2>5. QED
    BY <2>2, <2>3, <2>4
<1>2. Leading(q) = (IF I # {} THEN Min(I) ELSE 0) - 1
  BY DEF Leading, SelectInSeq
<1> HIDE DEF r
<1>3. Len(q) + 1 \in I
  BY <1>1 DEF Pkt
<1>4. I \subseteq Nat
  BY <1>1
<1>5. Min(I) \in I /\ \A j \in I : Min(I) <= j
  <2>1. PICK m \in I : \A n \in I : m <= n
    BY <1>3, <1>4, Least
  <2>2. QED
    BY <2>1 DEF Min
<1>6. Min(I) \in 1 .. Len(q) + 1 /\ Leading(q) = Min(I) - 1
  BY <1>1, <1>2, <1>3, <1>5
<1>7. ASSUME NEW i \in 1 .. Leading(q) PROVE q[i].type = "HIGHER"
  <2>1. i \in 1 .. Len(r) /\ ~(Min(I) <= i) /\ r[i] = q[i]
    BY <1>1, <1>6
  <2>2. i \notin I
    BY <1>5, <2>1
  <2>3. QED
    BY <2>1, <2>2
<1>8. Leading(q) < Len(q) => q[Leading(q) + 1].type # "HIGHER"
  <2>1. r[Min(I)].type # "HIGHER"
    BY <1>5
  <2>2. Leading(q) < Len(q) => r[Min(I)] = q[Leading(q) + 1]
    BY <1>1, <1>6
  <2>3. QED
    BY <2>1, <2>2
<1>9. QED
  BY <1>1, <1>6, <1>7, <1>8

\* What the higher layer has, and where that leaves the end.
Filtered(v, e, s, g, c, aw, se, y) ==
  /\ y = [s |-> y.s, got |-> y.got] /\ Len(y.got) >= Len(g)
  /\ Stands(v, e, y.s, y.got, c, Past(aw, Len(y.got) - Len(g)), se)
  /\ y.s.in_pq # <<>> => Head(y.s.in_pq).type # "HIGHER"
  /\ SameOut(s, y.s) /\ SameHigher(s, y.s) /\ SameKex(s, y.s) /\ SameState(s, y.s)
  /\ y.s.stage = s.stage /\ y.s.wake = s.wake

\* Packets for the higher layer, and they only, are handed over.
\* Code: ssh2_transport_filter_queue.
LEMMA FilterStands ==
  ASSUME NEW v, NEW e \in Ends, NEW s, NEW g, NEW c, NEW aw, NEW se, Stands(v, e, s, g, c, aw, se),
         v.open => s.higher_layer_ok
  PROVE  Filtered(v, e, s, g, c, aw, se, Filter([s |-> s, got |-> g]))
<1> DEFINE q == s.in_pq
           n == Leading(q)
           r == SubSeq(q, n + 1, Len(q))
           t == [s EXCEPT !.in_pq = r]
           h == SubSeq(q, 1, n)
           y == Filter([s |-> s, got |-> g])
<1>1. /\ v \in Views /\ s \in EndStates /\ g \in Seq(Packets) /\ aw \in Places /\ se \in Places
      /\ q \in Seq(Packets) /\ Receives(v, e, s, g, c, aw) /\ Sends(v, e, s, c, se)
  BY DEF Stands, Typed, EndStates
<1>2. /\ n \in 0 .. Len(q) /\ \A i \in 1 .. n : q[i].type = "HIGHER"
      /\ n < Len(q) => q[n + 1].type # "HIGHER"
  BY <1>1, LeadingFact
<1>3. Path(v, Other(e), q, aw, c.a)
  BY <1>1 DEF Receives
<1>4. /\ \A i \in 1 .. n : q[i].arg = aw.high + i
      /\ n > 0 => v.open
      /\ Past(aw, n) \in Places
      /\ Path(v, Other(e), r, Past(aw, n), c.a)
  BY <1>1, <1>2, <1>3, PathLeading
<1>5. y = [s |-> t, got |-> g \o h]
  BY <1>4 DEF Filter
<1> HIDE DEF n
<1>6. /\ Len(q) \in Nat /\ Len(g) \in Nat /\ n \in Nat
      /\ r \in Seq(Packets) /\ Len(r) = Len(q) - n /\ \A i \in 1 .. Len(r) : r[i] = q[i + n]
      /\ h \in Seq(Packets) /\ Len(h) = n /\ \A i \in 1 .. n : h[i] = q[i]
  <2> HIDE DEF q
  <2>1. q \in Seq(Packets) /\ Len(q) \in Nat /\ Len(g) \in Nat /\ n \in 0 .. Len(q)
    BY <1>1, <1>2
  <2>2. r \in Seq(Packets) /\ Len(r) = Len(q) - n /\ \A i \in 1 .. Len(r) : r[i] = q[i + n]
    BY <2>1
  <2>3. h \in Seq(Packets) /\ Len(h) = n /\ \A i \in 1 .. n : h[i] = q[i]
    BY <2>1
  <2>4. n \in Nat
    BY <2>1
  <2> HIDE DEF r, h
  <2>5. QED
    BY <2>1, <2>2, <2>3, <2>4
<1> HIDE DEF r, h, q
<1>7. r # <<>> => Head(r).type # "HIGHER"
  <2>1. ASSUME r # <<>> PROVE Len(r) >= 1 /\ Head(r) = r[1]
    BY <1>6, <2>1
  <2>2. ASSUME r # <<>> PROVE Head(r) = q[n + 1] /\ n < Len(q)
    BY <1>6, <2>1, <2>2
  <2>3. QED
    BY <1>2, <2>2
<1>8. /\ g \o h \in Seq(Packets) /\ Len(g \o h) = Len(g) + n
      /\ \A i \in 1 .. Len(g) : (g \o h)[i] = g[i]
      /\ \A i \in (Len(g) + 1) .. (Len(g) + n) : (g \o h)[i] = h[i - Len(g)]
  <2>1. g \in Seq(Packets) /\ h \in Seq(Packets) /\ Len(h) = n
    BY <1>1, <1>6
  <2> HIDE DEF n, t, y
  <2>2. /\ g \o h \in Seq(Packets) /\ Len(g \o h) = Len(g) + Len(h)
        /\ \A i \in 1 .. Len(g) : (g \o h)[i] = g[i]
        /\ \A i \in (Len(g) + 1) .. (Len(g) + Len(h)) : (g \o h)[i] = h[i - Len(g)]
    BY <2>1, ConcatSame, Zenon
  <2>3. QED
    BY <2>1, <2>2
<1> DEFINE z == g \o h
<1>9. /\ t \in EndStates /\ t.in_pq = r /\ t.inseq = s.inseq /\ t.inkeys = s.inkeys
      /\ t.pending_newkeys = s.pending_newkeys
      /\ SameOut(s, t) /\ SameHigher(s, t) /\ SameKex(s, t) /\ SameState(s, t)
      /\ t.stage = s.stage /\ t.wake = s.wake
  BY <1>1, <1>6 DEF EndStates, SameOut, SameHigher, SameKex, SameState
<1> HIDE DEF t
<1>10. Passed(Past(aw, n)) = Passed(aw) /\ Past(aw, n).high = aw.high + n
  BY DEF Passed, Past
<1>11. Receives(v, e, t, z, c, Past(aw, n))
  <2>1. /\ aw.high = Len(g) /\ (g # <<>> => v.open) /\ \A k \in 1 .. Len(g) : g[k].arg = k
        /\ Passed(aw) <= Len(v.confs["client"]) /\ s.inkeys = KeysOf(v, Passed(aw))
        /\ c.n = IF s.pending_newkeys THEN 0 ELSE s.inseq
    BY <1>1 DEF Receives
  <2>2. z # <<>> => v.open
    <3>1. CASE n = 0
      <4>1. g = <<>> => Len(z) = 0
        BY <1>8, <3>1
      <4>2. QED
        BY <1>8, <2>1, <4>1
    <3>2. CASE n # 0
      BY <1>4, <1>6, <3>2
    <3>3. QED
      BY <3>1, <3>2
  <2>3. ASSUME NEW k \in 1 .. Len(z) PROVE z[k].arg = k
    <3>1. CASE k <= Len(g)
      BY <1>6, <1>8, <2>1, <3>1
    <3>2. CASE k > Len(g)
      <4>1. k - Len(g) \in 1 .. n /\ k \in (Len(g) + 1) .. (Len(g) + n)
        BY <1>6, <1>8, <3>2
      <4>2. z[k] = q[k - Len(g)] /\ q[k - Len(g)].arg = aw.high + (k - Len(g))
        BY <1>4, <1>6, <1>8, <4>1
      <4>3. QED
        BY <1>6, <2>1, <4>2
    <3>3. QED
      BY <1>6, <1>8, <3>1, <3>2
  <2>4. s.pending_newkeys => t.in_pq # <<>>
    <3>1. ASSUME s.pending_newkeys PROVE Len(r) # 0
      <4>1. Len(q) \in 1 .. Len(q) /\ q[Len(q)].type = "NEWKEYS"
        BY <1>1, <1>6, <3>1 DEF Receives, q
      <4>2. n # Len(q)
        BY <1>2, <4>1
      <4>3. QED
        BY <1>6, <4>2
    <3>2. QED
      BY <1>9, <3>1
  <2>5. ASSUME NEW i \in 1 .. Len(r)
        PROVE  (r[i].type = "NEWKEYS") <=> (s.pending_newkeys /\ i = Len(r))
    <3>1. i + n \in 1 .. Len(q) /\ r[i] = q[i + n] /\ (i = Len(r) <=> i + n = Len(q))
      BY <1>6
    <3>2. (q[i + n].type = "NEWKEYS") <=> (s.pending_newkeys /\ i + n = Len(q))
      BY <1>1, <3>1 DEF Receives, q
    <3>3. QED
      BY <3>1, <3>2
  <2>6. Past(aw, n).high = Len(z)
    BY <1>8, <1>10, <2>1
  <2>7. QED
    BY <1>4, <1>9, <1>10, <2>1, <2>2, <2>3, <2>4, <2>5, <2>6 DEF Receives
<1>12. Sends(v, e, t, c, se)
  BY <1>1, <1>9 DEF Sends, SameOut, SameHigher
<1>13. n = Len(z) - Len(g) /\ Len(z) >= Len(g)
  BY <1>6, <1>8
<1>14. y.s = t /\ y.got = z /\ y = [s |-> y.s, got |-> y.got]
  BY <1>5
<1> HIDE DEF y, z
<1>15. Stands(v, e, t, z, c, Past(aw, n), se)
  BY <1>1, <1>4, <1>8, <1>9, <1>11, <1>12 DEF Stands, Typed, z
<1>16. Filtered(v, e, s, g, c, aw, se, y)
  BY <1>7, <1>9, <1>13, <1>14, <1>15 DEF Filtered
<1>17. QED
  BY <1>16 DEF y

LEMMA AfterPlace ==
  ASSUME NEW a \in Places
  PROVE  /\ After(a) \in Places /\ After(a).high = a.high
         /\ Passed(After(a)) = IF a.at = "N" THEN Passed(a) + 1 ELSE Passed(a)
<1>1. After(a) \in Places /\ After(a).high = a.high
  BY DEF Places, After
<1>2. QED
  BY DEF Places, After, Passed

LEMMA TypeAtPlace ==
  ASSUME NEW e \in Ends, NEW a \in Places
  PROVE  TypeAt(e, a) \in Types \ {"HIGHER"} /\ (TypeAt(e, a) = "NEWKEYS" <=> a.at = "N")
  BY DEF TypeAt, Types, Places, Ends

\* The packet at the front of the queue, if it is not for the higher layer, and the end
\* without it.  With NEWKEYS goes the switch to the new keys.
\* Code: pq_pop in ssh2_transport_process_queue.
LEMMA PopStep ==
  ASSUME NEW v, NEW e \in Ends, NEW s, NEW g, NEW c, NEW aw, NEW se, Stands(v, e, s, g, c, aw, se),
         s.in_pq # <<>>, Head(s.in_pq).type # "HIGHER"
  PROVE  /\ Step(v, Other(e), aw, Head(s.in_pq), After(aw))
         /\ Head(s.in_pq).type = TypeAt(Other(e), aw) /\ Head(s.in_pq) \in Packets
         /\ After(aw) \in Places
         /\ Path(v, Other(e), Tail(s.in_pq), After(aw), c.a)
         /\ (Head(s.in_pq).type = "NEWKEYS") <=> (s.pending_newkeys /\ 1 = Len(s.in_pq))
         /\ (Head(s.in_pq).type = "NEWKEYS") <=> (aw.at = "N")
<1> DEFINE q == s.in_pq
           r == Tail(q)
<1>1. /\ v \in Views /\ s \in EndStates /\ g \in Seq(Packets) /\ aw \in Places /\ se \in Places
      /\ q \in Seq(Packets) /\ Receives(v, e, s, g, c, aw) /\ Sends(v, e, s, c, se)
  BY DEF Stands, Typed, EndStates
<1>2. Path(v, Other(e), q, aw, c.a)
  BY <1>1 DEF Receives
<1> HIDE DEF q
<1>3. /\ Len(q) \in Nat /\ Len(q) >= 1 /\ Head(q) = q[1] /\ q[1] \in Packets
      /\ r \in Seq(Packets) /\ Len(r) = Len(q) - 1 /\ \A i \in 1 .. Len(r) : r[i] = q[i + 1]
  <2>1. q \in Seq(Packets) /\ q # <<>>
    BY <1>1 DEF q
  <2>2. QED
    BY <2>1
<1> HIDE DEF r
<1>4. PICK x \in Places : Step(v, Other(e), aw, Head(q), x) /\ Path(v, Other(e), r, x, c.a)
  <2>1. q # <<>>
    BY DEF q
  <2>2. QED
    BY <1>1, <1>2, <2>1, PathTail DEF r
<1>5. x = After(aw) /\ Head(q).type = TypeAt(Other(e), aw)
  BY <1>4 DEF Step, q
<1>6. After(aw) \in Places /\ After(aw).high = aw.high
  BY <1>1, AfterPlace
<1>7. (q[1].type = "NEWKEYS") <=> (s.pending_newkeys /\ 1 = Len(q))
  <2>1. 1 \in 1 .. Len(q)
    BY <1>3
  <2>2. QED
    BY <1>1, <2>1 DEF Receives, q
<1>8. Head(q).type = "NEWKEYS" <=> aw.at = "N"
  BY <1>1, <1>5, TypeAtPlace, OtherEnd
<1>9. QED
  BY <1>3, <1>4, <1>5, <1>6, <1>7, <1>8 DEF q, r

\* The end without it.  With NEWKEYS goes the switch to the new keys.
\* Code: ssh2_bpp_new_incoming_crypto.
LEMMA PopStands ==
  ASSUME NEW v, NEW e \in Ends, NEW s, NEW g, NEW c, NEW aw, NEW se, Stands(v, e, s, g, c, aw, se),
         s.in_pq # <<>>, Head(s.in_pq).type # "HIGHER",
         NEW t \in EndStates, t.in_pq = Tail(s.in_pq), SameOut(s, t), SameHigher(s, t),
         IF aw.at = "N"
         THEN /\ t.inseq = 0 /\ ~t.pending_newkeys
              /\ t.inkeys = KeysOf(v, Passed(aw) + 1)
              /\ Passed(aw) + 1 <= Len(v.confs["client"])
         ELSE t.inseq = s.inseq /\ t.inkeys = s.inkeys /\ t.pending_newkeys = s.pending_newkeys
  PROVE  Stands(v, e, t, g, c, After(aw), se)
<1> DEFINE q == s.in_pq
           r == Tail(q)
<1>1. /\ v \in Views /\ s \in EndStates /\ g \in Seq(Packets) /\ aw \in Places /\ se \in Places
      /\ q \in Seq(Packets) /\ Receives(v, e, s, g, c, aw) /\ Sends(v, e, s, c, se)
  BY DEF Stands, Typed, EndStates
<1>2. Path(v, Other(e), q, aw, c.a)
  BY <1>1 DEF Receives
<1> HIDE DEF q
<1>3. /\ Len(q) \in Nat /\ Len(q) >= 1 /\ Head(q) = q[1] /\ q[1] \in Packets
      /\ r \in Seq(Packets) /\ Len(r) = Len(q) - 1 /\ \A i \in 1 .. Len(r) : r[i] = q[i + 1]
  <2>1. q \in Seq(Packets) /\ q # <<>>
    BY <1>1 DEF q
  <2>2. QED
    BY <2>1
<1> HIDE DEF r
<1>4. Path(v, Other(e), r, After(aw), c.a)
  BY PopStep DEF r, q
<1>5. After(aw) \in Places /\ After(aw).high = aw.high
  BY <1>1, AfterPlace
<1>6. (q[1].type = "NEWKEYS") <=> (s.pending_newkeys /\ 1 = Len(q))
  BY <1>3, PopStep DEF q
<1>7. Head(q).type = "NEWKEYS" <=> aw.at = "N"
  BY PopStep DEF q
<1>8. t.in_pq = r
  BY DEF q, r
<1>9. Sends(v, e, t, c, se)
  BY <1>1, <1>8 DEF Sends, SameOut, SameHigher
<1>10. /\ After(aw).high = Len(g) /\ (g # <<>> => v.open)
       /\ \A k \in 1 .. Len(g) : g[k].arg = k
       /\ Path(v, Other(e), t.in_pq, After(aw), c.a)
  BY <1>1, <1>4, <1>5, <1>8 DEF Receives
<1>11. CASE aw.at = "N"
  <2>1. s.pending_newkeys /\ Len(q) = 1 /\ Len(r) = 0
    BY <1>3, <1>6, <1>7, <1>11
  <2>2. Passed(After(aw)) = Passed(aw) + 1
    BY <1>1, <1>11, AfterPlace
  <2>3. c.n = 0 /\ (IF t.pending_newkeys THEN 0 ELSE t.inseq) = 0
    BY <1>1, <1>8, <1>11, <2>1 DEF Receives
  <2>4. \A i \in 1 .. Len(t.in_pq) :
          (t.in_pq[i].type = "NEWKEYS") <=> (t.pending_newkeys /\ i = Len(t.in_pq))
    <3>1. \A i \in 1 .. Len(r) : FALSE
      BY <2>1
    <3>2. QED
      BY <1>8, <3>1
  <2>5. Receives(v, e, t, g, c, After(aw))
    BY <1>8, <1>10, <1>11, <2>2, <2>3, <2>4 DEF Receives
  <2>6. QED
    BY <1>1, <1>5, <1>9, <2>5 DEF Stands, Typed
<1>12. CASE aw.at # "N"
  <2>1. t.inseq = s.inseq /\ t.inkeys = s.inkeys /\ t.pending_newkeys = s.pending_newkeys
    BY <1>8, <1>12
  <2>2. Passed(After(aw)) = Passed(aw)
    BY <1>1, <1>12, AfterPlace
  <2>3. s.pending_newkeys => r # <<>>
    <3>1. s.pending_newkeys => Len(r) # 0
      BY <1>3, <1>6, <1>7, <1>12
    <3>2. r = <<>> => Len(r) = 0
      OBVIOUS
    <3>3. QED
      BY <3>1, <3>2
  <2>4. ASSUME NEW i \in 1 .. Len(r)
        PROVE  (r[i].type = "NEWKEYS") <=> (s.pending_newkeys /\ i = Len(r))
    <3>1. i + 1 \in 1 .. Len(q) /\ r[i] = q[i + 1] /\ (i = Len(r) <=> i + 1 = Len(q))
      BY <1>3
    <3>2. (q[i + 1].type = "NEWKEYS") <=> (s.pending_newkeys /\ i + 1 = Len(q))
      BY <1>1, <3>1 DEF Receives, q
    <3>3. QED
      BY <3>1, <3>2
  <2>5. /\ Passed(After(aw)) <= Len(v.confs["client"])
        /\ t.inkeys = KeysOf(v, Passed(After(aw)))
        /\ c.n = IF t.pending_newkeys THEN 0 ELSE t.inseq
    BY <1>1, <2>1, <2>2 DEF Receives
  <2>6. Receives(v, e, t, g, c, After(aw))
    BY <1>8, <1>10, <2>1, <2>3, <2>4, <2>5 DEF Receives
  <2>7. QED
    BY <1>1, <1>5, <1>9, <2>6 DEF Stands, Typed
<1>13. QED
  BY <1>11, <1>12

\* Code: pq_push of out_pq.
LEMMA PushStands ==
  ASSUME NEW v, NEW e \in Ends, NEW s, NEW g, NEW c, NEW aw, NEW se, Stands(v, e, s, g, c, aw, se),
         NEW p \in Packets, p.type \notin {"HIGHER", "NEWKEYS"}, Step(v, e, se, p, After(se)),
         NEW t \in EndStates, t.out_pq = Append(s.out_pq, p),
         t.raw = s.raw, t.outseq = s.outseq, t.outkeys = s.outkeys, SameIn(s, t), SameHigher(s, t)
  PROVE  Stands(v, e, t, g, c, aw, After(se))
<1> DEFINE q == s.out_pq
<1>1. /\ v \in Views /\ s \in EndStates /\ g \in Seq(Packets) /\ aw \in Places /\ se \in Places
      /\ q \in Seq(Packets) /\ Receives(v, e, s, g, c, aw) /\ Sends(v, e, s, c, se)
  BY DEF Stands, Typed, EndStates
<1>3. Receives(v, e, t, g, c, aw)
  BY <1>1 DEF Receives, SameIn
<1>4. /\ After(se) \in Places /\ After(se).high = se.high /\ Passed(After(se)) = Passed(se)
  <2>1. se.at # "N"
    BY <1>1, TypeAtPlace DEF Step
  <2>2. QED
    BY <1>1, <2>1, AfterPlace
<1>5. Out(v, e, s.raw, s.outseq, Append(q, p), c.b, c.m, After(se))
  BY <1>1, <1>4, OutPush DEF Sends, q
<1>6. \A i \in 1 .. Len(Append(q, p)) : Append(q, p)[i].type # "NEWKEYS"
  <2>1. \A i \in 1 .. Len(q) : q[i].type # "NEWKEYS"
    BY <1>1 DEF Sends
  <2> HIDE DEF q
  <2>2. QED
    BY <1>1, <2>1
<1>7. Sends(v, e, t, c, After(se))
  <2>1. t.out_pq = Append(q, p)
    BY DEF q
  <2> HIDE DEF q
  <2>2. QED
    BY <1>1, <2>1, <1>4, <1>5, <1>6 DEF Sends, SameHigher
<1>8. QED
  BY <1>1, <1>3, <1>4, <1>7 DEF Stands, Typed

\* Code: pq_concatenate of pq_out_higher.
LEMMA PassThroughStands ==
  ASSUME NEW v, NEW e \in Ends, NEW s, NEW g, NEW c, NEW aw, NEW se, Stands(v, e, s, g, c, aw, se),
         s.pq_out_higher # <<>> => se.at = "K"
  PROVE  /\ Stands(v, e, PassThrough(s), g, c, aw, Past(se, Len(s.pq_out_higher)))
         /\ PassThrough(s).pq_out_higher = <<>>
<1> DEFINE t == PassThrough(s)
           q == s.out_pq
           r == s.pq_out_higher
<1>1. /\ v \in Views /\ s \in EndStates /\ g \in Seq(Packets) /\ aw \in Places /\ se \in Places
      /\ q \in Seq(Packets) /\ r \in Seq(Packets)
      /\ Receives(v, e, s, g, c, aw) /\ Sends(v, e, s, c, se) /\ s.submitted \in Nat
  BY DEF Stands, Typed, EndStates
<1>2. /\ t \in EndStates /\ t.out_pq = q \o r /\ t.pq_out_higher = <<>>
      /\ t.raw = s.raw /\ t.outseq = s.outseq /\ t.outkeys = s.outkeys
      /\ t.submitted = s.submitted /\ SameIn(s, t)
  BY <1>1, PassThroughFields
<1> HIDE DEF t
<1>3. Receives(v, e, t, g, c, aw)
  BY <1>1, <1>2 DEF Receives, SameIn
<1>4. /\ Len(r) <= s.submitted /\ se.high = s.submitted - Len(r)
      /\ Highers(r, se.high) /\ (r # <<>> => v.open)
      /\ \A i \in 1 .. Len(q) : q[i].type # "NEWKEYS"
      /\ Out(v, e, s.raw, s.outseq, q, c.b, c.m, se)
  BY <1>1 DEF Sends
<1>5. r # <<>> => se.at = "K"
  OBVIOUS
<1> DEFINE x == Past(se, Len(r))
<1> HIDE DEF q, r
<1>6. Len(r) \in Nat /\ Len(q) \in Nat /\ DOMAIN r = 1 .. Len(r)
  BY <1>1
<1>7. x \in Places
  BY <1>1, <1>6, Pasts
<1>8. Passed(x) = Passed(se) /\ x.high = s.submitted - 0
  <2>1. Passed(x) = Passed(se) /\ x.high = se.high + Len(r)
    BY DEF Past, Passed
  <2>2. QED
    BY <1>1, <1>4, <1>6, <2>1
<1>9. Out(v, e, s.raw, s.outseq, q \o r, c.b, c.m, x)
  BY <1>1, <1>4, <1>5, OutHighers
<1>10. ASSUME NEW i \in 1 .. Len(q \o r) PROVE (q \o r)[i].type # "NEWKEYS"
  <2>1. CASE i <= Len(q)
    BY <1>1, <1>4, <1>6, <2>1
  <2>2. CASE i > Len(q)
    <3>1. (q \o r)[i] = r[i - Len(q)] /\ i - Len(q) \in DOMAIN r
      BY <1>1, <1>6, <2>2
    <3>2. r[i - Len(q)].type = "HIGHER"
      BY <1>4, <3>1 DEF Highers, Pkt
    <3>3. QED
      BY <3>1, <3>2
  <2>3. QED
    BY <1>1, <1>6, <2>1, <2>2
<1>11. Sends(v, e, t, c, x)
  <2>1. Len(<<>>) = 0 /\ Highers(<<>>, x.high)
    BY DEF Highers
  <2>2. Len(t.pq_out_higher) <= t.submitted
    BY <1>1, <1>2, <2>1
  <2>3. Passed(x) <= Len(v.confs["client"]) /\ t.outkeys = KeysOf(v, Passed(x))
    BY <1>1, <1>2, <1>8 DEF Sends
  <2> HIDE DEF x
  <2>4. QED
    BY <1>2, <1>8, <1>9, <1>10, <2>1, <2>2, <2>3 DEF Sends
<1>12. QED
  BY <1>1, <1>2, <1>3, <1>7, <1>11 DEF Stands, Typed, t, r

\* Code: ssh2_bpp_handle_output.
LEMMA HandleOutputStands ==
  ASSUME NEW v, NEW e \in Ends, NEW s, NEW g, NEW c, NEW aw, NEW se, Stands(v, e, s, g, c, aw, se)
  PROVE  Stands(v, e, HandleOutput(s), g, c, aw, se)
<1> DEFINE t == HandleOutput(s)
           q == s.out_pq
<1>1. /\ v \in Views /\ s \in EndStates /\ g \in Seq(Packets) /\ aw \in Places /\ se \in Places
      /\ q \in Seq(Packets) /\ s.raw \in Seq(Frames)
      /\ Receives(v, e, s, g, c, aw) /\ Sends(v, e, s, c, se)
  BY DEF Stands, Typed, EndStates
<1>2. /\ t \in EndStates /\ t.out_pq = <<>>
      /\ t.raw = s.raw \o Encoded(q, s.outkeys, s.outseq)
      /\ t.outseq = s.outseq + Len(q) /\ t.outkeys = s.outkeys
      /\ SameIn(s, t) /\ SameHigher(s, t)
  BY <1>1, HandleOutputFields
<1> HIDE DEF t
<1>3. Receives(v, e, t, g, c, aw)
  BY <1>1, <1>2 DEF Receives, SameIn
<1>4. /\ \A i \in 1 .. Len(q) : q[i].type # "NEWKEYS"
      /\ Passed(se) <= Len(v.confs["client"]) /\ s.outkeys = KeysOf(v, Passed(se))
      /\ Out(v, e, s.raw, s.outseq, q, c.b, c.m, se)
  BY <1>1 DEF Sends
<1> HIDE DEF q
<1>5. Out(v, e, s.raw \o Encoded(q, KeysOf(v, Passed(se)), s.outseq), s.outseq + Len(q), <<>>,
          c.b, c.m, se)
  BY <1>1, <1>4, OutEncode
<1>6. Out(v, e, t.raw, t.outseq, t.out_pq, c.b, c.m, se)
  BY <1>2, <1>4, <1>5
<1>7. \A i \in 1 .. Len(t.out_pq) : t.out_pq[i].type # "NEWKEYS"
  BY <1>2
<1>8. Sends(v, e, t, c, se)
  BY <1>1, <1>2, <1>6, <1>7 DEF Sends, SameHigher
<1>9. QED
  BY <1>1, <1>2, <1>3, <1>8 DEF Stands, Typed, t

\* NEWKEYS goes out, and the keys are changed.
\* Code: the end of the exchange proper in ssh2_transport_process_queue.
LEMMA SwitchOutputStands ==
  ASSUME NEW v, NEW e \in Ends, NEW s, NEW g, NEW c, NEW aw, NEW se, Stands(v, e, s, g, c, aw, se),
         se.at = "N", Agreed(e, s) = KeysOf(v, Passed(se) + 1), Agreed(e, s) \in Keys,
         Passed(se) + 1 <= Len(v.confs["client"])
  PROVE  LET t == SwitchOutput(e, s) IN
         /\ Stands(v, e, t, g, c, aw, After(se))
         /\ SameIn(s, t) /\ SameHigher(s, t) /\ SameKex(s, t) /\ SameState(s, t)
         /\ t.stage = s.stage /\ t.wake = s.wake
<1> DEFINE p == Pkt("NEWKEYS", 0)
           u == Push(s, p)
           x == HandleOutput(u)
           t == SwitchOutput(e, s)
           q == s.out_pq
<1>1. /\ v \in Views /\ s \in EndStates /\ g \in Seq(Packets) /\ aw \in Places /\ se \in Places
      /\ q \in Seq(Packets) /\ s.raw \in Seq(Frames)
      /\ Receives(v, e, s, g, c, aw) /\ Sends(v, e, s, c, se)
  BY DEF Stands, Typed, EndStates
<1>2. p \in Packets /\ p.type = "NEWKEYS"
  <2>1. "NEWKEYS" \in Types /\ 0 \in Nat
    BY DEF Types
  <2>2. QED
    BY <2>1, PktType DEF Pkt
<1> HIDE DEF p
<1>3. /\ u \in EndStates /\ u.out_pq = Append(q, p)
      /\ u.raw = s.raw /\ u.outseq = s.outseq /\ u.outkeys = s.outkeys
      /\ SameIn(s, u) /\ SameHigher(s, u) /\ SameKex(s, u) /\ SameState(s, u)
      /\ u.stage = s.stage /\ u.wake = s.wake
  BY <1>1, <1>2, PushFields
<1> HIDE DEF u
<1>4. /\ x \in EndStates /\ x.out_pq = <<>>
      /\ x.raw = u.raw \o Encoded(u.out_pq, u.outkeys, u.outseq)
      /\ SameIn(u, x) /\ SameHigher(u, x) /\ SameKex(u, x) /\ SameState(u, x)
      /\ x.stage = u.stage /\ x.wake = u.wake
  BY <1>3, HandleOutputFields
<1> HIDE DEF x
<1>5. t = [x EXCEPT !.expired = @ \ {"out"}, !.outkeys = Agreed(e, s), !.outseq = 0]
  BY DEF SwitchOutput, x, u, p
<1>6. t \in EndStates
  <2>1. x.expired \ {"out"} \in SUBSET {"in", "out"}
    BY <1>4 DEF EndStates
  <2>2. ASSUME NEW E \in SUBSET {"in", "out"}, NEW k \in Keys
        PROVE  [x EXCEPT !.expired = E, !.outkeys = k, !.outseq = 0] \in EndStates
    BY <1>4 DEF EndStates
  <2>3. QED
    BY <1>5, <2>1, <2>2, ZenonT(30)
<1>7. /\ t.out_pq = <<>> /\ t.raw = x.raw /\ t.outseq = 0 /\ t.outkeys = Agreed(e, s)
      /\ SameIn(x, t) /\ SameHigher(x, t) /\ SameKex(x, t) /\ SameState(x, t)
      /\ t.stage = x.stage /\ t.wake = x.wake
  BY <1>4, <1>5, ZenonT(30) DEF EndStates, SameIn, SameHigher, SameKex, SameState
<1> HIDE DEF t
<1>8. /\ SameIn(s, t) /\ SameHigher(s, t) /\ SameKex(s, t) /\ SameState(s, t)
      /\ t.stage = s.stage /\ t.wake = s.wake
  BY <1>3, <1>4, <1>7 DEF SameIn, SameHigher, SameKex, SameState
<1>9. Receives(v, e, t, g, c, aw)
  BY <1>1, <1>8 DEF Receives, SameIn
<1>10. /\ After(se) \in Places /\ After(se).high = se.high /\ Passed(After(se)) = Passed(se) + 1
  BY <1>1, AfterPlace
<1>11. /\ \A i \in 1 .. Len(q) : q[i].type # "NEWKEYS"
       /\ Passed(se) <= Len(v.confs["client"]) /\ s.outkeys = KeysOf(v, Passed(se))
       /\ Out(v, e, s.raw, s.outseq, q, c.b, c.m, se)
  BY <1>1 DEF Sends
<1>12. Step(v, e, se, p, After(se))
  BY <1>2 DEF Step, TypeAt
<1> HIDE DEF q
<1>13. Out(v, e, s.raw \o Encoded(Append(q, p), KeysOf(v, Passed(se)), s.outseq), 0, <<>>,
           c.b, c.m, After(se))
  BY <1>1, <1>2, <1>10, <1>11, <1>12, OutNewkeys
<1>14. Out(v, e, t.raw, t.outseq, t.out_pq, c.b, c.m, After(se))
  BY <1>3, <1>4, <1>7, <1>11, <1>13
<1>15. \A i \in 1 .. Len(t.out_pq) : t.out_pq[i].type # "NEWKEYS"
  BY <1>7
<1>16. Sends(v, e, t, c, After(se))
  BY <1>1, <1>7, <1>8, <1>10, <1>14, <1>15 DEF Sends, SameHigher
<1>17. QED
  BY <1>1, <1>6, <1>8, <1>9, <1>10, <1>16 DEF Stands, Typed, t

-----------------------------------------------------------------------------
(* One end between two packets *)

\* View v, with what end e has done in state s.
Seen(v, e, s) ==
  [confs |-> [x \in Ends |-> IF x = e THEN s.confs ELSE v.confs[x]],
   ready |-> IF e = "server" THEN s.higher_layer_ok ELSE v.ready,
   open |-> IF e = "client" THEN s.higher_layer_ok ELSE v.open]

\* The KEXINITs of the key exchange that the end is in, or was in last.
Numbers(v, e, s) ==
  LET r == s.ours.no
      k == IF s.stage = "kexinit" THEN r - 1 ELSE r
  IN  /\ r = Len(s.confs) /\ s.ours = Kexinit(v, e, r)
      /\ k <= Len(v.confs[Other(e)]) /\ s.theirs = Kexinit(v, Other(e), k)
      /\ (s.stage = "start") <=> (r = 0)
      /\ s.stage = "service" => r = 1
      /\ s.higher_layer_ok <=> (r >= 2 \/ s.stage = "idle")
      /\ s.deferred => s.higher_layer_ok

Waiting(s) == s.submitted - Len(s.pq_out_higher)
Good(v, e, s, g, c) ==
  /\ Stands(v, e, s, g, c, Awaiting(s, Len(g)), Sending(e, s, Waiting(s)))
  /\ Numbers(v, e, s) /\ ~s.failed
  /\ v = Seen(v, e, s) /\ (v.open => v.ready)

\* The end goes on from s to t.
Onward(v, e, t, g, c) ==
  LET w == Seen(v, e, t) IN Grown(v, w) /\ w \in Views /\ Good(w, e, t, g, c)

LEMMA Seens ==
  ASSUME NEW v \in Views, NEW e \in Ends, NEW s \in EndStates, v = Seen(v, e, s)
  PROVE  /\ v.confs[e] = s.confs
         /\ e = "client" => v.open = s.higher_layer_ok
         /\ e = "server" => v.ready = s.higher_layer_ok
         /\ \A t : Seen(Seen(v, e, t), e, t) = Seen(v, e, t)
         /\ \A t : t.confs = s.confs /\ t.higher_layer_ok = s.higher_layer_ok => Seen(v, e, t) = v
<1>1. v.confs[e] = s.confs
  BY DEF Seen, Views
<1>2. (e = "client" => v.open = s.higher_layer_ok) /\ (e = "server" => v.ready = s.higher_layer_ok)
  BY DEF Seen, Views
<1>3. ASSUME NEW t PROVE Seen(Seen(v, e, t), e, t) = Seen(v, e, t)
  BY DEF Seen
<1>4. ASSUME NEW t, t.confs = s.confs, t.higher_layer_ok = s.higher_layer_ok
      PROVE  Seen(v, e, t) = v
  BY <1>4 DEF Seen
<1>5. QED
  BY <1>1, <1>2, <1>3, <1>4

LEMMA GrownSelf == \A v \in Views : Grown(v, v)
  BY DEF Grown, Views

\* What Numbers says, without the LET.
LEMMA Rounds ==
  ASSUME NEW v \in Views, NEW e \in Ends, NEW s \in EndStates, Numbers(v, e, s), v = Seen(v, e, s)
  PROVE  /\ s.ours.no \in Nat /\ s.ours.no = Len(s.confs) /\ s.ours.no = Len(v.confs[e])
         /\ Len(v.confs["client"]) \in Nat /\ Len(v.confs[Other(e)]) \in Nat
         /\ s.stage # "start" => s.ours.no >= 1
<1>1. s.ours.no \in Nat /\ s.confs \in Seq(Nat)
  BY DEF EndStates, Kexinits
<1>2. Len(v.confs["client"]) \in Nat /\ Len(v.confs[Other(e)]) \in Nat
  BY OtherEnd DEF Views, Ends
<1>3. QED
  BY <1>1, <1>2, Seens DEF Numbers

\* The KEXINIT that begins a key exchange.
\* Code: begin_key_exchange.
LEMMA BeginGood ==
  ASSUME NEW v, NEW e \in Ends, NEW s, NEW g, NEW c,
         Stands(v, e, s, g, c, At(s.ours.no + 1, "K", Len(g)), At(s.ours.no + 1, "K", Waiting(s))),
         s.ours.no = Len(s.confs), s.ours = Kexinit(v, e, s.ours.no),
         s.ours.no <= Len(v.confs[Other(e)]), s.theirs = Kexinit(v, Other(e), s.ours.no),
         s.higher_layer_ok <=> s.ours.no >= 1, s.deferred => s.higher_layer_ok,
         ~s.failed, v = Seen(v, e, s), v.open => v.ready
  PROVE  Onward(v, e, Begin(e, s), g, c)
<1> DEFINE t == Begin(e, s)
           w == Seen(v, e, t)
           r == s.ours.no
           k == Pkt("KEXINIT", t.ours)
           aw == At(r + 1, "K", Len(g))
           se == At(r + 1, "K", Waiting(s))
<1>1. /\ v \in Views /\ s \in EndStates /\ r \in Nat /\ s.confs \in Seq(Nat) /\ s.conf \in Nat
      /\ aw \in Places /\ se \in Places
  BY DEF Stands, Typed, EndStates, Kexinits
<1>2. /\ t \in EndStates /\ t.stage = "kexinit" /\ t.wake = s.wake
      /\ t.ours = [no |-> r + 1, conf |-> s.conf] /\ t.theirs = s.theirs
      /\ t.confs = Append(s.confs, s.conf)
      /\ t.out_pq = IF t.kexinit_delayed THEN s.out_pq ELSE Append(s.out_pq, k)
      /\ t.raw = s.raw /\ t.outseq = s.outseq /\ t.outkeys = s.outkeys
      /\ SameIn(s, t) /\ SameHigher(s, t) /\ SameState(s, t)
  BY <1>1, BeginFields
<1>3. Len(t.confs) = r + 1 /\ t.confs[r + 1] = s.conf /\ \A i \in 1 .. r : t.confs[i] = s.confs[i]
  BY <1>1, <1>2
<1>4. k \in Packets /\ k.type = "KEXINIT" /\ k.arg = t.ours
  <2>1. "KEXINIT" \in Types /\ t.ours \in Kexinits
    BY <1>2 DEF Types, EndStates
  <2> HIDE DEF t
  <2>2. QED
    BY <2>1, PktType DEF Pkt
<1> HIDE DEF t, k
<1>5. /\ w \in Views /\ w.confs[e] = t.confs /\ w.confs[Other(e)] = v.confs[Other(e)]
      /\ w.ready = v.ready /\ w.open = v.open
  <2>1. w.confs \in [Ends -> Seq(Nat)]
    BY <1>1, <1>2 DEF Seen, Views, EndStates
  <2>2. t.higher_layer_ok = s.higher_layer_ok /\ t.higher_layer_ok \in BOOLEAN
    BY <1>2 DEF SameState, EndStates
  <2>3. w.ready = v.ready /\ w.open = v.open /\ v.ready \in BOOLEAN /\ v.open \in BOOLEAN
    BY <1>1, <2>2, Seens DEF Seen, Views
  <2>4. w = [confs |-> w.confs, ready |-> w.ready, open |-> w.open]
    BY DEF Seen
  <2>5. w.confs[e] = t.confs /\ w.confs[Other(e)] = v.confs[Other(e)]
    BY OtherEnd DEF Seen
  <2> HIDE DEF w
  <2>6. QED
    BY <2>1, <2>3, <2>4, <2>5 DEF Views
<1>6. v.confs[e] = s.confs
  BY <1>1, Seens
<1>7. Grown(v, w)
  <2>1. ASSUME NEW x \in Ends
        PROVE  /\ Len(v.confs[x]) <= Len(w.confs[x])
               /\ \A i \in 1 .. Len(v.confs[x]) : w.confs[x][i] = v.confs[x][i]
    <3>1. CASE x = e
      <4>1. v.confs[x] = s.confs /\ w.confs[x] = t.confs /\ Len(s.confs) = r
        BY <1>5, <1>6, <3>1
      <4>2. r <= r + 1
        BY <1>1
      <4>3. QED
        BY <1>3, <4>1, <4>2
    <3>2. CASE x # e
      <4>1. x = Other(e)
        BY <3>2 DEF Other, Ends
      <4>2. Len(v.confs[x]) \in Nat
        BY <1>1 DEF Views
      <4>3. QED
        BY <1>5, <4>1, <4>2
    <3>3. QED
      BY <3>1, <3>2
  <2>2. QED
    BY <1>5, <2>1 DEF Grown
<1>13. w = Seen(w, e, t)
  <2>1. Seen(Seen(v, e, t), e, t) = Seen(v, e, t)
    BY <1>1, Seens
  <2>2. QED
    BY <2>1
<1> HIDE DEF w
<1>8. Stands(w, e, s, g, c, aw, se)
  BY <1>5, <1>7, StandsGrow
<1>9. Kexinit(w, e, r + 1) = t.ours /\ r + 1 = Len(w.confs[e])
  BY <1>1, <1>2, <1>3, <1>5 DEF Kexinit
<1>10. Stands(w, e, t, g, c, aw, IF t.kexinit_delayed THEN se ELSE After(se))
  <2>1. CASE t.kexinit_delayed
    <3>1. SameOut(s, t)
      BY <1>2, <2>1 DEF SameOut
    <3>2. QED
      BY <1>2, <1>8, <2>1, <3>1, StandsSame
  <2>2. CASE ~t.kexinit_delayed
    <3>1. Step(w, e, se, k, After(se))
      BY <1>1, <1>4, <1>9 DEF Step, TypeAt, At
    <3>2. t.out_pq = Append(s.out_pq, k) /\ k.type \notin {"HIGHER", "NEWKEYS"}
      BY <1>2, <1>4, <2>2
    <3>3. QED
      BY <1>2, <1>4, <1>8, <2>2, <3>1, <3>2, PushStands
  <2>3. QED
    BY <2>1, <2>2
<1>11. /\ Awaiting(t, Len(g)) = aw
       /\ Sending(e, t, Waiting(t)) = IF t.kexinit_delayed THEN se ELSE After(se)
  <2>1. Waiting(t) = Waiting(s) /\ t.ours.no = r + 1
    BY <1>2 DEF SameHigher, Waiting
  <2>2. After(se) = At(r + 1, "D", Waiting(s))
    BY DEF After, At
  <2>3. QED
    BY <1>2, <2>1, <2>2 DEF Awaiting, Sending
<1>12. Numbers(w, e, t)
  <2>1. t.ours.no = r + 1 /\ t.theirs = s.theirs /\ t.stage = "kexinit" /\ (r + 1) - 1 = r
    BY <1>1, <1>2
  <2>2. r <= Len(w.confs[Other(e)]) /\ s.theirs = Kexinit(w, Other(e), r)
    <3>1. r \in 0 .. Len(v.confs[Other(e)])
      <4>1. Len(v.confs[Other(e)]) \in Nat
        BY <1>1, OtherEnd DEF Views
      <4>2. QED
        BY <1>1, <4>1
    <3>2. Kexinit(w, Other(e), r) = Kexinit(v, Other(e), r)
      BY <1>1, <1>7, <3>1, KexinitGrows, OtherEnd
    <3>3. QED
      BY <1>5, <3>2
  <2>3. t.higher_layer_ok <=> (r + 1 >= 2 \/ t.stage = "idle")
    BY <1>1, <1>2 DEF SameState
  <2>4. t.deferred => t.higher_layer_ok
    BY <1>2 DEF SameState
  <2>5. QED
    BY <1>1, <1>3, <1>9, <2>1, <2>2, <2>3, <2>4 DEF Numbers
<1>14. Good(w, e, t, g, c)
  <2>1. ~t.failed /\ (w.open => w.ready)
    BY <1>2, <1>5 DEF SameState
  <2>2. QED
    BY <1>10, <1>11, <1>12, <1>13, <2>1 DEF Good
<1>15. QED
  BY <1>5, <1>7, <1>14 DEF Onward, w, t

\* What is held back while nothing is about to run.
\* Code: pq_out_higher.
Held(s) == {p.arg : p \in ToSet(s.pq_out_higher)} \subseteq s.late
HeldBack(s) == s.stage = "newkeys" \/ (s.stage = "idle" /\ ~s.wake) => Held(s)

LEMMA HeldSame ==
  ASSUME NEW s, NEW t
  PROVE  /\ SameHigher(s, t) /\ Held(s) => Held(t)
         /\ t.pq_out_higher = <<>> => Held(t)
<1>1. SameHigher(s, t) /\ Held(s) => Held(t)
  BY DEF SameHigher, Held
<1>2. t.pq_out_higher = <<>> => Held(t)
  <2>1. ToSet(<<>>) = {}
    BY DEF ToSet
  <2>2. QED
    BY <2>1 DEF Held
<1>3. QED
  BY <1>1, <1>2

LEMMA PoppedFields ==
  ASSUME NEW s \in EndStates, s.in_pq # <<>>
  PROVE  LET t == Popped(s) IN
         /\ t \in EndStates /\ t.in_pq = Tail(s.in_pq) /\ t.inseq = s.inseq
         /\ t.inkeys = s.inkeys /\ t.pending_newkeys = s.pending_newkeys
         /\ SameOut(s, t) /\ SameHigher(s, t) /\ SameKex(s, t) /\ SameState(s, t)
         /\ t.stage = s.stage /\ t.wake = s.wake
<1>1. Tail(s.in_pq) \in Seq(Packets)
  BY DEF EndStates
<1>2. Popped(s) \in EndStates
  BY <1>1 DEF EndStates, Popped
<1>3. QED
  BY <1>2 DEF EndStates, Popped, SameOut, SameHigher, SameKex, SameState

\* A view that nothing has changed in.
LEMMA OnwardSame ==
  ASSUME NEW v, NEW e \in Ends, NEW s, NEW g, NEW c, Good(v, e, s, g, c),
         NEW t, NEW h, t.confs = s.confs, t.higher_layer_ok = s.higher_layer_ok, ~t.failed,
         Stands(v, e, t, h, c, Awaiting(t, Len(h)), Sending(e, t, Waiting(t))), Numbers(v, e, t)
  PROVE  Onward(v, e, t, h, c)
<1>1. v \in Views /\ s \in EndStates /\ v = Seen(v, e, s) /\ (v.open => v.ready)
  BY DEF Good, Stands, Typed
<1>2. Seen(v, e, t) = v
  BY <1>1, Seens
<1>3. Grown(v, v)
  BY <1>1, GrownSelf
<1>4. Good(v, e, t, h, c)
  BY <1>1, <1>2 DEF Good
<1>5. QED
  BY <1>1, <1>2, <1>3, <1>4 DEF Onward

LEMMA KexinitType ==
  ASSUME NEW v \in Views, NEW e \in Ends, NEW n \in 0 .. Len(v.confs[e])
  PROVE  Kexinit(v, e, n) \in Kexinits /\ Kexinit(v, e, n).no = n
<1>1. v.confs[e] \in Seq(Nat)
  BY DEF Views
<1>2. n # 0 => v.confs[e][n] \in Nat
  BY <1>1
<1>3. n \in Nat
  BY <1>1
<1>4. QED
  BY <1>2, <1>3 DEF Kexinit, NoKexinit, Kexinits

\* The other side's KEXINIT.
\* Code: pktin->type != SSH2_MSG_KEXINIT in ssh2_transport_process_queue.
LEMMA GetKexinitGood ==
  ASSUME NEW v, NEW e \in Ends, NEW s, NEW g, NEW c, Good(v, e, s, g, c), s.stage = "kexinit",
         s.in_pq # <<>>, Head(s.in_pq).type # "HIGHER"
  PROVE  LET t == GetKexinit(e, Popped(s), Head(s.in_pq)) IN
         /\ Head(s.in_pq).type = Expected(e, "kexinit")
         /\ Onward(v, e, t, g, c) /\ HeldBack(t)
<1> DEFINE t == GetKexinit(e, Popped(s), Head(s.in_pq))
           p == Head(s.in_pq)
           s0 == Popped(s)
           r == s.ours.no
           aw == At(r, "K", Len(g))
           se == At(r, IF s.kexinit_delayed THEN "K" ELSE "D", Waiting(s))
           dh == At(r, "D", Waiting(s))
           k == Pkt("KEXINIT", s.ours)
           d == Pkt("KEXDH_INIT", 0)
<1>1. /\ Stands(v, e, s, g, c, aw, se) /\ v \in Views /\ s \in EndStates
      /\ Numbers(v, e, s) /\ ~s.failed /\ v = Seen(v, e, s) /\ (v.open => v.ready)
      /\ aw \in Places /\ se \in Places
  <2>1. Awaiting(s, Len(g)) = aw /\ Sending(e, s, Waiting(s)) = se
    BY DEF Awaiting, Sending
  <2>2. Stands(v, e, s, g, c, aw, se)
    BY <2>1 DEF Good
  <2>3. QED
    BY <2>2 DEF Good, Stands, Typed
<1>2. r \in Nat /\ r >= 1 /\ r = Len(v.confs[e]) /\ r = Len(s.confs) /\ Len(v.confs[Other(e)]) \in Nat
  BY <1>1, Rounds
<1>3. s.ours = Kexinit(v, e, r) /\ s.ours \in Kexinits
  BY <1>1 DEF Numbers, EndStates
<1>4. /\ Step(v, Other(e), aw, p, After(aw)) /\ p.type = TypeAt(Other(e), aw)
      /\ After(aw) = At(r, "D", Len(g)) /\ aw.at = "K" /\ aw.round = r
  <2>1. Step(v, Other(e), aw, p, After(aw)) /\ p.type = TypeAt(Other(e), aw)
    <3> HIDE DEF aw, se
    <3>1. QED
      BY <1>1, PopStep
  <2>2. QED
    BY <2>1 DEF After, At
<1>5. p.type = "KEXINIT" /\ r <= Len(v.confs[Other(e)]) /\ p.arg = Kexinit(v, Other(e), r)
  BY <1>4 DEF Step, TypeAt
<1>6. p.arg \in Kexinits
  BY <1>1, <1>2, <1>5, KexinitType, OtherEnd
<1>7. /\ s0 \in EndStates /\ s0.in_pq = Tail(s.in_pq) /\ s0.inseq = s.inseq
      /\ s0.inkeys = s.inkeys /\ s0.pending_newkeys = s.pending_newkeys
      /\ SameOut(s, s0) /\ SameHigher(s, s0) /\ SameKex(s, s0) /\ SameState(s, s0)
  BY <1>1, PoppedFields
<1> HIDE DEF p, s0
<1> DEFINE t0 == [s0 EXCEPT !.theirs = p.arg, !.stage = "kex"]
           t1 == IF s0.kexinit_delayed THEN Push(t0, Pkt("KEXINIT", s0.ours)) ELSE t0
<1>8. t = IF e = "client" THEN Push(t1, d) ELSE t1
  <2>1. t0.kexinit_delayed = s0.kexinit_delayed
    BY <1>7 DEF EndStates
  <2>2. QED
    BY DEF GetKexinit, p, s0
<1>9. /\ t0 \in EndStates /\ t0.stage = "kex" /\ t0.theirs = p.arg
      /\ t0.ours = s.ours /\ t0.confs = s.confs /\ t0.in_pq = Tail(s.in_pq) /\ t0.inseq = s.inseq
      /\ t0.inkeys = s.inkeys /\ t0.pending_newkeys = s.pending_newkeys
      /\ SameOut(s, t0) /\ SameHigher(s, t0) /\ SameState(s, t0)
  BY <1>6, <1>7 DEF EndStates, Stages, SameOut, SameHigher, SameKex, SameState
<1> HIDE DEF t0, t
<1>10. Stands(v, e, t0, g, c, At(r, "D", Len(g)), se)
  BY <1>1, <1>4, <1>9, PopStands
<1>11. k \in Packets /\ k.type = "KEXINIT" /\ k.arg = s.ours /\ d \in Packets /\ d.type = "KEXDH_INIT"
  <2>1. "KEXINIT" \in Types /\ "KEXDH_INIT" \in Types /\ 0 \in Nat
    BY DEF Types
  <2>2. QED
    BY <1>3, <2>1, PktType DEF Pkt
<1> HIDE DEF k, d
<1>12. s0.kexinit_delayed = s.kexinit_delayed /\ Pkt("KEXINIT", s0.ours) = k
  BY <1>7 DEF SameKex, k
<1>13. /\ Stands(v, e, t1, g, c, At(r, "D", Len(g)), dh)
       /\ t1 \in EndStates /\ t1.stage = "kex" /\ t1.theirs = p.arg
       /\ t1.ours = s.ours /\ t1.confs = s.confs
       /\ SameHigher(s, t1) /\ SameState(s, t1)
  <2>1. CASE s.kexinit_delayed
    <3>1. t1 = Push(t0, k) /\ se.at = "K" /\ se.round = r
      BY <1>12, <2>1 DEF At
    <3>2. Step(v, e, se, k, After(se)) /\ After(se) = dh
      BY <1>2, <1>3, <1>11, <3>1 DEF Step, TypeAt, At, After
    <3>3. /\ Push(t0, k) \in EndStates /\ Push(t0, k).out_pq = Append(t0.out_pq, k)
          /\ Push(t0, k).raw = t0.raw /\ Push(t0, k).outseq = t0.outseq
          /\ Push(t0, k).outkeys = t0.outkeys
          /\ SameIn(t0, Push(t0, k)) /\ SameHigher(t0, Push(t0, k)) /\ SameKex(t0, Push(t0, k))
          /\ SameState(t0, Push(t0, k)) /\ Push(t0, k).stage = t0.stage
      BY <1>9, <1>11, PushFields
    <3>4. Stands(v, e, Push(t0, k), g, c, At(r, "D", Len(g)), After(se))
      BY <1>10, <1>11, <3>2, <3>3, PushStands
    <3> HIDE DEF t1
    <3>5. QED
      BY <1>9, <3>1, <3>2, <3>3, <3>4 DEF SameHigher, SameKex, SameState
  <2>2. CASE ~s.kexinit_delayed
    <3>1. t1 = t0 /\ se = dh
      BY <1>12, <2>2
    <3>2. QED
      BY <1>9, <1>10, <3>1
  <2>3. QED
    BY <2>1, <2>2
<1> HIDE DEF t1
<1>14. /\ Stands(v, e, t, g, c, At(r, "D", Len(g)),
                 At(r, IF e = "client" THEN "N" ELSE "D", Waiting(s)))
       /\ t \in EndStates /\ t.stage = "kex" /\ t.theirs = p.arg
       /\ t.ours = s.ours /\ t.confs = s.confs
       /\ SameHigher(s, t) /\ SameState(s, t)
  <2>1. CASE e = "client"
    <3>1. Step(v, e, dh, d, After(dh)) /\ After(dh) = At(r, "N", Waiting(s))
      BY <1>11, <2>1 DEF Step, TypeAt, At, After
    <3>2. /\ Push(t1, d) \in EndStates /\ Push(t1, d).out_pq = Append(t1.out_pq, d)
          /\ Push(t1, d).raw = t1.raw /\ Push(t1, d).outseq = t1.outseq
          /\ Push(t1, d).outkeys = t1.outkeys
          /\ SameIn(t1, Push(t1, d)) /\ SameHigher(t1, Push(t1, d)) /\ SameKex(t1, Push(t1, d))
          /\ SameState(t1, Push(t1, d)) /\ Push(t1, d).stage = t1.stage
      BY <1>11, <1>13, PushFields
    <3>3. Stands(v, e, Push(t1, d), g, c, At(r, "D", Len(g)), After(dh))
      BY <1>11, <1>13, <3>1, <3>2, PushStands
    <3>4. QED
      BY <1>8, <1>13, <2>1, <3>1, <3>2, <3>3 DEF SameHigher, SameKex, SameState
  <2>2. CASE e # "client"
    BY <1>8, <1>13, <2>2
  <2>3. QED
    BY <2>1, <2>2
<1>15. Numbers(v, e, t)
  <2>1. t.ours.no = r /\ t.confs = s.confs
    BY <1>14
  <2>2. /\ s.higher_layer_ok <=> (r >= 2 \/ s.stage = "idle")
        /\ s.deferred => s.higher_layer_ok
    BY <1>1 DEF Numbers
  <2>3. QED
    BY <1>2, <1>3, <1>5, <1>14, <2>1, <2>2 DEF Numbers, SameState
<1>16. Stands(v, e, t, g, c, Awaiting(t, Len(g)), Sending(e, t, Waiting(t)))
  <2>1. Waiting(t) = Waiting(s) /\ t.ours.no = r
    BY <1>14 DEF SameHigher, Waiting
  <2>2. QED
    BY <1>14, <2>1 DEF Awaiting, Sending
<1>17. Onward(v, e, t, g, c)
  BY <1>1, <1>14, <1>15, <1>16, OnwardSame DEF SameState
<1>18. QED
  BY <1>5, <1>14, <1>17 DEF HeldBack, Expected, t, p

LEMMA FirstRound == \A r \in Nat : (r >= 2 => r # 1) /\ (r >= 1 /\ ~(r >= 2) => r = 1)
  OBVIOUS

LEMMA GoodFacts ==
  ASSUME NEW v, NEW e \in Ends, NEW s, NEW g, NEW c, Good(v, e, s, g, c)
  PROVE  /\ v \in Views /\ s \in EndStates /\ g \in Seq(Packets) /\ v = Seen(v, e, s)
         /\ s.ours.no \in Nat /\ s.ours.no = Len(s.confs) /\ s.ours.no = Len(v.confs[e])
         /\ Len(v.confs["client"]) \in Nat /\ Len(v.confs[Other(e)]) \in Nat
         /\ s.stage # "start" => s.ours.no >= 1
         /\ v.open => s.higher_layer_ok
         /\ s.pq_out_higher # <<>> => s.higher_layer_ok
<1>1. /\ v \in Views /\ s \in EndStates /\ g \in Seq(Packets) /\ v = Seen(v, e, s)
      /\ Numbers(v, e, s) /\ (v.open => v.ready)
  BY DEF Good, Stands, Typed
<1>2. v.open => s.higher_layer_ok
  <2>1. e = "client" \/ e = "server"
    BY DEF Ends
  <2>2. QED
    BY <1>1, <2>1, Seens
<1>3. s.pq_out_higher # <<>> => v.open
  BY DEF Good, Stands, Sends
<1>4. QED
  BY <1>1, <1>2, <1>3, Rounds

\* The keys of this key exchange.
\* Code: ssh2_transport_newkeys_keys, from the exchange hash.
LEMMA AgreedKeys ==
  ASSUME NEW v, NEW e \in Ends, NEW s, NEW g, NEW c, Good(v, e, s, g, c),
         s.stage \in {"kex", "newkeys"}, NEW t, t.ours = s.ours, t.theirs = s.theirs
  PROVE  /\ Agreed(e, t) = KeysOf(v, s.ours.no) /\ Agreed(e, t) \in Keys
         /\ s.ours.no <= Len(v.confs["client"])
<1> DEFINE r == s.ours.no
<1>1. /\ v \in Views /\ r \in Nat /\ r >= 1 /\ r = Len(v.confs[e]) /\ Len(v.confs[Other(e)]) \in Nat
      /\ Numbers(v, e, s)
  BY GoodFacts DEF Good
<1>2. /\ s.ours = Kexinit(v, e, r) /\ s.theirs = Kexinit(v, Other(e), r)
      /\ r <= Len(v.confs[Other(e)])
  BY DEF Good, Numbers
<1> HIDE DEF r
<1>3. /\ s.ours = [no |-> r, conf |-> v.confs[e][r]]
      /\ s.theirs = [no |-> r, conf |-> v.confs[Other(e)][r]]
  BY <1>1, <1>2 DEF Kexinit
<1>4. r <= Len(v.confs["client"]) /\ v.confs["client"][r] \in Nat
  <2>1. r <= Len(v.confs["client"])
    BY <1>1, <1>2 DEF Other, Ends
  <2>2. v.confs["client"] \in Seq(Nat)
    BY <1>1 DEF Views, Ends
  <2>3. r \in 1 .. Len(v.confs["client"])
    BY <1>1, <2>1, <2>2
  <2>4. QED
    BY <2>1, <2>2, <2>3
<1>5. Agreed(e, t) = [client |-> r, server |-> r, conf |-> v.confs["client"][r]]
  <2>1. CASE e = "client"
    BY <1>3, <2>1 DEF Agreed
  <2>2. CASE e = "server"
    BY <1>3, <2>2 DEF Agreed, Other
  <2>3. QED
    BY <2>1, <2>2 DEF Ends
<1>6. KeysOf(v, r) = [client |-> r, server |-> r, conf |-> v.confs["client"][r]]
  BY <1>1 DEF KeysOf
<1>7. QED
  BY <1>1, <1>4, <1>5, <1>6 DEF Keys, r

\* The last packet of the exchange proper, and our NEWKEYS.
\* Code: ssh2kex_coroutine and what follows it.
LEMMA GetKexGood ==
  ASSUME NEW v, NEW e \in Ends, NEW s, NEW g, NEW c, Good(v, e, s, g, c), s.stage = "kex",
         s.in_pq # <<>>, Head(s.in_pq).type # "HIGHER"
  PROVE  LET t == GetKex(e, Popped(s), Head(s.in_pq)) IN
         /\ Head(s.in_pq).type = Expected(e, "kex")
         /\ Onward(v, e, t, g, c) /\ HeldBack(t)
<1> DEFINE t == GetKex(e, Popped(s), Head(s.in_pq))
           s0 == Popped(s)
           r == s.ours.no
           n == Waiting(s)
           aw == At(r, "D", Len(g))
           ax == At(r, "N", Len(g))
           se == At(r, IF e = "client" THEN "N" ELSE "D", n)
           sn == At(r, "N", n)
           d == Pkt("KEXDH_REPLY", 0)
           s1 == IF e = "server" THEN Push(s0, d) ELSE s0
           s2 == SwitchOutput(e, s1)
           s3 == PassThrough(s2)
<1>1. /\ Stands(v, e, s, g, c, aw, se) /\ v \in Views /\ s \in EndStates
      /\ Numbers(v, e, s) /\ ~s.failed /\ v = Seen(v, e, s) /\ (v.open => v.ready)
      /\ aw \in Places /\ se \in Places
  <2>1. Awaiting(s, Len(g)) = aw /\ Sending(e, s, n) = se
    BY DEF Awaiting, Sending
  <2>2. Stands(v, e, s, g, c, aw, se)
    BY <2>1 DEF Good
  <2>3. QED
    BY <2>2 DEF Good, Stands, Typed
<1>2. r \in Nat /\ r >= 1 /\ (s.pq_out_higher # <<>> => s.higher_layer_ok)
  BY GoodFacts
<1>3. Head(s.in_pq).type = TypeAt(Other(e), aw)
  <2> HIDE DEF aw, se
  <2>1. QED
    BY <1>1, PopStep
<1>4. Head(s.in_pq).type = Expected(e, "kex")
  BY <1>3 DEF TypeAt, At, Expected, Other, Ends
<1>5. /\ s0 \in EndStates /\ s0.in_pq = Tail(s.in_pq) /\ s0.inseq = s.inseq
      /\ s0.inkeys = s.inkeys /\ s0.pending_newkeys = s.pending_newkeys
      /\ SameOut(s, s0) /\ SameHigher(s, s0) /\ SameKex(s, s0) /\ SameState(s, s0)
  BY <1>1, PoppedFields
<1> HIDE DEF s0
<1>6. After(aw) = ax /\ aw.at = "D"
  BY DEF After, At
<1>7. Stands(v, e, s0, g, c, ax, se)
  <2> HIDE DEF aw, ax, se
  <2>1. Stands(v, e, s0, g, c, After(aw), se)
    BY <1>1, <1>5, <1>6, PopStands
  <2>2. QED
    BY <1>6, <2>1
<1>8. /\ Stands(v, e, s1, g, c, ax, sn) /\ s1 \in EndStates
      /\ SameHigher(s, s1) /\ SameKex(s, s1) /\ SameState(s, s1)
  <2>1. CASE e = "server"
    <3>1. d \in Packets /\ d.type = "KEXDH_REPLY"
      <4>1. "KEXDH_REPLY" \in Types /\ 0 \in Nat
        BY DEF Types
      <4>2. QED
        BY <4>1, PktType DEF Pkt
    <3> HIDE DEF d
    <3>2. Step(v, e, se, d, After(se)) /\ After(se) = sn
      BY <2>1, <3>1 DEF Step, TypeAt, At, After
    <3>3. /\ Push(s0, d) \in EndStates /\ Push(s0, d).out_pq = Append(s0.out_pq, d)
          /\ Push(s0, d).raw = s0.raw /\ Push(s0, d).outseq = s0.outseq
          /\ Push(s0, d).outkeys = s0.outkeys
          /\ SameIn(s0, Push(s0, d)) /\ SameHigher(s0, Push(s0, d)) /\ SameKex(s0, Push(s0, d))
          /\ SameState(s0, Push(s0, d))
      BY <1>5, <3>1, PushFields
    <3> HIDE DEF ax, se
    <3>4. Stands(v, e, Push(s0, d), g, c, ax, After(se))
      BY <1>7, <3>1, <3>2, <3>3, PushStands
    <3>5. QED
      BY <1>5, <2>1, <3>2, <3>3, <3>4 DEF SameHigher, SameKex, SameState
  <2>2. CASE e # "server"
    <3>1. se = sn
      BY <2>2 DEF Ends
    <3>2. QED
      BY <1>5, <1>7, <2>2, <3>1
  <2>3. QED
    BY <2>1, <2>2
<1> HIDE DEF s1
<1>9. /\ Agreed(e, s1) = KeysOf(v, r) /\ Agreed(e, s1) \in Keys /\ r <= Len(v.confs["client"])
  BY <1>8, AgreedKeys DEF SameKex
<1>10. sn.at = "N" /\ Passed(sn) + 1 = r /\ After(sn) = IF r = 1 THEN At(1, "S", n) ELSE At(r + 1, "K", n)
  BY <1>2 DEF At, Passed, After
<1>11. /\ Stands(v, e, s2, g, c, ax, After(sn))
       /\ SameHigher(s1, s2) /\ SameKex(s1, s2) /\ SameState(s1, s2)
  <2> HIDE DEF ax, sn
  <2>1. Agreed(e, s1) = KeysOf(v, Passed(sn) + 1) /\ Passed(sn) + 1 <= Len(v.confs["client"])
    BY <1>9, <1>10
  <2>2. QED
    BY <1>8, <1>9, <1>10, <2>1, SwitchOutputStands
<1> HIDE DEF s2
<1>12. s2 \in EndStates /\ s2.pq_out_higher = s.pq_out_higher /\ Waiting(s2) = n
  BY <1>8, <1>11 DEF Stands, Typed, SameHigher, Waiting
<1>13. s2.pq_out_higher # <<>> => After(sn).at = "K"
  <2>1. s2.pq_out_higher # <<>> => r >= 2
    BY <1>1, <1>2, <1>12 DEF Numbers
  <2>2. QED
    BY <1>2, <1>10, <2>1 DEF At
<1> DEFINE x == Past(After(sn), Len(s2.pq_out_higher))
<1>14. Stands(v, e, s3, g, c, ax, x) /\ s3.pq_out_higher = <<>>
  <2> HIDE DEF ax, sn
  <2>1. QED
    BY <1>11, <1>13, PassThroughStands
<1>15. /\ s3 \in EndStates /\ s3.submitted = s2.submitted
       /\ SameIn(s2, s3) /\ SameKex(s2, s3) /\ SameState(s2, s3)
  BY <1>12, PassThroughFields
<1> HIDE DEF s3
<1>16. t = [s3 EXCEPT !.stage = "newkeys"]
  BY DEF GetKex, s3, s2, s1, s0, d
<1>17. /\ t \in EndStates /\ t.stage = "newkeys" /\ SameIn(s3, t) /\ SameOut(s3, t)
       /\ SameHigher(s3, t) /\ SameKex(s3, t) /\ SameState(s3, t)
  <2>1. "newkeys" \in Stages
    BY DEF Stages
  <2>2. t \in EndStates
    <3>1. [s3 EXCEPT !.stage = "newkeys"] \in EndStates
      BY <1>15, <2>1 DEF EndStates
    <3>2. QED
      BY <1>16, <3>1
  <2>3. t.stage = "newkeys"
    BY <1>15, <1>16 DEF EndStates
  <2>4. SameIn(s3, t) /\ SameOut(s3, t) /\ SameHigher(s3, t) /\ SameKex(s3, t) /\ SameState(s3, t)
    BY <1>15, <1>16 DEF EndStates, SameIn, SameOut, SameHigher, SameKex, SameState
  <2>5. QED
    BY <2>2, <2>3, <2>4
<1> HIDE DEF t
<1>18. SameKex(s, t) /\ SameState(s, t)
  BY <1>8, <1>11, <1>15, <1>17 DEF SameKex, SameState
<1>19. Stands(v, e, t, g, c, ax, x)
  <2> HIDE DEF ax, x
  <2>1. QED
    BY <1>14, <1>17, StandsSame
<1>20. Awaiting(t, Len(g)) = ax
  BY <1>17, <1>18 DEF Awaiting, SameKex
<1>21. Sending(e, t, Waiting(t)) = x
  <2>1. t.pq_out_higher = <<>> /\ t.submitted = s2.submitted
    BY <1>14, <1>15, <1>17 DEF SameHigher
  <2>2. Waiting(t) = n + Len(s2.pq_out_higher)
    <3>1. Len(s2.pq_out_higher) \in Nat /\ s2.submitted \in Nat
      BY <1>12 DEF EndStates
    <3>2. Waiting(t) = s2.submitted
      <4>1. Len(<<>>) = 0
        OBVIOUS
      <4>2. QED
        BY <2>1, <3>1, <4>1 DEF Waiting
    <3>3. n = s2.submitted - Len(s2.pq_out_higher)
      BY <1>12 DEF Waiting
    <3>4. QED
      BY <3>1, <3>2, <3>3
  <2>3. x = IF r = 1 THEN At(1, "S", n + Len(s2.pq_out_higher))
            ELSE At(r + 1, "K", n + Len(s2.pq_out_higher))
    <3> HIDE DEF n
    <3>1. QED
      BY <1>10 DEF Past, At
  <2>4. QED
    BY <1>17, <1>18, <2>2, <2>3 DEF Sending, SameKex
<1>22. Numbers(v, e, t)
  BY <1>1, <1>17, <1>18 DEF Numbers, SameKex, SameState
<1>23. Onward(v, e, t, g, c)
  BY <1>1, <1>18, <1>19, <1>20, <1>21, <1>22, OnwardSame DEF SameKex, SameState
<1>24. HeldBack(t)
  BY <1>14, <1>17, HeldSame DEF HeldBack, SameHigher
<1>25. QED
  BY <1>4, <1>23, <1>24 DEF t

\* Code: ssh2_bpp_new_incoming_crypto.
LEMMA SwitchInputFields ==
  ASSUME NEW e, NEW s \in EndStates, Agreed(e, s) \in Keys
  PROVE  LET t == SwitchInput(e, s) IN
         /\ t \in EndStates /\ t.in_pq = s.in_pq /\ t.inkeys = Agreed(e, s) /\ t.inseq = 0
         /\ ~t.pending_newkeys
         /\ SameOut(s, t) /\ SameHigher(s, t) /\ SameKex(s, t) /\ SameState(s, t)
         /\ t.stage = s.stage /\ t.wake = s.wake
<1> DEFINE k == Agreed(e, s)
<1>1. SwitchInput(e, s) = [s EXCEPT !.expired = @ \ {"in"}, !.inkeys = k, !.inseq = 0,
                                    !.pending_newkeys = FALSE]
  BY DEF SwitchInput
<1>2. k \in Keys
  OBVIOUS
<1> HIDE DEF k
<1>3. SwitchInput(e, s) \in EndStates
  <2>1. s.expired \ {"in"} \in SUBSET {"in", "out"}
    BY DEF EndStates
  <2>2. ASSUME NEW E \in SUBSET {"in", "out"}
        PROVE  [s EXCEPT !.expired = E, !.inkeys = k, !.inseq = 0, !.pending_newkeys = FALSE]
                 \in EndStates
    BY <1>2 DEF EndStates
  <2>3. QED
    BY <1>1, <2>1, <2>2
<1>4. QED
  BY <1>1, <1>3, ZenonT(30) DEF EndStates, SameOut, SameHigher, SameKex, SameState, k

\* The other side's NEWKEYS: the next key exchange, if one has been put off, or the
\* service, or the loop at the end.
\* Code: pktin->type != SSH2_MSG_NEWKEYS in ssh2_transport_process_queue.
LEMMA GetNewkeysGood ==
  ASSUME NEW v, NEW e \in Ends, NEW s, NEW g, NEW c, Good(v, e, s, g, c), s.stage = "newkeys",
         s.in_pq # <<>>, Head(s.in_pq).type # "HIGHER", HeldBack(s)
  PROVE  LET t == GetNewkeys(e, Popped(s)) IN
         /\ Head(s.in_pq).type = Expected(e, "newkeys")
         /\ Onward(v, e, t, g, c) /\ HeldBack(t)
<1> DEFINE t == GetNewkeys(e, Popped(s))
           s0 == Popped(s)
           r == s.ours.no
           n == Waiting(s)
           aw == At(r, "N", Len(g))
           ax == IF r = 1 THEN At(1, "S", Len(g)) ELSE At(r + 1, "K", Len(g))
           se == IF r = 1 THEN At(1, "S", n) ELSE At(r + 1, "K", n)
           s1 == SwitchInput(e, s0)
<1>1. /\ Stands(v, e, s, g, c, aw, se) /\ v \in Views /\ s \in EndStates
      /\ Numbers(v, e, s) /\ ~s.failed /\ v = Seen(v, e, s) /\ (v.open => v.ready)
      /\ aw \in Places /\ se \in Places
  <2>1. Awaiting(s, Len(g)) = aw /\ Sending(e, s, n) = se
    BY DEF Awaiting, Sending
  <2>2. Stands(v, e, s, g, c, aw, se)
    BY <2>1 DEF Good
  <2>3. QED
    BY <2>2 DEF Good, Stands, Typed
<1>2. r \in Nat /\ r >= 1 /\ r = Len(s.confs)
  BY GoodFacts
<1>3. Head(s.in_pq).type = TypeAt(Other(e), aw)
  <2> HIDE DEF aw, se
  <2>1. QED
    BY <1>1, PopStep
<1>4. Head(s.in_pq).type = Expected(e, "newkeys")
  BY <1>3 DEF TypeAt, At, Expected
<1>5. /\ s0 \in EndStates /\ s0.in_pq = Tail(s.in_pq)
      /\ SameOut(s, s0) /\ SameHigher(s, s0) /\ SameKex(s, s0) /\ SameState(s, s0)
      /\ s0.stage = s.stage
  BY <1>1, PoppedFields
<1> HIDE DEF s0
<1>6. /\ Agreed(e, s0) = KeysOf(v, r) /\ Agreed(e, s0) \in Keys /\ r <= Len(v.confs["client"])
  BY <1>5, AgreedKeys DEF SameKex
<1>7. /\ s1 \in EndStates /\ s1.in_pq = s0.in_pq /\ s1.inkeys = KeysOf(v, r) /\ s1.inseq = 0
      /\ ~s1.pending_newkeys
      /\ SameOut(s0, s1) /\ SameHigher(s0, s1) /\ SameKex(s0, s1) /\ SameState(s0, s1)
  BY <1>5, <1>6, SwitchInputFields
<1> HIDE DEF s1
<1>8. /\ SameOut(s, s1) /\ SameHigher(s, s1) /\ SameKex(s, s1) /\ SameState(s, s1)
      /\ s1.in_pq = Tail(s.in_pq)
  BY <1>5, <1>7 DEF SameOut, SameHigher, SameKex, SameState
<1>9. After(aw) = ax /\ aw.at = "N" /\ Passed(aw) + 1 = r
  <2> HIDE DEF r
  <2>1. After(aw) = ax /\ aw.at = "N"
    BY <1>2 DEF After, At
  <2>2. Passed(aw) = r - 1
    BY DEF At, Passed
  <2>3. QED
    BY <1>2, <2>1, <2>2
<1>10. Stands(v, e, s1, g, c, ax, se)
  <2> HIDE DEF aw, ax, se
  <2>1. Stands(v, e, s1, g, c, After(aw), se)
    BY <1>1, <1>6, <1>7, <1>8, <1>9, PopStands
  <2>2. QED
    BY <1>9, <2>1
<1>11. Held(s) /\ Waiting(s1) = n
  BY <1>8 DEF HeldBack, SameHigher, Waiting
<1>12. /\ s1.ours = s.ours /\ s1.theirs = s.theirs /\ s1.confs = s.confs
       /\ s.ours = Kexinit(v, e, r) /\ s.theirs = Kexinit(v, Other(e), r)
       /\ r <= Len(v.confs[Other(e)])
       /\ s1.higher_layer_ok = s.higher_layer_ok /\ s1.deferred = s.deferred
       /\ s1.failed = s.failed
       /\ s.higher_layer_ok <=> r >= 2
       /\ s.deferred => s.higher_layer_ok
  BY <1>1, <1>8 DEF Numbers, SameKex, SameState
<1>13. t = IF s0.deferred THEN Begin(e, [s1 EXCEPT !.deferred = FALSE])
           ELSE IF s0.higher_layer_ok
                THEN [[s1 EXCEPT !.kex_in_progress = FALSE]
                        EXCEPT !.rekey_class = "NONE", !.stage = "idle"]
           ELSE IF e = "client"
                THEN [Push([s1 EXCEPT !.kex_in_progress = FALSE], Pkt("SERVICE_REQUEST", 0))
                        EXCEPT !.stage = "service"]
           ELSE [[s1 EXCEPT !.kex_in_progress = FALSE] EXCEPT !.stage = "service"]
  BY DEF GetNewkeys, s1, s0
<1>14. s0.deferred = s.deferred /\ s0.higher_layer_ok = s.higher_layer_ok
  BY <1>5 DEF SameState
<1> DEFINE over == [s1 EXCEPT !.kex_in_progress = FALSE]
<1>15. /\ over \in EndStates
       /\ SameIn(s1, over) /\ SameOut(s1, over) /\ SameHigher(s1, over) /\ SameKex(s1, over)
       /\ SameState(s1, over)
  <2>1. over \in EndStates
    BY <1>7 DEF EndStates
  <2>2. QED
    BY <1>7, <2>1 DEF EndStates, SameIn, SameOut, SameHigher, SameKex, SameState
<1> HIDE DEF t
<1>16. CASE s.deferred
  <2> DEFINE x == [s1 EXCEPT !.deferred = FALSE]
  <2>1. x \in EndStates
    BY <1>7 DEF EndStates
  <2>2. /\ SameIn(s1, x) /\ SameOut(s1, x) /\ SameHigher(s1, x) /\ SameKex(s1, x)
        /\ x.higher_layer_ok = s1.higher_layer_ok /\ x.failed = s1.failed /\ ~x.deferred
    BY <1>7 DEF EndStates, SameIn, SameOut, SameHigher, SameKex, SameState
  <2>3. t = Begin(e, x)
    BY <1>13, <1>14, <1>16
  <2> HIDE DEF x
  <2>4. r >= 2
    BY <1>12, <1>16
  <2>5. ax = At(r + 1, "K", Len(g)) /\ se = At(r + 1, "K", n) /\ Waiting(x) = n
    <3>1. Waiting(x) = Waiting(s1)
      BY <2>2 DEF SameHigher, Waiting
    <3> HIDE DEF r, n
    <3>2. r # 1
      BY <1>2, <2>4, FirstRound, Zenon
    <3>3. QED
      BY <1>11, <3>1, <3>2
  <2>6. Stands(v, e, x, g, c, At(r + 1, "K", Len(g)), At(r + 1, "K", Waiting(x)))
    <3>1. Stands(v, e, x, g, c, ax, se)
      <4> HIDE DEF aw, ax, se
      <4>1. QED
        BY <1>10, <2>1, <2>2, StandsSame
    <3>2. QED
      BY <2>5, <3>1
  <2>7. /\ x.ours = s.ours /\ x.theirs = s.theirs /\ x.confs = s.confs
        /\ x.higher_layer_ok = s.higher_layer_ok /\ x.failed = s.failed
    BY <1>12, <2>2 DEF SameKex
  <2>8. v = Seen(v, e, x)
    BY <1>1, <2>7, Seens
  <2>9. Onward(v, e, t, g, c)
    <3>1. x.higher_layer_ok <=> x.ours.no >= 1
      BY <1>2, <1>12, <2>4, <2>7
    <3>2. QED
      BY <1>1, <1>2, <1>12, <2>2, <2>3, <2>6, <2>7, <2>8, <3>1, BeginGood
  <2>10. t.stage = "kexinit"
    BY <2>1, <2>3, BeginFields
  <2>11. QED
    BY <1>4, <2>9, <2>10 DEF HeldBack, t
<1>17. CASE ~s.deferred /\ s.higher_layer_ok
  <2>1. t = [over EXCEPT !.rekey_class = "NONE", !.stage = "idle"]
    BY <1>13, <1>14, <1>17
  <2> HIDE DEF over
  <2>2. "idle" \in Stages
    BY DEF Stages
  <2>3. t \in EndStates /\ t.stage = "idle"
    <3>1. [over EXCEPT !.rekey_class = "NONE", !.stage = "idle"] \in EndStates
      BY <1>15, <2>2 DEF EndStates, Classes
    <3>2. QED
      BY <1>15, <2>1, <3>1, ZenonT(30) DEF EndStates
  <2>4. /\ SameIn(over, t) /\ SameOut(over, t) /\ SameHigher(over, t) /\ SameKex(over, t)
        /\ SameState(over, t)
    BY <1>15, <2>1 DEF EndStates, SameIn, SameOut, SameHigher, SameKex, SameState
  <2>5. /\ SameIn(s1, t) /\ SameOut(s1, t) /\ SameHigher(s1, t) /\ SameHigher(s, t)
        /\ SameKex(s, t) /\ SameState(s, t)
    BY <1>8, <1>15, <2>4 DEF SameIn, SameOut, SameHigher, SameKex, SameState
  <2>6. r >= 2
    BY <1>12, <1>17
  <2>7. Stands(v, e, t, g, c, ax, se)
    <3> HIDE DEF ax, se
    <3>1. QED
      BY <1>10, <2>3, <2>5, StandsSame
  <2>8. Awaiting(t, Len(g)) = ax /\ Sending(e, t, Waiting(t)) = se
    <3>1. t.ours.no = r /\ Waiting(t) = n
      BY <2>5 DEF SameKex, SameHigher, Waiting
    <3> HIDE DEF r, n
    <3>2. r # 1
      BY <1>2, <2>6, FirstRound, Zenon
    <3>3. QED
      BY <2>3, <3>1, <3>2 DEF Awaiting, Sending
  <2>9. Numbers(v, e, t)
    BY <1>1, <1>2, <2>3, <2>5, <2>6 DEF Numbers, SameKex, SameState
  <2>10. Onward(v, e, t, g, c)
    BY <1>1, <2>5, <2>7, <2>8, <2>9, OnwardSame DEF SameKex, SameState
  <2>11. HeldBack(t)
    BY <1>11, <2>5, HeldSame DEF HeldBack
  <2>12. QED
    BY <1>4, <2>10, <2>11 DEF t
<1>18. CASE ~s.deferred /\ ~s.higher_layer_ok
  <2> DEFINE q == Pkt("SERVICE_REQUEST", 0)
             x == IF e = "client" THEN Push(over, q) ELSE over
             sx == IF e = "client" THEN At(2, "K", n) ELSE At(1, "S", n)
  <2>1. t = [x EXCEPT !.stage = "service"]
    BY <1>13, <1>14, <1>18
  <2>2. r = 1 /\ ax = At(1, "S", Len(g)) /\ se = At(1, "S", n)
    <3> HIDE DEF r, n
    <3>1. r = 1
      BY <1>2, <1>12, <1>18, FirstRound, Zenon
    <3>2. QED
      BY <3>1
  <2> HIDE DEF over
  <2>3. Stands(v, e, over, g, c, ax, se)
    <3> HIDE DEF ax, se
    <3>1. QED
      BY <1>10, <1>15, StandsSame
  <2>4. /\ Stands(v, e, x, g, c, ax, sx) /\ x \in EndStates
        /\ SameHigher(over, x) /\ SameKex(over, x) /\ SameState(over, x)
    <3>1. CASE e = "client"
      <4>1. q \in Packets /\ q.type = "SERVICE_REQUEST"
        <5>1. "SERVICE_REQUEST" \in Types /\ 0 \in Nat
          BY DEF Types
        <5>2. QED
          BY <5>1, PktType DEF Pkt
      <4> HIDE DEF q
      <4>2. Step(v, e, se, q, After(se)) /\ After(se) = sx
        BY <2>2, <3>1, <4>1 DEF Step, TypeAt, At, After
      <4>3. /\ Push(over, q) \in EndStates /\ Push(over, q).out_pq = Append(over.out_pq, q)
            /\ Push(over, q).raw = over.raw /\ Push(over, q).outseq = over.outseq
            /\ Push(over, q).outkeys = over.outkeys
            /\ SameIn(over, Push(over, q)) /\ SameHigher(over, Push(over, q))
            /\ SameKex(over, Push(over, q)) /\ SameState(over, Push(over, q))
        BY <1>15, <4>1, PushFields
      <4> HIDE DEF aw, ax, se
      <4>4. Stands(v, e, Push(over, q), g, c, ax, After(se))
        BY <2>3, <4>1, <4>2, <4>3, PushStands
      <4>5. QED
        BY <3>1, <4>2, <4>3, <4>4
    <3>2. CASE e # "client"
      <4>1. x = over /\ sx = se
        BY <2>2, <3>2
      <4>2. QED
        BY <1>15, <2>3, <4>1 DEF SameHigher, SameKex, SameState
    <3>3. QED
      BY <3>1, <3>2
  <2> HIDE DEF x
  <2>5. t \in EndStates /\ t.stage = "service"
    <3>1. "service" \in Stages
      BY DEF Stages
    <3>2. QED
      BY <2>1, <2>4, <3>1 DEF EndStates
  <2>6. SameIn(x, t) /\ SameOut(x, t) /\ SameHigher(x, t) /\ SameKex(x, t) /\ SameState(x, t)
    BY <2>1, <2>4 DEF EndStates, SameIn, SameOut, SameHigher, SameKex, SameState
  <2>7. SameHigher(s, t) /\ SameKex(s, t) /\ SameState(s, t)
    BY <1>8, <1>15, <2>4, <2>6 DEF SameHigher, SameKex, SameState
  <2>8. Stands(v, e, t, g, c, ax, sx)
    <3> HIDE DEF ax, sx
    <3>1. QED
      BY <2>4, <2>5, <2>6, StandsSame
  <2>9. Awaiting(t, Len(g)) = ax /\ Sending(e, t, Waiting(t)) = sx
    BY <2>2, <2>5, <2>7 DEF Awaiting, Sending, SameKex, SameHigher, Waiting
  <2>10. Numbers(v, e, t)
    BY <1>1, <2>2, <2>5, <2>7 DEF Numbers, SameKex, SameState
  <2>11. Onward(v, e, t, g, c)
    BY <1>1, <2>7, <2>8, <2>9, <2>10, OnwardSame DEF SameKex, SameState
  <2>12. QED
    BY <1>4, <2>5, <2>11 DEF HeldBack, t
<1>19. QED
  BY <1>16, <1>17, <1>18

\* The service is granted, and accepted.
\* Code: SSH2_MSG_SERVICE_REQUEST and SSH2_MSG_SERVICE_ACCEPT in ssh2_transport_process_queue.
LEMMA GetServiceGood ==
  ASSUME NEW v, NEW e \in Ends, NEW s, NEW g, NEW c, Good(v, e, s, g, c), s.stage = "service",
         s.in_pq # <<>>, Head(s.in_pq).type # "HIGHER"
  PROVE  LET t == GetService(e, Popped(s)) IN
         /\ Head(s.in_pq).type = Expected(e, "service")
         /\ Onward(v, e, t, g, c) /\ HeldBack(t)
<1> DEFINE t == GetService(e, Popped(s))
           w == Seen(v, e, t)
           p == Head(s.in_pq)
           s0 == Popped(s)
           n == Waiting(s)
           aw == At(1, "S", Len(g))
           ax == At(2, "K", Len(g))
           se == IF e = "client" THEN At(2, "K", n) ELSE At(1, "S", n)
           sx == At(2, "K", n)
           s1 == [s0 EXCEPT !.higher_layer_ok = TRUE, !.rekey_class = "NONE", !.stage = "idle"]
           q == Pkt("SERVICE_ACCEPT", 0)
<1>1. /\ Stands(v, e, s, g, c, aw, se) /\ v \in Views /\ s \in EndStates
      /\ Numbers(v, e, s) /\ ~s.failed /\ v = Seen(v, e, s) /\ (v.open => v.ready)
      /\ aw \in Places /\ se \in Places
  <2>1. Awaiting(s, Len(g)) = aw /\ Sending(e, s, n) = se
    BY DEF Awaiting, Sending
  <2>2. Stands(v, e, s, g, c, aw, se)
    BY <2>1 DEF Good
  <2>3. QED
    BY <2>2 DEF Good, Stands, Typed
<1>2. /\ s.ours.no = 1 /\ ~s.higher_layer_ok /\ s.pq_out_higher = <<>>
  <2>1. s.ours.no = 1 /\ ~s.higher_layer_ok
    <3>1. s.ours.no = 1
      BY <1>1 DEF Numbers
    <3>2. s.higher_layer_ok => s.ours.no >= 2
      BY <1>1 DEF Numbers
    <3>3. ~(1 >= 2)
      OBVIOUS
    <3>4. QED
      BY <3>1, <3>2, <3>3
  <2>2. QED
    BY <2>1, GoodFacts
<1>3. Step(v, Other(e), aw, p, After(aw)) /\ p.type = TypeAt(Other(e), aw)
  <2> HIDE DEF aw, se
  <2>1. QED
    BY <1>1, PopStep
<1>4. p.type = Expected(e, "service") /\ (e = "client" => v.ready)
  <2>1. p.type = Expected(e, "service")
    BY <1>3 DEF TypeAt, At, Expected, Other, Ends
  <2>2. e = "client" => v.ready
    BY <1>3 DEF Step, At, Other
  <2>3. QED
    BY <2>1, <2>2
<1>5. /\ s0 \in EndStates /\ s0.in_pq = Tail(s.in_pq) /\ s0.inseq = s.inseq
      /\ s0.inkeys = s.inkeys /\ s0.pending_newkeys = s.pending_newkeys
      /\ SameOut(s, s0) /\ SameHigher(s, s0) /\ SameKex(s, s0) /\ SameState(s, s0)
  BY <1>1, PoppedFields
<1> HIDE DEF s0, p
<1>6. After(aw) = ax /\ aw.at = "S"
  BY DEF After, At
<1>7. Stands(v, e, s0, g, c, ax, se)
  <2> HIDE DEF aw, ax, se
  <2>1. p.type # "HIGHER"
    BY DEF p
  <2>2. Stands(v, e, s0, g, c, After(aw), se)
    BY <1>1, <1>5, <1>6, <2>1, PopStands DEF p
  <2>3. QED
    BY <1>6, <2>2
<1>8. /\ s1 \in EndStates /\ s1.stage = "idle" /\ s1.higher_layer_ok
      /\ SameIn(s0, s1) /\ SameOut(s0, s1) /\ SameHigher(s0, s1) /\ SameKex(s0, s1)
      /\ s1.deferred = s0.deferred /\ s1.failed = s0.failed
  <2>1. "idle" \in Stages
    BY DEF Stages
  <2>2. s1 \in EndStates
    BY <1>5, <2>1 DEF EndStates, Classes
  <2>3. s1.stage = "idle" /\ s1.higher_layer_ok
    BY <1>5 DEF EndStates
  <2>4. QED
    BY <1>5, <2>2, <2>3 DEF EndStates, SameIn, SameOut, SameHigher, SameKex
<1>9. t = IF e = "server" THEN Push(s1, q) ELSE s1
  BY DEF GetService, s0
<1> HIDE DEF s1
<1>10. q \in Packets /\ q.type = "SERVICE_ACCEPT"
  <2>1. "SERVICE_ACCEPT" \in Types /\ 0 \in Nat
    BY DEF Types
  <2>2. QED
    BY <2>1, PktType DEF Pkt
<1> HIDE DEF q
<1>11. /\ t \in EndStates /\ t.stage = "idle" /\ t.higher_layer_ok
       /\ SameHigher(s1, t) /\ SameKex(s1, t) /\ t.deferred = s1.deferred /\ t.failed = s1.failed
       /\ SameIn(s1, t)
       /\ t.raw = s1.raw /\ t.outseq = s1.outseq /\ t.outkeys = s1.outkeys
       /\ t.out_pq = IF e = "server" THEN Append(s1.out_pq, q) ELSE s1.out_pq
  <2>1. CASE e = "server"
    <3>1. /\ Push(s1, q) \in EndStates /\ Push(s1, q).out_pq = Append(s1.out_pq, q)
          /\ Push(s1, q).raw = s1.raw /\ Push(s1, q).outseq = s1.outseq
          /\ Push(s1, q).outkeys = s1.outkeys
          /\ SameIn(s1, Push(s1, q)) /\ SameHigher(s1, Push(s1, q)) /\ SameKex(s1, Push(s1, q))
          /\ SameState(s1, Push(s1, q)) /\ Push(s1, q).stage = s1.stage
      BY <1>8, <1>10, PushFields
    <3>2. QED
      BY <1>8, <1>9, <2>1, <3>1 DEF SameState
  <2>2. CASE e # "server"
    BY <1>8, <1>9, <2>2 DEF SameHigher, SameKex, SameIn
  <2>3. QED
    BY <2>1, <2>2
<1> HIDE DEF t
<1>12. t.confs = s.confs /\ SameHigher(s, t) /\ SameKex(s, t) /\ ~t.failed /\ ~t.deferred
  <2>1. ~s.deferred
    BY <1>1, <1>2 DEF Numbers
  <2>2. QED
    BY <1>1, <1>5, <1>8, <1>11, <2>1 DEF SameHigher, SameKex, SameState
<1>13. /\ w \in Views /\ w.confs = v.confs /\ (w.open => w.ready) /\ Grown(v, w)
       /\ (e = "server" => w.ready)
  <2>1. w.confs = v.confs
    <3>1. w.confs = [x \in Ends |-> IF x = e THEN s.confs ELSE v.confs[x]]
      BY <1>12 DEF Seen
    <3>2. v.confs = [x \in Ends |-> IF x = e THEN s.confs ELSE v.confs[x]]
      BY <1>1 DEF Seen
    <3>3. QED
      BY <3>1, <3>2
  <2>2. /\ w.ready = IF e = "server" THEN TRUE ELSE v.ready
        /\ w.open = IF e = "client" THEN TRUE ELSE v.open
    BY <1>11 DEF Seen, EndStates
  <2>3. v.ready \in BOOLEAN /\ v.open \in BOOLEAN /\ v.confs \in [Ends -> Seq(Nat)]
    BY <1>1 DEF Views
  <2>4. w = [confs |-> w.confs, ready |-> w.ready, open |-> w.open]
    BY DEF Seen
  <2> HIDE DEF w
  <2>5. w \in Views
    BY <2>1, <2>2, <2>3, <2>4 DEF Views
  <2>6. Grown(v, w)
    <3>1. Grown(v, v)
      BY <1>1, GrownSelf
    <3>2. QED
      BY <2>1, <2>2, <3>1 DEF Grown
  <2>7. w.open => w.ready
    BY <1>1, <1>4, <2>2 DEF Ends
  <2>8. QED
    BY <2>1, <2>2, <2>5, <2>6, <2>7
<1>14. w = Seen(w, e, t)
  BY <1>1, Seens
<1> HIDE DEF w
<1>15. Stands(w, e, s1, g, c, ax, se)
  <2> HIDE DEF ax, se
  <2>1. Stands(v, e, s1, g, c, ax, se)
    BY <1>7, <1>8, StandsSame
  <2>2. QED
    BY <1>13, <2>1, StandsGrow
<1>16. Stands(w, e, t, g, c, ax, sx)
  <2>1. CASE e = "server"
    <3>1. Step(w, e, se, q, After(se)) /\ After(se) = sx
      BY <1>10, <1>13, <2>1 DEF Step, TypeAt, At, After
    <3>2. t.out_pq = Append(s1.out_pq, q) /\ q.type \notin {"HIGHER", "NEWKEYS"}
      BY <1>10, <1>11, <2>1
    <3> HIDE DEF ax, se, sx
    <3>3. Stands(w, e, t, g, c, ax, After(se))
      BY <1>10, <1>11, <1>15, <3>1, <3>2, PushStands
    <3>4. QED
      BY <3>1, <3>3
  <2>2. CASE e # "server"
    <3>1. se = sx /\ SameOut(s1, t)
      BY <1>11, <2>2 DEF Ends, SameOut
    <3> HIDE DEF ax, se, sx
    <3>2. QED
      BY <1>11, <1>15, <3>1, StandsSame
  <2>3. QED
    BY <2>1, <2>2
<1>17. Awaiting(t, Len(g)) = ax /\ Sending(e, t, Waiting(t)) = sx
  <2>1. t.ours.no = 1 /\ Waiting(t) = n
    BY <1>2, <1>12 DEF SameKex, SameHigher, Waiting
  <2> HIDE DEF n
  <2>2. QED
    BY <1>11, <2>1 DEF Awaiting, Sending
<1>18. Numbers(w, e, t)
  <2>1. t.ours = s.ours /\ t.theirs = s.theirs /\ t.confs = s.confs
    BY <1>12 DEF SameKex
  <2>2. \A x \in Ends : \A k : Kexinit(w, x, k) = Kexinit(v, x, k)
    BY <1>13 DEF Kexinit
  <2>3. /\ s.ours.no = Len(s.confs) /\ s.ours = Kexinit(v, e, s.ours.no)
        /\ s.ours.no <= Len(v.confs[Other(e)]) /\ s.theirs = Kexinit(v, Other(e), s.ours.no)
    BY <1>1 DEF Numbers
  <2>4. /\ s.ours = Kexinit(w, e, s.ours.no) /\ s.theirs = Kexinit(w, Other(e), s.ours.no)
    BY <2>2, <2>3, OtherEnd
  <2>5. t.stage # "start" /\ t.ours.no # 0
    BY <1>2, <1>11, <2>1
  <2>6. QED
    BY <1>11, <1>12, <1>13, <2>1, <2>3, <2>4, <2>5 DEF Numbers
<1>19. Good(w, e, t, g, c)
  BY <1>12, <1>13, <1>14, <1>16, <1>17, <1>18 DEF Good
<1>20. HeldBack(t)
  BY <1>2, <1>12, HeldSame DEF HeldBack, SameHigher
<1>21. QED
  BY <1>4, <1>13, <1>19, <1>20 DEF Onward, w, t, p

\* The loop at the end.
\* Code: the end of ssh2_transport_process_queue.
LEMMA IdleGood ==
  ASSUME NEW v, NEW e \in Ends, NEW s, NEW g, NEW c, Good(v, e, s, g, c), s.stage = "idle",
         s.in_pq # <<>> => Head(s.in_pq).type # "HIGHER"
  PROVE  LET t == Idle(e, s) IN
         Onward(v, e, t, g, c) /\ HeldBack(t) /\ t.stage \in {"idle", "kexinit"}
<1> DEFINE t == Idle(e, s)
           r == s.ours.no
           n == Waiting(s)
           aw == At(r + 1, "K", Len(g))
           se == At(r + 1, "K", n)
           s1 == PassThrough(s)
           sx == At(r + 1, "K", Waiting(s1))
           class == Reason(s1)
<1>1. /\ Stands(v, e, s, g, c, aw, se) /\ v \in Views /\ s \in EndStates
      /\ Numbers(v, e, s) /\ ~s.failed /\ v = Seen(v, e, s) /\ (v.open => v.ready)
      /\ aw \in Places /\ se \in Places
  <2>1. Awaiting(s, Len(g)) = aw /\ Sending(e, s, n) = se
    BY DEF Awaiting, Sending
  <2>2. Stands(v, e, s, g, c, aw, se)
    BY <2>1 DEF Good
  <2>3. QED
    BY <2>2 DEF Good, Stands, Typed
<1>2. s.in_pq # <<>> => Head(s.in_pq).type = "KEXINIT"
  <2>1. s.in_pq # <<>> => Head(s.in_pq).type = TypeAt(Other(e), aw)
    <3> HIDE DEF aw, se
    <3>1. QED
      BY <1>1, PopStep
  <2>2. QED
    BY <2>1 DEF TypeAt, At
<1>3. /\ s1 \in EndStates /\ s1.pq_out_higher = <<>> /\ s1.submitted = s.submitted
      /\ SameIn(s, s1) /\ SameKex(s, s1) /\ SameState(s, s1)
      /\ s1.stage = s.stage
  BY <1>1, PassThroughFields
<1>4. Stands(v, e, s1, g, c, aw, sx)
  <2>1. se.at = "K"
    BY DEF At
  <2> DEFINE x == Past(se, Len(s.pq_out_higher))
  <2>2. Stands(v, e, s1, g, c, aw, x)
    <3> HIDE DEF aw, se
    <3>1. QED
      BY <1>1, <2>1, PassThroughStands
  <2>3. x = sx
    <3>1. Len(s.pq_out_higher) \in Nat /\ s.submitted \in Nat
      BY <1>1 DEF EndStates
    <3>2. Waiting(s1) = s.submitted
      <4>1. Len(<<>>) = 0
        OBVIOUS
      <4>2. QED
        BY <1>3, <3>1, <4>1 DEF Waiting
    <3>3. n + Len(s.pq_out_higher) = s.submitted
      BY <3>1 DEF Waiting
    <3> HIDE DEF n, r
    <3>4. QED
      BY <3>2, <3>3 DEF Past, At
  <2>4. QED
    BY <2>2, <2>3
<1>5. class \in Classes
  BY <1>3 DEF Reason, Classes, EndStates
<1>6. /\ r \in Nat /\ r >= 1 /\ r = Len(s.confs)
      /\ s.ours = Kexinit(v, e, r) /\ s.theirs = Kexinit(v, Other(e), r)
      /\ r <= Len(v.confs[Other(e)]) /\ s.higher_layer_ok
  BY <1>1, GoodFacts DEF Numbers
<1>7. t = IF class = "NONE" THEN [s1 EXCEPT !.rekey_class = "NONE"]
          ELSE IF Refused(e, class) THEN [s1 EXCEPT !.rekey_class = "NONE", !.expired = {}]
          ELSE Begin(e, [s1 EXCEPT !.rekey_class = class, !.wake = class = "SERVER"])
  BY <1>2, <1>3 DEF Idle, SameIn
<1> HIDE DEF s1, t, class
<1>8. \A x : SameKex(s1, x) /\ SameState(s1, x) => SameKex(s, x) /\ SameState(s, x)
  BY <1>3 DEF SameKex, SameState
<1>9. ASSUME NEW x \in EndStates, x.stage = s1.stage, SameIn(s1, x), SameOut(s1, x),
             SameHigher(s1, x), SameKex(s1, x), SameState(s1, x)
      PROVE  Onward(v, e, x, g, c) /\ HeldBack(x) /\ x.stage = "idle"
  <2>1. SameKex(s, x) /\ SameState(s, x) /\ x.stage = "idle"
    BY <1>3, <1>8, <1>9
  <2>2. Stands(v, e, x, g, c, aw, sx)
    <3> HIDE DEF aw, sx
    <3>1. QED
      BY <1>4, <1>9, StandsSame
  <2>3. Awaiting(x, Len(g)) = aw /\ Sending(e, x, Waiting(x)) = sx
    BY <1>9, <2>1 DEF Awaiting, Sending, SameKex, SameHigher, Waiting
  <2>4. Numbers(v, e, x)
    BY <1>1, <2>1 DEF Numbers, SameKex, SameState
  <2>5. Onward(v, e, x, g, c)
    BY <1>1, <2>1, <2>2, <2>3, <2>4, OnwardSame DEF SameKex, SameState
  <2>6. HeldBack(x)
    BY <1>3, <1>9, HeldSame DEF HeldBack, SameHigher
  <2>7. QED
    BY <2>1, <2>5, <2>6
<1>10. CASE class = "NONE"
  <2> DEFINE x == [s1 EXCEPT !.rekey_class = "NONE"]
  <2>1. x \in EndStates
    BY <1>3 DEF EndStates, Classes
  <2>2. /\ x.stage = s1.stage /\ SameIn(s1, x) /\ SameOut(s1, x)
        /\ SameHigher(s1, x) /\ SameKex(s1, x) /\ SameState(s1, x)
    BY <1>3 DEF EndStates, SameIn, SameOut, SameHigher, SameKex, SameState
  <2>3. t = x
    BY <1>7, <1>10
  <2> HIDE DEF x
  <2>4. QED
    BY <1>9, <2>1, <2>2, <2>3 DEF t
<1>11. CASE class # "NONE" /\ Refused(e, class)
  <2> DEFINE x == [s1 EXCEPT !.rekey_class = "NONE", !.expired = {}]
  <2>1. x \in EndStates
    BY <1>3 DEF EndStates, Classes
  <2>2. /\ x.stage = s1.stage /\ SameIn(s1, x) /\ SameOut(s1, x)
        /\ SameHigher(s1, x) /\ SameKex(s1, x) /\ SameState(s1, x)
    BY <1>3 DEF EndStates, SameIn, SameOut, SameHigher, SameKex, SameState
  <2>3. t = x
    BY <1>7, <1>11
  <2> HIDE DEF x
  <2>4. QED
    BY <1>9, <2>1, <2>2, <2>3 DEF t
<1>12. CASE class # "NONE" /\ ~Refused(e, class)
  <2> DEFINE x == [s1 EXCEPT !.rekey_class = class, !.wake = class = "SERVER"]
  <2>1. x \in EndStates
    <3>1. (class = "SERVER") \in BOOLEAN
      OBVIOUS
    <3>2. QED
      BY <1>3, <1>5, <3>1 DEF EndStates
  <2>2. /\ x.stage = s1.stage /\ SameIn(s1, x) /\ SameOut(s1, x)
        /\ SameHigher(s1, x) /\ SameKex(s1, x) /\ SameState(s1, x)
    BY <1>3 DEF EndStates, SameIn, SameOut, SameHigher, SameKex, SameState
  <2>3. t = Begin(e, x)
    BY <1>7, <1>12
  <2> HIDE DEF x
  <2>4. Stands(v, e, x, g, c, aw, sx)
    <3> HIDE DEF aw, sx
    <3>1. QED
      BY <1>4, <2>1, <2>2, StandsSame
  <2>5. SameKex(s, x) /\ SameState(s, x)
    BY <1>8, <2>2
  <2>6. x.ours = s.ours /\ x.theirs = s.theirs /\ x.confs = s.confs /\ Waiting(x) = Waiting(s1)
    BY <2>2, <2>5 DEF SameKex, SameHigher, Waiting
  <2>7. Stands(v, e, x, g, c, At(x.ours.no + 1, "K", Len(g)), At(x.ours.no + 1, "K", Waiting(x)))
    BY <2>4, <2>6
  <2>8. /\ x.higher_layer_ok /\ x.higher_layer_ok = s.higher_layer_ok /\ ~x.failed
    BY <1>1, <1>6, <2>5 DEF SameState
  <2>9. v = Seen(v, e, x)
    BY <1>1, <2>6, <2>8, Seens
  <2>10. Onward(v, e, t, g, c)
    <3>1. x.higher_layer_ok <=> x.ours.no >= 1
      BY <1>6, <2>6, <2>8
    <3>2. QED
      BY <1>1, <1>6, <2>3, <2>6, <2>7, <2>8, <2>9, <3>1, BeginGood
  <2>11. t.stage = "kexinit"
    BY <2>1, <2>3, BeginFields
  <2>12. QED
    BY <2>10, <2>11 DEF HeldBack, t
<1>13. QED
  BY <1>10, <1>11, <1>12

-----------------------------------------------------------------------------
(* One call of the coroutine *)

LEMMA OnwardAgain ==
  ASSUME NEW v \in Views, NEW e \in Ends, NEW c, NEW t, NEW h, NEW u, NEW k,
         Onward(v, e, t, h, c), Onward(Seen(v, e, t), e, u, k, c)
  PROVE  Onward(v, e, u, k, c)
<1> DEFINE w == Seen(v, e, t)
<1>1. Grown(v, w) /\ w \in Views
  BY DEF Onward
<1>2. Seen(w, e, u) = Seen(v, e, u)
  BY DEF Seen
<1> HIDE DEF w
<1>3. Grown(w, Seen(w, e, u)) /\ Seen(w, e, u) \in Views /\ Good(Seen(w, e, u), e, u, k, c)
  BY DEF Onward, w
<1>4. Grown(v, Seen(w, e, u))
  BY <1>1, <1>3, GrownAgain
<1>5. QED
  BY <1>2, <1>3, <1>4 DEF Onward

LEMMA OnwardStage ==
  ASSUME NEW v, NEW e \in Ends, NEW s, NEW g, NEW c, Good(v, e, s, g, c), s.stage # "start",
         NEW t, NEW h, Onward(v, e, t, h, c)
  PROVE  t.stage # "start"
<1> DEFINE w == Seen(v, e, t)
<1>1. Grown(v, w) /\ Good(w, e, t, h, c)
  BY DEF Onward
<1> HIDE DEF w
<1>2. s.ours.no \in Nat /\ s.ours.no >= 1 /\ s.ours.no = Len(v.confs[e])
  BY GoodFacts
<1>3. t.ours.no \in Nat /\ t.ours.no = Len(w.confs[e])
  BY <1>1, GoodFacts
<1>4. t.ours.no # 0
  BY <1>1, <1>2, <1>3 DEF Grown
<1>5. QED
  BY <1>1, <1>4 DEF Good, Numbers

\* Code: ssh2_transport_filter_queue.
LEMMA FilterGood ==
  ASSUME NEW v, NEW e \in Ends, NEW s, NEW g, NEW c, Good(v, e, s, g, c)
  PROVE  LET y == Filter([s |-> s, got |-> g]) IN
         /\ y = [s |-> y.s, got |-> y.got]
         /\ Onward(v, e, y.s, y.got, c) /\ (HeldBack(s) => HeldBack(y.s))
         /\ y.s.in_pq # <<>> => Head(y.s.in_pq).type # "HIGHER"
         /\ y.s.stage = s.stage /\ y.s.wake = s.wake
<1> DEFINE y == Filter([s |-> s, got |-> g])
           aw == Awaiting(s, Len(g))
           se == Sending(e, s, Waiting(s))
           d == Len(y.got) - Len(g)
<1>1. /\ Stands(v, e, s, g, c, aw, se) /\ v \in Views /\ s \in EndStates /\ g \in Seq(Packets)
      /\ Numbers(v, e, s) /\ ~s.failed /\ v = Seen(v, e, s) /\ (v.open => s.higher_layer_ok)
  BY GoodFacts DEF Good
<1>2. /\ y = [s |-> y.s, got |-> y.got] /\ Len(y.got) >= Len(g)
      /\ Stands(v, e, y.s, y.got, c, Past(aw, d), se)
      /\ y.s.in_pq # <<>> => Head(y.s.in_pq).type # "HIGHER"
      /\ SameOut(s, y.s) /\ SameHigher(s, y.s) /\ SameKex(s, y.s) /\ SameState(s, y.s)
      /\ y.s.stage = s.stage /\ y.s.wake = s.wake
  <2>1. v.open => s.higher_layer_ok
    BY <1>1
  <2> HIDE DEF aw, se
  <2>2. Filtered(v, e, s, g, c, aw, se, Filter([s |-> s, got |-> g]))
    BY <1>1, <2>1, FilterStands
  <2>3. Filtered(v, e, s, g, c, aw, se, y)
    BY <2>2
  <2> HIDE DEF y
  <2>4. QED
    BY <2>3 DEF Filtered
<1> HIDE DEF y
<1>3. y.got \in Seq(Packets)
  BY <1>2 DEF Stands, Typed
<1>4. Awaiting(y.s, Len(y.got)) = Past(aw, d)
  <2>1. Len(g) + d = Len(y.got) /\ y.s.ours = s.ours
    <3>1. Len(g) \in Nat /\ Len(y.got) \in Nat
      BY <1>1, <1>3
    <3>2. QED
      BY <1>2, <3>1 DEF SameKex
  <2>2. s.stage \in Stages
    BY <1>1 DEF EndStates
  <2> HIDE DEF d
  <2>3. QED
    BY <1>2, <2>1, <2>2 DEF Awaiting, Past, At, Stages
<1>5. Sending(e, y.s, Waiting(y.s)) = se
  BY <1>2 DEF Sending, SameKex, SameHigher, Waiting
<1>6. Numbers(v, e, y.s)
  BY <1>1, <1>2 DEF Numbers, SameKex, SameState
<1>7. Onward(v, e, y.s, y.got, c)
  <2>1. Stands(v, e, y.s, y.got, c, Awaiting(y.s, Len(y.got)), Sending(e, y.s, Waiting(y.s)))
    BY <1>2, <1>4, <1>5
  <2> HIDE DEF d, aw, se
  <2>2. QED
    BY <1>1, <1>2, <1>6, <2>1, OnwardSame DEF SameKex, SameState
<1>8. HeldBack(s) => HeldBack(y.s)
  BY <1>2, HeldSame DEF HeldBack
<1>9. QED
  BY <1>2, <1>7, <1>8 DEF y

LEMMA TakenIs ==
  ASSUME NEW e, NEW s, NEW p, p.type = Expected(e, s.stage)
  PROVE  /\ s.stage = "kexinit" => Taken(e, s, p) = GetKexinit(e, s, p)
         /\ s.stage = "kex" => Taken(e, s, p) = GetKex(e, s, p)
         /\ s.stage = "newkeys" => Taken(e, s, p) = GetNewkeys(e, s)
         /\ s.stage = "service" => Taken(e, s, p) = GetService(e, s)
BY DEF Taken

LEMMA TakenGood ==
  ASSUME NEW v, NEW e \in Ends, NEW s, NEW g, NEW c, Good(v, e, s, g, c), HeldBack(s),
         s.stage # "start", s.stage # "idle", s.in_pq # <<>>, Head(s.in_pq).type # "HIGHER"
  PROVE  LET t == Taken(e, Popped(s), Head(s.in_pq)) IN Onward(v, e, t, g, c) /\ HeldBack(t)
<1> DEFINE p == Head(s.in_pq)
           q == Popped(s)
<1>1. s \in EndStates
  BY GoodFacts
<1>2. q.stage = s.stage /\ s.stage \in Stages
  BY <1>1, PoppedFields DEF EndStates
<1>3. CASE s.stage = "kexinit"
  <2> DEFINE t == GetKexinit(e, q, p)
  <2>1. p.type = Expected(e, "kexinit") /\ Onward(v, e, t, g, c) /\ HeldBack(t)
    BY <1>3, GetKexinitGood
  <2> HIDE DEF p, q
  <2>2. t = Taken(e, q, p)
    <3>1. p.type = Expected(e, q.stage)
      BY <1>2, <1>3, <2>1
    <3>2. QED
      BY <1>2, <1>3, <3>1, TakenIs
  <2>3. Onward(v, e, Taken(e, q, p), g, c) /\ HeldBack(Taken(e, q, p))
    BY <2>1, <2>2
  <2>4. QED
    BY <2>3 DEF p, q
<1>4. CASE s.stage = "kex"
  <2> DEFINE t == GetKex(e, q, p)
  <2>1. p.type = Expected(e, "kex") /\ Onward(v, e, t, g, c) /\ HeldBack(t)
    BY <1>4, GetKexGood
  <2> HIDE DEF p, q
  <2>2. t = Taken(e, q, p)
    <3>1. p.type = Expected(e, q.stage)
      BY <1>2, <1>4, <2>1
    <3>2. QED
      BY <1>2, <1>4, <3>1, TakenIs
  <2>3. Onward(v, e, Taken(e, q, p), g, c) /\ HeldBack(Taken(e, q, p))
    BY <2>1, <2>2
  <2>4. QED
    BY <2>3 DEF p, q
<1>5. CASE s.stage = "newkeys"
  <2> DEFINE t == GetNewkeys(e, q)
  <2>1. p.type = Expected(e, "newkeys") /\ Onward(v, e, t, g, c) /\ HeldBack(t)
    BY <1>5, GetNewkeysGood
  <2> HIDE DEF p, q
  <2>2. t = Taken(e, q, p)
    <3>1. p.type = Expected(e, q.stage)
      BY <1>2, <1>5, <2>1
    <3>2. QED
      BY <1>2, <1>5, <3>1, TakenIs
  <2>3. Onward(v, e, Taken(e, q, p), g, c) /\ HeldBack(Taken(e, q, p))
    BY <2>1, <2>2
  <2>4. QED
    BY <2>3 DEF p, q
<1>6. CASE s.stage = "service"
  <2> DEFINE t == GetService(e, q)
  <2>1. p.type = Expected(e, "service") /\ Onward(v, e, t, g, c) /\ HeldBack(t)
    BY <1>6, GetServiceGood
  <2> HIDE DEF p, q
  <2>2. t = Taken(e, q, p)
    <3>1. p.type = Expected(e, q.stage)
      BY <1>2, <1>6, <2>1
    <3>2. QED
      BY <1>2, <1>6, <3>1, TakenIs
  <2>3. Onward(v, e, Taken(e, q, p), g, c) /\ HeldBack(Taken(e, q, p))
    BY <2>1, <2>2
  <2>4. QED
    BY <2>3 DEF p, q
<1>7. QED
  BY <1>2, <1>3, <1>4, <1>5, <1>6 DEF Stages

LEMMA ResumeIs ==
  ASSUME NEW e, NEW x
  PROVE  LET y == Filter(x) IN
         Resume(e, x) = IF y.s.failed \/ y.s.in_pq = <<>> \/ y.s.stage = "idle" THEN y
                        ELSE [y EXCEPT !.s = Taken(e, Popped(y.s), Head(y.s.in_pq))]
BY DEF Resume

\* The packets that one step of the coroutine starts from or ends with.
Stepped(v, e, c, z) == /\ z = [s |-> z.s, got |-> z.got]
                       /\ Onward(v, e, z.s, z.got, c) /\ HeldBack(z.s)

\* From one wait to the next.
\* Code: crReturnV in ssh2_transport_process_queue.
LEMMA ResumeGood ==
  ASSUME NEW v, NEW e \in Ends, NEW s, NEW g, NEW c, Good(v, e, s, g, c), HeldBack(s),
         s.stage # "start"
  PROVE  Stepped(v, e, c, Resume(e, [s |-> s, got |-> g]))
<1> DEFINE x == [s |-> s, got |-> g]
           y == Filter(x)
           w == Seen(v, e, y.s)
           t == Taken(e, Popped(y.s), Head(y.s.in_pq))
           z == Resume(e, x)
<1>1. /\ y = [s |-> y.s, got |-> y.got]
      /\ Onward(v, e, y.s, y.got, c) /\ (HeldBack(s) => HeldBack(y.s))
      /\ y.s.in_pq # <<>> => Head(y.s.in_pq).type # "HIGHER"
      /\ y.s.stage = s.stage
  BY FilterGood
<1>2. z = IF y.s.failed \/ y.s.in_pq = <<>> \/ y.s.stage = "idle" THEN y ELSE [y EXCEPT !.s = t]
  BY ResumeIs
<1> HIDE DEF y, x, z, t
<1>3. Good(w, e, y.s, y.got, c) /\ HeldBack(y.s) /\ y.s.stage # "start"
  BY <1>1 DEF Onward
<1>4. ~y.s.failed
  BY <1>3 DEF Good
<1> HIDE DEF w
<1>5. CASE y.s.in_pq = <<>> \/ y.s.stage = "idle"
  <2>1. z = y
    BY <1>2, <1>5
  <2>2. Stepped(v, e, c, y)
    BY <1>1, <1>3 DEF Stepped
  <2>3. QED
    BY <2>1, <2>2 DEF z, x
<1>6. CASE y.s.in_pq # <<>> /\ y.s.stage # "idle"
  <2>1. Onward(w, e, t, y.got, c) /\ HeldBack(t)
    <3>1. Head(y.s.in_pq).type # "HIGHER"
      BY <1>1, <1>6
    <3>2. QED
      BY <1>3, <1>6, <3>1, TakenGood DEF t
  <2>2. v \in Views
    BY DEF Good, Stands, Typed
  <2>3. Onward(v, e, t, y.got, c)
    BY <1>1, <2>1, <2>2, OnwardAgain DEF w
  <2>4. z = [s |-> t, got |-> y.got]
    <3>1. z = [y EXCEPT !.s = t]
      BY <1>2, <1>4, <1>6
    <3>2. z = [[s |-> y.s, got |-> y.got] EXCEPT !.s = t]
      BY <1>1, <3>1
    <3>3. QED
      BY <3>2
  <2>5. z = [s |-> z.s, got |-> z.got] /\ z.s = t /\ z.got = y.got
    BY <2>4
  <2>6. Stepped(v, e, c, z)
    BY <2>1, <2>3, <2>5 DEF Stepped
  <2>7. QED
    BY <2>6 DEF z, x
<1>7. QED
  BY <1>5, <1>6

LEMMA StartIs ==
  ASSUME NEW e, NEW x, ~x.s.failed
  PROVE  /\ x.s.stage = "start" => Start(e, x) = [x EXCEPT !.s = Begin(e, x.s)]
         /\ x.s.stage = "idle" => Start(e, x) = [x EXCEPT !.s = Idle(e, x.s)]
         /\ x.s.stage \notin {"start", "idle"} => Start(e, x) = x
BY DEF Start

LEMMA StartGood ==
  ASSUME NEW v, NEW e \in Ends, NEW s, NEW g, NEW c, Good(v, e, s, g, c),
         s.stage # "idle" => HeldBack(s), s.in_pq # <<>> => Head(s.in_pq).type # "HIGHER"
  PROVE  LET y == Start(e, [s |-> s, got |-> g]) IN Stepped(v, e, c, y) /\ y.s.stage # "start"
<1> DEFINE x == [s |-> s, got |-> g]
           y == Start(e, x)
<1>1. /\ v \in Views /\ s \in EndStates /\ ~s.failed /\ v = Seen(v, e, s) /\ Numbers(v, e, s)
      /\ (v.open => v.ready)
  BY DEF Good, Stands, Typed
<1>2. PICK t : y = [s |-> t, got |-> g] /\ Onward(v, e, t, g, c) /\ HeldBack(t) /\ t.stage # "start"
  <2>1. CASE s.stage = "start"
    <3> DEFINE t == Begin(e, s)
    <3>1. y = [x EXCEPT !.s = Begin(e, x.s)]
      BY <1>1, <2>1, StartIs
    <3>2. y = [s |-> t, got |-> g]
      BY <3>1
    <3>3. s.ours.no = 0 /\ s.ours.no = Len(s.confs) /\ 0 + 1 = 1
      BY <1>1, <2>1 DEF Numbers
    <3>4. /\ s.ours = Kexinit(v, e, s.ours.no) /\ s.ours.no <= Len(v.confs[Other(e)])
          /\ s.theirs = Kexinit(v, Other(e), s.ours.no)
          /\ s.deferred => s.higher_layer_ok
      BY <1>1, <2>1 DEF Numbers
    <3>5. s.higher_layer_ok <=> s.ours.no >= 1
      <4>1. ~s.higher_layer_ok
        <5>1. s.higher_layer_ok => s.ours.no >= 2
          BY <1>1, <2>1 DEF Numbers
        <5>2. ~(0 >= 2)
          OBVIOUS
        <5>3. QED
          BY <3>3, <5>1, <5>2
      <4>2. ~(0 >= 1)
        OBVIOUS
      <4>3. QED
        BY <3>3, <4>1, <4>2
    <3>6. Stands(v, e, s, g, c, At(s.ours.no + 1, "K", Len(g)), At(s.ours.no + 1, "K", Waiting(s)))
      <4>1. Stands(v, e, s, g, c, At(1, "K", Len(g)), At(1, "K", Waiting(s)))
        BY <2>1 DEF Good, Awaiting, Sending
      <4>2. QED
        BY <3>3, <4>1
    <3>7. Onward(v, e, t, g, c)
      BY <1>1, <3>3, <3>4, <3>5, <3>6, BeginGood
    <3>8. t.stage = "kexinit"
      BY <1>1, BeginFields
    <3>9. QED
      BY <3>2, <3>7, <3>8 DEF HeldBack
  <2>2. CASE s.stage = "idle"
    <3> DEFINE t == Idle(e, s)
    <3>1. y = [x EXCEPT !.s = Idle(e, x.s)]
      BY <1>1, <2>2, StartIs
    <3>2. y = [s |-> t, got |-> g]
      BY <3>1
    <3>3. Onward(v, e, t, g, c) /\ HeldBack(t) /\ t.stage \in {"idle", "kexinit"}
      BY <2>2, IdleGood
    <3>4. QED
      BY <3>2, <3>3
  <2>3. CASE s.stage \notin {"start", "idle"}
    <3>1. y = x
      BY <1>1, <2>3, StartIs
    <3>2. Onward(v, e, s, g, c)
      BY <1>1, GrownSelf DEF Onward
    <3>3. QED
      BY <2>3, <3>1, <3>2
  <2>4. QED
    BY <2>1, <2>2, <2>3
<1> HIDE DEF y
<1>3. y.s = t /\ y.got = g /\ y = [s |-> y.s, got |-> y.got]
  BY <1>2
<1>4. Stepped(v, e, c, y) /\ y.s.stage # "start"
  BY <1>2, <1>3 DEF Stepped
<1>5. QED
  BY <1>4 DEF y, x

LEMMA ResumeAgain ==
  ASSUME NEW v \in Views, NEW e \in Ends, NEW c, NEW z, Stepped(v, e, c, z), z.s.stage # "start"
  PROVE  Stepped(v, e, c, Resume(e, z)) /\ Resume(e, z).s.stage # "start"
<1> DEFINE w == Seen(v, e, z.s)
           y == Resume(e, z)
<1>1. z = [s |-> z.s, got |-> z.got] /\ Onward(v, e, z.s, z.got, c) /\ HeldBack(z.s)
  BY DEF Stepped
<1>2. Good(w, e, z.s, z.got, c)
  BY <1>1 DEF Onward
<1> HIDE DEF w
<1>3. Stepped(w, e, c, Resume(e, [s |-> z.s, got |-> z.got]))
  BY <1>1, <1>2, ResumeGood
<1>4. Stepped(w, e, c, y)
  BY <1>1, <1>3
<1> HIDE DEF y
<1>5. y = [s |-> y.s, got |-> y.got] /\ Onward(w, e, y.s, y.got, c) /\ HeldBack(y.s)
  BY <1>4 DEF Stepped
<1>6. y.s.stage # "start"
  BY <1>2, <1>5, OnwardStage
<1>7. Onward(v, e, y.s, y.got, c)
  BY <1>1, <1>5, OnwardAgain DEF w
<1>8. Stepped(v, e, c, y) /\ y.s.stage # "start"
  BY <1>5, <1>6, <1>7 DEF Stepped
<1>9. QED
  BY <1>8 DEF y

\* Code: ssh2_transport_process_queue.
LEMMA CallGood ==
  ASSUME NEW v, NEW e \in Ends, NEW s, NEW g, NEW c, Good(v, e, s, g, c),
         s.stage # "idle" => HeldBack(s)
  PROVE  Stepped(v, e, c, Call(e, [s |-> s, got |-> g]))
<1> DEFINE x == [s |-> s, got |-> g]
           y == Filter(x)
           w == Seen(v, e, y.s)
           z == Start(e, y)
           z1 == Resume(e, z)
           z2 == Resume(e, z1)
           z3 == Resume(e, z2)
           z4 == Resume(e, z3)
<1>1. v \in Views
  BY DEF Good, Stands, Typed
<1>2. /\ y = [s |-> y.s, got |-> y.got]
      /\ Onward(v, e, y.s, y.got, c) /\ (HeldBack(s) => HeldBack(y.s))
      /\ y.s.in_pq # <<>> => Head(y.s.in_pq).type # "HIGHER"
      /\ y.s.stage = s.stage
  BY FilterGood
<1>3. Call(e, x) = IF y.s.stage = "idle" /\ z.s.stage = "idle" THEN z ELSE z4
  BY DEF Call
<1> HIDE DEF x, y
<1>4. Good(w, e, y.s, y.got, c) /\ (y.s.stage # "idle" => HeldBack(y.s))
  BY <1>2 DEF Onward
<1> HIDE DEF w
<1>5. Stepped(v, e, c, z) /\ z.s.stage # "start"
  <2>1. Stepped(w, e, c, Start(e, [s |-> y.s, got |-> y.got]))
        /\ Start(e, [s |-> y.s, got |-> y.got]).s.stage # "start"
    BY <1>2, <1>4, StartGood
  <2>2. Stepped(w, e, c, z) /\ z.s.stage # "start"
    BY <1>2, <2>1
  <2> HIDE DEF z
  <2>3. z = [s |-> z.s, got |-> z.got] /\ Onward(w, e, z.s, z.got, c) /\ HeldBack(z.s)
    BY <2>2 DEF Stepped
  <2>4. Onward(v, e, z.s, z.got, c)
    BY <1>1, <1>2, <2>3, OnwardAgain DEF w
  <2>5. QED
    BY <2>2, <2>3, <2>4 DEF Stepped
<1> HIDE DEF z
<1>6. Stepped(v, e, c, z1) /\ z1.s.stage # "start"
  BY <1>1, <1>5, ResumeAgain
<1> HIDE DEF z1
<1>7. Stepped(v, e, c, z2) /\ z2.s.stage # "start"
  BY <1>1, <1>6, ResumeAgain
<1> HIDE DEF z2
<1>8. Stepped(v, e, c, z3) /\ z3.s.stage # "start"
  BY <1>1, <1>7, ResumeAgain
<1> HIDE DEF z3
<1>9. Stepped(v, e, c, z4)
  BY <1>1, <1>8, ResumeAgain
<1> HIDE DEF z4
<1>10. Stepped(v, e, c, Call(e, x))
  BY <1>3, <1>5, <1>9
<1>11. QED
  BY <1>10 DEF x

-----------------------------------------------------------------------------
(* Both ends *)

\* What the other end does for good leaves an end where it is.
LEMMA GoodGrows ==
  ASSUME NEW v, NEW e \in Ends, NEW s, NEW g, NEW c, Good(v, e, s, g, c),
         NEW w \in Views, Grown(v, w), w = Seen(w, e, s), w.open => w.ready
  PROVE  Good(w, e, s, g, c)
<1> DEFINE r == s.ours.no
           k == IF s.stage = "kexinit" THEN r - 1 ELSE r
           o == Other(e)
<1>1. /\ v \in Views /\ o \in Ends /\ r \in Nat /\ r = Len(v.confs[e]) /\ Len(v.confs[o]) \in Nat
      /\ s.stage # "start" => r >= 1
  BY GoodFacts, OtherEnd
<1>2. Len(v.confs[o]) <= Len(w.confs[o]) /\ Len(w.confs[o]) \in Nat
  BY <1>1 DEF Grown, Views
<1>3. k \in 0 .. Len(v.confs[o])
  <2>1. k <= Len(v.confs[o])
    BY DEF Good, Numbers
  <2>2. k \in Nat
    <3>1. s.stage = "kexinit" => s.stage # "start"
      OBVIOUS
    <3>2. QED
      BY <1>1, <3>1
  <2>3. QED
    BY <1>1, <2>1, <2>2
<1>4. r \in 0 .. Len(v.confs[e])
  BY <1>1
<1> HIDE DEF o
<1>5. Kexinit(w, e, r) = Kexinit(v, e, r) /\ Kexinit(w, o, k) = Kexinit(v, o, k)
  BY <1>1, <1>3, <1>4, KexinitGrows
<1>6. k <= Len(w.confs[o])
  BY <1>1, <1>2, <1>3
<1>7. Numbers(w, e, s)
  <2>1. Numbers(v, e, s)
    BY DEF Good
  <2>2. s.ours = Kexinit(w, e, r) /\ s.theirs = Kexinit(w, o, k)
    BY <1>5, <2>1 DEF Numbers, o
  <2>3. QED
    BY <1>6, <2>1, <2>2 DEF Numbers, o
<1>8. Stands(w, e, s, g, c, Awaiting(s, Len(g)), Sending(e, s, Waiting(s)))
  BY StandsGrow DEF Good
<1>9. QED
  BY <1>7, <1>8 DEF Good

\* A change that the key exchange does not depend on.
LEMMA GoodSame ==
  ASSUME NEW v, NEW e \in Ends, NEW s, NEW g, NEW c, Good(v, e, s, g, c),
         NEW t \in EndStates, SameIn(s, t), SameOut(s, t), SameHigher(s, t), SameKex(s, t),
         t.stage = s.stage, t.higher_layer_ok = s.higher_layer_ok, ~t.failed,
         t.deferred => t.higher_layer_ok
  PROVE  Onward(v, e, t, g, c) /\ Good(v, e, t, g, c)
<1>1. s \in EndStates
  BY GoodFacts
<1>2. Awaiting(t, Len(g)) = Awaiting(s, Len(g))
  BY DEF Awaiting, SameKex
<1>3. Sending(e, t, Waiting(t)) = Sending(e, s, Waiting(s))
  BY DEF Sending, SameKex, SameHigher, Waiting
<1>4. Stands(v, e, t, g, c, Awaiting(t, Len(g)), Sending(e, t, Waiting(t)))
  <2>1. Stands(v, e, s, g, c, Awaiting(s, Len(g)), Sending(e, s, Waiting(s)))
    BY DEF Good
  <2>2. Stands(v, e, t, g, c, Awaiting(s, Len(g)), Sending(e, s, Waiting(s)))
    BY <2>1, StandsSame
  <2>3. QED
    BY <1>2, <1>3, <2>2
<1>5. Numbers(v, e, t)
  BY DEF Good, Numbers, SameKex
<1>6. t.confs = s.confs
  BY DEF SameKex
<1>7. Onward(v, e, t, g, c)
  BY <1>4, <1>5, <1>6, OnwardSame
<1>8. Seen(v, e, t) = v
  <2>1. v \in Views /\ v = Seen(v, e, s)
    BY GoodFacts
  <2>2. QED
    BY <1>1, <1>6, <2>1, Seens
<1>9. QED
  BY <1>7, <1>8 DEF Onward

\* What lies between the ends: where each stands in decoding what the other has sent.
Bounds(a, n, e) == [a |-> a[e], n |-> n[e], b |-> a[Other(e)], m |-> n[Other(e)]]
Joint(E, G, a, n) ==
  \A e \in Ends : Good(View(E), e, E[e], G[e], Bounds(a, n, e)) /\ HeldBack(E[e])

LEMMA ViewSeen ==
  ASSUME NEW E, NEW F, NEW e \in Ends, \A x \in Ends : x # e => F[x] = E[x]
  PROVE  View(F) = Seen(View(E), e, F[e])
<1>1. "client" \in Ends /\ "server" \in Ends /\ (e = "client" \/ e = "server")
  BY DEF Ends
<1>2. View(F).confs = [x \in Ends |-> IF x = e THEN F[e].confs ELSE View(E).confs[x]]
  BY DEF View
<1>3. /\ F["server"].higher_layer_ok = IF e = "server" THEN F[e].higher_layer_ok ELSE View(E).ready
      /\ F["client"].higher_layer_ok = IF e = "client" THEN F[e].higher_layer_ok ELSE View(E).open
  BY <1>1 DEF View
<1>4. QED
  BY <1>2, <1>3 DEF View, Seen

\* One end goes on, the other stays.
LEMMA OnwardJoint ==
  ASSUME NEW E, NEW G, NEW a, NEW n, Joint(E, G, a, n), NEW e \in Ends, NEW F, NEW H,
         \A x \in Ends : x # e => F[x] = E[x] /\ H[x] = G[x],
         Onward(View(E), e, F[e], H[e], Bounds(a, n, e)), HeldBack(F[e])
  PROVE  Joint(F, H, a, n)
<1> DEFINE v == View(E)
           w == View(F)
<1>1. w = Seen(v, e, F[e])
  BY ViewSeen
<1>2. \A x \in Ends : w = Seen(w, x, F[x])
  BY ViewSeen
<1>3. \A x \in Ends : Good(v, x, E[x], G[x], Bounds(a, n, x)) /\ HeldBack(E[x])
  BY DEF Joint
<1>4. Grown(v, w) /\ w \in Views /\ Good(w, e, F[e], H[e], Bounds(a, n, e))
  BY <1>1 DEF Onward
<1>5. w.open => w.ready
  BY <1>4 DEF Good
<1> HIDE DEF v, w
<1>6. ASSUME NEW x \in Ends PROVE Good(w, x, F[x], H[x], Bounds(a, n, x)) /\ HeldBack(F[x])
  <2>1. CASE x = e
    BY <1>4, <2>1
  <2>2. CASE x # e
    <3>1. F[x] = E[x] /\ H[x] = G[x]
      BY <2>2
    <3>2. w = Seen(w, x, E[x])
      BY <1>2, <3>1
    <3>3. Good(w, x, E[x], G[x], Bounds(a, n, x))
      BY <1>3, <1>4, <1>5, <3>2, GoodGrows
    <3>4. QED
      BY <1>3, <3>1, <3>3
  <2>3. QED
    BY <2>1, <2>2
<1>7. QED
  BY <1>6 DEF Joint, w

-----------------------------------------------------------------------------
(* The actions *)

Domains == DOMAIN end = Ends /\ DOMAIN got = Ends

LEMMA JointFacts ==
  ASSUME NEW a, NEW n, Joint(end, got, a, n), NEW e \in Ends
  PROVE  /\ Good(View(end), e, end[e], got[e], Bounds(a, n, e)) /\ HeldBack(end[e])
         /\ end[e] \in EndStates /\ ~end[e].failed
<1>1. Good(View(end), e, end[e], got[e], Bounds(a, n, e)) /\ HeldBack(end[e])
  BY DEF Joint
<1>2. end[e] \in EndStates /\ ~end[e].failed
  BY <1>1 DEF Good, Stands, Typed
<1>3. QED
  BY <1>1, <1>2

\* Code: ssh2_transport_process_queue.
LEMMA ProcessJoint ==
  ASSUME NEW a, NEW n, Joint(end, got, a, n), Domains, NEW e \in Ends, Process(e)
  PROVE  Joint(end', got', a, n)
<1> DEFINE s == end[e]
           t == [s EXCEPT !.wake = FALSE]
           g == got[e]
           v == View(end)
           c == Bounds(a, n, e)
           z == Call(e, [s |-> t, got |-> g])
<1>1. /\ end'[e] = z.s /\ got'[e] = z.got
      /\ \A x \in Ends : x # e => end'[x] = end[x] /\ got'[x] = got[x]
  BY DEF Process, Domains
<1>2. Good(v, e, s, g, c) /\ HeldBack(s) /\ s \in EndStates /\ ~s.failed
  BY JointFacts
<1> HIDE DEF s, g, v, c
<1>3. /\ t \in EndStates /\ SameIn(s, t) /\ SameOut(s, t) /\ SameHigher(s, t) /\ SameKex(s, t)
      /\ SameState(s, t) /\ t.stage = s.stage
  BY <1>2 DEF EndStates, SameIn, SameOut, SameHigher, SameKex, SameState
<1> HIDE DEF t
<1>4. s.deferred => s.higher_layer_ok
  BY <1>2 DEF Good, Numbers
<1>5. Good(v, e, t, g, c)
  BY <1>2, <1>3, <1>4, GoodSame DEF SameState
<1>6. t.stage # "idle" => HeldBack(t)
  BY <1>2, <1>3, HeldSame DEF HeldBack
<1>7. Stepped(v, e, c, z)
  BY <1>5, <1>6, CallGood
<1> HIDE DEF z
<1>8. Onward(v, e, z.s, z.got, c) /\ HeldBack(z.s)
  BY <1>7 DEF Stepped
<1>9. Onward(View(end), e, end'[e], got'[e], Bounds(a, n, e)) /\ HeldBack(end'[e])
  BY <1>1, <1>8 DEF v, c
<1>10. QED
  BY <1>1, <1>9, OnwardJoint

\* Code: ssh2_bpp_handle_output.
LEMMA OutputJoint ==
  ASSUME NEW a, NEW n, Joint(end, got, a, n), Domains, NEW e \in Ends, Output(e)
  PROVE  Joint(end', got', a, n)
<1> DEFINE s == end[e]
           t == HandleOutput(s)
           g == got[e]
           v == View(end)
           c == Bounds(a, n, e)
           aw == Awaiting(s, Len(g))
           se == Sending(e, s, Waiting(s))
<1>1. /\ end'[e] = t /\ got' = got
      /\ \A x \in Ends : x # e => end'[x] = end[x]
  BY DEF Output, Domains
<1>2. Good(v, e, s, g, c) /\ HeldBack(s) /\ s \in EndStates /\ ~s.failed
  BY JointFacts
<1> HIDE DEF s, g, v, c
<1>3. /\ t \in EndStates /\ SameIn(s, t) /\ SameHigher(s, t) /\ SameKex(s, t)
      /\ SameState(s, t) /\ t.stage = s.stage /\ t.wake = s.wake
  BY <1>2, HandleOutputFields
<1>4. Stands(v, e, t, g, c, aw, se)
  <2>1. Stands(v, e, s, g, c, aw, se)
    BY <1>2 DEF Good
  <2> HIDE DEF aw, se
  <2>2. QED
    BY <2>1, HandleOutputStands
<1> HIDE DEF t
<1>5. Awaiting(t, Len(g)) = aw
  BY <1>3 DEF Awaiting, SameKex
<1>6. Sending(e, t, Waiting(t)) = se
  BY <1>3 DEF Sending, SameKex, SameHigher, Waiting
<1>7. Numbers(v, e, t)
  BY <1>2, <1>3 DEF Good, Numbers, SameKex, SameState
<1>8. Stands(v, e, t, g, c, Awaiting(t, Len(g)), Sending(e, t, Waiting(t)))
  BY <1>4, <1>5, <1>6
<1> HIDE DEF aw, se
<1>9. t.confs = s.confs /\ t.higher_layer_ok = s.higher_layer_ok /\ ~t.failed
  BY <1>2, <1>3 DEF SameKex, SameState
<1>10. Onward(v, e, t, g, c)
  BY <1>2, <1>7, <1>8, <1>9, OnwardSame
<1>11. HeldBack(t)
  BY <1>2, <1>3, HeldSame DEF HeldBack
<1>12. Onward(View(end), e, end'[e], got'[e], Bounds(a, n, e)) /\ HeldBack(end'[e])
  BY <1>1, <1>10, <1>11 DEF v, c, g
<1>13. QED
  BY <1>1, <1>12, OnwardJoint

\* What the user, the timer and the layers above do to the settings and the reasons.
LEMMA AsideJoint ==
  ASSUME NEW a, NEW n, Joint(end, got, a, n), NEW e \in Ends, NEW F,
         \A x \in Ends : x # e => F[x] = end[x],
         F[e] \in EndStates, SameIn(end[e], F[e]), SameOut(end[e], F[e]),
         SameHigher(end[e], F[e]), SameKex(end[e], F[e]), F[e].stage = end[e].stage,
         F[e].higher_layer_ok = end[e].higher_layer_ok, ~F[e].failed,
         F[e].deferred => end[e].deferred \/ F[e].higher_layer_ok,
         F[e].wake \/ F[e].wake = end[e].wake
  PROVE  Joint(F, got, a, n)
<1> DEFINE s == end[e]
           t == F[e]
<1>1. Good(View(end), e, s, got[e], Bounds(a, n, e)) /\ HeldBack(s) /\ s \in EndStates
  BY JointFacts
<1>2. s.deferred => s.higher_layer_ok
  BY <1>1 DEF Good, Numbers
<1>3. t.deferred => t.higher_layer_ok
  BY <1>2
<1>4. Onward(View(end), e, t, got[e], Bounds(a, n, e))
  BY <1>1, <1>3, GoodSame
<1>5. HeldBack(t)
  BY <1>1, HeldSame DEF HeldBack
<1>6. QED
  BY <1>4, <1>5, OnwardJoint

\* Code: ssh2_transport_notify_auth_done.
LEMMA AuthDoneJoint ==
  ASSUME NEW a, NEW n, Joint(end, got, a, n), Domains, AuthDone
  PROVE  Joint(end', got', a, n)
<1> DEFINE e == "client"
           s == end["client"]
           t == [s EXCEPT !.authdone = TRUE, !.rekey_class = "POST_USERAUTH", !.wake = TRUE]
<1>1. "client" \in Ends /\ s \in EndStates /\ ~s.failed
  BY JointFacts DEF Ends
<1>2. end'["client"] = t /\ got' = got /\ \A x \in Ends : x # "client" => end'[x] = end[x]
  BY <1>1 DEF AuthDone, Domains
<1> HIDE DEF s
<1>3. /\ t \in EndStates /\ SameIn(s, t) /\ SameOut(s, t) /\ SameHigher(s, t) /\ SameKex(s, t)
      /\ SameState(s, t) /\ t.stage = s.stage /\ t.wake = TRUE
  BY <1>1 DEF EndStates, Classes, SameIn, SameOut, SameHigher, SameKex, SameState
<1> HIDE DEF t
<1>4. /\ t.higher_layer_ok = s.higher_layer_ok /\ ~t.failed
      /\ (t.deferred => s.deferred \/ t.higher_layer_ok) /\ (t.wake \/ t.wake = s.wake)
  BY <1>1, <1>3 DEF SameState
<1>5. Joint(end', got, a, n)
  BY <1>1, <1>2, <1>3, <1>4, AsideJoint DEF s
<1>6. QED
  BY <1>2, <1>5

\* Code: ssh2_transport_timer; SS_REKEY in ssh2_transport_special_cmd.
LEMMA RekeyJoint ==
  ASSUME NEW a, NEW n, Joint(end, got, a, n), Domains, NEW e \in Ends, Rekey(e)
  PROVE  Joint(end', got', a, n)
<1> DEFINE s == end[e]
           t == [s EXCEPT !.rekey_class = "NORMAL", !.wake = TRUE]
<1>1. s \in EndStates /\ ~s.failed
  BY JointFacts
<1>2. CASE s.kex_in_progress
  BY <1>2 DEF Rekey, HasReason
<1>3. CASE ~s.kex_in_progress
  <2>1. end'[e] = t /\ got' = got /\ \A x \in Ends : x # e => end'[x] = end[x]
    BY <1>3 DEF Rekey, HasReason, Domains
  <2> HIDE DEF s
  <2>2. /\ t \in EndStates /\ SameIn(s, t) /\ SameOut(s, t) /\ SameHigher(s, t) /\ SameKex(s, t)
        /\ SameState(s, t) /\ t.stage = s.stage /\ t.wake = TRUE
    BY <1>1 DEF EndStates, Classes, SameIn, SameOut, SameHigher, SameKex, SameState
  <2> HIDE DEF t
  <2>3. /\ t.higher_layer_ok = s.higher_layer_ok /\ ~t.failed
        /\ (t.deferred => s.deferred \/ t.higher_layer_ok) /\ (t.wake \/ t.wake = s.wake)
    BY <1>1, <2>2 DEF SameState
  <2>4. Joint(end', got, a, n)
    BY <2>1, <2>2, <2>3, AsideJoint DEF s
  <2>5. QED
    BY <2>1, <2>4
<1>4. QED
  BY <1>2, <1>3

\* Code: dts_consume.
LEMMA ExpireJoint ==
  ASSUME NEW a, NEW n, Joint(end, got, a, n), Domains, NEW e \in Ends,
         NEW dir \in {"in", "out"}, Expire(e, dir)
  PROVE  Joint(end', got', a, n)
<1> DEFINE s == end[e]
           t == [s EXCEPT !.expired = s.expired \cup {dir}]
<1>1. s \in EndStates /\ ~s.failed
  BY JointFacts
<1>2. end'[e] = t /\ got' = got /\ \A x \in Ends : x # e => end'[x] = end[x]
  BY DEF Expire, HasReason, Domains
<1> HIDE DEF s
<1>3. /\ t \in EndStates /\ SameIn(s, t) /\ SameOut(s, t) /\ SameHigher(s, t) /\ SameKex(s, t)
      /\ SameState(s, t) /\ t.stage = s.stage /\ t.wake = s.wake
  <2>1. s.expired \cup {dir} \in SUBSET {"in", "out"}
    BY <1>1 DEF EndStates
  <2>2. t \in EndStates
    BY <1>1, <2>1 DEF EndStates
  <2>3. QED
    BY <1>1, <2>2 DEF EndStates, SameIn, SameOut, SameHigher, SameKex, SameState
<1> HIDE DEF t
<1>4. /\ t.higher_layer_ok = s.higher_layer_ok /\ ~t.failed
      /\ (t.deferred => s.deferred \/ t.higher_layer_ok) /\ (t.wake \/ t.wake = s.wake)
  BY <1>1, <1>3 DEF SameState
<1>5. Joint(end', got, a, n)
  BY <1>2, <1>3, <1>4, AsideJoint DEF s
<1>6. QED
  BY <1>2, <1>5

\* Code: ssh2_transport_reconfigure.
LEMMA ReconfigureJoint ==
  ASSUME NEW a, NEW n, Joint(end, got, a, n), Domains, Reconfigure
  PROVE  Joint(end', got', a, n)
<1> DEFINE s == end["client"]
           h == IF s.authdone /\ bug # "norekey" THEN s.conf + 1 ELSE s.honour
           u == [s EXCEPT !.conf = s.conf + 1, !.honour = h]
           t == IF s.kex_in_progress THEN [u EXCEPT !.deferred = TRUE]
                ELSE [u EXCEPT !.rekey_class = "NORMAL", !.wake = TRUE]
<1>1. "client" \in Ends /\ s \in EndStates /\ ~s.failed
  BY JointFacts DEF Ends
<1>2. /\ end'["client"] = t /\ got' = got /\ \A x \in Ends : x # "client" => end'[x] = end[x]
      /\ s.higher_layer_ok
  BY <1>1 DEF Reconfigure, Domains
<1> HIDE DEF s
<1>3. h \in Nat /\ s.conf + 1 \in Nat
  BY <1>1 DEF EndStates
<1> HIDE DEF h
<1>4. /\ u \in EndStates /\ SameIn(s, u) /\ SameOut(s, u) /\ SameHigher(s, u) /\ SameKex(s, u)
      /\ SameState(s, u) /\ u.stage = s.stage /\ u.wake = s.wake
  BY <1>1, <1>3 DEF EndStates, SameIn, SameOut, SameHigher, SameKex, SameState
<1> HIDE DEF u
<1>5. /\ t \in EndStates /\ SameIn(u, t) /\ SameOut(u, t) /\ SameHigher(u, t) /\ SameKex(u, t)
      /\ t.stage = u.stage /\ t.higher_layer_ok = u.higher_layer_ok /\ t.failed = u.failed
      /\ t.wake \/ t.wake = u.wake
  <2>1. CASE s.kex_in_progress
    <3>1. t = [u EXCEPT !.deferred = TRUE]
      BY <2>1
    <3>2. t \in EndStates
      BY <1>4, <3>1, ZenonT(30) DEF EndStates
    <3>3. /\ SameIn(u, t) /\ SameOut(u, t) /\ SameHigher(u, t) /\ SameKex(u, t)
          /\ t.stage = u.stage /\ t.higher_layer_ok = u.higher_layer_ok /\ t.failed = u.failed
          /\ t.wake = u.wake
      BY <1>4, <3>1 DEF EndStates, SameIn, SameOut, SameHigher, SameKex
    <3>4. QED
      BY <3>2, <3>3
  <2>2. CASE ~s.kex_in_progress
    <3>1. t = [u EXCEPT !.rekey_class = "NORMAL", !.wake = TRUE]
      BY <2>2
    <3>2. QED
      BY <1>4, <3>1, ZenonT(30) DEF EndStates, Classes, SameIn, SameOut, SameHigher, SameKex
  <2>3. QED
    BY <2>1, <2>2
<1> HIDE DEF t
<1>6. /\ SameIn(s, t) /\ SameOut(s, t) /\ SameHigher(s, t) /\ SameKex(s, t) /\ t.stage = s.stage
      /\ t.higher_layer_ok = s.higher_layer_ok /\ ~t.failed
      /\ (t.deferred => s.deferred \/ t.higher_layer_ok) /\ (t.wake \/ t.wake = s.wake)
  BY <1>1, <1>2, <1>4, <1>5 DEF SameIn, SameOut, SameHigher, SameKex, SameState
<1>7. Joint(end', got, a, n)
  BY <1>1, <1>2, <1>5, <1>6, AsideJoint DEF s
<1>8. QED
  BY <1>2, <1>7

\* Code: pq_out_higher.
LEMMA SubmitJoint ==
  ASSUME NEW a, NEW n, Joint(end, got, a, n), Domains, NEW e \in Ends, Submit(e)
  PROVE  Joint(end', got', a, n)
<1> DEFINE s == end[e]
           m == s.submitted + 1
           q == s.pq_out_higher
           p == Pkt("HIGHER", m)
           t == [s EXCEPT !.pq_out_higher = Append(q, p), !.submitted = m, !.wake = TRUE,
                          !.late = IF s.stage = "newkeys" THEN s.late \cup {m} ELSE s.late]
           g == got[e]
           v == View(end)
           c == Bounds(a, n, e)
           aw == Awaiting(s, Len(g))
           se == Sending(e, s, Waiting(s))
<1>1. /\ end'[e] = t /\ got' = got /\ s.higher_layer_ok /\ (e = "server" => g # <<>>)
      /\ \A x \in Ends : x # e => end'[x] = end[x]
  BY DEF Submit, Domains
<1>2. Good(v, e, s, g, c) /\ HeldBack(s) /\ s \in EndStates /\ ~s.failed
  BY JointFacts
<1> HIDE DEF s, g, v, c
<1>3. m \in Nat /\ q \in Seq(Packets) /\ s.submitted \in Nat /\ s.late \in SUBSET Nat
  BY <1>2 DEF EndStates
<1>4. p \in Packets /\ p.type = "HIGHER" /\ p.arg = m
  <2>1. "HIGHER" \in Types
    BY DEF Types
  <2> HIDE DEF m
  <2>2. p \in Packets
    BY <1>3, <2>1, PktType
  <2>3. QED
    BY <2>2 DEF Pkt
<1>5. /\ Append(q, p) \in Seq(Packets) /\ Len(q) \in Nat /\ Len(Append(q, p)) = Len(q) + 1
      /\ \A i \in 1 .. Len(q) : Append(q, p)[i] = q[i]
      /\ Append(q, p)[Len(q) + 1] = p /\ DOMAIN q = 1 .. Len(q)
      /\ DOMAIN Append(q, p) = 1 .. Len(q) + 1
  <2> HIDE DEF p, q
  <2>1. QED
    BY <1>3, <1>4
<1>6. /\ t.pq_out_higher = Append(q, p) /\ t.submitted = m /\ t.wake = TRUE
      /\ t.late = IF s.stage = "newkeys" THEN s.late \cup {m} ELSE s.late
      /\ SameIn(s, t) /\ SameOut(s, t) /\ SameKex(s, t) /\ SameState(s, t) /\ t.stage = s.stage
  <2> HIDE DEF p, q, m
  <2>1. QED
    BY <1>2 DEF EndStates, SameIn, SameOut, SameKex, SameState
<1>7. t \in EndStates
  <2> DEFINE r == Append(q, p)
             l == IF s.stage = "newkeys" THEN s.late \cup {m} ELSE s.late
  <2>1. r \in Seq(Packets) /\ l \in SUBSET Nat
    BY <1>3, <1>5
  <2> HIDE DEF r, l, m
  <2>2. t = [s EXCEPT !.pq_out_higher = r, !.submitted = m, !.wake = TRUE, !.late = l]
    BY DEF r, l
  <2> HIDE DEF t
  <2>3. QED
    BY <1>2, <1>3, <2>1, <2>2 DEF EndStates
<1> HIDE DEF t
<1>8. Stands(v, e, s, g, c, aw, se) /\ Numbers(v, e, s)
  BY <1>2 DEF Good
<1>9. v.open
  <2>1. v \in Views /\ v = Seen(v, e, s)
    BY <1>2, GoodFacts
  <2>2. e = "client" => v.open = s.higher_layer_ok
    BY <1>2, <2>1, Seens
  <2>3. e = "server" => v.open
    BY <1>1, <1>8 DEF Stands, Receives
  <2>4. QED
    BY <1>1, <2>2, <2>3 DEF Ends
<1> HIDE DEF aw, se
<1>10. Receives(v, e, t, g, c, aw) /\ Typed(v, t, g) /\ aw \in Places /\ se \in Places
  BY <1>6, <1>7, <1>8 DEF Stands, Receives, Typed, SameIn
<1>11. Sends(v, e, t, c, se)
  <2>1. Sends(v, e, s, c, se)
    BY <1>8 DEF Stands
  <2>2. Len(q) <= s.submitted /\ se.high = s.submitted - Len(q) /\ Highers(q, se.high)
    BY <2>1 DEF Sends
  <2>3. /\ Len(Append(q, p)) <= m /\ se.high = m - Len(Append(q, p))
        /\ Highers(Append(q, p), se.high)
    <3>1. Len(Append(q, p)) <= m /\ se.high = m - Len(Append(q, p)) /\ se.high + (Len(q) + 1) = m
      BY <1>3, <1>5, <2>2
    <3>2. ASSUME NEW i \in 1 .. Len(q) + 1 PROVE Append(q, p)[i] = Pkt("HIGHER", se.high + i)
      <4>1. CASE i \in 1 .. Len(q)
        BY <1>5, <2>2, <4>1 DEF Highers
      <4>2. CASE i = Len(q) + 1
        BY <1>5, <3>1, <4>2
      <4>3. QED
        BY <1>5, <4>1, <4>2
    <3>3. QED
      BY <1>5, <3>1, <3>2 DEF Highers
  <2> HIDE DEF m, p
  <2>4. QED
    BY <1>6, <1>9, <2>1, <2>3 DEF Sends, SameOut
<1>12. Waiting(t) = Waiting(s)
  BY <1>3, <1>5, <1>6 DEF Waiting
<1>13. Stands(v, e, t, g, c, Awaiting(t, Len(g)), Sending(e, t, Waiting(t)))
  <2>1. Awaiting(t, Len(g)) = aw
    BY <1>6 DEF Awaiting, SameKex, aw
  <2>2. Sending(e, t, Waiting(t)) = se
    BY <1>6, <1>12 DEF Sending, SameKex, se
  <2>3. QED
    BY <1>10, <1>11, <2>1, <2>2 DEF Stands
<1>14. Numbers(v, e, t)
  BY <1>6, <1>8 DEF Numbers, SameKex, SameState
<1>15. t.confs = s.confs /\ t.higher_layer_ok = s.higher_layer_ok /\ ~t.failed
  BY <1>2, <1>6 DEF SameKex, SameState
<1>16. Onward(v, e, t, g, c)
  BY <1>2, <1>13, <1>14, <1>15, OnwardSame
<1>17. HeldBack(t)
  <2>1. ASSUME t.stage = "newkeys" PROVE Held(t)
    <3>1. Held(s) /\ t.late = s.late \cup {m}
      BY <1>2, <1>6, <2>1 DEF HeldBack
    <3>2. ASSUME NEW i \in 1 .. Len(q) + 1 PROVE Append(q, p)[i].arg \in t.late
      <4>1. CASE i \in 1 .. Len(q)
        <5>1. q[i].arg \in s.late
          BY <1>5, <3>1, <4>1 DEF Held, ToSet
        <5>2. QED
          BY <1>5, <3>1, <4>1, <5>1
      <4>2. CASE i = Len(q) + 1
        BY <1>4, <1>5, <3>1, <4>2
      <4>3. QED
        BY <1>5, <4>1, <4>2
    <3> HIDE DEF m, p
    <3>3. QED
      BY <1>5, <1>6, <3>2 DEF Held, ToSet
  <2>2. QED
    BY <1>6, <2>1 DEF HeldBack
<1>18. Onward(View(end), e, end'[e], got'[e], Bounds(a, n, e)) /\ HeldBack(end'[e])
  BY <1>1, <1>16, <1>17 DEF v, c, g
<1>19. QED
  BY <1>1, <1>18, OnwardJoint

\* A packet is decoded with the keys and the number it was encoded with.
\* Code: ssh2_bpp_handle_input.
LEMMA InputStands ==
  ASSUME NEW v, NEW e \in Ends, NEW s, NEW g, NEW c, NEW aw, NEW se, Stands(v, e, s, g, c, aw, se),
         ~s.pending_newkeys, NEW w \in Frames, NEW x \in Places, NEW k \in Nat,
         Step(v, Other(e), c.a, w.pkt, x), Coded(v, c.a, c.n, w, k)
  PROVE  /\ w.keys = s.inkeys /\ w.seq = s.inseq
         /\ \A d, t : /\ d.a = x /\ d.n = k /\ d.b = c.b /\ d.m = c.m /\ t \in EndStates
                      /\ t.in_pq = Append(s.in_pq, w.pkt) /\ t.inseq = s.inseq + 1
                      /\ t.inkeys = s.inkeys
                      /\ t.pending_newkeys = (w.pkt.type = "NEWKEYS")
                      /\ SameOut(s, t) /\ SameHigher(s, t)
                      => Stands(v, e, t, g, d, aw, se)
<1> DEFINE q == s.in_pq
           p == w.pkt
           r == Append(q, p)
<1>1. /\ v \in Views /\ s \in EndStates /\ g \in Seq(Packets) /\ aw \in Places /\ se \in Places
      /\ q \in Seq(Packets) /\ s.inseq \in Nat
      /\ Receives(v, e, s, g, c, aw) /\ Sends(v, e, s, c, se)
  BY DEF Stands, Typed, EndStates
<1>2. p \in Packets
  BY DEF Frames
<1>3. /\ \A i \in 1 .. Len(q) : q[i].type # "NEWKEYS"
      /\ c.n = s.inseq /\ Path(v, Other(e), q, aw, c.a) /\ s.inkeys = KeysOf(v, Passed(aw))
  BY <1>1 DEF Receives
<1> HIDE DEF q, p
<1>4. Passed(aw) = Passed(c.a)
  BY <1>1, <1>3, SameKeys
<1>5. w.keys = s.inkeys /\ w.seq = s.inseq /\ k = IF p.type = "NEWKEYS" THEN 0 ELSE s.inseq + 1
  BY <1>3, <1>4 DEF Coded, p
<1>6. Path(v, Other(e), r, aw, x)
  BY <1>1, <1>2, <1>3, PathAppend DEF p
<1>7. /\ Len(q) \in Nat /\ Len(r) = Len(q) + 1 /\ r[Len(q) + 1] = p /\ r # <<>>
      /\ \A i \in 1 .. Len(q) : r[i] = q[i]
  BY <1>1, <1>2
<1> HIDE DEF r
<1>8. ASSUME NEW d, NEW t, d.a = x, d.n = k, d.b = c.b, d.m = c.m, t \in EndStates,
             t.in_pq = r, t.inseq = s.inseq + 1, t.inkeys = s.inkeys,
             t.pending_newkeys = (p.type = "NEWKEYS"), SameOut(s, t), SameHigher(s, t)
      PROVE  Stands(v, e, t, g, d, aw, se)
  <2>1. ASSUME NEW i \in 1 .. Len(r)
        PROVE  (r[i].type = "NEWKEYS") <=> (t.pending_newkeys /\ i = Len(r))
    <3>1. CASE i \in 1 .. Len(q)
      BY <1>3, <1>7, <3>1
    <3>2. CASE i = Len(q) + 1
      BY <1>7, <1>8, <3>2
    <3>3. QED
      BY <1>7, <3>1, <3>2
  <2>2. d.n = IF t.pending_newkeys THEN 0 ELSE t.inseq
    BY <1>5, <1>8
  <2>3. Receives(v, e, t, g, d, aw)
    <3>1. t.in_pq # <<>>
      BY <1>7, <1>8
    <3>2. \A i \in 1 .. Len(t.in_pq) :
             (t.in_pq[i].type = "NEWKEYS") <=> (t.pending_newkeys /\ i = Len(t.in_pq))
      BY <1>8, <2>1
    <3>3. Path(v, Other(e), t.in_pq, aw, d.a)
      BY <1>6, <1>8
    <3>4. QED
      BY <1>1, <1>8, <2>2, <3>1, <3>2, <3>3 DEF Receives
  <2>4. Sends(v, e, t, d, se)
    BY <1>1, <1>8 DEF Sends, SameOut, SameHigher
  <2>5. QED
    BY <1>1, <1>8, <2>3, <2>4 DEF Stands, Typed
<1>9. QED
  BY <1>5, <1>8 DEF r, q, p

LEMMA DrainStands ==
  ASSUME NEW v, NEW e \in Ends, NEW s, NEW g, NEW c, NEW aw, NEW se, Stands(v, e, s, g, c, aw, se),
         NEW d, d.a = c.a, d.n = c.n, NEW t \in EndStates, SameIn(s, t), SameHigher(s, t),
         t.outkeys = s.outkeys, t.out_pq = s.out_pq,
         Out(v, e, t.raw, t.outseq, t.out_pq, d.b, d.m, se)
  PROVE  Stands(v, e, t, g, d, aw, se)
<1>1. Receives(v, e, t, g, d, aw)
  BY DEF Stands, Receives, SameIn
<1>2. Sends(v, e, t, d, se)
  BY DEF Stands, Sends, SameHigher
<1>3. QED
  BY <1>1, <1>2 DEF Stands, Typed

\* The first packet in wire format is the next that the other end has to decode.
Decoded(v, e, s, u, c, x, k) ==
  LET w == Head(u.raw)
      o == Other(e)
  IN  /\ x \in Places /\ k \in Nat /\ w \in Frames
      /\ Step(v, o, c.a, w.pkt, x) /\ Coded(v, c.a, c.n, w, k)
      /\ Out(v, o, Tail(u.raw), u.outseq, u.out_pq, x, k, Sending(o, u, Waiting(u)))

LEMMA DecodeFacts ==
  ASSUME NEW a, NEW n, Joint(end, got, a, n), NEW e \in Ends, end[Other(e)].raw # <<>>
  PROVE  \E x, k : Decoded(View(end), e, end[e], end[Other(e)], Bounds(a, n, e), x, k)
<1> DEFINE o == Other(e)
           u == end[o]
           v == View(end)
           c == Bounds(a, n, e)
           d == Bounds(a, n, o)
           se == Sending(o, u, Waiting(u))
<1>1. o \in Ends /\ Other(o) = e
  BY OtherEnd
<1>2. Good(v, o, u, got[o], d) /\ u \in EndStates
  BY <1>1, JointFacts
<1>3. d.b = c.a /\ d.m = c.n
  BY <1>1 DEF Bounds
<1> HIDE DEF o, v, c, d
<1>4. Out(v, o, u.raw, u.outseq, u.out_pq, d.b, d.m, se)
  BY <1>2 DEF Good, Stands, Sends
<1>5. u.raw \in Seq(Frames) /\ u.raw # <<>> /\ Head(u.raw) \in Frames
  <2>1. u.raw \in Seq(Frames) /\ u.raw # <<>>
    BY <1>2 DEF EndStates, o
  <2> HIDE DEF u
  <2>2. QED
    BY <2>1
<1> HIDE DEF u, se
<1>6. PICK x \in Places, k \in Nat :
        /\ Step(v, o, d.b, Head(u.raw).pkt, x) /\ Coded(v, d.b, d.m, Head(u.raw), k)
        /\ Out(v, o, Tail(u.raw), u.outseq, u.out_pq, x, k, se)
  BY <1>4, <1>5, OutDecode
<1>7. Decoded(v, e, end[e], u, c, x, k)
  BY <1>3, <1>5, <1>6 DEF Decoded, o, se
<1>8. QED
  BY <1>7 DEF u, v, c, o

LEMMA AuthenticFact ==
  ASSUME NEW a, NEW n, Joint(end, got, a, n), NEW e \in Ends, end[Other(e)].raw # <<>>,
         ~Suspended(e)
  PROVE  Authentic(e, Head(end[Other(e)].raw))
<1> DEFINE s == end[e]
           u == end[Other(e)]
           v == View(end)
           c == Bounds(a, n, e)
           w == Head(u.raw)
           aw == Awaiting(s, Len(got[e]))
           se == Sending(e, s, Waiting(s))
<1>1. PICK x, k : Decoded(v, e, s, u, c, x, k)
  BY DecodeFacts
<1>2. x \in Places /\ k \in Nat /\ w \in Frames /\ Step(v, Other(e), c.a, w.pkt, x)
      /\ Coded(v, c.a, c.n, w, k)
  BY <1>1 DEF Decoded
<1>3. Stands(v, e, s, got[e], c, aw, se)
  BY JointFacts DEF Good
<1>4. ~s.pending_newkeys
  BY DEF Suspended
<1> HIDE DEF s, v, c, w, aw, se
<1>5. w.keys = s.inkeys /\ w.seq = s.inseq
  BY <1>2, <1>3, <1>4, InputStands
<1>6. QED
  BY <1>5 DEF Authentic, s, w, u

\* Code: ssh2_bpp_handle_input.
LEMMA InputJoint ==
  ASSUME NEW a \in [Ends -> Places], NEW n \in [Ends -> Nat], Joint(end, got, a, n), Domains,
         NEW e \in Ends, Input(e)
  PROVE  \E x \in Places, k \in Nat : Joint(end', got', [a EXCEPT ![e] = x], [n EXCEPT ![e] = k])
<1> DEFINE o == Other(e)
           s == end[e]
           u == end[o]
           w == Head(u.raw)
           t == [s EXCEPT !.in_pq = Append(s.in_pq, w.pkt), !.inseq = s.inseq + 1, !.wake = TRUE,
                          !.pending_newkeys = w.pkt.type = "NEWKEYS"]
           y == [u EXCEPT !.raw = Tail(u.raw)]
           v == View(end)
           c == Bounds(a, n, e)
           d == Bounds(a, n, o)
<1>1. o \in Ends /\ o # e /\ Other(o) = e /\ \A x \in Ends : x = e \/ x = o
  BY OtherEnd DEF Other, Ends
<1>2. Authentic(e, w) /\ ~s.pending_newkeys /\ u.raw # <<>>
  BY AuthenticFact DEF Input, Suspended
<1>3. end'[e] = t /\ end'[o] = y /\ got' = got
  BY <1>1, <1>2 DEF Input, Domains
<1>4. PICK x, k : Decoded(v, e, s, u, c, x, k)
  BY <1>2, DecodeFacts
<1> DEFINE a2 == [a EXCEPT ![e] = x]
           n2 == [n EXCEPT ![e] = k]
           c2 == Bounds(a2, n2, e)
           d2 == Bounds(a2, n2, o)
<1>5. /\ x \in Places /\ k \in Nat /\ w \in Frames
      /\ Step(v, o, c.a, w.pkt, x) /\ Coded(v, c.a, c.n, w, k)
      /\ Out(v, o, Tail(u.raw), u.outseq, u.out_pq, x, k, Sending(o, u, Waiting(u)))
  BY <1>4 DEF Decoded
<1>6. /\ c2.a = x /\ c2.n = k /\ c2.b = c.b /\ c2.m = c.m
      /\ d2.a = d.a /\ d2.n = d.n /\ d2.b = x /\ d2.m = k
  BY <1>1 DEF Bounds
<1>7. /\ Good(v, e, s, got[e], c) /\ HeldBack(s) /\ s \in EndStates
      /\ Good(v, o, u, got[o], d) /\ HeldBack(u) /\ u \in EndStates
  BY <1>1, JointFacts
<1>8. /\ Awaiting(t, Len(got[e])) = Awaiting(s, Len(got[e]))
      /\ Sending(e, t, Waiting(t)) = Sending(e, s, Waiting(s))
      /\ Awaiting(y, Len(got[o])) = Awaiting(u, Len(got[o]))
      /\ Sending(o, y, Waiting(y)) = Sending(o, u, Waiting(u))
  <2> DEFINE q == Append(s.in_pq, w.pkt)
             i == s.inseq + 1
             b == w.pkt.type = "NEWKEYS"
             r == Tail(u.raw)
  <2>1. t.stage = s.stage /\ SameKex(s, t) /\ SameHigher(s, t)
    <3> HIDE DEF s, q, i, b
    <3>1. QED
      BY <1>7 DEF EndStates, SameKex, SameHigher
  <2>2. y.stage = u.stage /\ SameKex(u, y) /\ SameHigher(u, y)
    <3> HIDE DEF u, r
    <3>1. QED
      BY <1>7 DEF EndStates, SameKex, SameHigher
  <2> HIDE DEF t, y, s, u
  <2>3. QED
    BY <2>1, <2>2 DEF Awaiting, Sending, Waiting, SameKex, SameHigher
<1> HIDE DEF o, s, u, v, c, d, a2, n2, c2, d2
<1>9. /\ t \in EndStates /\ t.in_pq = Append(s.in_pq, w.pkt) /\ t.inseq = s.inseq + 1
      /\ t.inkeys = s.inkeys /\ t.pending_newkeys = (w.pkt.type = "NEWKEYS")
      /\ SameOut(s, t) /\ SameHigher(s, t) /\ SameKex(s, t) /\ SameState(s, t)
      /\ t.stage = s.stage /\ t.wake = TRUE
  <2> DEFINE q == Append(s.in_pq, w.pkt)
             i == s.inseq + 1
             b == w.pkt.type = "NEWKEYS"
  <2>1. q \in Seq(Packets) /\ i \in Nat /\ b \in BOOLEAN
    <3>1. s.in_pq \in Seq(Packets) /\ s.inseq \in Nat
      BY <1>7 DEF EndStates
    <3>2. w.pkt \in Packets
      BY <1>5 DEF Frames
    <3> HIDE DEF w
    <3>3. QED
      BY <3>1, <3>2
  <2>2. t = [s EXCEPT !.in_pq = q, !.inseq = i, !.wake = TRUE, !.pending_newkeys = b]
    OBVIOUS
  <2> HIDE DEF q, i, b, t
  <2>3. t \in EndStates
    BY <1>7, <2>1, <2>2 DEF EndStates
  <2>4. /\ t.in_pq = q /\ t.inseq = i
        /\ t.inkeys = s.inkeys /\ t.pending_newkeys = b
        /\ SameOut(s, t) /\ SameHigher(s, t) /\ SameKex(s, t) /\ SameState(s, t)
        /\ t.stage = s.stage /\ t.wake = TRUE
    BY <1>7, <2>2 DEF EndStates, SameOut, SameHigher, SameKex, SameState
  <2>5. QED
    BY <2>3, <2>4 DEF q, i, b
<1>10. /\ y \in EndStates /\ y.raw = Tail(u.raw) /\ y.outseq = u.outseq /\ y.outkeys = u.outkeys
       /\ y.out_pq = u.out_pq /\ SameIn(u, y) /\ SameHigher(u, y) /\ SameKex(u, y)
       /\ SameState(u, y) /\ y.stage = u.stage /\ y.wake = u.wake
  <2> DEFINE r == Tail(u.raw)
  <2>1. r \in Seq(Frames)
    <3>1. u.raw \in Seq(Frames)
      BY <1>7 DEF EndStates
    <3>2. QED
      BY <1>2, <3>1
  <2>2. y = [u EXCEPT !.raw = r] /\ u \in EndStates
    BY <1>7
  <2> HIDE DEF r, y
  <2>3. y \in EndStates
    BY <2>1, <2>2 DEF EndStates
  <2>4. /\ y.raw = r /\ y.outseq = u.outseq /\ y.outkeys = u.outkeys
        /\ y.out_pq = u.out_pq /\ SameIn(u, y) /\ SameHigher(u, y) /\ SameKex(u, y)
        /\ SameState(u, y) /\ y.stage = u.stage /\ y.wake = u.wake
    BY <2>2 DEF EndStates, SameIn, SameHigher, SameKex, SameState
  <2>5. QED
    BY <2>3, <2>4 DEF r
<1> HIDE DEF t, y, w
<1>11. View(end') = v
  <2>1. t.confs = s.confs /\ t.higher_layer_ok = s.higher_layer_ok
    BY <1>9 DEF SameKex, SameState
  <2>2. y.confs = u.confs /\ y.higher_layer_ok = u.higher_layer_ok
    BY <1>10 DEF SameKex, SameState
  <2>3. \A z \in Ends : /\ end'[z].confs = end[z].confs
                        /\ end'[z].higher_layer_ok = end[z].higher_layer_ok
    BY <1>1, <1>3, <2>1, <2>2 DEF s, u
  <2>4. QED
    BY <2>3 DEF View, v, Ends
<1>12. Good(v, e, t, got[e], c2)
  <2> DEFINE aw == Awaiting(s, Len(got[e]))
             se == Sending(e, s, Waiting(s))
  <2>1. Stands(v, e, s, got[e], c, aw, se) /\ Numbers(v, e, s) /\ ~s.failed /\ (v.open => v.ready)
    BY <1>7 DEF Good
  <2>2. Numbers(v, e, t) /\ ~t.failed
    BY <1>9, <2>1 DEF Numbers, SameKex, SameState
  <2>3. v = Seen(v, e, t)
    <3>1. v \in Views /\ v = Seen(v, e, s)
      BY <1>7, GoodFacts
    <3>2. t.confs = s.confs /\ t.higher_layer_ok = s.higher_layer_ok
      BY <1>9 DEF SameKex, SameState
    <3>3. QED
      BY <1>7, <3>1, <3>2, Seens
  <2> HIDE DEF aw, se
  <2>4. Stands(v, e, t, got[e], c2, aw, se)
    BY <1>2, <1>5, <1>6, <1>9, <2>1, InputStands DEF o
  <2>5. QED
    BY <1>8, <2>1, <2>2, <2>3, <2>4 DEF Good, aw, se
<1>13. Good(v, o, y, got[o], d2)
  <2> DEFINE aw == Awaiting(u, Len(got[o]))
             se == Sending(o, u, Waiting(u))
  <2>1. Stands(v, o, u, got[o], d, aw, se) /\ Numbers(v, o, u) /\ ~u.failed /\ (v.open => v.ready)
    BY <1>7 DEF Good
  <2>2. Numbers(v, o, y) /\ ~y.failed
    BY <1>10, <2>1 DEF Numbers, SameKex, SameState
  <2>3. v = Seen(v, o, y)
    <3>1. v \in Views /\ v = Seen(v, o, u)
      BY <1>1, <1>7, GoodFacts
    <3>2. y.confs = u.confs /\ y.higher_layer_ok = u.higher_layer_ok
      BY <1>10 DEF SameKex, SameState
    <3>3. QED
      BY <1>1, <1>7, <3>1, <3>2, Seens
  <2>4. Out(v, o, y.raw, y.outseq, y.out_pq, d2.b, d2.m, se)
    BY <1>5, <1>6, <1>10
  <2> HIDE DEF aw, se
  <2>5. Stands(v, o, y, got[o], d2, aw, se)
    BY <1>1, <1>6, <1>10, <2>1, <2>4, DrainStands
  <2>6. QED
    BY <1>8, <2>1, <2>2, <2>3, <2>5 DEF Good, aw, se
<1>14. HeldBack(t) /\ HeldBack(y)
  BY <1>7, <1>9, <1>10, HeldSame DEF HeldBack
<1>15. ASSUME NEW z \in Ends
       PROVE  Good(View(end'), z, end'[z], got'[z], Bounds(a2, n2, z)) /\ HeldBack(end'[z])
  <2>1. CASE z = e
    BY <1>3, <1>11, <1>12, <1>14, <2>1 DEF c2
  <2>2. CASE z = o
    BY <1>3, <1>11, <1>13, <1>14, <2>2 DEF d2
  <2>3. QED
    BY <1>1, <2>1, <2>2
<1>16. Joint(end', got', a2, n2)
  BY <1>15 DEF Joint
<1>17. QED
  BY <1>5, <1>16 DEF a2, n2

-----------------------------------------------------------------------------
(* The invariant, and what follows from it *)

IInv == Domains /\ \E a \in [Ends -> Places], n \in [Ends -> Nat] : Joint(end, got, a, n)

LEMMA InitGood ==
  ASSUME NEW v, NEW e \in Ends, v.confs = [x \in Ends |-> <<>>], v.ready = FALSE, v.open = FALSE,
         v = Seen(v, e, NewEnd), v \in Views, NEW c,
         c.a = At(1, "K", 0), c.n = 0, c.b = At(1, "K", 0), c.m = 0
  PROVE  Good(v, e, NewEnd, <<>>, c) /\ HeldBack(NewEnd)
<1> DEFINE s == NewEnd
           p == At(1, "K", 0)
<1>1. s \in EndStates
  <2>1. NoKexinit \in Kexinits /\ NoKeys \in Keys
    BY DEF NoKexinit, NoKeys, Kexinits, Keys
  <2>2. "start" \in Stages /\ "INITIAL" \in Classes
    BY DEF Stages, Classes
  <2> HIDE DEF s
  <2>3. NewEnd \in EndStates
    BY <2>1, <2>2 DEF EndStates, NewEnd
  <2>4. QED
    BY <2>3 DEF s
<1>2. /\ s.stage = "start" /\ s.in_pq = <<>> /\ s.out_pq = <<>> /\ s.pq_out_higher = <<>>
      /\ s.raw = <<>> /\ s.outseq = 0 /\ s.inseq = 0 /\ s.outkeys = NoKeys /\ s.inkeys = NoKeys
      /\ s.pending_newkeys = FALSE /\ s.confs = <<>> /\ s.submitted = 0 /\ s.failed = FALSE
      /\ s.higher_layer_ok = FALSE /\ s.deferred = FALSE
      /\ s.ours = NoKexinit /\ s.theirs = NoKexinit
  BY DEF NewEnd
<1>3. /\ p \in Places /\ p.high = 0 /\ Passed(p) = 0 /\ KeysOf(v, 0) = NoKeys
      /\ \A x : Kexinit(v, x, 0) = NoKexinit
  BY DEF At, Places, Passed, KeysOf, Kexinit
<1>4. Len(<<>>) = 0 /\ DOMAIN <<>> = {} /\ <<>> \in Seq(Packets) /\ 1 .. 0 = {} /\ 0 <= 0
      /\ 0 - 0 = 0
  OBVIOUS
<1>5. "client" \in Ends /\ Other(e) \in Ends /\ v.confs["client"] = <<>>
      /\ v.confs[Other(e)] = <<>>
  BY OtherEnd DEF Ends
<1> HIDE DEF s, p
<1>6. Receives(v, e, s, <<>>, c, p)
  <2>1. Path(v, Other(e), <<>>, p, p)
    BY <1>3, PathEmpty
  <2>2. QED
    BY <1>2, <1>3, <1>4, <1>5, <2>1 DEF Receives, p
<1>7. Sends(v, e, s, c, p)
  <2>1. Out(v, e, <<>>, 0, <<>>, p, 0, p)
    BY <1>3, OutEmpty
  <2>2. Highers(<<>>, 0)
    BY <1>4 DEF Highers
  <2>3. QED
    BY <1>2, <1>3, <1>4, <1>5, <2>1, <2>2 DEF Sends, p
<1>8. Awaiting(s, Len(<<>>)) = p /\ Sending(e, s, Waiting(s)) = p
  <2>1. Waiting(s) = 0
    BY <1>2, <1>4 DEF Waiting
  <2>2. QED
    BY <1>2, <1>4, <2>1 DEF Awaiting, Sending, p
<1>9. Numbers(v, e, s)
  <2>1. s.ours.no = 0
    BY <1>2 DEF NoKexinit
  <2>2. ~(0 >= 2) /\ "start" # "idle" /\ "start" # "kexinit" /\ "start" # "service"
    OBVIOUS
  <2>3. QED
    BY <1>2, <1>3, <1>4, <1>5, <2>1, <2>2 DEF Numbers
<1>10. Stands(v, e, s, <<>>, c, p, p)
  BY <1>1, <1>3, <1>4, <1>6, <1>7 DEF Stands, Typed
<1>11. Good(v, e, s, <<>>, c)
  BY <1>2, <1>8, <1>9, <1>10 DEF Good, s
<1>12. HeldBack(s)
  BY <1>2 DEF HeldBack
<1>13. QED
  BY <1>11, <1>12 DEF s

LEMMA InitEstablishes == Init => IInv
<1> SUFFICES ASSUME Init PROVE IInv
  OBVIOUS
<1> DEFINE a == [e \in Ends |-> At(1, "K", 0)]
           n == [e \in Ends |-> 0]
           v == View(end)
<1>1. Domains /\ \A e \in Ends : end[e] = NewEnd /\ got[e] = <<>>
  BY DEF Init, Domains
<1>2. a \in [Ends -> Places] /\ n \in [Ends -> Nat]
  BY DEF At, Places
<1>3. v.confs = [x \in Ends |-> <<>>] /\ v.ready = FALSE /\ v.open = FALSE /\ v \in Views
  <2>1. NewEnd.confs = <<>> /\ NewEnd.higher_layer_ok = FALSE
    BY DEF NewEnd
  <2>2. /\ \A e \in Ends : end[e].confs = <<>>
        /\ end["client"].higher_layer_ok = FALSE /\ end["server"].higher_layer_ok = FALSE
    BY <1>1, <2>1 DEF Ends
  <2>3. v.confs = [x \in Ends |-> <<>>] /\ v.ready = FALSE /\ v.open = FALSE
    BY <2>2 DEF View
  <2>4. <<>> \in Seq(Nat)
    OBVIOUS
  <2>5. v = [confs |-> v.confs, ready |-> v.ready, open |-> v.open]
    BY DEF View
  <2> HIDE DEF v
  <2>6. QED
    BY <2>3, <2>4, <2>5 DEF Views
<1>4. ASSUME NEW e \in Ends
      PROVE  Good(View(end), e, end[e], got[e], Bounds(a, n, e)) /\ HeldBack(end[e])
  <2> DEFINE c == Bounds(a, n, e)
  <2>1. c.a = At(1, "K", 0) /\ c.n = 0 /\ c.b = At(1, "K", 0) /\ c.m = 0
    BY OtherEnd DEF Bounds
  <2>2. v = Seen(v, e, NewEnd)
    <3>1. View(end) = Seen(View(end), e, end[e])
      BY ViewSeen
    <3>2. QED
      BY <1>1, <3>1
  <2> HIDE DEF v, c, a, n
  <2>3. Good(v, e, NewEnd, <<>>, c) /\ HeldBack(NewEnd)
    BY <1>3, <2>1, <2>2, InitGood
  <2>4. QED
    BY <1>1, <2>3 DEF v, c
<1> HIDE DEF a, n
<1>5. Joint(end, got, a, n)
  BY <1>4 DEF Joint
<1>6. QED
  BY <1>1, <1>2, <1>5 DEF IInv

LEMMA DomainsKept == Domains /\ [Next]_vars => Domains'
<1> SUFFICES ASSUME Domains, [Next]_vars PROVE Domains'
  OBVIOUS
<1>1. ASSUME NEW e \in Ends, Process(e) PROVE Domains'
  BY <1>1 DEF Process, Domains
<1>2. ASSUME NEW e \in Ends, Output(e) PROVE Domains'
  BY <1>2 DEF Output, Domains
<1>3. ASSUME NEW e \in Ends, Input(e) PROVE Domains'
  BY <1>3 DEF Input, Domains
<1>4. ASSUME NEW e \in Ends, Submit(e) PROVE Domains'
  BY <1>4 DEF Submit, Domains
<1>5. ASSUME NEW e \in Ends, Rekey(e) PROVE Domains'
  BY <1>5 DEF Rekey, HasReason, Domains
<1>6. ASSUME NEW e \in Ends, NEW dir \in {"in", "out"}, Expire(e, dir) PROVE Domains'
  BY <1>6 DEF Expire, HasReason, Domains
<1>7. CASE AuthDone
  BY <1>7 DEF AuthDone, Domains
<1>8. CASE Reconfigure
  BY <1>8 DEF Reconfigure, Domains
<1>9. CASE UNCHANGED vars
  BY <1>9 DEF vars, Domains
<1>10. QED
  BY <1>1, <1>2, <1>3, <1>4, <1>5, <1>6, <1>7, <1>8, <1>9 DEF Next

LEMMA NextPreserves == IInv /\ [Next]_vars => IInv'
<1> SUFFICES ASSUME IInv, [Next]_vars PROVE IInv'
  OBVIOUS
<1>1. Domains /\ Domains'
  BY DomainsKept DEF IInv
<1>2. PICK a \in [Ends -> Places], n \in [Ends -> Nat] : Joint(end, got, a, n)
  BY DEF IInv
<1>3. (\E b \in [Ends -> Places], m \in [Ends -> Nat] : Joint(end', got', b, m)) => IInv'
  BY <1>1 DEF IInv
<1>4. Joint(end', got', a, n) => IInv'
  BY <1>2, <1>3
<1>5. ASSUME NEW e \in Ends, Process(e) PROVE IInv'
  BY <1>1, <1>2, <1>4, <1>5, ProcessJoint
<1>6. ASSUME NEW e \in Ends, Output(e) PROVE IInv'
  BY <1>1, <1>2, <1>4, <1>6, OutputJoint
<1>7. ASSUME NEW e \in Ends, Input(e) PROVE IInv'
  <2>1. PICK x \in Places, k \in Nat :
          Joint(end', got', [a EXCEPT ![e] = x], [n EXCEPT ![e] = k])
    BY <1>1, <1>2, <1>7, InputJoint
  <2>2. [a EXCEPT ![e] = x] \in [Ends -> Places] /\ [n EXCEPT ![e] = k] \in [Ends -> Nat]
    OBVIOUS
  <2>3. QED
    BY <1>3, <2>1, <2>2
<1>8. ASSUME NEW e \in Ends, Submit(e) PROVE IInv'
  BY <1>1, <1>2, <1>4, <1>8, SubmitJoint
<1>9. ASSUME NEW e \in Ends, Rekey(e) PROVE IInv'
  BY <1>1, <1>2, <1>4, <1>9, RekeyJoint
<1>10. ASSUME NEW e \in Ends, NEW dir \in {"in", "out"}, Expire(e, dir) PROVE IInv'
  BY <1>1, <1>2, <1>4, <1>10, ExpireJoint
<1>11. CASE AuthDone
  BY <1>1, <1>2, <1>4, <1>11, AuthDoneJoint
<1>12. CASE Reconfigure
  BY <1>1, <1>2, <1>4, <1>12, ReconfigureJoint
<1>13. CASE UNCHANGED vars
  <2>1. end' = end /\ got' = got
    BY <1>13 DEF vars
  <2>2. QED
    BY <1>2, <1>4, <2>1
<1>14. QED
  BY <1>5, <1>6, <1>7, <1>8, <1>9, <1>10, <1>11, <1>12, <1>13 DEF Next

\* After a KEXINIT comes the packet of the method, and then NEWKEYS, and nothing of the
\* higher layer's before that.
LEMMA PathQuiet ==
  ASSUME NEW v, NEW e \in Ends, NEW S, NEW q \in Seq(S), NEW a, NEW b, Path(v, e, q, a, b),
         NEW i \in 1 .. Len(q), NEW j \in (i + 1) .. Len(q),
         q[i].type = "KEXINIT", q[j].type = "HIGHER"
  PROVE  \E k \in i .. j : q[k].type = "NEWKEYS"
<1> SUFFICES ASSUME \A k \in i .. j : q[k].type # "NEWKEYS" PROVE FALSE
  OBVIOUS
<1>1. PICK f : Walks(v, e, q, a, b, f)
  BY DEF Path
<1>2. Len(q) \in Nat /\ i \in Nat /\ j \in Nat
  OBVIOUS
<1>3. /\ \A k \in 0 .. Len(q) : f[k] \in Places
      /\ \A k \in 1 .. Len(q) : Step(v, e, f[k - 1], q[k], f[k])
  BY <1>1 DEF Walks
<1> DEFINE T == {k \in i .. j - 1 : f[k].at \notin {"D", "N"}}
<1>4. f[j - 1].at = "K"
  <2>1. j \in 1 .. Len(q)
    BY <1>2
  <2>2. QED
    BY <1>3, <2>1 DEF Step
<1>5. T # {} /\ T \subseteq Nat
  BY <1>2, <1>4
<1>6. PICK m \in T : \A k \in T : m <= k
  BY <1>5, Least
<1>7. m \in i .. j - 1 /\ f[m].at \notin {"D", "N"}
  OBVIOUS
<1>8. m \in 1 .. Len(q) /\ m - 1 \in 0 .. Len(q) /\ m \in i .. j
  BY <1>2, <1>7
<1>9. Step(v, e, f[m - 1], q[m], f[m]) /\ f[m - 1] \in Places /\ q[m].type # "NEWKEYS"
  BY <1>3, <1>8
<1>10. CASE m = i
  <2>1. TypeAt(e, f[m - 1]) = "KEXINIT" /\ f[m] = After(f[m - 1])
    BY <1>9, <1>10 DEF Step
  <2>2. f[m - 1].at = "K"
    BY <1>9, <2>1 DEF TypeAt, Places, Ends
  <2>3. f[m].at = "D"
    BY <2>1, <2>2 DEF After
  <2>4. QED
    BY <1>7, <2>3
<1>11. CASE m # i
  <2>1. m - 1 \in i .. j - 1 /\ ~(m <= m - 1)
    BY <1>2, <1>7, <1>11
  <2>2. f[m - 1].at \in {"D", "N"}
    BY <1>6, <2>1
  <2>3. q[m].type = TypeAt(e, f[m - 1]) /\ f[m] = After(f[m - 1])
    BY <1>9, <2>2 DEF Step
  <2>4. f[m - 1].at # "N"
    BY <1>9, <2>3, TypeAtPlace
  <2>5. f[m].at = "N"
    BY <2>2, <2>3, <2>4 DEF After
  <2>6. QED
    BY <1>7, <2>5
<1>12. QED
  BY <1>10, <1>11

LEMMA InvQuiet == IInv => QuietDuringKex
<1> SUFFICES ASSUME IInv PROVE QuietDuringKex
  OBVIOUS
<1>1. PICK a \in [Ends -> Places], n \in [Ends -> Nat] : Joint(end, got, a, n)
  BY DEF IInv
<1>2. OnlyLateWait
  <2>1. ASSUME NEW e \in Ends PROVE HeldBack(end[e])
    BY <1>1, JointFacts
  <2>2. QED
    BY <2>1 DEF OnlyLateWait, HeldBack, Held
<1>3. ASSUME NEW e \in Ends
      PROVE  /\ \A i \in DOMAIN Sent(e) : \A j \in (i + 1)..Len(Sent(e)) :
                  Sent(e)[i].type = "KEXINIT" /\ Sent(e)[j].type = "HIGHER" =>
                    \E k \in i..j : Sent(e)[k].type = "NEWKEYS"
             /\ \A k \in DOMAIN got[e] : got[e][k].arg = k
  <2> DEFINE s == end[e]
             g == got[e]
             v == View(end)
             c == Bounds(a, n, e)
             se == Sending(e, s, Waiting(s))
             q == Sent(e)
             r == [k \in DOMAIN s.raw |-> s.raw[k].pkt]
  <2>1. Good(v, e, s, g, c) /\ s \in EndStates
    BY <1>1, JointFacts
  <2>2. g \in Seq(Packets) /\ \A k \in 1 .. Len(g) : g[k].arg = k
    BY <2>1 DEF Good, Stands, Typed, Receives
  <2>3. Out(v, e, s.raw, s.outseq, s.out_pq, c.b, c.m, se)
    BY <2>1 DEF Good, Stands, Sends
  <2>4. s.raw \in Seq([pkt : Packets, keys : Keys, seq : Nat]) /\ s.out_pq \in Seq(Packets)
    BY <2>1 DEF EndStates, Frames
  <2>5. q = r \o s.out_pq
    BY DEF Sent
  <2> HIDE DEF v, c, se, s, g, q
  <2>6. Path(v, e, r \o s.out_pq, c.b, se)
    BY <2>3, <2>4, OutWalk
  <2>7. r \o s.out_pq \in Seq(Packets)
    <3>1. \A w \in [pkt : Packets, keys : Keys, seq : Nat] : w.pkt \in Packets
      OBVIOUS
    <3> DEFINE F == [pkt : Packets, keys : Keys, seq : Nat]
    <3> HIDE DEF F
    <3>2. s.raw \in Seq(F) /\ \A w \in F : w.pkt \in Packets
      BY <2>4, <3>1 DEF F
    <3>3. r \in Seq(Packets)
      BY <3>2
    <3> HIDE DEF r
    <3>4. QED
      BY <2>4, <3>3
  <2> HIDE DEF r
  <2>8. Path(v, e, q, c.b, se) /\ q \in Seq(Packets)
    BY <2>5, <2>6, <2>7
  <2>9. DOMAIN q = 1 .. Len(q) /\ DOMAIN g = 1 .. Len(g)
    BY <2>2, <2>8
  <2>10. \A i \in 1 .. Len(q) : \A j \in (i + 1) .. Len(q) :
           q[i].type = "KEXINIT" /\ q[j].type = "HIGHER" =>
             \E k \in i .. j : q[k].type = "NEWKEYS"
    BY <2>8, PathQuiet
  <2>11. QED
    BY <2>2, <2>9, <2>10 DEF q, g
<1>4. SentInOrder
  BY <1>3 DEF SentInOrder
<1>5. QED
  BY <1>2, <1>4 DEF QuietDuringKex

LEMMA InvNoError == IInv => NoProtocolError
<1> SUFFICES ASSUME IInv PROVE NoProtocolError
  OBVIOUS
<1>1. PICK a \in [Ends -> Places], n \in [Ends -> Nat] : Joint(end, got, a, n)
  BY DEF IInv
<1>2. \A e \in Ends : ~end[e].failed
  BY <1>1, JointFacts
<1>3. KeysAgree
  BY <1>1, AuthenticFact DEF KeysAgree
<1>4. QED
  BY <1>2, <1>3 DEF NoProtocolError

THEOREM InvariantHolds == Spec => []IInv
<1>1. QED
  BY InitEstablishes, NextPreserves, PTL DEF Spec

\* No end meets a packet that it does not expect or cannot authenticate, whoever begins
\* the key exchange, whatever the settings and the server's bugs, and however many key
\* exchanges there are: every packet finds the receiver with the keys and the sequence
\* number it was sent with.
\* Code: the proto errors of ssh2_transport_process_queue; ssh_bpp_handle_output before
\* ssh2_bpp_new_outgoing_crypto; pending_newkeys.
THEOREM KeyExchangesCorrect == Spec => []NoProtocolError
<1>1. QED
  BY InvariantHolds, InvNoError, PTL

\* Between KEXINIT and NEWKEYS no packet of the higher layer is sent, those that have
\* waited arrive once and in order, and what waits outside of a key exchange was
\* sent between our NEWKEYS and the other side's.
\* Code: pq_out_higher and the pq_concatenate of it.
THEOREM HigherLayersCorrect == Spec => []QuietDuringKex
<1>1. QED
  BY InvariantHolds, InvQuiet, PTL
=============================================================================
