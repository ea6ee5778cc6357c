------------------------- MODULE Connection2_proofs -------------------------
(***************************************************************************)
(* The two ends of a channel stay in step, for any number of channels,     *)
(* any reuse of their numbers, any windows and any data: no packet comes   *)
(* that is not expected, the windows agree, and no socket is told of the   *)
(* end of a stream that it has not been given whole.                       *)
(*                                                                         *)
(* The invariant takes one channel at a time, known by its number n in the *)
(* history, with the packets that are its own (Of): it is Closed, or one   *)
(* end is Asking for it, or it is Joined.  A joined channel has a record   *)
(* for each end, which is its struct or what that was when it was freed,   *)
(* and Sides says how the two records and the packets between them fit.    *)
(***************************************************************************)
EXTENDS Connection2, WellFoundedInduction, TLAPS

(* The inductive invariant *)

Pkt == [type : {"OPEN", "OPEN_CONFIRMATION", "OPEN_FAILURE", "DATA", "WINDOW_ADJUST", "REQUEST",
                "FAILURE", "EOF", "CLOSE"},
        to : Nat, from : Nat, n : 1..MaxOpens, len : Nat]
Chan == [localid : Nat, remoteid : Nat, halfopen : BOOLEAN,
         closes : SUBSET {"SENT_EOF", "RCVD_EOF", "SENT_CLOSE", "RCVD_CLOSE"},
         pending_eof : BOOLEAN, throttling_conn : BOOLEAN, throttled_by_backlog : BOOLEAN,
         outbuffer : Nat, remwindow : Nat, locwindow : Nat, locmaxwin : Nat, remlocwin : Int,
         chanreqs : Seq(Nat), throttle_state : {"UNTHROTTLED", "UNTHROTTLING", "THROTTLED"},
         fixed : BOOLEAN, chan : {"socket", "zombie", "freed"}, input_wanted : BOOLEAN,
         socksbuf : Nat, ready : BOOLEAN, backlog : Nat, sockeof : BOOLEAN, unwritten : Nat,
         n : 1..MaxOpens]

\* One end of a channel.
Sound(c) ==
  /\ "RCVD_CLOSE" \in c.closes => "SENT_CLOSE" \in c.closes
  /\ "SENT_CLOSE" \in c.closes => "SENT_EOF" \in c.closes /\ c.chanreqs = <<>>
  /\ "SENT_CLOSE" \in c.closes /\ c.chan = "socket" => "RCVD_EOF" \in c.closes
  /\ c.pending_eof => "SENT_EOF" \notin c.closes
  /\ c.pending_eof \/ "SENT_EOF" \in c.closes => c.sockeof \/ c.chan # "socket" \/ c.fixed
  /\ ~c.halfopen \/ c.chan = "zombie" => c.socksbuf = 0
  /\ c.chan = "zombie" => ~c.pending_eof /\ c.backlog = 0
  /\ c.halfopen => /\ c.closes = {} /\ c.chanreqs = <<>> /\ c.outbuffer = 0 /\ c.backlog = 0
                   /\ ~c.fixed /\ ~c.ready /\ ~c.input_wanted
  /\ c.fixed => /\ c.chanreqs = <<>> /\ c.outbuffer = 0 /\ c.chan # "zombie" /\ ~c.sockeof
                /\ c.pending_eof \/ "SENT_EOF" \in c.closes => "RCVD_EOF" \in c.closes
  /\ c.remlocwin + Total(c.chanreqs) >= c.locwindow

\* ... that of an end whose windows are never fixed.
Within(c) == ~c.fixed /\ c.locwindow + c.backlog <= c.locmaxwin /\ ~c.throttling_conn

\* c has sent d the packets q, and d has sent c the packets r, all of one channel.
Has(q, types) == \E i \in DOMAIN q : q[i].type \in types

Addressed(c, d, q) ==
  /\ \A i \in DOMAIN q : q[i].to = d.localid /\ q[i].type \notin {"OPEN", "OPEN_FAILURE"}
  /\ \A i \in DOMAIN q : q[i].type = "OPEN_CONFIRMATION" <=> (i = 1 /\ d.halfopen)
  /\ d.halfopen => q # <<>> /\ q[1].from = c.localid
  /\ c.halfopen => q = <<>>
  /\ ~c.halfopen => c.remoteid = d.localid

\* Nothing comes after CLOSE, and no data after EOF.
Ordered(q) ==
  \A i, j \in DOMAIN q : i < j =>
    q[i].type # "CLOSE" /\ (q[i].type = "EOF" => q[j].type \notin {"DATA", "EOF"})

Ends(c, d, q) ==
  /\ Ordered(q)
  /\ "SENT_CLOSE" \in c.closes <=> "RCVD_CLOSE" \in d.closes \/ Has(q, {"CLOSE"})
  /\ "RCVD_EOF" \in d.closes \/ Has(q, {"EOF"}) => "SENT_EOF" \in c.closes
  /\ "RCVD_EOF" \in d.closes => ~Has(q, {"DATA", "EOF"})
  /\ "RCVD_CLOSE" \in d.closes => q = <<>>

\* The requests of d are answered in their order, as long as c has not sent CLOSE.
Asks(q, type) == Picked([k \in DOMAIN q |-> q[k].len], {k \in DOMAIN q : q[k].type = type})
Answered(c, d, q, r) ==
  \E rest \in Seq(Nat) :
    /\ d.chanreqs = Asks(q, "FAILURE") \o rest
    /\ "SENT_CLOSE" \notin c.closes => rest = Asks(r, "REQUEST")

Data(q) == Total(Lens(q, "DATA"))
Adjusts(q) == Total(Lens(q, "WINDOW_ADJUST"))
Windows(c, d, q, r) ==
  /\ ~c.halfopen /\ "SENT_EOF" \notin c.closes => c.remwindow + Data(q) + Adjusts(r) = d.locwindow
  /\ c.halfopen => r[1].len + Adjusts(r) = d.locwindow
  /\ Data(q) <= d.locwindow

\* What c's local peer has written: the history s.from[e].
Carried(c, d, q, s) ==
  /\ c.chan # "zombie"
  /\ s.owed = c.socksbuf + c.outbuffer + Data(q)
  /\ c.sockeof => s.eof
  /\ s.ended => "RCVD_EOF" \in d.closes
  /\ "SENT_EOF" \in c.closes => c.sockeof /\ c.outbuffer = 0 /\ c.socksbuf = 0
  /\ "SENT_CLOSE" \in c.closes => "RCVD_EOF" \in c.closes
  /\ "RCVD_EOF" \in c.closes => ~c.fixed

Sides(c, d, q, r) == Addressed(c, d, q) /\ Ends(c, d, q) /\ Answered(c, d, q, r) /\ Windows(c, d, q, r)

\* The n-th channel: not open; or asked for and not answered, or refused; or at both ends, of
\* which one may have freed its struct, then known from what it was.
Holds(e, n) == \E id \in Id : channels[e][id] # NoChannel /\ channels[e][id].n = n
Whole(n) ==
  \A e \in End : LET s == stream[n].from[e] IN  s.owed >= 0 /\ (s.ended => s.eof /\ s.owed = 0)

Closed(n) == /\ \A e \in End : ~Holds(e, n) /\ Of(net[e], n) = <<>>
             /\ Whole(n) /\ (n > opens => stream[n] = NewStream)

Asking(e, n) ==
  LET f == Other(e)
      q == Of(net[e], n)
      r == Of(net[f], n)
      s == stream[n]
  IN  \E id \in Id :
        LET c == channels[e][id]
        IN  /\ c # NoChannel /\ c.n = n /\ c.halfopen
            /\ ~Holds(f, n)
            /\ \/ /\ r = <<>> /\ Len(q) = 1 /\ q[1].type = "OPEN"
                  /\ q[1].from = id /\ q[1].len = c.locwindow
               \/ /\ q = <<>> /\ Len(r) = 1 /\ r[1].type = "OPEN_FAILURE" /\ r[1].to = id
            /\ s.from[f] = NoStream
            /\ ~s.cut => /\ s.from[e].owed = c.socksbuf /\ (c.sockeof => s.from[e].eof)
                         /\ ~s.from[e].ended /\ c.chan = "socket"

Side(e, n, g) ==
  LET f == Other(e)
      c == g[e]
  IN  /\ Sound(c) /\ (e \notin FixedEnds => Within(c)) /\ c.n = n
      /\ c.chan = "freed" <=> "RCVD_CLOSE" \in c.closes
      /\ IF c.chan = "freed" THEN ~Holds(e, n) ELSE c.localid \in Id /\ channels[e][c.localid] = c
      /\ Sides(c, g[f], Of(net[e], n), Of(net[f], n))
      /\ stream[n].cut \/ Carried(c, g[f], Of(net[e], n), stream[n].from[e])

Joined(n) == \E g \in [End -> Chan] : \A e \in End : Side(e, n, g)

Conn(n) == Closed(n) \/ (\E e \in End : Asking(e, n)) \/ Joined(n)

TypeOK ==
  /\ channels \in [End -> [Id -> Chan \cup {NoChannel}]]
  /\ net \in [End -> Seq(Pkt)] /\ conn_throttle_count \in [End -> Int] /\ opens \in 0..MaxOpens
  /\ stream \in [1..MaxOpens ->
       [cut : BOOLEAN, early : BOOLEAN,
        from : [End -> [owed : Int, eof : BOOLEAN, ended : BOOLEAN]]]]

Live1 ==
  \A e \in End, id \in Id : channels[e][id] # NoChannel =>
    LET c == channels[e][id]
    IN  /\ c.localid = id /\ c.n <= opens /\ c.chan # "freed" /\ "RCVD_CLOSE" \notin c.closes
        /\ Sound(c) /\ (e \notin FixedEnds => Within(c))
        /\ \A j \in Id : channels[e][j] # NoChannel /\ channels[e][j].n = c.n => j = id

CutFrom == \A n \in 1..MaxOpens : stream[n].cut => stream[n].from = NewStream.from

IInv == /\ TypeOK /\ faults = {} /\ Live1 /\ CutFrom
        /\ \A n \in 1..MaxOpens : Conn(n) /\ (n > opens => Closed(n))
-----------------------------------------------------------------------------
(* Sequences *)

LEMMA Least ==
  ASSUME NEW T, T \subseteq Nat, T # {}
  PROVE  \E m \in T : \A n \in T : m <= n
<1>1. PICK x \in T : \A y \in T : <<y, x>> \notin OpToRel(<, Nat)
  BY WFMin, NatLessThanWellFounded, Zenon
<1>2. \A y \in T : ~(y < x)
  BY <1>1, Zenon DEF OpToRel
<1>3. QED
  BY <1>2

\* A function may be defined, in one way only, from the value before.
Steps(f, a, g, m) == f[0] = a /\ \A k \in 1..m : f[k] = g[k][f[k - 1]]

LEMMA StepsExist ==
  ASSUME NEW A, NEW a \in A, NEW m \in Nat, NEW g \in [1..m -> [A -> A]]
  PROVE  \E f \in [0..m -> A] : Steps(f, a, g, m)
<1> DEFINE P(k) == \E f \in [0..k -> A] : Steps(f, a, g, k)
<1>1. P(0)
  <2> DEFINE f == [i \in 0..0 |-> a]
  <2>1. f \in [0..0 -> A] /\ Steps(f, a, g, 0)
    BY DEF Steps
  <2>2. QED
    BY <2>1
<1>2. ASSUME NEW k \in 0..m, k < m, P(k)
      PROVE  P(k + 1)
  <2>1. PICK f \in [0..k -> A] : Steps(f, a, g, k)
    BY <1>2
  <2> DEFINE h == [i \in 0..(k + 1) |-> IF i = k + 1 THEN g[k + 1][f[k]] ELSE f[i]]
  <2>2. g[k + 1] \in [A -> A] /\ f[k] \in A
    BY <1>2
  <2>3. h \in [0..(k + 1) -> A]
    BY <2>2
  <2>4. h[0] = a
    BY <2>1 DEF Steps
  <2>5. ASSUME NEW i \in 1..(k + 1)
        PROVE  h[i] = g[i][h[i - 1]]
    <3>1. CASE i = k + 1
      BY <3>1
    <3>2. CASE i \in 1..k
      BY <2>1, <3>2 DEF Steps
    <3>3. QED
      BY <3>1, <3>2
  <2>6. QED
    BY <2>3, <2>4, <2>5 DEF Steps
<1> HIDE DEF P
<1>3. ASSUME ~P(m)
      PROVE  FALSE
  <2> DEFINE T == {k \in 0..m : ~P(k)}
  <2>1. T \subseteq Nat /\ T # {}
    BY <1>3
  <2>2. PICK k \in T : \A i \in T : k <= i
    BY <2>1, Least
  <2>3. k # 0
    BY <1>1, <2>2
  <2>4. k - 1 \in 0..m /\ k - 1 < m /\ k - 1 \notin T
    BY <2>2, <2>3
  <2>5. P((k - 1) + 1)
    BY <1>2, <2>4
  <2>6. QED
    BY <2>2, <2>5
<1>4. QED
  BY <1>3 DEF P

LEMMA StepsUnique ==
  ASSUME NEW a, NEW g, NEW m \in Nat, NEW f, NEW h, Steps(f, a, g, m), Steps(h, a, g, m)
  PROVE  f[m] = h[m]
<1> DEFINE T == {k \in 0..m : f[k] # h[k]}
<1>1. ASSUME T # {}
      PROVE  FALSE
  <2>1. T \subseteq Nat
    OBVIOUS
  <2>2. PICK k \in T : \A i \in T : k <= i
    BY <1>1, <2>1, Least
  <2>3. k # 0
    BY <2>2 DEF Steps
  <2>4. k - 1 \in 0..m /\ k - 1 \notin T /\ k \in 1..m
    BY <2>2, <2>3
  <2>5. f[k - 1] = h[k - 1]
    BY <2>4
  <2>6. QED
    BY <2>2, <2>4, <2>5 DEF Steps
<1>2. QED
  BY <1>1

\* The sum of a sequence.
Sums(f, w) == f[0] = 0 /\ \A k \in 1..Len(w) : f[k] = f[k - 1] + w[k]

LEMMA TotalIs ==
  ASSUME NEW w \in Seq(Int)
  PROVE  /\ \E f \in [0..Len(w) -> Int] : Sums(f, w) /\ Total(w) = f[Len(w)]
         /\ \A f \in [0..Len(w) -> Int] : Sums(f, w) => Total(w) = f[Len(w)]
<1> DEFINE m == Len(w)
<1> DEFINE g == [k \in 1..m |-> [v \in Int |-> v + w[k]]]
<1> DEFINE R(f) == f = [k \in 0..m |-> IF k = 0 THEN 0 ELSE f[k - 1] + w[k]]
<1>1. m \in Nat /\ g \in [1..m -> [Int -> Int]]
  OBVIOUS
<1>2. ASSUME NEW f \in [0..m -> Int]
      PROVE  (Sums(f, w) <=> Steps(f, 0, g, m)) /\ (Sums(f, w) => R(f))
  <2>1. ASSUME NEW k \in 1..m
        PROVE  g[k][f[k - 1]] = f[k - 1] + w[k]
    <3>1. f[k - 1] \in Int /\ w[k] \in Int
      BY <1>2
    <3>2. QED
      BY <3>1
  <2> HIDE DEF g
  <2>2. Sums(f, w) <=> Steps(f, 0, g, m)
    BY <2>1 DEF Sums, Steps
  <2>3. ASSUME Sums(f, w)
        PROVE  f = [k \in 0..m |-> IF k = 0 THEN 0 ELSE f[k - 1] + w[k]]
    <3>1. f = [k \in 0..m |-> f[k]]
      OBVIOUS
    <3>2. \A k \in 0..m : f[k] = IF k = 0 THEN 0 ELSE f[k - 1] + w[k]
      BY <2>3, <1>1 DEF Sums
    <3>3. QED
      BY <3>1, <3>2, Zenon
  <2>4. QED
    BY <2>2, <2>3, Zenon
<1>3. PICK f \in [0..m -> Int] : Steps(f, 0, g, m)
  <2>1. 0 \in Int
    OBVIOUS
  <2> HIDE DEF m, g
  <2>2. QED
    BY <1>1, <2>1, StepsExist, Zenon
<1> DEFINE c == CHOOSE h : R(h)
<1>4. R(c)
  BY <1>2, <1>3
<1>5. Total(w) = c[m]
  BY Zenon DEF Total
<1> HIDE DEF c
<1>6. Sums(c, w)
  <2>1. \A k \in 0..m : c[k] = IF k = 0 THEN 0 ELSE c[k - 1] + w[k]
    BY <1>4, Zenon
  <2>2. c[0] = 0
    BY <1>1, <2>1
  <2>3. \A k \in 1..m : k \in 0..m /\ k # 0
    BY <1>1
  <2>4. QED
    BY <2>1, <2>2, <2>3, Zenon DEF Sums
<1>7. ASSUME NEW h \in [0..m -> Int], Sums(h, w)
      PROVE  c[m] = h[m]
  <2> DEFINE T == {k \in 0..m : c[k] # h[k]}
  <2>1. ASSUME T # {}
        PROVE  FALSE
    <3>1. T \subseteq Nat
      OBVIOUS
    <3>2. PICK k \in T : \A i \in T : k <= i
      BY <2>1, <3>1, Least
    <3>3. k # 0
      BY <1>6, <1>7, <3>2 DEF Sums
    <3>4. k - 1 \in 0..m /\ k - 1 \notin T /\ k \in 1..m
      BY <3>2, <3>3
    <3>5. QED
      BY <1>6, <1>7, <3>2, <3>4 DEF Sums
  <2>2. QED
    BY <1>1, <2>1
<1>8. QED
  BY <1>2, <1>3, <1>5, <1>7

LEMMA TotalConcat ==
  ASSUME NEW v \in Seq(Int), NEW w \in Seq(Int)
  PROVE  Total(v \o w) = Total(v) + Total(w)
<1>1. PICK f \in [0..Len(v) -> Int] : Sums(f, v) /\ Total(v) = f[Len(v)]
  BY TotalIs
<1>2. PICK h \in [0..Len(w) -> Int] : Sums(h, w) /\ Total(w) = h[Len(w)]
  BY TotalIs
<1> DEFINE F == [k \in 0..Len(v \o w) |-> IF k <= Len(v) THEN f[k] ELSE f[Len(v)] + h[k - Len(v)]]
<1>3. v \o w \in Seq(Int) /\ Len(v \o w) = Len(v) + Len(w)
  OBVIOUS
<1>4. F \in [0..Len(v \o w) -> Int]
  <2>1. ASSUME NEW k \in 0..Len(v \o w)
        PROVE  (IF k <= Len(v) THEN f[k] ELSE f[Len(v)] + h[k - Len(v)]) \in Int
    <3>1. CASE k <= Len(v)
      <4>1. k \in 0..Len(v)
        BY <1>3, <3>1
      <4>2. QED
        BY <3>1, <4>1
    <3>2. CASE ~(k <= Len(v))
      <4>1. k - Len(v) \in 0..Len(w) /\ Len(v) \in 0..Len(v)
        BY <1>3, <3>2
      <4>2. f[Len(v)] \in Int /\ h[k - Len(v)] \in Int
        BY <4>1
      <4>3. QED
        BY <3>2, <4>2
    <3>3. QED
      BY <3>1, <3>2
  <2>2. QED
    BY <2>1
<1>5. ASSUME NEW k \in 1..Len(v \o w)
      PROVE  F[k] = F[k - 1] + (v \o w)[k]
  <2>1. CASE k <= Len(v)
    BY <1>1, <1>3, <2>1 DEF Sums
  <2>2. CASE k = Len(v) + 1
    <3>1. (v \o w)[k] = w[1]
      BY <1>3, <2>2
    <3>2. h[1] = h[0] + w[1] /\ h[0] = 0
      BY <1>2, <1>3, <2>2 DEF Sums
    <3>3. QED
      BY <1>3, <2>2, <3>1, <3>2
  <2>3. CASE k > Len(v) + 1
    <3>1. (v \o w)[k] = w[k - Len(v)]
      BY <1>3, <2>3
    <3>2. k - Len(v) \in 1..Len(w)
      BY <1>3, <2>3
    <3>3. h[k - Len(v)] = h[k - Len(v) - 1] + w[k - Len(v)]
      BY <1>2, <3>2 DEF Sums
    <3>4. k \in 0..Len(v \o w) /\ k - 1 \in 0..Len(v \o w) /\ ~(k <= Len(v)) /\ ~(k - 1 <= Len(v))
      BY <1>3, <2>3
    <3>5. F[k] = f[Len(v)] + h[k - Len(v)] /\ F[k - 1] = f[Len(v)] + h[(k - 1) - Len(v)]
      BY <3>4
    <3>6. (k - 1) - Len(v) = (k - Len(v)) - 1 /\ (k - Len(v)) - 1 \in 0..Len(w) /\ Len(v) \in 0..Len(v)
      BY <1>3, <3>2
    <3>7. f[Len(v)] \in Int /\ h[(k - Len(v)) - 1] \in Int /\ w[k - Len(v)] \in Int
      <4>1. f[Len(v)] \in Int
        BY <3>6
      <4>2. h[(k - Len(v)) - 1] \in Int
        BY <3>6
      <4>3. \A i \in 1..Len(w) : w[i] \in Int
        OBVIOUS
      <4>4. w[k - Len(v)] \in Int
        BY <3>2, <4>3, Zenon
      <4>5. QED
        BY <4>1, <4>2, <4>4
    <3> HIDE DEF F
    <3>8. QED
      BY <3>1, <3>3, <3>5, <3>6, <3>7
  <2>4. QED
    BY <1>3, <2>1, <2>2, <2>3
<1>6. F[0] = 0
  BY <1>1, <1>3 DEF Sums
<1>7. Sums(F, v \o w)
  BY <1>5, <1>6 DEF Sums
<1>8. Total(v \o w) = F[Len(v \o w)]
  BY <1>3, <1>4, <1>7, TotalIs
<1>9. F[Len(v \o w)] = f[Len(v)] + h[Len(w)]
  <2>1. CASE Len(w) = 0
    BY <1>2, <1>3, <2>1 DEF Sums
  <2>2. CASE Len(w) > 0
    BY <1>3, <2>2
  <2>3. QED
    BY <2>1, <2>2
<1>10. QED
  BY <1>1, <1>2, <1>8, <1>9

LEMMA TotalNat ==
  ASSUME NEW w \in Seq(Nat)
  PROVE  Total(w) \in Nat
<1> DEFINE g == [k \in 1..Len(w) |-> [v \in Nat |-> v + w[k]]]
<1>1. Len(w) \in Nat /\ g \in [1..Len(w) -> [Nat -> Nat]]
  OBVIOUS
<1>2. PICK f \in [0..Len(w) -> Nat] : Steps(f, 0, g, Len(w))
  <2> HIDE DEF g
  <2>1. QED
    BY <1>1, StepsExist
<1>3. f \in [0..Len(w) -> Int] /\ w \in Seq(Int)
  OBVIOUS
<1>4. Sums(f, w)
  <2>1. ASSUME NEW k \in 1..Len(w)
        PROVE  g[k][f[k - 1]] = f[k - 1] + w[k]
    <3>1. k \in 1..Len(w) /\ k - 1 \in 0..Len(w)
      BY <1>1, <2>1
    <3>2. f[k - 1] \in Nat
      BY <3>1
    <3>3. g[k] = [v \in Nat |-> v + w[k]]
      BY <3>1
    <3>4. QED
      BY <3>2, <3>3
  <2> HIDE DEF g
  <2>2. QED
    BY <1>2, <2>1, Zenon DEF Steps, Sums
<1>5. Len(w) \in 0..Len(w)
  OBVIOUS
<1>6. QED
  BY <1>3, <1>4, <1>5, TotalIs

LEMMA TotalZero ==
  ASSUME NEW w \in Seq(Int), \A k \in DOMAIN w : w[k] = 0
  PROVE  Total(w) = 0
<1> DEFINE f == [k \in 0..Len(w) |-> 0]
<1>1. f \in [0..Len(w) -> Int] /\ Sums(f, w)
  BY DEF Sums
<1>2. Total(w) = f[Len(w)]
  BY <1>1, TotalIs
<1>3. QED
  BY <1>2

LEMMA TotalOne ==
  ASSUME NEW x \in Int
  PROVE  Total(<<x>>) = x
<1> DEFINE f == [k \in 0..1 |-> IF k = 0 THEN 0 ELSE x]
<1>1. <<x>> \in Seq(Int) /\ Len(<<x>>) = 1 /\ <<x>>[1] = x
  OBVIOUS
<1>2. f \in [0..1 -> Int] /\ f[0] = 0 /\ f[1] = x
  OBVIOUS
<1>3. \A k \in 1..1 : f[k] = f[k - 1] + <<x>>[k]
  BY <1>1, <1>2
<1>4. Sums(f, <<x>>)
  BY <1>1, <1>2, <1>3 DEF Sums
<1>5. Total(<<x>>) = f[1]
  BY <1>1, <1>2, <1>4, TotalIs
<1>6. QED
  BY <1>2, <1>5

LEMMA TotalAppend ==
  ASSUME NEW w \in Seq(Int), NEW x \in Int
  PROVE  Total(Append(w, x)) = Total(w) + x
<1>1. Append(w, x) = w \o <<x>> /\ <<x>> \in Seq(Int)
  OBVIOUS
<1>2. QED
  BY <1>1, TotalConcat, TotalOne

LEMMA TotalTail ==
  ASSUME NEW w \in Seq(Int), w # <<>>
  PROVE  Total(w) = w[1] + Total(Tail(w))
<1>1. w = <<w[1]>> \o Tail(w) /\ w[1] \in Int /\ Tail(w) \in Seq(Int) /\ <<w[1]>> \in Seq(Int)
  OBVIOUS
<1>2. QED
  BY <1>1, TotalConcat, TotalOne

\* The elements of a sequence that are in some of its places.
Picks(f, w, T) ==
  f[0] = <<>> /\ \A k \in 1..Len(w) : f[k] = IF k \in T THEN Append(f[k - 1], w[k]) ELSE f[k - 1]

LEMMA PickedIs ==
  ASSUME NEW S, NEW w \in Seq(S), NEW T
  PROVE  /\ \E f \in [0..Len(w) -> Seq(S)] : Picks(f, w, T) /\ Picked(w, T) = f[Len(w)]
         /\ \A f \in [0..Len(w) -> Seq(S)] : Picks(f, w, T) => Picked(w, T) = f[Len(w)]
<1> DEFINE m == Len(w)
<1> DEFINE g == [k \in 1..m |-> [v \in Seq(S) |-> IF k \in T THEN Append(v, w[k]) ELSE v]]
<1> DEFINE R(f) == f = [k \in 0..m |-> IF k = 0 THEN <<>>
                                      ELSE IF k \in T THEN Append(f[k - 1], w[k]) ELSE f[k - 1]]
<1>1. m \in Nat /\ g \in [1..m -> [Seq(S) -> Seq(S)]]
  OBVIOUS
<1>2. ASSUME NEW f \in [0..m -> Seq(S)]
      PROVE  (Picks(f, w, T) <=> Steps(f, <<>>, g, m)) /\ (Picks(f, w, T) => R(f))
  <2>1. ASSUME NEW k \in 1..m
        PROVE  g[k][f[k - 1]] = IF k \in T THEN Append(f[k - 1], w[k]) ELSE f[k - 1]
    <3>1. f[k - 1] \in Seq(S)
      BY <1>2
    <3>2. QED
      BY <3>1
  <2> HIDE DEF g
  <2>2. Picks(f, w, T) <=> Steps(f, <<>>, g, m)
    BY <2>1, Zenon DEF Picks, Steps
  <2>3. ASSUME Picks(f, w, T)
        PROVE  R(f)
    <3>1. f = [k \in 0..m |-> f[k]]
      OBVIOUS
    <3>2. \A k \in 0..m : k = 0 \/ k \in 1..m
      OBVIOUS
    <3>3. ASSUME NEW k \in 0..m
          PROVE  f[k] = IF k = 0 THEN <<>>
                        ELSE IF k \in T THEN Append(f[k - 1], w[k]) ELSE f[k - 1]
      <4>1. CASE k = 0
        BY <2>3, <4>1 DEF Picks
      <4>2. CASE k # 0
        BY <2>3, <3>2, <4>2, Zenon DEF Picks
      <4>3. QED
        BY <4>1, <4>2, Zenon
    <3>4. QED
      BY <3>1, <3>3, Zenon
  <2>4. QED
    BY <2>2, <2>3, Zenon
<1>3. PICK f \in [0..m -> Seq(S)] : Steps(f, <<>>, g, m)
  <2>1. <<>> \in Seq(S)
    BY SMTT(30)
  <2> HIDE DEF m, g
  <2>2. QED
    BY <1>1, <2>1, StepsExist, Zenon
<1> DEFINE c == CHOOSE h : R(h)
<1>4. R(c)
  BY <1>2, <1>3, Zenon
<1>5. Picked(w, T) = c[m]
  BY Zenon DEF Picked
<1> HIDE DEF c
<1>6. Picks(c, w, T)
  <2>1. \A k \in 0..m : c[k] = IF k = 0 THEN <<>>
                               ELSE IF k \in T THEN Append(c[k - 1], w[k]) ELSE c[k - 1]
    BY <1>4, Zenon
  <2>2. c[0] = <<>>
    BY <1>1, <2>1
  <2>3. \A k \in 1..m : k \in 0..m /\ k # 0
    BY <1>1
  <2>4. QED
    BY <2>1, <2>2, <2>3, Zenon DEF Picks
<1>7. ASSUME NEW h \in [0..m -> Seq(S)], Picks(h, w, T)
      PROVE  c[m] = h[m]
  <2> DEFINE D == {k \in 0..m : c[k] # h[k]}
  <2>1. ASSUME D # {}
        PROVE  FALSE
    <3>1. D \subseteq Nat
      OBVIOUS
    <3>2. PICK k \in D : \A i \in D : k <= i
      BY <2>1, <3>1, Least
    <3>3. k # 0
      BY <1>6, <1>7, <3>2 DEF Picks
    <3>4. k - 1 \in 0..m /\ k - 1 \notin D /\ k \in 1..m
      BY <3>2, <3>3
    <3>5. c[k - 1] = h[k - 1]
      BY <3>4
    <3>6. c[k] = h[k]
      BY <1>6, <1>7, <3>4, <3>5, Zenon DEF Picks
    <3>7. QED
      BY <3>2, <3>6
  <2>2. QED
    BY <1>1, <2>1
<1>8. QED
  BY <1>2, <1>3, <1>5, <1>7

LEMMA AppendConcat ==
  ASSUME NEW S, NEW a \in Seq(S), NEW b \in Seq(S), NEW x \in S
  PROVE  a \o Append(b, x) = Append(a \o b, x)
<1> DEFINE l == a \o Append(b, x)
<1> DEFINE m == Append(a \o b, x)
<1>1. l \in Seq(S) /\ m \in Seq(S) /\ Len(l) = Len(a) + Len(b) + 1 /\ Len(m) = Len(a) + Len(b) + 1
  OBVIOUS
<1>2. ASSUME NEW k \in 1..Len(l)
      PROVE  l[k] = m[k]
  <2>1. CASE k <= Len(a)
    BY <2>1
  <2>2. CASE k > Len(a) /\ k <= Len(a) + Len(b)
    BY <2>2
  <2>3. CASE k = Len(a) + Len(b) + 1
    BY <2>3
  <2>4. QED
    BY <1>1, <2>1, <2>2, <2>3
<1>3. \A s, t \in Seq(S) : Len(s) = Len(t) /\ (\A k \in 1..Len(s) : s[k] = t[k]) => s = t
  OBVIOUS
<1> HIDE DEF l, m
<1>4. l = m
  BY <1>1, <1>2, <1>3
<1>5. QED
  BY <1>4 DEF l, m

LEMMA PickedConcat ==
  ASSUME NEW S, NEW v \in Seq(S), NEW w \in Seq(S), NEW T, NEW T1, NEW T2,
         \A k \in 1..Len(v) : k \in T <=> k \in T1,
         \A k \in 1..Len(w) : Len(v) + k \in T <=> k \in T2
  PROVE  Picked(v \o w, T) = Picked(v, T1) \o Picked(w, T2)
<1>0. \A a, b \in Seq(S) : \A x \in S : a \o Append(b, x) = Append(a \o b, x)
  BY AppendConcat
<1>1. PICK f \in [0..Len(v) -> Seq(S)] : Picks(f, v, T1) /\ Picked(v, T1) = f[Len(v)]
  BY PickedIs
<1>2. PICK h \in [0..Len(w) -> Seq(S)] : Picks(h, w, T2) /\ Picked(w, T2) = h[Len(w)]
  BY PickedIs
<1> DEFINE F == [k \in 0..Len(v \o w) |-> IF k <= Len(v) THEN f[k] ELSE f[Len(v)] \o h[k - Len(v)]]
<1>3. v \o w \in Seq(S) /\ Len(v \o w) = Len(v) + Len(w) /\ Len(v) \in Nat /\ Len(w) \in Nat
  OBVIOUS
<1>4. \A k \in 0..Len(v) : f[k] \in Seq(S)
  OBVIOUS
<1>5. \A k \in 0..Len(w) : h[k] \in Seq(S)
  OBVIOUS
<1>6. F \in [0..Len(v \o w) -> Seq(S)]
  <2>1. ASSUME NEW k \in 0..Len(v \o w)
        PROVE  (IF k <= Len(v) THEN f[k] ELSE f[Len(v)] \o h[k - Len(v)]) \in Seq(S)
    <3>1. CASE k <= Len(v)
      <4>1. k \in 0..Len(v)
        BY <1>3, <3>1
      <4>2. QED
        BY <3>1, <4>1
    <3>2. CASE ~(k <= Len(v))
      <4>1. k - Len(v) \in 0..Len(w) /\ Len(v) \in 0..Len(v)
        BY <1>3, <3>2
      <4>2. f[Len(v)] \in Seq(S) /\ h[k - Len(v)] \in Seq(S)
        BY <1>4, <1>5, <4>1
      <4>3. QED
        BY <3>2, <4>2
    <3>3. QED
      BY <3>1, <3>2
  <2>2. QED
    BY <2>1
<1>7. ASSUME NEW k \in 1..Len(v \o w)
      PROVE  F[k] = IF k \in T THEN Append(F[k - 1], (v \o w)[k]) ELSE F[k - 1]
  <2>1. CASE k <= Len(v)
    <3>1. k \in 1..Len(v) /\ k \in 0..Len(v \o w) /\ k - 1 \in 0..Len(v \o w) /\ k - 1 <= Len(v)
      BY <1>3, <2>1
    <3>2. F[k] = f[k] /\ F[k - 1] = f[k - 1]
      BY <2>1, <3>1
    <3>3. (v \o w)[k] = v[k]
      BY <3>1
    <3> HIDE DEF F
    <3>4. QED
      BY <1>1, <3>1, <3>2, <3>3, Zenon DEF Picks
  <2>2. CASE k = Len(v) + 1
    <3>1. (v \o w)[k] = w[1] /\ 1 \in 1..Len(w)
      BY <1>3, <2>2
    <3>2. h[1] = (IF 1 \in T2 THEN Append(h[0], w[1]) ELSE h[0]) /\ h[0] = <<>>
      <4>1. 1 - 1 = 0
        OBVIOUS
      <4>2. h[1] = (IF 1 \in T2 THEN Append(h[1 - 1], w[1]) ELSE h[1 - 1])
        BY <1>2, <3>1, Zenon DEF Picks
      <4>3. QED
        BY <1>2, <4>1, <4>2 DEF Picks
    <3>3. k \in 0..Len(v \o w) /\ k - 1 \in 0..Len(v \o w) /\ ~(k <= Len(v)) /\ k - 1 = Len(v) /\ k - Len(v) = 1
      BY <1>3, <2>2
    <3>4. F[k] = f[Len(v)] \o h[1] /\ F[k - 1] = f[Len(v)]
      BY <3>3
    <3>5. k \in T <=> 1 \in T2
      BY <2>2, <3>1
    <3>6. f[Len(v)] \in Seq(S) /\ w[1] \in S
      BY <1>3, <1>4, <3>1
    <3> HIDE DEF F
    <3>7. CASE 1 \in T2
      <4>1. f[Len(v)] \o Append(<<>>, w[1]) = Append(f[Len(v)], w[1])
        BY <3>6
      <4>2. QED
        BY <3>1, <3>2, <3>4, <3>5, <3>7, <4>1
    <3>8. CASE 1 \notin T2
      <4>1. f[Len(v)] \o <<>> = f[Len(v)]
        BY <3>6
      <4>2. QED
        BY <3>1, <3>2, <3>4, <3>5, <3>8, <4>1
    <3>9. QED
      BY <3>7, <3>8
  <2>3. CASE k > Len(v) + 1
    <3> DEFINE i == k - Len(v)
    <3>1. i \in 1..Len(w) /\ i - 1 \in 0..Len(w) /\ Len(v) + i = k /\ (k - 1) - Len(v) = i - 1
      BY <1>3, <2>3
    <3>2. (v \o w)[k] = w[i]
      BY <1>3, <2>3
    <3>3. h[i] = IF i \in T2 THEN Append(h[i - 1], w[i]) ELSE h[i - 1]
      BY <1>2, <3>1, Zenon DEF Picks
    <3>4. k \in 0..Len(v \o w) /\ k - 1 \in 0..Len(v \o w) /\ ~(k <= Len(v)) /\ ~(k - 1 <= Len(v))
      BY <1>3, <2>3
    <3>5. F[k] = f[Len(v)] \o h[i] /\ F[k - 1] = f[Len(v)] \o h[i - 1]
      BY <3>1, <3>4
    <3>6. k \in T <=> i \in T2
      BY <3>1
    <3>7. f[Len(v)] \in Seq(S) /\ h[i - 1] \in Seq(S) /\ w[i] \in S
      <4>1. f[Len(v)] \in Seq(S)
        BY <1>3, <1>4
      <4>2. h[i - 1] \in Seq(S)
        BY <1>5, <3>1
      <4>3. \A j \in 1..Len(w) : w[j] \in S
        OBVIOUS
      <4>4. w[i] \in S
        BY <3>1, <4>3, Zenon
      <4>5. QED
        BY <4>1, <4>2, <4>4
    <3> HIDE DEF F, i
    <3>8. f[Len(v)] \o Append(h[i - 1], w[i]) = Append(f[Len(v)] \o h[i - 1], w[i])
      BY <1>0, <3>7, Zenon
    <3>9. QED
      BY <3>2, <3>3, <3>5, <3>6, <3>8
  <2>4. QED
    BY <1>3, <2>1, <2>2, <2>3
<1>8. F[0] = <<>>
  BY <1>1, <1>3 DEF Picks
<1>9. Picks(F, v \o w, T)
  <2> HIDE DEF F
  <2>1. QED
    BY <1>7, <1>8, Zenon DEF Picks
<1>10. Picked(v \o w, T) = F[Len(v \o w)]
  BY <1>3, <1>6, <1>9, PickedIs
<1>11. F[Len(v \o w)] = f[Len(v)] \o h[Len(w)]
  <2>1. CASE Len(w) = 0
    <3>1. h[Len(w)] = <<>> /\ f[Len(v)] \in Seq(S) /\ F[Len(v \o w)] = f[Len(v)]
      BY <1>2, <1>3, <1>4, <2>1 DEF Picks
    <3>2. QED
      BY <3>1
  <2>2. CASE Len(w) > 0
    BY <1>3, <2>2
  <2> HIDE DEF F
  <2>3. QED
    BY <1>3, <2>1, <2>2
<1>12. QED
  BY <1>1, <1>2, <1>10, <1>11

LEMMA PickedType ==
  ASSUME NEW S, NEW w \in Seq(S), NEW T
  PROVE  Picked(w, T) \in Seq(S)
<1>1. PICK f \in [0..Len(w) -> Seq(S)] : Picks(f, w, T) /\ Picked(w, T) = f[Len(w)]
  BY PickedIs
<1>2. Len(w) \in 0..Len(w)
  OBVIOUS
<1>3. QED
  BY <1>1, <1>2

LEMMA PickedNone ==
  ASSUME NEW S, NEW w \in Seq(S), NEW T, \A k \in 1..Len(w) : k \notin T
  PROVE  Picked(w, T) = <<>>
<1> DEFINE f == [k \in 0..Len(w) |-> <<>>]
<1>1. f \in [0..Len(w) -> Seq(S)] /\ \A k \in 0..Len(w) : f[k] = <<>>
  OBVIOUS
<1>2. \A k \in 1..Len(w) : f[k] = f[k - 1]
  OBVIOUS
<1>3. f[0] = <<>> /\ f[Len(w)] = <<>>
  OBVIOUS
<1> HIDE DEF f
<1>4. Picks(f, w, T)
  BY <1>2, <1>3, Zenon DEF Picks
<1>5. QED
  BY <1>1, <1>3, <1>4, PickedIs

LEMMA PickedAll ==
  ASSUME NEW S, NEW w \in Seq(S), NEW T, \A k \in 1..Len(w) : k \in T
  PROVE  Picked(w, T) = w
<1> DEFINE f == [k \in 0..Len(w) |-> SubSeq(w, 1, k)]
<1>1. f \in [0..Len(w) -> Seq(S)]
  OBVIOUS
<1>2. ASSUME NEW k \in 1..Len(w)
      PROVE  f[k] = Append(f[k - 1], w[k])
  OBVIOUS
<1>3. f[0] = <<>> /\ f[Len(w)] = w
  OBVIOUS
<1> HIDE DEF f
<1>4. Picks(f, w, T)
  BY <1>2, <1>3, Zenon DEF Picks
<1>5. QED
  BY <1>1, <1>3, <1>4, PickedIs
-----------------------------------------------------------------------------
(* Packets *)

LEMMA SameSeq ==
  ASSUME NEW S, NEW v \in Seq(S), NEW w \in Seq(S), Len(v) = Len(w), \A k \in 1..Len(v) : v[k] = w[k]
  PROVE  v = w
OBVIOUS

LEMMA ConcatType ==
  ASSUME NEW S, NEW v \in Seq(S), NEW w \in Seq(S)
  PROVE  v \o w \in Seq(S) /\ Len(v \o w) = Len(v) + Len(w)
OBVIOUS

LEMMA ConcatPlace ==
  ASSUME NEW S, NEW v \in Seq(S), NEW w \in Seq(S), NEW k \in 1..(Len(v) + Len(w)), k > Len(v)
  PROVE  (v \o w)[k] = w[k - Len(v)]
OBVIOUS

\* The packets of a channel among those of all.
LEMMA OfType ==
  ASSUME NEW q \in Seq(Pkt), NEW n
  PROVE  Of(q, n) \in Seq(Pkt)
BY PickedType DEF Of

\* What is picked of two sequences, and of the one they make.
Split(v, w, T, T1, T2) ==
  /\ \A k \in 1..Len(v) : k \in T <=> k \in T1
  /\ \A k \in 1..Len(w) : Len(v) + k \in T <=> k \in T2

LEMMA PickedSplit ==
  ASSUME NEW S, NEW v \in Seq(S), NEW w \in Seq(S), NEW T, NEW T1, NEW T2, Split(v, w, T, T1, T2)
  PROVE  Picked(v \o w, T) = Picked(v, T1) \o Picked(w, T2)
BY PickedConcat DEF Split

LEMMA OfConcat ==
  ASSUME NEW a \in Seq(Pkt), NEW b \in Seq(Pkt), NEW n
  PROVE  Of(a \o b, n) = Of(a, n) \o Of(b, n)
<1> DEFINE T == {k \in DOMAIN (a \o b) : (a \o b)[k].n = n}
<1> DEFINE T1 == {k \in DOMAIN a : a[k].n = n}
<1> DEFINE T2 == {k \in DOMAIN b : b[k].n = n}
<1>1. \A k \in 1..Len(a) : k \in T <=> k \in T1
  OBVIOUS
<1>2. \A k \in 1..Len(b) : Len(a) + k \in T <=> k \in T2
  OBVIOUS
<1>3. Of(a \o b, n) = Picked(a \o b, T) /\ Of(a, n) = Picked(a, T1) /\ Of(b, n) = Picked(b, T2)
  BY Zenon DEF Of
<1> HIDE DEF T, T1, T2
<1>4. Picked(a \o b, T) = Picked(a, T1) \o Picked(b, T2)
  <2>1. Split(a, b, T, T1, T2)
    BY <1>1, <1>2 DEF Split
  <2>2. QED
    BY <2>1, PickedSplit
<1>5. QED
  BY <1>3, <1>4, Zenon

LEMMA OfAll ==
  ASSUME NEW q \in Seq(Pkt), NEW n, \A k \in DOMAIN q : q[k].n = n
  PROVE  Of(q, n) = q
BY PickedAll DEF Of

LEMMA OfNone ==
  ASSUME NEW q \in Seq(Pkt), NEW n, \A k \in DOMAIN q : q[k].n # n
  PROVE  Of(q, n) = <<>>
BY PickedNone DEF Of

LEMMA OfHead ==
  ASSUME NEW q \in Seq(Pkt), q # <<>>, NEW n
  PROVE  Of(q, n) = IF q[1].n = n THEN <<q[1]>> \o Of(Tail(q), n) ELSE Of(Tail(q), n)
<1>1. q = <<q[1]>> \o Tail(q) /\ q[1] \in Pkt /\ Tail(q) \in Seq(Pkt) /\ <<q[1]>> \in Seq(Pkt)
  OBVIOUS
<1>2. Of(q, n) = Of(<<q[1]>>, n) \o Of(Tail(q), n)
  <2>1. Of(<<q[1]>> \o Tail(q), n) = Of(<<q[1]>>, n) \o Of(Tail(q), n)
    BY <1>1, OfConcat, Zenon
  <2>2. QED
    BY <1>1, <2>1
<1>3. Of(Tail(q), n) \in Seq(Pkt)
  BY <1>1, OfType
<1>4. CASE q[1].n = n
  <2>1. Of(<<q[1]>>, n) = <<q[1]>>
    <3>1. \A k \in DOMAIN <<q[1]>> : (<<q[1]>>)[k].n = n
      BY <1>4
    <3>2. QED
      BY <1>1, <3>1, OfAll, Zenon
  <2>2. QED
    BY <1>2, <1>4, <2>1
<1>5. CASE q[1].n # n
  <2>1. Of(<<q[1]>>, n) = <<>>
    <3>1. \A k \in DOMAIN <<q[1]>> : (<<q[1]>>)[k].n # n
      BY <1>5
    <3>2. QED
      BY <1>1, <3>1, OfNone, Zenon
  <2>2. QED
    BY <1>2, <1>3, <1>5, <2>1
<1>6. QED
  BY <1>4, <1>5

\* A packet is taken from a queue, and others are put on it.
LEMMA OfTail ==
  ASSUME NEW q \in Seq(Pkt), q # <<>>, NEW n
  PROVE  /\ q[1].n = n => /\ Of(q, n) # <<>> /\ Of(q, n)[1] = q[1] /\ Of(Tail(q), n) = Tail(Of(q, n))
         /\ q[1].n # n => Of(Tail(q), n) = Of(q, n)
<1>1. Of(Tail(q), n) \in Seq(Pkt) /\ q[1] \in Pkt
  <2>1. Tail(q) \in Seq(Pkt) /\ q[1] \in Pkt
    OBVIOUS
  <2>2. QED
    BY <2>1, OfType, Zenon
<1>2. \A s \in Seq(Pkt) : \A p \in Pkt : /\ <<p>> \o s # <<>> /\ (<<p>> \o s)[1] = p
                                      /\ Tail(<<p>> \o s) = s
  OBVIOUS
<1>3. /\ <<q[1]>> \o Of(Tail(q), n) # <<>> /\ (<<q[1]>> \o Of(Tail(q), n))[1] = q[1]
      /\ Tail(<<q[1]>> \o Of(Tail(q), n)) = Of(Tail(q), n)
  BY <1>1, <1>2, Zenon
<1>4. QED
  BY <1>3, OfHead, Zenon

LEMMA OfPushed ==
  ASSUME NEW q \in Seq(Pkt), NEW s \in Seq(Pkt), NEW n, \A k \in DOMAIN s : s[k].n = n
  PROVE  Of(q \o s, n) = Of(q, n) \o s /\ \A m : m # n => Of(q \o s, m) = Of(q, m)
<1>1. Of(q \o s, n) = Of(q, n) \o s
  <2>1. Of(s, n) = s
    BY OfAll, Zenon
  <2>2. Of(q \o s, n) = Of(q, n) \o Of(s, n)
    BY OfConcat, Zenon
  <2>3. QED
    BY <2>1, <2>2
<1>2. ASSUME NEW m, m # n
      PROVE  Of(q \o s, m) = Of(q, m)
  <2>1. Of(s, m) = <<>>
    BY <1>2, OfNone
  <2>2. Of(q, m) \in Seq(Pkt)
    BY OfType
  <2>3. Of(q \o s, m) = Of(q, m) \o Of(s, m)
    BY OfConcat
  <2>4. QED
    BY <2>1, <2>2, <2>3
<1>3. QED
  BY <1>1, <1>2

\* How much the packets of a type come to.
LEMMA LensType ==
  ASSUME NEW q \in Seq(Pkt), NEW t
  PROVE  /\ Lens(q, t) \in Seq(Nat) /\ Lens(q, t) \in Seq(Int) /\ Len(Lens(q, t)) = Len(q)
         /\ \A k \in 1..Len(q) : Lens(q, t)[k] = IF q[k].type = t THEN q[k].len ELSE 0
<1>1. \A k \in 1..Len(q) : q[k].len \in Nat
  <2>1. \A k \in 1..Len(q) : q[k] \in Pkt
    OBVIOUS
  <2>2. \A p \in Pkt : p.len \in Nat
    BY DEF Pkt
  <2>3. QED
    BY <2>1, <2>2, Zenon
<1>2. Len(q) \in Nat /\ DOMAIN q = 1..Len(q)
  OBVIOUS
<1>3. Lens(q, t) = [k \in 1..Len(q) |-> IF q[k].type = t THEN q[k].len ELSE 0]
  BY <1>2 DEF Lens
<1>4. \A k \in 1..Len(q) : (IF q[k].type = t THEN q[k].len ELSE 0) \in Nat
  BY <1>1
<1>5. Lens(q, t) \in [1..Len(q) -> Nat]
  BY <1>3, <1>4
<1>6. \A k \in 1..Len(q) : Lens(q, t)[k] = IF q[k].type = t THEN q[k].len ELSE 0
  BY <1>3
<1> DEFINE l == Lens(q, t)
<1> DEFINE m == Len(q)
<1> HIDE DEF l, m
<1>7. l \in [1..m -> Nat] /\ m \in Nat
  BY <1>2, <1>5 DEF l, m
<1>8. l \in Seq(Nat) /\ l \in Seq(Int) /\ Len(l) = m
  BY <1>7
<1>9. QED
  BY <1>6, <1>8 DEF l, m

LEMMA LensConcat ==
  ASSUME NEW a \in Seq(Pkt), NEW b \in Seq(Pkt), NEW t
  PROVE  Total(Lens(a \o b, t)) = Total(Lens(a, t)) + Total(Lens(b, t))
<1>0. Len(a) \in Nat /\ Len(b) \in Nat
  OBVIOUS
<1> DEFINE u == Lens(a, t)
<1> DEFINE v == Lens(b, t)
<1> DEFINE w == Lens(a \o b, t)
<1>1. u \in Seq(Int) /\ Len(u) = Len(a) /\ \A k \in 1..Len(a) : u[k] = IF a[k].type = t THEN a[k].len ELSE 0
  BY LensType
<1>2. v \in Seq(Int) /\ Len(v) = Len(b) /\ \A k \in 1..Len(b) : v[k] = IF b[k].type = t THEN b[k].len ELSE 0
  BY LensType
<1>3. a \o b \in Seq(Pkt) /\ Len(a \o b) = Len(a) + Len(b)
  OBVIOUS
<1>4. w \in Seq(Int) /\ Len(w) = Len(a) + Len(b)
      /\ \A k \in 1..Len(a \o b) : w[k] = IF (a \o b)[k].type = t THEN (a \o b)[k].len ELSE 0
  BY <1>3, LensType
<1> HIDE DEF u, v, w
<1>5. ASSUME NEW k \in 1..Len(w)
      PROVE  w[k] = (u \o v)[k]
  <2>1. CASE k <= Len(a)
    <3>1. (u \o v)[k] = u[k] /\ (a \o b)[k] = a[k] /\ k \in 1..Len(a) /\ k \in 1..Len(a \o b)
      BY <1>1, <1>2, <1>3, <1>4, <2>1
    <3>2. QED
      BY <1>1, <1>4, <3>1, Zenon
  <2>2. CASE k > Len(a)
    <3>1. k - Len(a) \in 1..Len(b) /\ k \in 1..Len(a \o b)
      BY <1>3, <1>4, <2>2
    <3>2. (a \o b)[k] = b[k - Len(a)]
      BY <1>3, <2>2, <3>1
    <3>3. (u \o v)[k] = v[k - Len(a)]
      BY <1>1, <1>2, <1>3, <2>2, <3>1, ConcatPlace
    <3>4. QED
      BY <1>2, <1>4, <3>1, <3>2, <3>3, Zenon
  <2>3. k <= Len(a) \/ k > Len(a)
    BY <1>0, <1>4
  <2>4. QED
    BY <2>1, <2>2, <2>3, Zenon
<1>6. u \o v \in Seq(Int) /\ Len(u \o v) = Len(w)
  <2>1. u \o v \in Seq(Int) /\ Len(u \o v) = Len(u) + Len(v)
    BY <1>1, <1>2, ConcatType, Zenon
  <2>2. QED
    BY <1>1, <1>2, <1>4, <2>1
<1>7. w = u \o v
  BY <1>4, <1>5, <1>6, SameSeq
<1>8. Total(u \o v) = Total(u) + Total(v)
  BY <1>1, <1>2, TotalConcat
<1>9. QED
  BY <1>7, <1>8 DEF u, v, w

LEMMA LensNat ==
  ASSUME NEW q \in Seq(Pkt), NEW t
  PROVE  Total(Lens(q, t)) \in Nat
BY LensType, TotalNat

LEMMA LensOne ==
  ASSUME NEW p \in Pkt, NEW t
  PROVE  Total(Lens(<<p>>, t)) = IF p.type = t THEN p.len ELSE 0
<1>1. p.len \in Nat
  BY DEF Pkt
<1>2. Lens(<<p>>, t) = <<IF p.type = t THEN p.len ELSE 0>>
  BY DEF Lens
<1>3. (IF p.type = t THEN p.len ELSE 0) \in Int
  BY <1>1
<1>4. QED
  BY <1>2, <1>3, TotalOne

LEMMA LensAppend ==
  ASSUME NEW q \in Seq(Pkt), NEW p \in Pkt, NEW t
  PROVE  Total(Lens(Append(q, p), t)) = Total(Lens(q, t)) + (IF p.type = t THEN p.len ELSE 0)
<1>1. Append(q, p) = q \o <<p>> /\ <<p>> \in Seq(Pkt)
  OBVIOUS
<1>2. Total(Lens(q \o <<p>>, t)) = Total(Lens(q, t)) + Total(Lens(<<p>>, t))
  BY <1>1, LensConcat, Zenon
<1>3. QED
  BY <1>1, <1>2, LensOne

LEMMA LensTail ==
  ASSUME NEW q \in Seq(Pkt), q # <<>>, NEW t
  PROVE  Total(Lens(q, t)) = (IF q[1].type = t THEN q[1].len ELSE 0) + Total(Lens(Tail(q), t))
<1>1. q = <<q[1]>> \o Tail(q) /\ q[1] \in Pkt /\ Tail(q) \in Seq(Pkt) /\ <<q[1]>> \in Seq(Pkt)
  OBVIOUS
<1>2. Total(Lens(<<q[1]>> \o Tail(q), t)) = Total(Lens(<<q[1]>>, t)) + Total(Lens(Tail(q), t))
  BY <1>1, LensConcat, Zenon
<1>3. QED
  BY <1>1, <1>2, LensOne

LEMMA LensNone ==
  ASSUME NEW q \in Seq(Pkt), NEW t, ~Has(q, {t})
  PROVE  Total(Lens(q, t)) = 0
<1>1. \A k \in DOMAIN Lens(q, t) : Lens(q, t)[k] = 0
  BY DEF Lens, Has
<1>2. QED
  BY <1>1, LensType, TotalZero

\* The requests and their replies.
LEMMA LenOf ==
  ASSUME NEW q \in Seq(Pkt)
  PROVE  LET l == [k \in DOMAIN q |-> q[k].len]
         IN  l \in Seq(Nat) /\ Len(l) = Len(q) /\ \A k \in 1..Len(q) : l[k] = q[k].len
<1> DEFINE l == [k \in DOMAIN q |-> q[k].len]
<1> DEFINE m == Len(q)
<1>1. \A k \in 1..Len(q) : q[k].len \in Nat
  <2>1. \A k \in 1..Len(q) : q[k] \in Pkt
    OBVIOUS
  <2>2. \A p \in Pkt : p.len \in Nat
    BY DEF Pkt
  <2>3. QED
    BY <2>1, <2>2, Zenon
<1>2. l \in [1..m -> Nat] /\ m \in Nat /\ \A k \in 1..m : l[k] = q[k].len
  BY <1>1
<1> HIDE DEF l, m
<1>3. l \in Seq(Nat) /\ Len(l) = m
  BY <1>2
<1>4. QED
  BY <1>2, <1>3 DEF l, m

LEMMA AsksType ==
  ASSUME NEW q \in Seq(Pkt), NEW t
  PROVE  Asks(q, t) \in Seq(Nat)
<1>1. [k \in DOMAIN q |-> q[k].len] \in Seq(Nat)
  BY LenOf
<1>2. QED
  BY <1>1, PickedType DEF Asks

LEMMA JoinSame ==
  ASSUME NEW S, NEW u \in Seq(S), NEW v \in Seq(S), NEW w \in Seq(S), Len(w) = Len(u) + Len(v),
         \A k \in 1..Len(u) : w[k] = u[k],
         \A k \in 1..Len(v) : w[Len(u) + k] = v[k]
  PROVE  w = u \o v
<1>1. ASSUME NEW k \in 1..Len(w)
      PROVE  w[k] = (u \o v)[k]
  <2>1. CASE k <= Len(u)
    BY <2>1
  <2>2. CASE k > Len(u)
    <3>1. k - Len(u) \in 1..Len(v) /\ Len(u) + (k - Len(u)) = k
      BY <2>2
    <3>2. (u \o v)[k] = v[k - Len(u)]
      BY <2>2, ConcatPlace
    <3>3. QED
      BY <3>1, <3>2
  <2>3. QED
    BY <2>1, <2>2
<1>2. u \o v \in Seq(S) /\ Len(u \o v) = Len(w)
  OBVIOUS
<1>3. QED
  BY <1>1, <1>2, SameSeq

LEMMA AsksConcat ==
  ASSUME NEW a \in Seq(Pkt), NEW b \in Seq(Pkt), NEW t
  PROVE  Asks(a \o b, t) = Asks(a, t) \o Asks(b, t)
<1> DEFINE T == {k \in DOMAIN (a \o b) : (a \o b)[k].type = t}
<1> DEFINE T1 == {k \in DOMAIN a : a[k].type = t}
<1> DEFINE T2 == {k \in DOMAIN b : b[k].type = t}
<1> DEFINE w == [k \in DOMAIN (a \o b) |-> (a \o b)[k].len]
<1> DEFINE u == [k \in DOMAIN a |-> a[k].len]
<1> DEFINE v == [k \in DOMAIN b |-> b[k].len]
<1>0. /\ a \o b \in Seq(Pkt) /\ Len(a \o b) = Len(a) + Len(b) /\ Len(a) \in Nat /\ Len(b) \in Nat
      /\ \A k \in 1..Len(a) : (a \o b)[k] = a[k] /\ k \in 1..Len(a \o b)
      /\ \A k \in 1..Len(b) : (a \o b)[Len(a) + k] = b[k] /\ Len(a) + k \in 1..Len(a \o b)
  OBVIOUS
<1>1. \A k \in 1..Len(a) : k \in T <=> k \in T1
  OBVIOUS
<1>2. \A k \in 1..Len(b) : Len(a) + k \in T <=> k \in T2
  OBVIOUS
<1>3. Asks(a \o b, t) = Picked(w, T) /\ Asks(a, t) = Picked(u, T1) /\ Asks(b, t) = Picked(v, T2)
  BY Zenon DEF Asks
<1>4. w \in Seq(Nat) /\ Len(w) = Len(a \o b) /\ \A k \in 1..Len(a \o b) : w[k] = (a \o b)[k].len
  BY <1>0, LenOf, Zenon
<1>5. u \in Seq(Nat) /\ Len(u) = Len(a) /\ \A k \in 1..Len(a) : u[k] = a[k].len
  BY LenOf, Zenon
<1>6. v \in Seq(Nat) /\ Len(v) = Len(b) /\ \A k \in 1..Len(b) : v[k] = b[k].len
  BY LenOf, Zenon
<1> HIDE DEF T, T1, T2, u, v, w
<1>7. \A k \in 1..Len(u) : w[k] = u[k]
  BY <1>0, <1>4, <1>5, Zenon
<1>8. \A k \in 1..Len(v) : w[Len(u) + k] = v[k]
  BY <1>0, <1>4, <1>5, <1>6, Zenon
<1>9. Len(w) = Len(u) + Len(v)
  BY <1>0, <1>4, <1>5, <1>6
<1>10. w = u \o v
  BY <1>4, <1>5, <1>6, <1>7, <1>8, <1>9, JoinSame
<1>11. Split(u, v, T, T1, T2)
  BY <1>1, <1>2, <1>5, <1>6 DEF Split
<1>12. Picked(u \o v, T) = Picked(u, T1) \o Picked(v, T2)
  BY <1>5, <1>6, <1>11, PickedSplit
<1>13. QED
  BY <1>3, <1>10, <1>12

LEMMA AsksOne ==
  ASSUME NEW p \in Pkt, NEW t
  PROVE  Asks(<<p>>, t) = IF p.type = t THEN <<p.len>> ELSE <<>>
<1> DEFINE w == [k \in DOMAIN <<p>> |-> (<<p>>)[k].len]
<1> DEFINE T == {k \in DOMAIN <<p>> : (<<p>>)[k].type = t}
<1>1. w = <<p.len>> /\ w \in Seq(Nat) /\ Len(w) = 1
  BY DEF Pkt
<1>2. \A k \in 1..1 : k \in T <=> p.type = t
  OBVIOUS
<1>3. Asks(<<p>>, t) = Picked(w, T)
  BY Zenon DEF Asks
<1> HIDE DEF w, T
<1>4. CASE p.type = t
  <2>1. Picked(w, T) = w
    BY <1>1, <1>2, <1>4, PickedAll
  <2>2. QED
    BY <1>1, <1>3, <1>4, <2>1
<1>5. CASE p.type # t
  <2>1. Picked(w, T) = <<>>
    BY <1>1, <1>2, <1>5, PickedNone
  <2>2. QED
    BY <1>1, <1>3, <1>5, <2>1
<1>6. QED
  BY <1>4, <1>5

LEMMA AsksAppend ==
  ASSUME NEW q \in Seq(Pkt), NEW p \in Pkt, NEW t
  PROVE  Asks(Append(q, p), t) = IF p.type = t THEN Append(Asks(q, t), p.len) ELSE Asks(q, t)
<1>1. Append(q, p) = q \o <<p>> /\ <<p>> \in Seq(Pkt) /\ p.len \in Nat
  BY DEF Pkt
<1>2. Asks(q, t) \in Seq(Nat)
  BY AsksType
<1>3. Asks(q \o <<p>>, t) = Asks(q, t) \o Asks(<<p>>, t)
  BY <1>1, AsksConcat, Zenon
<1>4. \A s \in Seq(Nat) : \A x \in Nat : s \o <<x>> = Append(s, x) /\ s \o <<>> = s
  OBVIOUS
<1>5. Asks(q, t) \o <<p.len>> = Append(Asks(q, t), p.len) /\ Asks(q, t) \o <<>> = Asks(q, t)
  BY <1>1, <1>2, <1>4
<1>6. QED
  BY <1>1, <1>3, <1>5, AsksOne, Zenon

LEMMA AsksTail ==
  ASSUME NEW q \in Seq(Pkt), q # <<>>, NEW t
  PROVE  Asks(q, t) = IF q[1].type = t THEN <<q[1].len>> \o Asks(Tail(q), t) ELSE Asks(Tail(q), t)
<1>1. q = <<q[1]>> \o Tail(q) /\ q[1] \in Pkt /\ Tail(q) \in Seq(Pkt) /\ <<q[1]>> \in Seq(Pkt)
  OBVIOUS
<1>2. Asks(<<q[1]>> \o Tail(q), t) = Asks(<<q[1]>>, t) \o Asks(Tail(q), t)
  BY <1>1, AsksConcat, Zenon
<1>3. Asks(Tail(q), t) \in Seq(Nat)
  BY <1>1, AsksType
<1>4. \A s \in Seq(Nat) : <<>> \o s = s
  OBVIOUS
<1>5. <<>> \o Asks(Tail(q), t) = Asks(Tail(q), t)
  BY <1>3, <1>4
<1>6. QED
  BY <1>1, <1>2, <1>5, AsksOne, Zenon

LEMMA AsksNone ==
  ASSUME NEW q \in Seq(Pkt), NEW t, ~Has(q, {t})
  PROVE  Asks(q, t) = <<>>
<1> DEFINE w == [k \in DOMAIN q |-> q[k].len]
<1> DEFINE T == {k \in DOMAIN q : q[k].type = t}
<1>1. w \in Seq(Nat) /\ Len(w) = Len(q)
  BY LenOf, Zenon
<1>2. \A k \in 1..Len(q) : k \notin T
  BY DEF Has
<1>3. Asks(q, t) = Picked(w, T)
  BY Zenon DEF Asks
<1> HIDE DEF w, T
<1>4. Picked(w, T) = <<>>
  BY <1>1, <1>2, PickedNone
<1>5. QED
  BY <1>3, <1>4
-----------------------------------------------------------------------------
(* The packets that data leave in *)

LEMMA LeastOfTwo ==
  ASSUME NEW a \in Int, NEW b \in Int
  PROVE  Min({a, b}) = IF a <= b THEN a ELSE b
<1> DEFINE m == IF a <= b THEN a ELSE b
<1>1. m \in {a, b} /\ \A y \in {a, b} : m <= y
  OBVIOUS
<1>2. \A x \in {a, b} : (\A y \in {a, b} : x <= y) => x = m
  OBVIOUS
<1>3. Min({a, b}) = CHOOSE x \in {a, b} : \A y \in {a, b} : x <= y
  BY DEF Min
<1> HIDE DEF m
<1>4. QED
  BY <1>1, <1>2, <1>3 DEF m

LEMMA HowMany ==
  ASSUME NEW k \in Nat, NEW M \in Nat, M > 0
  PROVE  LET m == (k + M - 1) \div M
         IN  m \in Nat /\ k <= m * M /\ (m = 0 \/ (m - 1) * M < k) /\ (k = 0 => m = 0)
<1> DEFINE m == (k + M - 1) \div M
<1>1. m \in Int /\ M * m <= k + M - 1 /\ k + M - 1 < M * m + M
  OBVIOUS
<1> HIDE DEF m
<1>2. m >= 0
  BY <1>1, SMTT(30)
<1>3. k <= m * M /\ (m - 1) * M < k
  BY <1>1
<1>4. QED
  BY <1>1, <1>2, <1>3 DEF m

LEMMA DataPacketsAre ==
  ASSUME NEW c \in Chan, NEW k \in Nat
  PROVE  LET w == DataPackets(c, k)
         IN  /\ w \in Seq(Pkt) /\ Data(w) = k
             /\ \A i \in DOMAIN w : w[i].type = "DATA" /\ w[i].to = c.remoteid /\ w[i].n = c.n
<1> DEFINE m == (k + MaxPkt - 1) \div MaxPkt
<1> DEFINE g(i) == Min({MaxPkt, k - (i - 1) * MaxPkt})
<1> DEFINE p(i) == [Packet("DATA", c) EXCEPT !.len = g(i)]
<1> DEFINE w == DataPackets(c, k)
<1> DEFINE f == [i \in 0..m |-> IF i * MaxPkt <= k THEN i * MaxPkt ELSE k]
<1>1. MaxPkt \in Nat /\ MaxPkt > 0
  BY SizeAssumption
<1>2. m \in Nat /\ k <= m * MaxPkt /\ (m = 0 \/ (m - 1) * MaxPkt < k) /\ (k = 0 => m = 0)
  BY <1>1, HowMany
<1>3. w = [i \in 1..m |-> p(i)]
  BY DEF DataPackets
<1>4. c.remoteid \in Nat /\ c.n \in 1..MaxOpens
  BY DEF Chan
<1> HIDE DEF m
<1>5. ASSUME NEW i \in 1..m
      PROVE  (i - 1) * MaxPkt < k /\ (i - 1) * MaxPkt \in Nat /\ i * MaxPkt \in Nat
             /\ i * MaxPkt = (i - 1) * MaxPkt + MaxPkt
  <2>1. i - 1 <= m - 1 /\ m - 1 \in Nat /\ i - 1 \in Nat /\ (m - 1) * MaxPkt < k
    BY <1>2
  <2>2. (i - 1) * MaxPkt <= (m - 1) * MaxPkt
    BY <1>1, <2>1
  <2>3. (i - 1) * MaxPkt \in Nat /\ i * MaxPkt \in Nat /\ i * MaxPkt = (i - 1) * MaxPkt + MaxPkt
        /\ (m - 1) * MaxPkt \in Nat
    BY <1>1, <1>2, <2>1
  <2>4. QED
    BY <2>1, <2>2, <2>3
<1>6. ASSUME NEW i \in 1..m
      PROVE  g(i) = (IF MaxPkt <= k - (i - 1) * MaxPkt THEN MaxPkt ELSE k - (i - 1) * MaxPkt) /\ g(i) \in Nat
  <2>1. k - (i - 1) * MaxPkt \in Int
    BY <1>5
  <2>2. g(i) = (IF MaxPkt <= k - (i - 1) * MaxPkt THEN MaxPkt ELSE k - (i - 1) * MaxPkt)
    BY <1>1, <2>1, LeastOfTwo
  <2>3. QED
    BY <1>1, <1>5, <2>2
<1> HIDE DEF g
<1>7. ASSUME NEW i \in 1..m
      PROVE  /\ p(i) \in Pkt /\ p(i).len = g(i) /\ p(i).type = "DATA" /\ p(i).to = c.remoteid
             /\ p(i).n = c.n
  BY <1>4, <1>6 DEF Packet, Pkt
<1> HIDE DEF p, w
<1>8. w \in Seq(Pkt) /\ Len(w) = m /\ \A i \in 1..m : w[i] = p(i)
  BY <1>2, <1>3, <1>7
<1>9. Data(w) = k
  <2> DEFINE l == Lens(w, "DATA")
  <2>1. l \in Seq(Int) /\ Len(l) = m /\ \A i \in 1..m : l[i] = IF w[i].type = "DATA" THEN w[i].len ELSE 0
    BY <1>8, LensType
  <2>2. \A i \in 1..m : l[i] = g(i)
    BY <1>7, <1>8, <2>1, Zenon
  <2> HIDE DEF l
  <2>3. f[0] = 0 /\ f[m] = k /\ f \in [0..m -> Int]
    <3>1. 0 * MaxPkt = 0 /\ \A i \in 0..m : i * MaxPkt \in Int
      BY <1>1, <1>2
    <3>2. f \in [0..m -> Int]
      BY <3>1
    <3>3. f[0] = 0
      BY <1>2, <3>1
    <3>4. m * MaxPkt <= k => m * MaxPkt = k
      BY <1>1, <1>2
    <3>5. f[m] = k
      BY <1>2, <3>4
    <3>6. QED
      BY <3>2, <3>3, <3>5
  <2>4. ASSUME NEW i \in 1..m
        PROVE  f[i] = f[i - 1] + l[i]
    <3>1. i - 1 \in 0..m /\ i \in 0..m
      BY <1>2
    <3>2. f[i] = (IF i * MaxPkt <= k THEN i * MaxPkt ELSE k)
          /\ f[i - 1] = (IF (i - 1) * MaxPkt <= k THEN (i - 1) * MaxPkt ELSE k)
      BY <3>1
    <3>3. l[i] = (IF MaxPkt <= k - (i - 1) * MaxPkt THEN MaxPkt ELSE k - (i - 1) * MaxPkt)
      BY <1>6, <2>2
    <3> DEFINE a == (i - 1) * MaxPkt
    <3> DEFINE b == i * MaxPkt
    <3>4. a < k /\ a \in Nat /\ b \in Nat /\ b = a + MaxPkt
      BY <1>5
    <3> HIDE DEF a, b
    <3>5. QED
      <4>1. f[i] = (IF b <= k THEN b ELSE k) /\ f[i - 1] = (IF a <= k THEN a ELSE k)
            /\ l[i] = (IF MaxPkt <= k - a THEN MaxPkt ELSE k - a)
        BY <3>2, <3>3 DEF a, b
      <4>2. QED
        BY <1>1, <3>4, <4>1
  <2> HIDE DEF f
  <2>5. Sums(f, l) /\ f \in [0..Len(l) -> Int]
    BY <2>1, <2>3, <2>4 DEF Sums
  <2>6. Total(l) = f[Len(l)]
    BY <2>1, <2>5, TotalIs
  <2>7. QED
    BY <2>1, <2>3, <2>6 DEF l, Data
<1>10. \A i \in DOMAIN w : w[i].type = "DATA" /\ w[i].to = c.remoteid /\ w[i].n = c.n
  BY <1>7, <1>8
<1>11. QED
  BY <1>8, <1>9, <1>10 DEF w
-----------------------------------------------------------------------------
(* The two ends when one of them sends *)

Both(c, d, q, r) == Sides(c, d, q, r) /\ Sides(d, c, r, q)
Alike(c, c1) == c1.localid = c.localid /\ c1.remoteid = c.remoteid /\ c1.halfopen = c.halfopen

LEMMA JoinedPlaces ==
  ASSUME NEW q \in Seq(Pkt), NEW w \in Seq(Pkt)
  PROVE  /\ q \o w \in Seq(Pkt) /\ (q # <<>> => q \o w # <<>> /\ (q \o w)[1] = q[1])
         /\ \A i \in DOMAIN (q \o w) :
              \/ i \in DOMAIN q /\ (q \o w)[i] = q[i]
              \/ /\ i > Len(q) /\ i - Len(q) \in DOMAIN w /\ (q \o w)[i] = w[i - Len(q)]
                 /\ \A j \in DOMAIN q : j < i
         /\ \A i \in DOMAIN q : i \in DOMAIN (q \o w) /\ (q \o w)[i] = q[i]
         /\ \A i \in DOMAIN w : Len(q) + i \in DOMAIN (q \o w) /\ (q \o w)[Len(q) + i] = w[i]
OBVIOUS

LEMMA HasConcat ==
  ASSUME NEW q \in Seq(Pkt), NEW w \in Seq(Pkt), NEW T
  PROVE  Has(q \o w, T) <=> Has(q, T) \/ Has(w, T)
<1> DEFINE v == q \o w
<1>1. \A i \in DOMAIN v : \/ i \in DOMAIN q /\ v[i] = q[i]
                          \/ i - Len(q) \in DOMAIN w /\ v[i] = w[i - Len(q)]
  BY JoinedPlaces
<1>2. /\ \A i \in DOMAIN q : i \in DOMAIN v /\ v[i] = q[i]
      /\ \A i \in DOMAIN w : Len(q) + i \in DOMAIN v /\ v[Len(q) + i] = w[i]
  BY JoinedPlaces
<1> HIDE DEF v
<1>3. Has(v, T) => Has(q, T) \/ Has(w, T)
  BY <1>1 DEF Has
<1>4. Has(q, T) \/ Has(w, T) => Has(v, T)
  BY <1>2 DEF Has
<1>5. QED
  BY <1>3, <1>4 DEF v

LEMMA DataSums ==
  ASSUME NEW q \in Seq(Pkt), NEW w \in Seq(Pkt)
  PROVE  /\ Data(q \o w) = Data(q) + Data(w) /\ Data(q) \in Nat /\ Data(w) \in Nat
         /\ Adjusts(q \o w) = Adjusts(q) + Adjusts(w) /\ Adjusts(q) \in Nat /\ Adjusts(w) \in Nat
BY LensConcat, LensNat DEF Data, Adjusts

LEMMA DataNone ==
  ASSUME NEW q \in Seq(Pkt)
  PROVE  (~Has(q, {"DATA"}) => Data(q) = 0) /\ (~Has(q, {"WINDOW_ADJUST"}) => Adjusts(q) = 0)
BY LensNone DEF Data, Adjusts

\* Packets of one type are put on a queue.
Ours(c, w, t) == \A i \in DOMAIN w : w[i].type = t /\ w[i].to = c.remoteid

Grows(q, w, t) ==
  /\ q \o w \in Seq(Pkt) /\ (q # <<>> => q \o w # <<>> /\ (q \o w)[1] = q[1])
  /\ Data(q \o w) = Data(q) + Data(w) /\ Data(q) \in Nat /\ Data(w) \in Nat
  /\ t # "DATA" => Data(w) = 0
  /\ Adjusts(q \o w) = Adjusts(q) + Adjusts(w) /\ Adjusts(q) \in Nat /\ Adjusts(w) \in Nat
  /\ t # "WINDOW_ADJUST" => Adjusts(w) = 0
  /\ t # "FAILURE" => Asks(q \o w, "FAILURE") = Asks(q, "FAILURE")
  /\ t # "REQUEST" => Asks(q \o w, "REQUEST") = Asks(q, "REQUEST")

LEMMA PushedGrows ==
  ASSUME NEW c, NEW q \in Seq(Pkt), NEW w \in Seq(Pkt), NEW t, Ours(c, w, t)
  PROVE  Grows(q, w, t)
<1>1. \A T : t \notin T => ~Has(w, T)
  BY DEF Has, Ours
<1>2. /\ t # "DATA" => Data(w) = 0
      /\ t # "WINDOW_ADJUST" => Adjusts(w) = 0
  BY <1>1, DataNone
<1>3. ASSUME NEW a, t # a
      PROVE  Asks(q \o w, a) = Asks(q, a)
  <2>1. Asks(w, a) = <<>> /\ Asks(q, a) \in Seq(Nat)
    BY <1>1, <1>3, AsksNone, AsksType
  <2>2. Asks(q \o w, a) = Asks(q, a) \o Asks(w, a)
    BY AsksConcat
  <2>3. QED
    BY <2>1, <2>2
<1>4. /\ q \o w \in Seq(Pkt) /\ (q # <<>> => q \o w # <<>> /\ (q \o w)[1] = q[1])
  BY JoinedPlaces
<1>5. QED
  BY <1>2, <1>3, <1>4, DataSums DEF Grows

LEMMA PushedOrder ==
  ASSUME NEW c, NEW q \in Seq(Pkt), NEW w \in Seq(Pkt), NEW t, Ours(c, w, t), Ordered(q),
         ~Has(q, {"CLOSE"}), t \in {"DATA", "EOF"} => ~Has(q, {"EOF"}),
         t \in {"EOF", "CLOSE"} => Len(w) = 1
  PROVE  Ordered(q \o w) /\ \A T : Has(q \o w, T) <=> Has(q, T) \/ (w # <<>> /\ t \in T)
<1> DEFINE v == q \o w
<1>1. \A i \in DOMAIN v :
        \/ i \in DOMAIN q /\ v[i] = q[i]
        \/ /\ i > Len(q) /\ i - Len(q) \in DOMAIN w /\ v[i] = w[i - Len(q)]
           /\ \A j \in DOMAIN q : j < i
  BY JoinedPlaces
<1>2. \A i \in DOMAIN q : q[i].type # "CLOSE" /\ (t \in {"DATA", "EOF"} => q[i].type # "EOF")
  BY DEF Has
<1>3. DOMAIN v \subseteq Nat
  BY JoinedPlaces
<1>4. \A i \in DOMAIN v : (i \in DOMAIN q /\ v[i] = q[i]) \/ (i > Len(q) /\ i - Len(q) \in DOMAIN w /\ v[i].type = t)
  BY <1>1 DEF Ours
<1> HIDE DEF v
<1>5. ASSUME NEW i \in DOMAIN v, NEW j \in DOMAIN v, i < j
      PROVE  v[i].type # "CLOSE" /\ (v[i].type = "EOF" => v[j].type \notin {"DATA", "EOF"})
  <2>1. CASE i \in DOMAIN q /\ v[i] = q[i]
    <3>1. CASE j \in DOMAIN q /\ v[j] = q[j]
      BY <1>5, <2>1, <3>1 DEF Ordered
    <3>2. CASE v[j].type = t
      BY <1>2, <2>1, <3>2
    <3>3. QED
      BY <1>4, <3>1, <3>2
  <2>2. CASE i > Len(q) /\ i - Len(q) \in DOMAIN w /\ v[i].type = t
    <3>1. j \notin DOMAIN q
      BY <1>3, <1>5, <2>2
    <3>2. j - Len(q) \in DOMAIN w /\ i - Len(q) \in DOMAIN w
      BY <1>4, <2>2, <3>1
    <3>3. Len(w) # 1
      BY <1>3, <1>5, <3>2
    <3>4. t \notin {"EOF", "CLOSE"}
      BY <3>3
    <3>5. QED
      BY <2>2, <3>4
  <2>3. QED
    BY <1>4, <2>1, <2>2
<1>6. ASSUME NEW T
      PROVE  Has(q \o w, T) <=> Has(q, T) \/ (w # <<>> /\ t \in T)
  <2>1. Has(w, T) <=> w # <<>> /\ t \in T
    BY DEF Has, Ours
  <2>2. QED
    BY <2>1, HasConcat
<1>7. Ordered(v)
  BY <1>5 DEF Ordered
<1>8. QED
  BY <1>6, <1>7 DEF v

LEMMA AddressedPushed ==
  ASSUME NEW c \in Chan, NEW c1 \in Chan, NEW d \in Chan, NEW q \in Seq(Pkt), NEW r \in Seq(Pkt),
         NEW w \in Seq(Pkt), Alike(c, c1), Addressed(c, d, q), Addressed(d, c, r), ~c.halfopen,
         NEW t \in {"DATA", "WINDOW_ADJUST", "REQUEST", "FAILURE", "EOF", "CLOSE"}, Ours(c, w, t)
  PROVE  Addressed(c1, d, q \o w) /\ Addressed(d, c1, r)
<1> DEFINE v == q \o w
<1>1. v \in Seq(Pkt) /\ (q # <<>> => v # <<>> /\ v[1] = q[1])
  BY JoinedPlaces
<1>2. \A i \in DOMAIN v : \/ i \in DOMAIN q /\ v[i] = q[i]
                          \/ i - Len(q) \in DOMAIN w /\ v[i] = w[i - Len(q)] /\ i > Len(q)
  BY JoinedPlaces
<1> HIDE DEF v
<1>3. \A i \in DOMAIN v : v[i].to = d.localid /\ v[i].type \notin {"OPEN", "OPEN_FAILURE"}
  BY <1>2 DEF Addressed, Ours
<1>4. ASSUME NEW i \in DOMAIN v
      PROVE  v[i].type = "OPEN_CONFIRMATION" <=> (i = 1 /\ d.halfopen)
  <2>1. CASE i \in DOMAIN q /\ v[i] = q[i]
    BY <2>1 DEF Addressed
  <2>2. CASE i - Len(q) \in DOMAIN w /\ v[i] = w[i - Len(q)] /\ i > Len(q)
    <3>1. v[i].type # "OPEN_CONFIRMATION"
      BY <2>2 DEF Ours
    <3>2. d.halfopen => q # <<>>
      BY DEF Addressed
    <3>3. d.halfopen => i # 1
      BY <2>2, <3>2
    <3>4. QED
      BY <3>1, <3>3
  <2>3. QED
    BY <1>2, <2>1, <2>2
<1>5. Addressed(c1, d, v)
  BY <1>1, <1>3, <1>4 DEF Addressed, Alike
<1>6. Addressed(d, c1, r)
  BY DEF Addressed, Alike
<1>7. QED
  BY <1>5, <1>6 DEF v

\* A change of other things.
LEMMA BothSame ==
  ASSUME NEW c \in Chan, NEW c1 \in Chan, NEW d \in Chan, NEW q \in Seq(Pkt), NEW r \in Seq(Pkt),
         Both(c, d, q, r), Alike(c, c1), c1.closes = c.closes, c1.remwindow = c.remwindow,
         c1.locwindow = c.locwindow, c1.chanreqs = c.chanreqs
  PROVE  Both(c1, d, q, r)
BY DEF Both, Sides, Addressed, Ends, Answered, Windows, Alike


LEMMA BothPushed ==
  ASSUME NEW c \in Chan, NEW c1 \in Chan, NEW d \in Chan, NEW q \in Seq(Pkt), NEW r \in Seq(Pkt),
         NEW w \in Seq(Pkt), Both(c, d, q, r), Alike(c, c1), ~c.halfopen, "SENT_CLOSE" \notin c.closes,
         NEW t \in {"DATA", "WINDOW_ADJUST", "REQUEST", "FAILURE", "EOF", "CLOSE"}, Ours(c, w, t),
         t \in {"DATA", "EOF"} => "SENT_EOF" \notin c.closes,
         t \in {"EOF", "CLOSE"} => Len(w) = 1,
         c1.closes = c.closes \cup (IF t \in {"EOF", "CLOSE"} THEN {"SENT_EOF"} ELSE {})
                              \cup (IF t = "CLOSE" THEN {"SENT_CLOSE"} ELSE {})
  PROVE  /\ Addressed(c1, d, q \o w) /\ Addressed(d, c1, r) /\ Ends(c1, d, q \o w) /\ Ends(d, c1, r)
<1> DEFINE v == q \o w
<1>1. Addressed(c1, d, v) /\ Addressed(d, c1, r)
  BY AddressedPushed DEF Both, Sides
<1>2. ~Has(q, {"CLOSE"}) /\ "RCVD_CLOSE" \notin d.closes /\ Ordered(q)
  BY DEF Both, Sides, Ends
<1>3. t \in {"DATA", "EOF"} => ~Has(q, {"EOF"}) /\ "RCVD_EOF" \notin d.closes
  BY DEF Both, Sides, Ends
<1>4. Ordered(v) /\ \A T : Has(v, T) <=> Has(q, T) \/ (w # <<>> /\ t \in T)
  BY <1>2, <1>3, PushedOrder
<1>5. Len(w) = 1 => w # <<>>
  OBVIOUS
<1> HIDE DEF v
<1>6. "SENT_CLOSE" \in c1.closes <=> "RCVD_CLOSE" \in d.closes \/ Has(v, {"CLOSE"})
  BY <1>2, <1>4, <1>5
<1>7. "RCVD_EOF" \in d.closes \/ Has(v, {"EOF"}) => "SENT_EOF" \in c1.closes
  BY <1>4 DEF Both, Sides, Ends
<1>8. "RCVD_EOF" \in d.closes => ~Has(v, {"DATA", "EOF"})
  BY <1>3, <1>4 DEF Both, Sides, Ends
<1>9. Ends(c1, d, v)
  BY <1>2, <1>4, <1>6, <1>7, <1>8 DEF Ends
<1>10. Ends(d, c1, r)
  BY DEF Both, Sides, Ends
<1>11. QED
  BY <1>1, <1>9, <1>10 DEF v

LEMMA BothData ==
  ASSUME NEW c \in Chan, NEW c1 \in Chan, NEW d \in Chan, NEW q \in Seq(Pkt), NEW r \in Seq(Pkt),
         NEW w \in Seq(Pkt), Both(c, d, q, r), Alike(c, c1), ~c.halfopen, c1.closes = c.closes,
         c1.remwindow = c.remwindow - Data(w), c1.locwindow = c.locwindow,
         c1.chanreqs = c.chanreqs, {"SENT_EOF", "SENT_CLOSE"} \cap c.closes = {}, Ours(c, w, "DATA")
  PROVE  Both(c1, d, q \o w, r)
<1> DEFINE v == q \o w
<1>1. Addressed(c1, d, v) /\ Addressed(d, c1, r) /\ Ends(c1, d, v) /\ Ends(d, c1, r)
  BY BothPushed
<1>G. Grows(q, w, "DATA")
  BY PushedGrows, Zenon
<1>2. /\ Data(v) = Data(q) + Data(w) /\ Data(q) \in Nat /\ Data(w) \in Nat
      /\ Adjusts(v) = Adjusts(q) /\ Adjusts(q) \in Nat
      /\ q # <<>> => v[1] = q[1]
  BY <1>G DEF Grows
<1>3. Asks(v, "FAILURE") = Asks(q, "FAILURE") /\ Asks(v, "REQUEST") = Asks(q, "REQUEST")
  BY <1>G DEF Grows
<1>4. Adjusts(r) \in Nat /\ Data(r) \in Nat
  BY DataSums
<1>5. c.remwindow \in Nat /\ c1.remwindow \in Nat /\ c.locwindow \in Nat /\ d.locwindow \in Nat
  BY DEF Chan
<1> HIDE DEF v
<1>6. Answered(c1, d, v, r) /\ Answered(d, c1, r, v)
  BY <1>3 DEF Both, Sides, Answered
<1>7. Windows(c1, d, v, r) /\ Windows(d, c1, r, v)
  <2>1. Windows(c, d, q, r) /\ Windows(d, c, r, q) /\ (d.halfopen => q # <<>>)
    BY DEF Both, Sides, Addressed
  <2>2. Windows(c1, d, v, r)
    <3>1. ~c1.halfopen /\ c.remwindow + Data(q) + Adjusts(r) = d.locwindow
      BY <2>1 DEF Windows, Alike
    <3>2. c1.remwindow + Data(v) + Adjusts(r) = d.locwindow /\ Data(v) <= d.locwindow
      <4>1. c1.remwindow + Data(w) = c.remwindow
        BY <1>2, <1>5
      <4>2. c1.remwindow + Data(v) + Adjusts(r) = d.locwindow
        BY <1>2, <1>4, <1>5, <3>1, <4>1
      <4>3. Data(v) \in Nat
        BY <1>2
      <4>4. \A x, y, z, u \in Nat : x + y + z = u => y <= u
        OBVIOUS
      <4>5. QED
        BY <1>4, <1>5, <4>2, <4>3, <4>4
    <3>3. QED
      BY <3>1, <3>2 DEF Windows
  <2>3. Windows(d, c1, r, v)
    BY <1>2, <1>4, <1>5, <2>1 DEF Windows, Alike
  <2>4. QED
    BY <2>2, <2>3
<1>8. QED
  BY <1>1, <1>6, <1>7 DEF v, Both, Sides

LEMMA BothRequest ==
  ASSUME NEW c \in Chan, NEW c1 \in Chan, NEW d \in Chan, NEW q \in Seq(Pkt), NEW r \in Seq(Pkt),
         NEW p \in Pkt, Both(c, d, q, r), Alike(c, c1), ~c.halfopen, c1.closes = c.closes,
         c1.remwindow = c.remwindow, c1.locwindow = c.locwindow,
         c1.chanreqs = Append(c.chanreqs, p.len), "SENT_CLOSE" \notin c.closes,
         p.type = "REQUEST", p.to = c.remoteid
  PROVE  Both(c1, d, q \o <<p>>, r)
<1> DEFINE v == q \o <<p>>
<1>0. <<p>> \in Seq(Pkt) /\ Ours(c, <<p>>, "REQUEST") /\ p.len \in Nat /\ v = Append(q, p)
  BY DEF Ours, Pkt
<1>1. Addressed(c1, d, v) /\ Addressed(d, c1, r) /\ Ends(c1, d, v) /\ Ends(d, c1, r)
  BY <1>0, BothPushed
<1>G. Grows(q, <<p>>, "REQUEST")
  BY <1>0, PushedGrows, Zenon
<1>2. /\ Data(v) = Data(q) /\ Data(q) \in Nat
      /\ Adjusts(v) = Adjusts(q) /\ Adjusts(q) \in Nat
      /\ q # <<>> => v[1] = q[1]
  BY <1>G DEF Grows
<1>3. Asks(v, "FAILURE") = Asks(q, "FAILURE") /\ Asks(v, "REQUEST") = Append(Asks(q, "REQUEST"), p.len)
  BY <1>0, <1>G, AsksAppend, ZenonT(40) DEF Grows
<1> HIDE DEF v
<1>4. Answered(c1, d, v, r)
  BY <1>3 DEF Both, Sides, Answered
<1>5. Answered(d, c1, r, v)
  <2>1. PICK rest \in Seq(Nat) : /\ c.chanreqs = Asks(r, "FAILURE") \o rest
                                 /\ "SENT_CLOSE" \notin d.closes => rest = Asks(q, "REQUEST")
    BY DEF Both, Sides, Answered
  <2>2. Asks(r, "FAILURE") \in Seq(Nat)
    BY AsksType
  <2>3. Append(rest, p.len) \in Seq(Nat)
    BY <1>0
  <2>4. Asks(r, "FAILURE") \o Append(rest, p.len) = Append(Asks(r, "FAILURE") \o rest, p.len)
    <3>1. \A a, b \in Seq(Nat) : \A x \in Nat : a \o Append(b, x) = Append(a \o b, x)
      BY AppendConcat, SMTT(30)
    <3>2. QED
      BY <1>0, <2>1, <2>2, <3>1
  <2>5. c1.chanreqs = Asks(r, "FAILURE") \o Append(rest, p.len)
    BY <2>1, <2>4
  <2>6. "SENT_CLOSE" \notin d.closes => Append(rest, p.len) = Asks(v, "REQUEST")
    BY <1>3, <2>1
  <2>7. QED
    BY <2>3, <2>5, <2>6 DEF Answered
<1>6. Windows(c1, d, v, r) /\ Windows(d, c1, r, v)
  <2>1. Windows(c, d, q, r) /\ Windows(d, c, r, q) /\ (d.halfopen => q # <<>>)
    BY DEF Both, Sides, Addressed
  <2>2. QED
    BY <1>2, <2>1 DEF Windows, Alike
<1>7. QED
  BY <1>1, <1>4, <1>5, <1>6 DEF v, Both, Sides

LEMMA BothAdjust ==
  ASSUME NEW c \in Chan, NEW c1 \in Chan, NEW d \in Chan, NEW q \in Seq(Pkt), NEW r \in Seq(Pkt),
         NEW p \in Pkt, Both(c, d, q, r), Alike(c, c1), ~c.halfopen, c1.closes = c.closes,
         c1.remwindow = c.remwindow, c1.locwindow = c.locwindow + p.len,
         c1.chanreqs = c.chanreqs, "SENT_CLOSE" \notin c.closes,
         p.type = "WINDOW_ADJUST", p.to = c.remoteid
  PROVE  Both(c1, d, q \o <<p>>, r)
<1> DEFINE v == q \o <<p>>
<1>0. <<p>> \in Seq(Pkt) /\ Ours(c, <<p>>, "WINDOW_ADJUST") /\ p.len \in Nat
  BY DEF Ours, Pkt
<1>1. Addressed(c1, d, v) /\ Addressed(d, c1, r) /\ Ends(c1, d, v) /\ Ends(d, c1, r)
  BY <1>0, BothPushed
<1>G. Grows(q, <<p>>, "WINDOW_ADJUST")
  BY <1>0, PushedGrows, Zenon
<1>2. /\ Data(v) = Data(q) /\ Data(q) \in Nat
      /\ Adjusts(v) = Adjusts(q) + p.len /\ Adjusts(q) \in Nat
      /\ q # <<>> => v[1] = q[1]
  <2>1. Adjusts(<<p>>) = p.len
    BY LensOne DEF Adjusts
  <2>2. QED
    BY <1>0, <1>G, <2>1 DEF Grows
<1>3. Asks(v, "FAILURE") = Asks(q, "FAILURE") /\ Asks(v, "REQUEST") = Asks(q, "REQUEST")
  BY <1>G DEF Grows
<1>4. /\ Adjusts(r) \in Nat /\ Data(r) \in Nat /\ c.locwindow \in Nat /\ d.locwindow \in Nat
      /\ d.remwindow \in Nat
  BY DataSums DEF Chan
<1> HIDE DEF v
<1>5. Answered(c1, d, v, r) /\ Answered(d, c1, r, v)
  BY <1>3 DEF Both, Sides, Answered
<1>6. Windows(c1, d, v, r) /\ Windows(d, c1, r, v)
  <2>1. Windows(c, d, q, r) /\ Windows(d, c, r, q) /\ (d.halfopen => q # <<>>)
    BY DEF Both, Sides, Addressed
  <2>2. Windows(c1, d, v, r)
    BY <1>2, <2>1 DEF Windows, Alike
  <2>3. d.halfopen => q[1].len \in Int
    <3>1. q # <<>> => q[1] \in Pkt
      OBVIOUS
    <3>2. QED
      BY <2>1, <3>1 DEF Pkt
  <2>4. Windows(d, c1, r, v)
    <3>1. /\ ~d.halfopen /\ "SENT_EOF" \notin d.closes => d.remwindow + Data(r) + Adjusts(q) = c.locwindow
          /\ d.halfopen => q[1].len + Adjusts(q) = c.locwindow
          /\ Data(r) <= c.locwindow
      BY <2>1 DEF Windows
    <3>2. /\ ~d.halfopen /\ "SENT_EOF" \notin d.closes => d.remwindow + Data(r) + Adjusts(v) = c1.locwindow
          /\ Data(r) <= c1.locwindow
      BY <1>0, <1>2, <1>4, <3>1, SMTT(30)
    <3>3. d.halfopen => v[1].len + Adjusts(v) = c1.locwindow
      BY <1>0, <1>2, <1>4, <2>1, <2>3, <3>1, SMTT(30)
    <3>4. QED
      BY <3>2, <3>3 DEF Windows
  <2>5. QED
    BY <2>2, <2>4
<1>7. QED
  BY <1>1, <1>5, <1>6 DEF v, Both, Sides

LEMMA BothEof ==
  ASSUME NEW c \in Chan, NEW c1 \in Chan, NEW d \in Chan, NEW q \in Seq(Pkt), NEW r \in Seq(Pkt),
         NEW p \in Pkt, Both(c, d, q, r), Alike(c, c1), ~c.halfopen,
         c1.remwindow = c.remwindow, c1.locwindow = c.locwindow, c1.chanreqs = c.chanreqs,
         {"SENT_EOF", "SENT_CLOSE"} \cap c.closes = {}, c1.closes = c.closes \cup {"SENT_EOF"},
         p.type = "EOF", p.to = c.remoteid
  PROVE  Both(c1, d, q \o <<p>>, r)
<1> DEFINE v == q \o <<p>>
<1>0. <<p>> \in Seq(Pkt) /\ Ours(c, <<p>>, "EOF") /\ Len(<<p>>) = 1
  BY DEF Ours
<1>1. Addressed(c1, d, v) /\ Addressed(d, c1, r) /\ Ends(c1, d, v) /\ Ends(d, c1, r)
  BY <1>0, BothPushed
<1>G. Grows(q, <<p>>, "EOF")
  BY <1>0, PushedGrows, Zenon
<1>2. /\ Data(v) = Data(q) /\ Adjusts(v) = Adjusts(q) /\ (q # <<>> => v[1] = q[1])
  BY <1>G DEF Grows
<1>3. Asks(v, "FAILURE") = Asks(q, "FAILURE") /\ Asks(v, "REQUEST") = Asks(q, "REQUEST")
  BY <1>G DEF Grows
<1> HIDE DEF v
<1>5. Answered(c1, d, v, r) /\ Answered(d, c1, r, v)
  BY <1>3 DEF Both, Sides, Answered
<1>6. Windows(c1, d, v, r) /\ Windows(d, c1, r, v)
  <2>1. Windows(c, d, q, r) /\ Windows(d, c, r, q) /\ (d.halfopen => q # <<>>)
    BY DEF Both, Sides, Addressed
  <2>2. QED
    BY <1>2, <2>1 DEF Windows, Alike
<1>7. QED
  BY <1>1, <1>5, <1>6 DEF v, Both, Sides

LEMMA BothClose ==
  ASSUME NEW c \in Chan, NEW c1 \in Chan, NEW d \in Chan, NEW q \in Seq(Pkt), NEW r \in Seq(Pkt),
         NEW p \in Pkt, Both(c, d, q, r), Alike(c, c1), ~c.halfopen,
         c1.remwindow = c.remwindow, c1.locwindow = c.locwindow, c1.chanreqs = c.chanreqs,
         "SENT_CLOSE" \notin c.closes, c1.closes = c.closes \cup {"SENT_EOF", "SENT_CLOSE"},
         p.type = "CLOSE", p.to = c.remoteid
  PROVE  Both(c1, d, q \o <<p>>, r)
<1> DEFINE v == q \o <<p>>
<1>0. <<p>> \in Seq(Pkt) /\ Ours(c, <<p>>, "CLOSE") /\ Len(<<p>>) = 1
  BY DEF Ours
<1>1. Addressed(c1, d, v) /\ Addressed(d, c1, r) /\ Ends(c1, d, v) /\ Ends(d, c1, r)
  BY <1>0, BothPushed
<1>G. Grows(q, <<p>>, "CLOSE")
  BY <1>0, PushedGrows, Zenon
<1>2. /\ Data(v) = Data(q) /\ Adjusts(v) = Adjusts(q) /\ (q # <<>> => v[1] = q[1])
  BY <1>G DEF Grows
<1>3. Asks(v, "FAILURE") = Asks(q, "FAILURE") /\ Asks(v, "REQUEST") = Asks(q, "REQUEST")
  BY <1>G DEF Grows
<1> HIDE DEF v
<1>5. Answered(c1, d, v, r) /\ Answered(d, c1, r, v)
  BY <1>3 DEF Both, Sides, Answered
<1>6. Windows(c1, d, v, r) /\ Windows(d, c1, r, v)
  <2>1. Windows(c, d, q, r) /\ Windows(d, c, r, q) /\ (d.halfopen => q # <<>>)
    BY DEF Both, Sides, Addressed
  <2>2. QED
    BY <1>2, <2>1 DEF Windows, Alike
<1>7. QED
  BY <1>1, <1>5, <1>6 DEF v, Both, Sides
-----------------------------------------------------------------------------
(* The two ends when one of them receives *)

\* The first packet is taken from a queue.
Shrinks(r) ==
  LET p == r[1]
      rest == Tail(r)
  IN  /\ rest \in Seq(Pkt) /\ p \in Pkt
      /\ \A T : Has(r, T) <=> p.type \in T \/ Has(rest, T)
      /\ Data(r) = Data(rest) + (IF p.type = "DATA" THEN p.len ELSE 0) /\ Data(rest) \in Nat
      /\ Adjusts(r) = Adjusts(rest) + (IF p.type = "WINDOW_ADJUST" THEN p.len ELSE 0)
      /\ Adjusts(rest) \in Nat
      /\ \A t : Asks(r, t) = IF p.type = t THEN <<p.len>> \o Asks(rest, t) ELSE Asks(rest, t)
      /\ \A i \in DOMAIN rest : i + 1 \in DOMAIN r /\ rest[i] = r[i + 1] /\ i + 1 # 1 /\ i \in Nat

LEMMA TailShrinks ==
  ASSUME NEW r \in Seq(Pkt), r # <<>>
  PROVE  Shrinks(r)
<1> DEFINE p == r[1]
<1> DEFINE rest == Tail(r)
<1>1. rest \in Seq(Pkt) /\ p \in Pkt /\ 1 \in DOMAIN r
  OBVIOUS
<1>2. p.len \in Nat
  BY <1>1 DEF Pkt
<1>3. \A i \in DOMAIN rest : i + 1 \in DOMAIN r /\ rest[i] = r[i + 1] /\ i + 1 # 1 /\ i \in Nat
  OBVIOUS
<1>4. \A i \in DOMAIN r : i = 1 \/ (i - 1 \in DOMAIN rest /\ rest[i - 1] = r[i])
  OBVIOUS
<1>5. /\ Data(r) = Data(rest) + (IF p.type = "DATA" THEN p.len ELSE 0) /\ Data(rest) \in Nat
      /\ Adjusts(r) = Adjusts(rest) + (IF p.type = "WINDOW_ADJUST" THEN p.len ELSE 0)
      /\ Adjusts(rest) \in Nat
  <2>1. Data(rest) \in Nat /\ Adjusts(rest) \in Nat
    BY <1>1, LensNat DEF Data, Adjusts
  <2>2. /\ Data(r) = (IF p.type = "DATA" THEN p.len ELSE 0) + Data(rest)
        /\ Adjusts(r) = (IF p.type = "WINDOW_ADJUST" THEN p.len ELSE 0) + Adjusts(rest)
    BY LensTail DEF Data, Adjusts
  <2> HIDE DEF p, rest
  <2>3. QED
    BY <1>2, <2>1, <2>2
<1>6. \A t : Asks(r, t) = IF p.type = t THEN <<p.len>> \o Asks(rest, t) ELSE Asks(rest, t)
  BY AsksTail
<1> HIDE DEF rest
<1>7. ASSUME NEW T
      PROVE  Has(r, T) <=> p.type \in T \/ Has(rest, T)
  BY <1>1, <1>3, <1>4 DEF Has
<1>8. QED
  BY <1>1, <1>3, <1>5, <1>6, <1>7 DEF rest, Shrinks

LEMMA TailOrdered ==
  ASSUME NEW r \in Seq(Pkt), r # <<>>, Ordered(r)
  PROVE  /\ Ordered(Tail(r))
         /\ r[1].type = "CLOSE" => Tail(r) = <<>>
         /\ r[1].type = "EOF" => ~Has(Tail(r), {"DATA", "EOF"})
<1> DEFINE rest == Tail(r)
<1>1. rest \in Seq(Pkt) /\ 1 \in DOMAIN r
  OBVIOUS
<1>2. \A i \in DOMAIN rest : i + 1 \in DOMAIN r /\ rest[i] = r[i + 1] /\ 1 < i + 1 /\ i \in Nat
  OBVIOUS
<1>3. rest # <<>> => 1 \in DOMAIN rest
  OBVIOUS
<1> HIDE DEF rest
<1>4. Ordered(rest)
  <2> SUFFICES ASSUME NEW i \in DOMAIN rest, NEW j \in DOMAIN rest, i < j
               PROVE  /\ rest[i].type # "CLOSE"
                      /\ rest[i].type = "EOF" => rest[j].type \notin {"DATA", "EOF"}
    BY DEF Ordered
  <2>1. i + 1 < j + 1 /\ i + 1 \in DOMAIN r /\ j + 1 \in DOMAIN r
    BY <1>2
  <2>2. QED
    BY <1>2, <2>1 DEF Ordered
<1>5. \A i \in DOMAIN rest : /\ r[1].type # "CLOSE"
                             /\ r[1].type = "EOF" => rest[i].type \notin {"DATA", "EOF"}
  BY <1>1, <1>2 DEF Ordered
<1>6. QED
  BY <1>3, <1>4, <1>5 DEF rest, Has

LEMMA BothPopped ==
  ASSUME NEW c \in Chan, NEW c1 \in Chan, NEW d \in Chan, NEW q \in Seq(Pkt), NEW r \in Seq(Pkt),
         Both(c, d, q, r), Sound(d), r # <<>>, c1.localid = c.localid, ~c1.halfopen,
         c1.remoteid = (IF c.halfopen THEN r[1].from ELSE c.remoteid),
         c1.closes = c.closes \cup (IF r[1].type \in {"EOF", "CLOSE"} THEN {"RCVD_EOF"} ELSE {})
                              \cup (IF r[1].type = "CLOSE" THEN {"RCVD_CLOSE"} ELSE {})
  PROVE  /\ Addressed(c1, d, q) /\ Addressed(d, c1, Tail(r)) /\ Ends(c1, d, q) /\ Ends(d, c1, Tail(r))
         /\ c.halfopen <=> r[1].type = "OPEN_CONFIRMATION"
         /\ c.halfopen => ~d.halfopen /\ q = <<>>
         /\ "RCVD_CLOSE" \notin c.closes
<1> DEFINE p == r[1]
<1> DEFINE rest == Tail(r)
<1>1. Shrinks(r)
  BY TailShrinks
<1>2. /\ Ordered(rest)
      /\ p.type = "CLOSE" => rest = <<>>
      /\ p.type = "EOF" => ~Has(rest, {"DATA", "EOF"})
  <2>1. Ordered(r)
    BY DEF Both, Sides, Ends
  <2>2. QED
    BY <2>1, TailOrdered
<1>3. 1 \in DOMAIN r
  OBVIOUS
<1>4. /\ \A T : Has(r, T) <=> p.type \in T \/ Has(rest, T)
      /\ \A i \in DOMAIN rest : i + 1 \in DOMAIN r /\ rest[i] = r[i + 1] /\ i + 1 # 1
      /\ p \in Pkt
  BY <1>1 DEF Shrinks
<1>5. c.halfopen <=> p.type = "OPEN_CONFIRMATION"
  BY <1>3 DEF Both, Sides, Addressed
<1>6. c.halfopen => ~d.halfopen /\ q = <<>> /\ p.from = d.localid
  BY DEF Both, Sides, Addressed
<1>7. "RCVD_CLOSE" \notin c.closes /\ rest \in Seq(Pkt)
  BY DEF Both, Sides, Ends
<1>8. ~Has(<<>>, {"CLOSE"}) /\ ~Has(<<>>, {"DATA", "EOF"})
  BY DEF Has
<1> HIDE DEF p, rest
<1>9. Addressed(c1, d, q)
  <2>1. Addressed(c, d, q)
    BY DEF Both, Sides
  <2>2. c1.remoteid = d.localid
    BY <1>6, <2>1 DEF Addressed, p
  <2>3. d.halfopen => q # <<>> /\ q[1].from = c1.localid
    BY <2>1 DEF Addressed
  <2>4. QED
    BY <2>1, <2>2, <2>3 DEF Addressed
<1>10. Addressed(d, c1, rest)
  <2>1. Addressed(d, c, r)
    BY DEF Both, Sides
  <2>2. \A i \in DOMAIN rest : rest[i].to = c.localid /\ rest[i].type \notin {"OPEN", "OPEN_FAILURE"}
    BY <1>4, <2>1 DEF Addressed
  <2>3. \A i \in DOMAIN rest : rest[i].type # "OPEN_CONFIRMATION"
    BY <1>4, <2>1 DEF Addressed
  <2>4. d.halfopen => rest = <<>>
    BY <2>1 DEF Addressed, rest
  <2>5. ~d.halfopen => d.remoteid = c1.localid
    BY <2>1 DEF Addressed
  <2>6. QED
    BY <2>2, <2>3, <2>4, <2>5 DEF Addressed
<1>11. Ends(c1, d, q)
  BY DEF Both, Sides, Ends, p
<1>12. Ends(d, c1, rest)
  <2>1. Ends(d, c, r)
    BY DEF Both, Sides
  <2>2. "SENT_CLOSE" \in d.closes <=> "RCVD_CLOSE" \in c1.closes \/ Has(rest, {"CLOSE"})
    BY <1>2, <1>4, <1>7, <1>8, <2>1 DEF Ends, p
  <2>3. "RCVD_EOF" \in c1.closes \/ Has(rest, {"EOF"}) => "SENT_EOF" \in d.closes
    <3>1. CASE p.type = "CLOSE"
      BY <1>4, <2>1, <3>1 DEF Ends, Sound
    <3>2. CASE p.type # "CLOSE"
      BY <1>4, <2>1, <3>2 DEF Ends, p
    <3>3. QED
      BY <3>1, <3>2
  <2>4. "RCVD_EOF" \in c1.closes => ~Has(rest, {"DATA", "EOF"})
    BY <1>2, <1>4, <1>8, <2>1 DEF Ends, p
  <2>5. "RCVD_CLOSE" \in c1.closes => rest = <<>>
    BY <1>2, <1>7 DEF p
  <2>6. QED
    BY <1>2, <2>2, <2>3, <2>4, <2>5 DEF Ends
<1>13. QED
  BY <1>5, <1>6, <1>7, <1>9, <1>10, <1>11, <1>12 DEF p, rest

LEMMA TailOfJoined ==
  ASSUME NEW a \in Seq(Nat), NEW b \in Seq(Nat), NEW x \in Nat
  PROVE  /\ Tail((<<x>> \o a) \o b) = a \o b /\ Head((<<x>> \o a) \o b) = x /\ (<<x>> \o a) \o b # <<>>
         /\ a \o (<<x>> \o b) = Append(a, x) \o b
<1> DEFINE u == (<<x>> \o a) \o b
<1>1. u \in Seq(Nat) /\ Len(u) = 1 + Len(a) + Len(b) /\ u[1] = x /\ u # <<>> /\ Head(u) = x
  OBVIOUS
<1>2. \A k \in 1..(Len(a) + Len(b)) : u[k + 1] = IF k <= Len(a) THEN a[k] ELSE b[k - Len(a)]
  OBVIOUS
<1> DEFINE v == a \o b
<1>3. v \in Seq(Nat) /\ Len(v) = Len(a) + Len(b)
      /\ \A k \in 1..(Len(a) + Len(b)) : v[k] = IF k <= Len(a) THEN a[k] ELSE b[k - Len(a)]
  OBVIOUS
<1> HIDE DEF u, v
<1>4. Tail(u) = v
  <2>1. Tail(u) \in Seq(Nat) /\ Len(Tail(u)) = Len(v) /\ \A k \in 1..Len(Tail(u)) : Tail(u)[k] = u[k + 1]
    BY <1>1, <1>3
  <2>2. QED
    BY <1>2, <1>3, <2>1, SameSeq, ZenonT(40)
<1> DEFINE s == a \o (<<x>> \o b)
<1> DEFINE t == Append(a, x) \o b
<1>5. s \in Seq(Nat) /\ t \in Seq(Nat) /\ Len(s) = Len(t) /\ Len(s) = Len(a) + Len(b) + 1
      /\ Len(a) \in Nat /\ Len(b) \in Nat
  OBVIOUS
<1>6. \A k \in 1..(Len(a) + Len(b) + 1) :
        s[k] = IF k <= Len(a) THEN a[k] ELSE IF k = Len(a) + 1 THEN x ELSE b[k - Len(a) - 1]
  OBVIOUS
<1>7. \A k \in 1..(Len(a) + Len(b) + 1) :
        t[k] = IF k <= Len(a) THEN a[k] ELSE IF k = Len(a) + 1 THEN x ELSE b[k - Len(a) - 1]
  OBVIOUS
<1> HIDE DEF s, t
<1>8. s = t
  BY <1>5, <1>6, <1>7, SameSeq
<1>9. QED
  BY <1>1, <1>4, <1>8 DEF u, v, s, t

LEMMA BothRcvConfirmation ==
  ASSUME NEW c \in Chan, NEW c1 \in Chan, NEW d \in Chan, NEW q \in Seq(Pkt), NEW r \in Seq(Pkt),
         Both(c, d, q, r), Sound(d), r # <<>>, r[1].type = "OPEN_CONFIRMATION", c1.localid = c.localid,
         ~c1.halfopen, c1.remoteid = r[1].from, c1.closes = c.closes, c1.remwindow = r[1].len,
         c1.locwindow = c.locwindow, c1.chanreqs = c.chanreqs
  PROVE  Both(c1, d, q, Tail(r))
<1> DEFINE p == r[1]
<1> DEFINE rest == Tail(r)
<1>1. Shrinks(r)
  BY TailShrinks
<1>2. c.halfopen <=> p.type = "OPEN_CONFIRMATION"
  <2>1. 1 \in DOMAIN r
    OBVIOUS
  <2>2. QED
    BY <2>1 DEF Both, Sides, Addressed
<1>3. /\ Addressed(c1, d, q) /\ Addressed(d, c1, rest) /\ Ends(c1, d, q) /\ Ends(d, c1, rest)
      /\ ~d.halfopen /\ q = <<>>
  BY <1>2, BothPopped
<1>4. /\ Data(r) = Data(rest) /\ Adjusts(r) = Adjusts(rest)
      /\ Asks(r, "FAILURE") = Asks(rest, "FAILURE") /\ Asks(r, "REQUEST") = Asks(rest, "REQUEST")
      /\ Data(rest) \in Nat /\ Adjusts(rest) \in Nat
  BY <1>1 DEF Shrinks
<1>5. Data(q) = 0
  <2>1. ~Has(q, {"DATA"})
    BY <1>3 DEF Has
  <2>2. QED
    BY <2>1, DataNone
<1>6. Answered(c1, d, q, rest) /\ Answered(d, c1, rest, q)
  BY <1>4 DEF Both, Sides, Answered
<1>7. Windows(c1, d, q, rest) /\ Windows(d, c1, rest, q)
  <2>1. Windows(c, d, q, r) /\ Windows(d, c, r, q) /\ p.len \in Nat
    BY <1>1 DEF Both, Sides, Shrinks, Pkt
  <2>2. c.halfopen
    BY <1>2
  <2>3. c1.remwindow + Data(q) + Adjusts(rest) = d.locwindow /\ Data(q) <= d.locwindow
    BY <1>4, <1>5, <2>1, <2>2 DEF Windows
  <2>4. QED
    BY <1>3, <1>4, <2>1, <2>3 DEF Windows
<1>8. QED
  BY <1>3, <1>6, <1>7 DEF Both, Sides

LEMMA BothRcvData ==
  ASSUME NEW c \in Chan, NEW c1 \in Chan, NEW d \in Chan, NEW q \in Seq(Pkt), NEW r \in Seq(Pkt),
         Both(c, d, q, r), Sound(d), r # <<>>, Alike(c, c1),
         r[1].type = "DATA", c1.closes = c.closes, c1.remwindow = c.remwindow,
         c1.locwindow = c.locwindow - r[1].len, c1.chanreqs = c.chanreqs
  PROVE  Both(c1, d, q, Tail(r))
<1> DEFINE p == r[1]
<1> DEFINE rest == Tail(r)
<1>0. ~c.halfopen /\ ~c1.halfopen /\ ~d.halfopen
  <2>1. 1 \in DOMAIN r
    OBVIOUS
  <2>2. QED
    BY <2>1 DEF Both, Sides, Addressed, Alike
<1>1. Shrinks(r)
  BY TailShrinks
<1>2. p \in Pkt /\ p.len \in Nat
  BY <1>1 DEF Shrinks, Pkt
<1>3. /\ Addressed(c1, d, q) /\ Addressed(d, c1, rest) /\ Ends(c1, d, q) /\ Ends(d, c1, rest)
  BY <1>0, BothPopped DEF Alike
<1>4. /\ c.locwindow \in Nat /\ d.locwindow \in Nat /\ c.remwindow \in Nat /\ d.remwindow \in Nat
      /\ Data(q) \in Nat /\ Adjusts(q) \in Nat
  BY DataSums DEF Chan
<1>5. Windows(c, d, q, r) /\ Windows(d, c, r, q)
  BY DEF Both, Sides
<1>6. /\ Data(r) = Data(rest) + p.len
      /\ Data(rest) \in Nat
      /\ Adjusts(r) = Adjusts(rest)
      /\ Adjusts(rest) \in Nat
      /\ Asks(r, "FAILURE") = Asks(rest, "FAILURE")
      /\ Asks(r, "REQUEST") = Asks(rest, "REQUEST")
  BY <1>1 DEF Shrinks
<1>7. Answered(c1, d, q, rest) /\ Answered(d, c1, rest, q)
  BY <1>6 DEF Both, Sides, Answered
<1>8. Windows(c1, d, q, rest) /\ Windows(d, c1, rest, q)
  <2>1. Windows(c1, d, q, rest)
    BY <1>0, <1>2, <1>4, <1>5, <1>6 DEF Windows
  <2>2. /\ "SENT_EOF" \notin d.closes => d.remwindow + Data(r) + Adjusts(q) = c.locwindow
        /\ Data(r) <= c.locwindow
    BY <1>0, <1>5 DEF Windows
  <2>3. /\ "SENT_EOF" \notin d.closes => d.remwindow + Data(rest) + Adjusts(q) = c1.locwindow
        /\ Data(rest) <= c1.locwindow
    BY <1>2, <1>4, <1>6, <2>2, SMTT(30)
  <2>4. Windows(d, c1, rest, q)
    BY <1>0, <2>3 DEF Windows
  <2>5. QED
    BY <2>1, <2>4
<1>9. QED
  BY <1>3, <1>7, <1>8 DEF Both, Sides

LEMMA BothRcvAdjust ==
  ASSUME NEW c \in Chan, NEW c1 \in Chan, NEW d \in Chan, NEW q \in Seq(Pkt), NEW r \in Seq(Pkt),
         Both(c, d, q, r), Sound(d), r # <<>>, Alike(c, c1),
         r[1].type = "WINDOW_ADJUST", c1.closes = c.closes,
         "SENT_EOF" \notin c.closes => c1.remwindow = c.remwindow + r[1].len,
         c1.locwindow = c.locwindow, c1.chanreqs = c.chanreqs
  PROVE  Both(c1, d, q, Tail(r))
<1> DEFINE p == r[1]
<1> DEFINE rest == Tail(r)
<1>0. ~c.halfopen /\ ~c1.halfopen /\ ~d.halfopen
  <2>1. 1 \in DOMAIN r
    OBVIOUS
  <2>2. QED
    BY <2>1 DEF Both, Sides, Addressed, Alike
<1>1. Shrinks(r)
  BY TailShrinks
<1>2. p \in Pkt /\ p.len \in Nat
  BY <1>1 DEF Shrinks, Pkt
<1>3. /\ Addressed(c1, d, q) /\ Addressed(d, c1, rest) /\ Ends(c1, d, q) /\ Ends(d, c1, rest)
  BY <1>0, BothPopped DEF Alike
<1>4. /\ c.locwindow \in Nat /\ d.locwindow \in Nat /\ c.remwindow \in Nat /\ d.remwindow \in Nat
      /\ Data(q) \in Nat /\ Adjusts(q) \in Nat
  BY DataSums DEF Chan
<1>5. Windows(c, d, q, r) /\ Windows(d, c, r, q)
  BY DEF Both, Sides
<1>6. /\ Data(r) = Data(rest)
      /\ Data(rest) \in Nat
      /\ Adjusts(r) = Adjusts(rest) + p.len
      /\ Adjusts(rest) \in Nat
      /\ Asks(r, "FAILURE") = Asks(rest, "FAILURE")
      /\ Asks(r, "REQUEST") = Asks(rest, "REQUEST")
  BY <1>1 DEF Shrinks
<1>7. Answered(c1, d, q, rest) /\ Answered(d, c1, rest, q)
  BY <1>6 DEF Both, Sides, Answered
<1>8. Windows(c1, d, q, rest) /\ Windows(d, c1, rest, q)
  <2>1. /\ "SENT_EOF" \notin c.closes => c.remwindow + Data(q) + Adjusts(r) = d.locwindow
        /\ Data(q) <= d.locwindow
    BY <1>0, <1>5 DEF Windows
  <2>2. "SENT_EOF" \notin c1.closes => c1.remwindow + Data(q) + Adjusts(rest) = d.locwindow
    BY <1>2, <1>4, <1>6, <2>1
  <2>3. Windows(c1, d, q, rest)
    BY <1>0, <2>1, <2>2 DEF Windows
  <2>4. /\ "SENT_EOF" \notin d.closes => d.remwindow + Data(rest) + Adjusts(q) = c1.locwindow
        /\ Data(rest) <= c1.locwindow
    BY <1>0, <1>5, <1>6 DEF Windows
  <2>5. Windows(d, c1, rest, q)
    BY <1>0, <2>4 DEF Windows
  <2>6. QED
    BY <2>3, <2>5
<1>9. QED
  BY <1>3, <1>7, <1>8 DEF Both, Sides

LEMMA BothRcvEof ==
  ASSUME NEW c \in Chan, NEW c1 \in Chan, NEW d \in Chan, NEW q \in Seq(Pkt), NEW r \in Seq(Pkt),
         Both(c, d, q, r), Sound(d), r # <<>>, Alike(c, c1),
         r[1].type = "EOF", c1.closes = c.closes \cup {"RCVD_EOF"}, c1.remwindow = c.remwindow,
         c1.locwindow = c.locwindow, c1.chanreqs = c.chanreqs
  PROVE  Both(c1, d, q, Tail(r))
<1> DEFINE p == r[1]
<1> DEFINE rest == Tail(r)
<1>0. ~c.halfopen /\ ~c1.halfopen /\ ~d.halfopen
  <2>1. 1 \in DOMAIN r
    OBVIOUS
  <2>2. QED
    BY <2>1 DEF Both, Sides, Addressed, Alike
<1>1. Shrinks(r)
  BY TailShrinks
<1>2. p \in Pkt /\ p.len \in Nat
  BY <1>1 DEF Shrinks, Pkt
<1>3. /\ Addressed(c1, d, q) /\ Addressed(d, c1, rest) /\ Ends(c1, d, q) /\ Ends(d, c1, rest)
  BY <1>0, BothPopped DEF Alike
<1>4. /\ c.locwindow \in Nat /\ d.locwindow \in Nat /\ c.remwindow \in Nat /\ d.remwindow \in Nat
      /\ Data(q) \in Nat /\ Adjusts(q) \in Nat
  BY DataSums DEF Chan
<1>5. Windows(c, d, q, r) /\ Windows(d, c, r, q)
  BY DEF Both, Sides
<1>6. /\ Data(r) = Data(rest)
      /\ Data(rest) \in Nat
      /\ Adjusts(r) = Adjusts(rest)
      /\ Adjusts(rest) \in Nat
      /\ Asks(r, "FAILURE") = Asks(rest, "FAILURE")
      /\ Asks(r, "REQUEST") = Asks(rest, "REQUEST")
  BY <1>1 DEF Shrinks
<1>7. Answered(c1, d, q, rest) /\ Answered(d, c1, rest, q)
  BY <1>6 DEF Both, Sides, Answered
<1>8. Windows(c1, d, q, rest) /\ Windows(d, c1, rest, q)
  BY <1>0, <1>2, <1>4, <1>5, <1>6 DEF Windows
<1>9. QED
  BY <1>3, <1>7, <1>8 DEF Both, Sides

LEMMA BothRcvFailure ==
  ASSUME NEW c \in Chan, NEW c1 \in Chan, NEW d \in Chan, NEW q \in Seq(Pkt), NEW r \in Seq(Pkt),
         Both(c, d, q, r), Sound(d), r # <<>>, Alike(c, c1),
         r[1].type = "FAILURE", c1.closes = c.closes, c1.remwindow = c.remwindow,
         c1.locwindow = c.locwindow, c1.chanreqs = Tail(c.chanreqs)
  PROVE  Both(c1, d, q, Tail(r))
<1> DEFINE p == r[1]
<1> DEFINE rest == Tail(r)
<1>0. ~c.halfopen /\ ~c1.halfopen /\ ~d.halfopen
  <2>1. 1 \in DOMAIN r
    OBVIOUS
  <2>2. QED
    BY <2>1 DEF Both, Sides, Addressed, Alike
<1>1. Shrinks(r)
  BY TailShrinks
<1>2. p \in Pkt /\ p.len \in Nat
  BY <1>1 DEF Shrinks, Pkt
<1>3. /\ Addressed(c1, d, q) /\ Addressed(d, c1, rest) /\ Ends(c1, d, q) /\ Ends(d, c1, rest)
  BY <1>0, BothPopped DEF Alike
<1>4. /\ c.locwindow \in Nat /\ d.locwindow \in Nat /\ c.remwindow \in Nat /\ d.remwindow \in Nat
      /\ Data(q) \in Nat /\ Adjusts(q) \in Nat
  BY DataSums DEF Chan
<1>5. Windows(c, d, q, r) /\ Windows(d, c, r, q)
  BY DEF Both, Sides
<1>6. /\ Data(r) = Data(rest)
      /\ Data(rest) \in Nat
      /\ Adjusts(r) = Adjusts(rest)
      /\ Adjusts(rest) \in Nat
      /\ Asks(r, "FAILURE") = <<p.len>> \o Asks(rest, "FAILURE")
      /\ Asks(r, "REQUEST") = Asks(rest, "REQUEST")
  BY <1>1 DEF Shrinks
<1>7. Answered(c1, d, q, rest) /\ Answered(d, c1, rest, q)
  <2>1. Answered(c1, d, q, rest)
    BY <1>6 DEF Both, Sides, Answered
  <2>2. PICK more \in Seq(Nat) : /\ c.chanreqs = (<<p.len>> \o Asks(rest, "FAILURE")) \o more
                                 /\ "SENT_CLOSE" \notin d.closes => more = Asks(q, "REQUEST")
    BY <1>6 DEF Both, Sides, Answered
  <2>3. Asks(rest, "FAILURE") \in Seq(Nat)
    BY <1>1, AsksType DEF Shrinks
  <2>4. \A a, b \in Seq(Nat) : \A x \in Nat : Tail((<<x>> \o a) \o b) = a \o b
    BY TailOfJoined
  <2>5. c1.chanreqs = Asks(rest, "FAILURE") \o more
    BY <1>2, <2>2, <2>3, <2>4
  <2>6. Answered(d, c1, rest, q)
    BY <2>2, <2>5 DEF Answered
  <2>7. QED
    BY <2>1, <2>6
<1>8. Windows(c1, d, q, rest) /\ Windows(d, c1, rest, q)
  BY <1>0, <1>2, <1>4, <1>5, <1>6 DEF Windows
<1>9. QED
  BY <1>3, <1>7, <1>8 DEF Both, Sides

LEMMA BothRcvClose ==
  ASSUME NEW c \in Chan, NEW c1 \in Chan, NEW d \in Chan, NEW q \in Seq(Pkt), NEW r \in Seq(Pkt),
         Both(c, d, q, r), Sound(d), r # <<>>, Alike(c, c1),
         r[1].type = "CLOSE", c1.closes = c.closes \cup {"RCVD_EOF", "RCVD_CLOSE"},
         c1.remwindow = c.remwindow, c1.locwindow = c.locwindow, c1.chanreqs = <<>>
  PROVE  Both(c1, d, q, Tail(r))
<1> DEFINE p == r[1]
<1> DEFINE rest == Tail(r)
<1>0. ~c.halfopen /\ ~c1.halfopen /\ ~d.halfopen
  <2>1. 1 \in DOMAIN r
    OBVIOUS
  <2>2. QED
    BY <2>1 DEF Both, Sides, Addressed, Alike
<1>1. Shrinks(r)
  BY TailShrinks
<1>2. p \in Pkt /\ p.len \in Nat
  BY <1>1 DEF Shrinks, Pkt
<1>3. /\ Addressed(c1, d, q) /\ Addressed(d, c1, rest) /\ Ends(c1, d, q) /\ Ends(d, c1, rest)
  BY <1>0, BothPopped DEF Alike
<1>4. /\ c.locwindow \in Nat /\ d.locwindow \in Nat /\ c.remwindow \in Nat /\ d.remwindow \in Nat
      /\ Data(q) \in Nat /\ Adjusts(q) \in Nat
  BY DataSums DEF Chan
<1>5. Windows(c, d, q, r) /\ Windows(d, c, r, q)
  BY DEF Both, Sides
<1>6. /\ Data(r) = Data(rest)
      /\ Data(rest) \in Nat
      /\ Adjusts(r) = Adjusts(rest)
      /\ Adjusts(rest) \in Nat
      /\ Asks(r, "FAILURE") = Asks(rest, "FAILURE")
      /\ Asks(r, "REQUEST") = Asks(rest, "REQUEST")
  BY <1>1 DEF Shrinks
<1>7. Answered(c1, d, q, rest) /\ Answered(d, c1, rest, q)
  <2>1. Answered(c1, d, q, rest)
    BY <1>6 DEF Both, Sides, Answered
  <2>2. rest = <<>> /\ "SENT_CLOSE" \in d.closes
    BY <1>3 DEF Ends
  <2>3. Asks(rest, "FAILURE") = <<>>
    <3>1. ~Has(rest, {"FAILURE"}) /\ rest \in Seq(Pkt)
      BY <1>1, <2>2 DEF Has, Shrinks
    <3>2. QED
      BY <3>1, AsksNone
  <2>4. <<>> \in Seq(Nat) /\ <<>> = <<>> \o <<>>
    OBVIOUS
  <2>5. Answered(d, c1, rest, q)
    BY <2>2, <2>3, <2>4 DEF Answered
  <2>6. QED
    BY <2>1, <2>5
<1>8. Windows(c1, d, q, rest) /\ Windows(d, c1, rest, q)
  BY <1>0, <1>2, <1>4, <1>5, <1>6 DEF Windows
<1>9. QED
  BY <1>3, <1>7, <1>8 DEF Both, Sides

LEMMA BothRcvRequestClosed ==
  ASSUME NEW c \in Chan, NEW c1 \in Chan, NEW d \in Chan, NEW q \in Seq(Pkt), NEW r \in Seq(Pkt),
         Both(c, d, q, r), Sound(d), r # <<>>, Alike(c, c1),
         r[1].type = "REQUEST", c1.closes = c.closes, c1.remwindow = c.remwindow,
         c1.locwindow = c.locwindow, c1.chanreqs = c.chanreqs, "SENT_CLOSE" \in c.closes
  PROVE  Both(c1, d, q, Tail(r))
<1> DEFINE p == r[1]
<1> DEFINE rest == Tail(r)
<1>0. ~c.halfopen /\ ~c1.halfopen /\ ~d.halfopen
  <2>1. 1 \in DOMAIN r
    OBVIOUS
  <2>2. QED
    BY <2>1 DEF Both, Sides, Addressed, Alike
<1>1. Shrinks(r)
  BY TailShrinks
<1>2. p \in Pkt /\ p.len \in Nat
  BY <1>1 DEF Shrinks, Pkt
<1>3. /\ Addressed(c1, d, q) /\ Addressed(d, c1, rest) /\ Ends(c1, d, q) /\ Ends(d, c1, rest)
  BY <1>0, BothPopped DEF Alike
<1>4. /\ c.locwindow \in Nat /\ d.locwindow \in Nat /\ c.remwindow \in Nat /\ d.remwindow \in Nat
      /\ Data(q) \in Nat /\ Adjusts(q) \in Nat
  BY DataSums DEF Chan
<1>5. Windows(c, d, q, r) /\ Windows(d, c, r, q)
  BY DEF Both, Sides
<1>6. /\ Data(r) = Data(rest)
      /\ Data(rest) \in Nat
      /\ Adjusts(r) = Adjusts(rest)
      /\ Adjusts(rest) \in Nat
      /\ Asks(r, "FAILURE") = Asks(rest, "FAILURE")
      /\ Asks(r, "REQUEST") = <<p.len>> \o Asks(rest, "REQUEST")
  BY <1>1 DEF Shrinks
<1>7. Answered(c1, d, q, rest) /\ Answered(d, c1, rest, q)
  BY <1>6 DEF Both, Sides, Answered
<1>8. Windows(c1, d, q, rest) /\ Windows(d, c1, rest, q)
  BY <1>0, <1>2, <1>4, <1>5, <1>6 DEF Windows
<1>9. QED
  BY <1>3, <1>7, <1>8 DEF Both, Sides

LEMMA BothRcvRequest ==
  ASSUME NEW c \in Chan, NEW d \in Chan, NEW q \in Seq(Pkt), NEW r \in Seq(Pkt), NEW f \in Pkt,
         Both(c, d, q, r), Sound(d), r # <<>>, r[1].type = "REQUEST", "SENT_CLOSE" \notin c.closes,
         f.type = "FAILURE", f.to = c.remoteid, f.len = r[1].len
  PROVE  Both(c, d, q \o <<f>>, Tail(r))
<1> DEFINE p == r[1]
<1> DEFINE rest == Tail(r)
<1> DEFINE v == q \o <<f>>
<1>0. ~c.halfopen /\ ~d.halfopen
  <2>1. 1 \in DOMAIN r
    OBVIOUS
  <2>2. QED
    BY <2>1 DEF Both, Sides, Addressed
<1>1. Shrinks(r)
  BY TailShrinks
<1>2. <<f>> \in Seq(Pkt) /\ Ours(c, <<f>>, "FAILURE") /\ f.len \in Nat /\ v = Append(q, f) /\ Alike(c, c)
  BY SMTT(30) DEF Ours, Pkt, Alike
<1>3. Addressed(d, c, rest) /\ Ends(d, c, rest)
  BY <1>0, BothPopped
<1>4. Addressed(c, d, v) /\ Ends(c, d, v)
  BY <1>0, <1>2, BothPushed
<1>5. Grows(q, <<f>>, "FAILURE")
  BY <1>2, PushedGrows, Zenon
<1>6. /\ Data(r) = Data(rest) /\ Data(rest) \in Nat
      /\ Adjusts(r) = Adjusts(rest) /\ Adjusts(rest) \in Nat
      /\ Asks(r, "FAILURE") = Asks(rest, "FAILURE")
      /\ Asks(r, "REQUEST") = <<p.len>> \o Asks(rest, "REQUEST")
      /\ rest \in Seq(Pkt)
  BY <1>1 DEF Shrinks
<1>7. /\ Data(v) = Data(q) /\ Adjusts(v) = Adjusts(q)
      /\ Asks(v, "REQUEST") = Asks(q, "REQUEST")
      /\ Asks(v, "FAILURE") = Append(Asks(q, "FAILURE"), f.len)
  <2>1. Data(v) = Data(q) /\ Adjusts(v) = Adjusts(q) /\ Asks(v, "REQUEST") = Asks(q, "REQUEST")
    BY <1>5 DEF Grows
  <2>2. Asks(Append(q, f), "FAILURE") = Append(Asks(q, "FAILURE"), f.len)
    BY AsksAppend
  <2>3. QED
    BY <1>2, <2>1, <2>2
<1> HIDE DEF p, rest, v
<1>8. Answered(c, d, v, rest)
  <2>1. d.chanreqs = Asks(q, "FAILURE") \o (<<f.len>> \o Asks(rest, "REQUEST"))
    BY <1>6 DEF Both, Sides, Answered, p
  <2>2. Asks(q, "FAILURE") \in Seq(Nat) /\ Asks(rest, "REQUEST") \in Seq(Nat)
    BY <1>6, AsksType
  <2>3. \A a, b \in Seq(Nat) : \A x \in Nat : a \o (<<x>> \o b) = Append(a, x) \o b
    BY TailOfJoined
  <2>4. d.chanreqs = Asks(v, "FAILURE") \o Asks(rest, "REQUEST")
    BY <1>2, <1>7, <2>1, <2>2, <2>3, ZenonT(40)
  <2>5. QED
    BY <2>2, <2>4 DEF Answered
<1>9. Answered(d, c, rest, v)
  BY <1>6, <1>7 DEF Both, Sides, Answered
<1>10. Windows(c, d, v, rest) /\ Windows(d, c, rest, v)
  <2>1. Windows(c, d, q, r) /\ Windows(d, c, r, q)
    BY DEF Both, Sides
  <2>2. QED
    BY <1>0, <1>6, <1>7, <2>1 DEF Windows
<1>11. QED
  BY <1>3, <1>4, <1>8, <1>9, <1>10 DEF Both, Sides, rest, v
-----------------------------------------------------------------------------
(* The functions that act on a channel *)

\* What a handler works on, and what is around it: the other end d, the packets q that were sent
\* before and those r that are still to come, and the streams from this end and to it.
Stream == [owed : Int, eof : BOOLEAN, ended : BOOLEAN]
Work == [c : Chan, tx : Seq(Pkt), faults : {{}}]
Setting == [id : Nat, d : Chan, q : Seq(Pkt), r : Seq(Pkt), fixed : BOOLEAN, cut : BOOLEAN,
            s : Stream, t : Stream]

Fits(c, w, m) ==
  /\ c.localid = m.id /\ c.n = m.d.n /\ ~c.halfopen /\ c.chan # "freed"
  /\ "RCVD_CLOSE" \notin c.closes /\ \A i \in DOMAIN w : w[i].n = c.n
  /\ Both(c, m.d, m.q \o w, m.r) /\ Sound(c) /\ (m.fixed \/ Within(c))
  /\ m.cut \/ (Carried(c, m.d, m.q \o w, m.s) /\ Carried(m.d, c, m.r, m.t))
Mid(x, m) == x \in Work /\ Fits(x.c, x.tx, m)

LEMMA SettingType ==
  ASSUME NEW m \in Setting
  PROVE  /\ m.id \in Nat /\ m.d \in Chan /\ m.q \in Seq(Pkt) /\ m.r \in Seq(Pkt)
         /\ m.fixed \in BOOLEAN /\ m.cut \in BOOLEAN /\ m.s \in Stream /\ m.t \in Stream
BY DEF Setting

LEMMA WorkType ==
  ASSUME NEW x \in Work
  PROVE  x.c \in Chan /\ x.tx \in Seq(Pkt) /\ x.faults = {}
BY DEF Work

LEMMA PacketIs ==
  ASSUME NEW c \in Chan, NEW t \in {"DATA", "WINDOW_ADJUST", "REQUEST", "FAILURE", "EOF", "CLOSE",
                                    "OPEN", "OPEN_FAILURE", "OPEN_CONFIRMATION"}, NEW len \in Nat
  PROVE  LET p == Packet(t, c)
             o == [Packet(t, c) EXCEPT !.len = len]
         IN  /\ p \in Pkt /\ p.type = t /\ p.to = c.remoteid /\ p.n = c.n
             /\ o \in Pkt /\ o.type = t /\ o.to = c.remoteid /\ o.n = c.n /\ o.len = len
BY DEF Packet, Pkt, Chan

LEMMA Associative ==
  ASSUME NEW q \in Seq(Pkt), NEW w \in Seq(Pkt), NEW u \in Seq(Pkt)
  PROVE  q \o (w \o u) = (q \o w) \o u
<1> DEFINE a == q \o (w \o u)
<1> DEFINE b == (q \o w) \o u
<1>1. /\ a \in Seq(Pkt) /\ b \in Seq(Pkt) /\ Len(a) = Len(q) + Len(w) + Len(u) /\ Len(b) = Len(a)
      /\ Len(q) \in Nat /\ Len(w) \in Nat /\ Len(u) \in Nat
  OBVIOUS
<1>2. \A k \in 1..(Len(q) + Len(w) + Len(u)) :
        a[k] = IF k <= Len(q) THEN q[k]
               ELSE IF k <= Len(q) + Len(w) THEN w[k - Len(q)] ELSE u[k - Len(q) - Len(w)]
  OBVIOUS
<1>3. \A k \in 1..(Len(q) + Len(w) + Len(u)) :
        b[k] = IF k <= Len(q) THEN q[k]
               ELSE IF k <= Len(q) + Len(w) THEN w[k - Len(q)] ELSE u[k - Len(q) - Len(w)]
  OBVIOUS
<1> HIDE DEF a, b
<1>4. a = b
  BY <1>1, <1>2, <1>3, SameSeq
<1>5. QED
  BY <1>4 DEF a, b

LEMMA AppendJoins ==
  ASSUME NEW q \in Seq(Pkt), NEW w \in Seq(Pkt), NEW p \in Pkt
  PROVE  /\ q \o Append(w, p) = (q \o w) \o <<p>> /\ Append(w, p) \in Seq(Pkt) /\ q \o w \in Seq(Pkt)
         /\ \A k : (\A i \in DOMAIN w : w[i].n = k) /\ p.n = k
                     => \A i \in DOMAIN Append(w, p) : Append(w, p)[i].n = k
<1>1. Append(w, p) = w \o <<p>> /\ <<p>> \in Seq(Pkt) /\ Append(w, p) \in Seq(Pkt) /\ q \o w \in Seq(Pkt)
  OBVIOUS
<1>2. q \o (w \o <<p>>) = (q \o w) \o <<p>>
  BY <1>1, Associative
<1>3. \A i \in DOMAIN Append(w, p) : Append(w, p)[i] = p \/ (i \in DOMAIN w /\ Append(w, p)[i] = w[i])
  OBVIOUS
<1>4. QED
  BY <1>1, <1>2, <1>3

\* A push leaves the streams as they are, but for data.
LEMMA CarriedPushed ==
  ASSUME NEW c, NEW c1, NEW d, NEW q \in Seq(Pkt), NEW w \in Seq(Pkt), NEW s \in Stream,
         NEW t, Ours(c, w, t), Carried(c, d, q, s),
         c1.socksbuf \in Nat, c1.outbuffer \in Nat, c.socksbuf \in Nat, c.outbuffer \in Nat,
         c1.chan = c.chan, c1.socksbuf + c1.outbuffer + Data(w) = c.socksbuf + c.outbuffer,
         c1.sockeof = c.sockeof,
         "SENT_EOF" \in c1.closes => c1.sockeof /\ c1.outbuffer = 0 /\ c1.socksbuf = 0,
         "SENT_CLOSE" \in c1.closes => "RCVD_EOF" \in c1.closes,
         "RCVD_EOF" \in c1.closes => ~c1.fixed
  PROVE  Carried(c1, d, q \o w, s)
<1>1. Data(q \o w) = Data(q) + Data(w) /\ Data(q) \in Nat /\ Data(w) \in Nat
  BY DataSums
<1>2. s.owed = c.socksbuf + c.outbuffer + Data(q)
  BY DEF Carried
<1>3. s.owed = c1.socksbuf + c1.outbuffer + Data(q \o w)
  BY <1>1, <1>2
<1>4. QED
  BY <1>3 DEF Carried

LEMMA FitsPushed ==
  ASSUME NEW m \in Setting, NEW c \in Chan, NEW c1 \in Chan, NEW w \in Seq(Pkt), NEW u \in Seq(Pkt),
         NEW t, Ours(c, u, t), \A i \in DOMAIN u : u[i].n = c.n, Fits(c, w, m),
         Alike(c, c1), c1.n = c.n, c1.chan = c.chan, c1.sockeof = c.sockeof,
         "RCVD_CLOSE" \notin c1.closes, "RCVD_EOF" \in c1.closes <=> "RCVD_EOF" \in c.closes,
         c1.fixed = c.fixed, Both(c1, m.d, (m.q \o w) \o u, m.r), Sound(c1), m.fixed \/ Within(c1),
         c1.socksbuf + c1.outbuffer + Data(u) = c.socksbuf + c.outbuffer,
         ~m.cut => /\ "SENT_EOF" \in c1.closes => c1.sockeof /\ c1.outbuffer = 0 /\ c1.socksbuf = 0
                   /\ "SENT_CLOSE" \in c1.closes => "RCVD_EOF" \in c1.closes
  PROVE  Fits(c1, w \o u, m)
<1>1. /\ m.d \in Chan /\ m.q \in Seq(Pkt) /\ m.r \in Seq(Pkt) /\ m.s \in Stream /\ m.t \in Stream
      /\ m.q \o w \in Seq(Pkt)
  BY SettingType
<1>2. \A i \in DOMAIN (w \o u) : (w \o u)[i].n = c.n
  <2>1. \A i \in DOMAIN w : w[i].n = c.n
    BY DEF Fits
  <2>2. QED
    BY <2>1, JoinedPlaces
<1>3. m.q \o (w \o u) = (m.q \o w) \o u
  <2>1. \A a, b, o \in Seq(Pkt) : a \o (b \o o) = (a \o b) \o o
    BY Associative
  <2>2. m.q \in Seq(Pkt)
    BY <1>1
  <2>3. QED
    BY <2>1, <2>2, Zenon
<1>4. ASSUME ~m.cut
      PROVE  Carried(c1, m.d, m.q \o (w \o u), m.s) /\ Carried(m.d, c1, m.r, m.t)
  <2>1. Carried(c, m.d, m.q \o w, m.s) /\ Carried(m.d, c, m.r, m.t)
    BY <1>4 DEF Fits
  <2>2. /\ c1.socksbuf \in Nat /\ c1.outbuffer \in Nat /\ c.socksbuf \in Nat /\ c.outbuffer \in Nat
    BY DEF Chan
  <2>3. "RCVD_EOF" \in c1.closes => ~c1.fixed
    BY <2>1 DEF Carried
  <2>4. Carried(c1, m.d, (m.q \o w) \o u, m.s)
    BY <1>1, <1>4, <2>1, <2>2, <2>3, CarriedPushed
  <2>5. Carried(m.d, c1, m.r, m.t)
    BY <2>1 DEF Carried
  <2>6. QED
    BY <1>3, <2>4, <2>5
<1>5. c1.localid = m.id /\ c1.n = m.d.n /\ ~c1.halfopen /\ c1.chan # "freed"
  BY DEF Fits, Alike
<1>6. Both(c1, m.d, m.q \o (w \o u), m.r)
  BY <1>3
<1>7. m.cut \/ (Carried(c1, m.d, m.q \o (w \o u), m.s) /\ Carried(m.d, c1, m.r, m.t))
  BY <1>4, Zenon
<1>8. QED
  BY <1>2, <1>5, <1>6, <1>7, Zenon DEF Fits

\* One packet; and none.
LEMMA FitsAppended ==
  ASSUME NEW m \in Setting, NEW c \in Chan, NEW c1 \in Chan, NEW w \in Seq(Pkt), NEW p \in Pkt,
         p.type # "DATA", p.to = c.remoteid, p.n = c.n, Fits(c, w, m),
         Alike(c, c1), c1.n = c.n, c1.chan = c.chan, c1.sockeof = c.sockeof,
         "RCVD_CLOSE" \notin c1.closes, "RCVD_EOF" \in c1.closes <=> "RCVD_EOF" \in c.closes,
         c1.fixed = c.fixed, Both(c1, m.d, (m.q \o w) \o <<p>>, m.r), Sound(c1),
         m.fixed \/ Within(c1), c1.socksbuf = c.socksbuf, c1.outbuffer = c.outbuffer,
         ~m.cut => /\ "SENT_EOF" \in c1.closes => c1.sockeof /\ c1.outbuffer = 0 /\ c1.socksbuf = 0
                   /\ "SENT_CLOSE" \in c1.closes => "RCVD_EOF" \in c1.closes
  PROVE  Fits(c1, Append(w, p), m)
<1> DEFINE u == <<p>>
<1>1. u \in Seq(Pkt) /\ Ours(c, u, p.type) /\ (\A i \in DOMAIN u : u[i].n = c.n) /\ Append(w, p) = w \o u
  BY DEF Ours
<1>2. Data(u) = 0
  BY LensOne DEF Data
<1>3. c1.socksbuf + c1.outbuffer + Data(u) = c.socksbuf + c.outbuffer
  <2>1. c.socksbuf \in Nat /\ c.outbuffer \in Nat
    BY DEF Chan
  <2>2. QED
    BY <1>2, <2>1
<1> HIDE DEF u
<1>4. Both(c1, m.d, (m.q \o w) \o u, m.r)
  BY DEF u
<1>5. Fits(c1, w \o u, m)
  BY <1>1, <1>3, <1>4, FitsPushed
<1>6. QED
  BY <1>1, <1>5

LEMMA CheckCloseMid ==
  ASSUME NEW m \in Setting, NEW x, Mid(x, m)
  PROVE  Mid(CheckClose(x), m)
<1> DEFINE c == x.c
<1> DEFINE sends == WantClose(c) /\ c.chanreqs = <<>> /\ "SENT_CLOSE" \notin c.closes
<1> DEFINE p == Packet("CLOSE", c)
<1> DEFINE y == [Push(x, p) EXCEPT !.c.closes = @ \cup {"SENT_EOF", "SENT_CLOSE"}]
<1> DEFINE c1 == [c EXCEPT !.closes = c.closes \cup {"SENT_EOF", "SENT_CLOSE"}]
<1>1. x \in Work /\ c \in Chan /\ x.tx \in Seq(Pkt) /\ Fits(c, x.tx, m)
  BY WorkType DEF Mid
<1>2. ~c.halfopen /\ "RCVD_CLOSE" \notin c.closes
  BY <1>1 DEF Fits
<1>3. CheckClose(x) = IF sends THEN (IF {"SENT_CLOSE", "RCVD_CLOSE"} \subseteq y.c.closes THEN Destroy(y) ELSE y) ELSE x
  BY <1>2 DEF CheckClose
<1>4. CASE ~sends
  BY <1>3, <1>4
<1>5. CASE sends
  <2>1. p \in Pkt /\ p.type = "CLOSE" /\ p.to = c.remoteid /\ p.n = c.n
    BY <1>1, PacketIs, ZenonT(40)
  <2>2. c.closes \subseteq {"SENT_EOF", "RCVD_EOF", "SENT_CLOSE", "RCVD_CLOSE"}
    BY <1>1 DEF Chan
  <2>3. /\ c1 \in Chan /\ Alike(c, c1) /\ c1.closes = c.closes \cup {"SENT_EOF", "SENT_CLOSE"}
        /\ c1.n = c.n /\ c1.chan = c.chan /\ c1.remwindow = c.remwindow
        /\ c1.locwindow = c.locwindow /\ c1.chanreqs = c.chanreqs /\ c1.pending_eof = c.pending_eof
        /\ c1.sockeof = c.sockeof /\ c1.fixed = c.fixed /\ c1.socksbuf = c.socksbuf
        /\ c1.backlog = c.backlog /\ c1.outbuffer = c.outbuffer /\ c1.remlocwin = c.remlocwin
        /\ c1.locmaxwin = c.locmaxwin /\ c1.throttling_conn = c.throttling_conn
    BY <1>1, <2>2 DEF Chan, Alike
  <2>4. Append(x.tx, p) \in Seq(Pkt)
    BY <1>1, <2>1
  <2> HIDE DEF p
  <2>5. y.c = c1 /\ y.tx = Append(x.tx, p)
    BY <1>1, <2>3, <2>4 DEF Push, Work
  <2>6. y \in Work
    BY <1>1, <2>3, <2>4 DEF Push, Work
  <2> HIDE DEF c, c1, y
  <2>7. "RCVD_CLOSE" \notin y.c.closes
    BY <1>2, <2>3, <2>5
  <2>8. CheckClose(x) = y
    BY <1>3, <1>5, <2>7
  <2>9. Sound(c1)
    BY <1>1, <1>5, <2>3 DEF Fits, Sound, WantClose, sends, Alike
  <2>10. m.fixed \/ Within(c1)
    BY <1>1, <2>3 DEF Fits, Within
  <2>11. Both(c1, m.d, (m.q \o x.tx) \o <<p>>, m.r)
    <3>1. Both(c, m.d, m.q \o x.tx, m.r)
      BY <1>1 DEF Fits
    <3>2. m.d \in Chan /\ m.r \in Seq(Pkt) /\ m.q \o x.tx \in Seq(Pkt)
      BY <1>1, SettingType
    <3>3. "SENT_CLOSE" \notin c.closes
      BY <1>5
    <3>4. QED
      BY <1>1, <1>2, <2>1, <2>3, <3>1, <3>2, <3>3, BothClose
  <2>12. ~m.cut => /\ "SENT_EOF" \in c1.closes => c1.sockeof /\ c1.outbuffer = 0 /\ c1.socksbuf = 0
                   /\ "SENT_CLOSE" \in c1.closes => "RCVD_EOF" \in c1.closes
    <3>1. ~m.cut => Carried(c, m.d, m.q \o x.tx, m.s)
      BY <1>1 DEF Fits
    <3>2. QED
      BY <1>5, <2>3, <3>1 DEF Carried, WantClose, sends
  <2>13. Fits(c1, Append(x.tx, p), m)
    <3>1. /\ "RCVD_CLOSE" \notin c1.closes
          /\ "RCVD_EOF" \in c1.closes <=> "RCVD_EOF" \in c.closes
      BY <1>2, <2>3
    <3>2. p.type # "DATA" /\ x.tx \in Seq(Pkt) /\ c \in Chan /\ Fits(c, x.tx, m)
      BY <1>1, <2>1
    <3>3. QED
      BY <2>1, <2>3, <2>9, <2>10, <2>11, <2>12, <3>1, <3>2, FitsAppended
  <2>14. QED
    BY <2>5, <2>6, <2>8, <2>13 DEF Mid
<1>6. QED
  BY <1>4, <1>5

\* A change that sends nothing.
LEMMA FitsSame ==
  ASSUME NEW m \in Setting, NEW c \in Chan, NEW c1 \in Chan, NEW w \in Seq(Pkt), Fits(c, w, m),
         Alike(c, c1), c1.n = c.n, c1.closes = c.closes, c1.remwindow = c.remwindow,
         c1.locwindow = c.locwindow, c1.chanreqs = c.chanreqs, c1.chan = c.chan,
         c1.sockeof = c.sockeof, c1.socksbuf = c.socksbuf, c1.outbuffer = c.outbuffer,
         c1.fixed => c.fixed, Sound(c1), m.fixed \/ Within(c1)
  PROVE  Fits(c1, w, m)
<1>1. m.d \in Chan /\ m.q \in Seq(Pkt) /\ m.r \in Seq(Pkt) /\ m.q \o w \in Seq(Pkt)
  BY SettingType
<1>2. Both(c1, m.d, m.q \o w, m.r)
  <2>1. Both(c, m.d, m.q \o w, m.r)
    BY DEF Fits
  <2>2. QED
    BY <1>1, <2>1, BothSame
<1>3. ASSUME ~m.cut
      PROVE  Carried(c1, m.d, m.q \o w, m.s) /\ Carried(m.d, c1, m.r, m.t)
  <2>1. Carried(c, m.d, m.q \o w, m.s) /\ Carried(m.d, c, m.r, m.t)
    BY <1>3 DEF Fits
  <2>2. QED
    BY <2>1 DEF Carried
<1>4. m.cut \/ (Carried(c1, m.d, m.q \o w, m.s) /\ Carried(m.d, c1, m.r, m.t))
  BY <1>3, Zenon
<1>5. c1.localid = m.id /\ c1.n = m.d.n /\ ~c1.halfopen /\ c1.chan # "freed"
      /\ "RCVD_CLOSE" \notin c1.closes /\ \A i \in DOMAIN w : w[i].n = c1.n
  BY DEF Fits, Alike
<1>6. QED
  BY <1>2, <1>4, <1>5, Zenon DEF Fits

LEMMA TryEofMid ==
  ASSUME NEW m \in Setting, NEW x, Mid(x, m), x.c.pending_eof
  PROVE  Mid(TryEof(x), m)
<1> DEFINE c == x.c
<1> DEFINE p == Packet("EOF", c)
<1> DEFINE y == [Push(x, p) EXCEPT !.c.pending_eof = FALSE, !.c.closes = @ \cup {"SENT_EOF"}]
<1> DEFINE c1 == [c EXCEPT !.pending_eof = FALSE, !.closes = c.closes \cup {"SENT_EOF"}]
<1>1. x \in Work /\ c \in Chan /\ x.tx \in Seq(Pkt) /\ Fits(c, x.tx, m)
  BY WorkType DEF Mid
<1>2. ~c.halfopen /\ "RCVD_CLOSE" \notin c.closes /\ Sound(c)
  BY <1>1 DEF Fits
<1>3. TryEof(x) = IF c.outbuffer > 0 THEN x ELSE CheckClose(y)
  BY <1>2 DEF TryEof, Asserts
<1>4. CASE c.outbuffer > 0
  BY <1>3, <1>4
<1>5. CASE ~(c.outbuffer > 0)
  <2>1. p \in Pkt /\ p.type = "EOF" /\ p.to = c.remoteid /\ p.n = c.n
    BY <1>1, PacketIs, ZenonT(40)
  <2>2. c.closes \subseteq {"SENT_EOF", "RCVD_EOF", "SENT_CLOSE", "RCVD_CLOSE"} /\ c.outbuffer \in Nat
    BY <1>1 DEF Chan
  <2>3. /\ c1 \in Chan /\ Alike(c, c1) /\ c1.closes = c.closes \cup {"SENT_EOF"}
        /\ c1.pending_eof = FALSE /\ c1.throttling_conn = c.throttling_conn
        /\ c1.throttled_by_backlog = c.throttled_by_backlog /\ c1.outbuffer = c.outbuffer
        /\ c1.remwindow = c.remwindow /\ c1.locwindow = c.locwindow
        /\ c1.locmaxwin = c.locmaxwin /\ c1.remlocwin = c.remlocwin
        /\ c1.chanreqs = c.chanreqs /\ c1.throttle_state = c.throttle_state
        /\ c1.fixed = c.fixed /\ c1.chan = c.chan /\ c1.input_wanted = c.input_wanted
        /\ c1.socksbuf = c.socksbuf /\ c1.ready = c.ready /\ c1.backlog = c.backlog
        /\ c1.sockeof = c.sockeof /\ c1.unwritten = c.unwritten /\ c1.n = c.n
    BY <1>1, <2>2 DEF Chan, Alike
  <2>4. Append(x.tx, p) \in Seq(Pkt)
    BY <1>1, <2>1
  <2> HIDE DEF p
  <2>5. y.c = c1 /\ y.tx = Append(x.tx, p)
    BY <1>1, <2>3, <2>4 DEF Push, Work
  <2>6. y \in Work
    BY <1>1, <2>3, <2>4 DEF Push, Work
  <2> HIDE DEF c1, y
  <2>7. c.pending_eof /\ c.outbuffer = 0 /\ c.socksbuf = 0 /\ {"SENT_EOF", "SENT_CLOSE"} \cap c.closes = {}
    BY <1>2, <1>5, <2>2 DEF Sound
  <2> HIDE DEF c
  <2>8. Sound(c1)
    BY <1>2, <2>3, <2>7 DEF Sound, Alike
  <2>9. m.fixed \/ Within(c1)
    BY <1>1, <2>3 DEF Fits, Within
  <2>10. Both(c1, m.d, (m.q \o x.tx) \o <<p>>, m.r)
    <3>1. Both(c, m.d, m.q \o x.tx, m.r)
      BY <1>1 DEF Fits
    <3>2. m.d \in Chan /\ m.r \in Seq(Pkt) /\ m.q \o x.tx \in Seq(Pkt)
      BY <1>1, SettingType
    <3>3. QED
      BY <1>1, <1>2, <2>1, <2>3, <2>7, <3>1, <3>2, BothEof
  <2>11. ~m.cut => /\ "SENT_EOF" \in c1.closes => c1.sockeof /\ c1.outbuffer = 0 /\ c1.socksbuf = 0
                   /\ "SENT_CLOSE" \in c1.closes => "RCVD_EOF" \in c1.closes
    <3>1. ~m.cut => Carried(c, m.d, m.q \o x.tx, m.s)
      BY <1>1 DEF Fits
    <3>2. c.chan # "freed" /\ c.chan \in {"socket", "zombie", "freed"}
      BY <1>1 DEF Fits, Chan
    <3>3. ~m.cut => c.sockeof
      BY <1>2, <2>7, <3>1, <3>2 DEF Carried, Sound
    <3>4. QED
      BY <2>3, <2>7, <3>3
  <2>12. Fits(c1, Append(x.tx, p), m)
    <3>1. /\ "RCVD_CLOSE" \notin c1.closes
          /\ "RCVD_EOF" \in c1.closes <=> "RCVD_EOF" \in c.closes
      BY <1>2, <2>3
    <3>2. p.type # "DATA" /\ x.tx \in Seq(Pkt) /\ c \in Chan /\ Fits(c, x.tx, m)
      BY <1>1, <2>1
    <3>3. QED
      BY <2>1, <2>3, <2>8, <2>9, <2>10, <2>11, <3>1, <3>2, FitsAppended
  <2>13. Mid(y, m)
    BY <2>5, <2>6, <2>12 DEF Mid
  <2>14. QED
    BY <1>3, <1>5, <2>13, CheckCloseMid
<1>6. QED
  BY <1>4, <1>5

LEMMA TrySendMid ==
  ASSUME NEW m \in Setting, NEW x, Mid(x, m), "SENT_EOF" \notin x.c.closes
  PROVE  Mid(TrySend(x), m)
<1> DEFINE c == x.c
<1> DEFINE k == Min({c.outbuffer, c.remwindow})
<1> DEFINE w == DataPackets(c, k)
<1> DEFINE y == [x EXCEPT !.tx = @ \o w, !.c.outbuffer = @ - k, !.c.remwindow = @ - k]
<1> DEFINE c1 == [c EXCEPT !.outbuffer = c.outbuffer - k, !.remwindow = c.remwindow - k]
<1>1. x \in Work /\ c \in Chan /\ x.tx \in Seq(Pkt) /\ Fits(c, x.tx, m)
  BY WorkType DEF Mid
<1>2. ~c.halfopen /\ "RCVD_CLOSE" \notin c.closes /\ Sound(c)
  BY <1>1 DEF Fits
<1>3. c.outbuffer \in Nat /\ c.remwindow \in Nat
  BY <1>1 DEF Chan
<1>4. k \in Nat /\ c.outbuffer - k \in Nat /\ c.remwindow - k \in Nat
  <2>1. k = IF c.outbuffer <= c.remwindow THEN c.outbuffer ELSE c.remwindow
    BY <1>3, LeastOfTwo
  <2> HIDE DEF k
  <2>2. QED
    BY <1>3, <2>1
<1>5. TrySend(x) = IF y.c.outbuffer = 0 /\ y.c.pending_eof THEN TryEof(y) ELSE y
  BY <1>2 DEF TrySend
<1> HIDE DEF k
<1>6. w \in Seq(Pkt) /\ Data(w) = k /\ Ours(c, w, "DATA") /\ \A i \in DOMAIN w : w[i].n = c.n
  BY <1>1, <1>4, DataPacketsAre DEF Ours
<1> HIDE DEF w
<1>7. /\ c1 \in Chan /\ Alike(c, c1) /\ c1.closes = c.closes
        /\ c1.pending_eof = c.pending_eof /\ c1.throttling_conn = c.throttling_conn
        /\ c1.throttled_by_backlog = c.throttled_by_backlog /\ c1.outbuffer = c.outbuffer - k
        /\ c1.remwindow = c.remwindow - k /\ c1.locwindow = c.locwindow
        /\ c1.locmaxwin = c.locmaxwin /\ c1.remlocwin = c.remlocwin
        /\ c1.chanreqs = c.chanreqs /\ c1.throttle_state = c.throttle_state
        /\ c1.fixed = c.fixed /\ c1.chan = c.chan /\ c1.input_wanted = c.input_wanted
        /\ c1.socksbuf = c.socksbuf /\ c1.ready = c.ready /\ c1.backlog = c.backlog
        /\ c1.sockeof = c.sockeof /\ c1.unwritten = c.unwritten /\ c1.n = c.n
  BY <1>1, <1>4 DEF Chan, Alike
<1>8. x.tx \o w \in Seq(Pkt)
  BY <1>1, <1>6
<1>9. y.c = c1 /\ y.tx = x.tx \o w
  BY <1>1, <1>7, <1>8 DEF Work
<1>10. y \in Work
  BY <1>1, <1>7, <1>8 DEF Work
<1> HIDE DEF c, c1, y
<1>11. Sound(c1) /\ {"SENT_EOF", "SENT_CLOSE"} \cap c.closes = {}
  <2>1. c1.outbuffer = 0 \/ c.outbuffer # 0
    BY <1>3, <1>4, <1>7
  <2>2. {"SENT_EOF", "SENT_CLOSE"} \cap c.closes = {}
    BY <1>2 DEF Sound, c
  <2>3. QED
    BY <1>2, <1>7, <2>1, <2>2 DEF Sound, Alike
<1>12. m.fixed \/ Within(c1)
  BY <1>1, <1>7 DEF Fits, Within
<1>13. Both(c1, m.d, (m.q \o x.tx) \o w, m.r)
  <2>1. Both(c, m.d, m.q \o x.tx, m.r)
    BY <1>1 DEF Fits
  <2>2. m.d \in Chan /\ m.r \in Seq(Pkt) /\ m.q \o x.tx \in Seq(Pkt)
    BY <1>1, SettingType
  <2>3. c1.remwindow = c.remwindow - Data(w)
    BY <1>6, <1>7
  <2>4. QED
    BY <1>1, <1>2, <1>6, <1>7, <1>11, <2>1, <2>2, <2>3, BothData
<1>14. Fits(c1, x.tx \o w, m)
  <2>1. /\ "RCVD_CLOSE" \notin c1.closes
        /\ "RCVD_EOF" \in c1.closes <=> "RCVD_EOF" \in c.closes
    BY <1>2, <1>7
  <2>2. c.socksbuf \in Nat
    BY <1>1 DEF Chan
  <2>3. c1.socksbuf + c1.outbuffer + Data(w) = c.socksbuf + c.outbuffer
    BY <1>3, <1>4, <1>6, <1>7, <2>2
  <2>4. "SENT_EOF" \notin c1.closes /\ "SENT_CLOSE" \notin c1.closes
    BY <1>7, <1>11
  <2>5. QED
    BY <1>1, <1>6, <1>7, <1>11, <1>12, <1>13, <2>1, <2>3, <2>4, FitsPushed
<1>15. Mid(y, m)
  BY <1>9, <1>10, <1>14 DEF Mid
<1>16. QED
  BY <1>5, <1>15, TryEofMid

LEMMA WriteMid ==
  ASSUME NEW m \in Setting, NEW x, NEW len, "SENT_EOF" \notin x.c.closes, x \in Work, len \in Nat,
         Mid([x EXCEPT !.c.outbuffer = @ + len], m)
  PROVE  Mid(Write(x, len), m)
<1> DEFINE y == [x EXCEPT !.c.outbuffer = @ + len]
<1>1. Write(x, len) = TrySend(y)
  BY DEF Write, Asserts
<1>2. y.c.closes = x.c.closes
  BY DEF Work, Chan
<1> HIDE DEF y
<1>3. Mid(y, m)
  BY DEF y
<1>4. QED
  BY <1>1, <1>2, <1>3, TrySendMid

LEMMA WriteEofMid ==
  ASSUME NEW m \in Setting, NEW x, x \in Work,
         "SENT_EOF" \in x.c.closes => Mid(x, m),
         "SENT_EOF" \notin x.c.closes => Mid([x EXCEPT !.c.pending_eof = TRUE], m)
  PROVE  Mid(WriteEof(x), m)
<1> DEFINE y == [x EXCEPT !.c.pending_eof = TRUE]
<1>1. WriteEof(x) = IF "SENT_EOF" \in x.c.closes THEN x ELSE TryEof(y)
  BY DEF WriteEof
<1>2. y.c.pending_eof
  BY DEF Work, Chan
<1> HIDE DEF y
<1>3. "SENT_EOF" \notin x.c.closes => Mid(y, m)
  BY DEF y
<1>4. QED
  BY <1>1, <1>2, <1>3, TryEofMid

LEMMA CheckThrottleMid ==
  ASSUME NEW m \in Setting, NEW x, Mid(x, m)
  PROVE  Mid(CheckThrottle(x), m)
<1> DEFINE c == x.c
<1> DEFINE b == /\ ~c.throttled_by_backlog /\ ~c.pending_eof
                /\ "SENT_EOF" \notin c.closes
<1> DEFINE y == [x EXCEPT !.c.input_wanted = b]
<1> DEFINE c1 == [c EXCEPT !.input_wanted = b]
<1>1. x \in Work /\ c \in Chan /\ x.tx \in Seq(Pkt) /\ Fits(c, x.tx, m)
  BY WorkType DEF Mid
<1>2. ~c.halfopen /\ Sound(c) /\ c.chan # "freed" /\ (m.fixed \/ Within(c))
  BY <1>1 DEF Fits
<1>3. CheckThrottle(x) = y
  BY <1>2 DEF CheckThrottle, Asserts
<1>4. b \in BOOLEAN
  OBVIOUS
<1> HIDE DEF b
<1>5. /\ c1 \in Chan /\ Alike(c, c1) /\ c1.closes = c.closes
        /\ c1.pending_eof = c.pending_eof /\ c1.throttling_conn = c.throttling_conn
        /\ c1.throttled_by_backlog = c.throttled_by_backlog /\ c1.outbuffer = c.outbuffer
        /\ c1.remwindow = c.remwindow /\ c1.locwindow = c.locwindow
        /\ c1.locmaxwin = c.locmaxwin /\ c1.remlocwin = c.remlocwin
        /\ c1.chanreqs = c.chanreqs /\ c1.throttle_state = c.throttle_state
        /\ c1.fixed = c.fixed /\ c1.chan = c.chan /\ c1.input_wanted = b
        /\ c1.socksbuf = c.socksbuf /\ c1.ready = c.ready /\ c1.backlog = c.backlog
        /\ c1.sockeof = c.sockeof /\ c1.unwritten = c.unwritten /\ c1.n = c.n
  BY <1>1, <1>4 DEF Chan, Alike
<1>6. y.c = c1 /\ y.tx = x.tx /\ y \in Work
  BY <1>1, <1>5 DEF Work
<1> HIDE DEF c, c1, y
<1>7. Sound(c1) /\ (m.fixed \/ Within(c1))
  BY <1>2, <1>5 DEF Sound, Within, Alike
<1>8. Fits(c1, x.tx, m)
  BY <1>1, <1>5, <1>7, FitsSame
<1>9. QED
  BY <1>3, <1>6, <1>8 DEF Mid

LEMMA TrySendAndUnthrottleMid ==
  ASSUME NEW m \in Setting, NEW x, Mid(x, m), "SENT_EOF" \notin x.c.closes
  PROVE  Mid(TrySendAndUnthrottle(x), m)
<1> DEFINE y == TrySend(x)
<1> DEFINE c == y.c
<1> DEFINE z == [y EXCEPT !.c.throttled_by_backlog = FALSE]
<1> DEFINE c1 == [c EXCEPT !.throttled_by_backlog = FALSE]
<1>1. TrySendAndUnthrottle(x) = IF y.c.outbuffer > 0 THEN y ELSE CheckThrottle(z)
  BY DEF TrySendAndUnthrottle
<1>2. Mid(y, m)
  BY TrySendMid
<1> HIDE DEF y
<1>3. y \in Work /\ c \in Chan /\ y.tx \in Seq(Pkt) /\ Fits(c, y.tx, m)
  BY <1>2, WorkType DEF Mid
<1>4. ~c.halfopen /\ Sound(c) /\ (m.fixed \/ Within(c))
  BY <1>3 DEF Fits
<1>5. /\ c1 \in Chan /\ Alike(c, c1) /\ c1.closes = c.closes
        /\ c1.pending_eof = c.pending_eof /\ c1.throttling_conn = c.throttling_conn
        /\ c1.throttled_by_backlog = FALSE /\ c1.outbuffer = c.outbuffer
        /\ c1.remwindow = c.remwindow /\ c1.locwindow = c.locwindow
        /\ c1.locmaxwin = c.locmaxwin /\ c1.remlocwin = c.remlocwin
        /\ c1.chanreqs = c.chanreqs /\ c1.throttle_state = c.throttle_state
        /\ c1.fixed = c.fixed /\ c1.chan = c.chan /\ c1.input_wanted = c.input_wanted
        /\ c1.socksbuf = c.socksbuf /\ c1.ready = c.ready /\ c1.backlog = c.backlog
        /\ c1.sockeof = c.sockeof /\ c1.unwritten = c.unwritten /\ c1.n = c.n
  BY <1>3 DEF Chan, Alike
<1>6. z.c = c1 /\ z.tx = y.tx /\ z \in Work
  BY <1>3, <1>5 DEF Work
<1> HIDE DEF c, c1, z
<1>7. Sound(c1) /\ (m.fixed \/ Within(c1))
  BY <1>4, <1>5 DEF Sound, Within, Alike
<1>8. Fits(c1, y.tx, m)
  BY <1>3, <1>5, <1>7, FitsSame
<1>9. Mid(z, m)
  BY <1>6, <1>8 DEF Mid
<1>10. QED
  BY <1>1, <1>2, <1>9, CheckThrottleMid

LEMMA RequestMid ==
  ASSUME NEW m \in Setting, NEW x, Mid(x, m), "SENT_CLOSE" \notin x.c.closes, ~x.c.fixed, NEW size \in Nat
  PROVE  LET y == [ChanreqInit(x, size) EXCEPT
                     !.c.throttle_state = IF @ = "UNTHROTTLED" THEN @ ELSE "UNTHROTTLING"]
         IN  /\ Mid(y, m) /\ y.c.locwindow = x.c.locwindow /\ y.c.locmaxwin = x.c.locmaxwin
             /\ y.c.backlog = x.c.backlog /\ y.c.closes = x.c.closes /\ y.c.remoteid = x.c.remoteid
             /\ y.c.n = x.c.n /\ y.c.chan = x.c.chan /\ y.c.remlocwin + Total(y.c.chanreqs) >= x.c.locwindow + size
<1> DEFINE c == x.c
<1> DEFINE ts == IF c.throttle_state = "UNTHROTTLED" THEN c.throttle_state ELSE "UNTHROTTLING"
<1> DEFINE p == [Packet("REQUEST", c) EXCEPT !.len = size]
<1> DEFINE a == Append(c.chanreqs, size)
<1> DEFINE y == [ChanreqInit(x, size) EXCEPT
                   !.c.throttle_state = IF @ = "UNTHROTTLED" THEN @ ELSE "UNTHROTTLING"]
<1> DEFINE c1 == [c EXCEPT !.chanreqs = a, !.throttle_state = ts]
<1>1. x \in Work /\ c \in Chan /\ x.tx \in Seq(Pkt) /\ Fits(c, x.tx, m)
  BY WorkType DEF Mid
<1>2. /\ ~c.halfopen /\ "RCVD_CLOSE" \notin c.closes /\ Sound(c) /\ (m.fixed \/ Within(c))
      /\ c.closes \cap {"SENT_CLOSE", "RCVD_CLOSE"} = {}
  BY <1>1 DEF Fits
<1>3. p \in Pkt /\ p.type = "REQUEST" /\ p.to = c.remoteid /\ p.n = c.n /\ p.len = size
  BY <1>1, PacketIs
<1>4. a \in Seq(Nat) /\ Total(a) = Total(c.chanreqs) + size /\ Total(c.chanreqs) \in Nat
      /\ c.chanreqs \in Seq(Nat) /\ c.remlocwin \in Int /\ c.locwindow \in Nat
  <2>1. c.chanreqs \in Seq(Nat) /\ c.chanreqs \in Seq(Int) /\ c.remlocwin \in Int /\ c.locwindow \in Nat
    <3>1. c.chanreqs \in Seq(Nat) /\ c.remlocwin \in Int /\ c.locwindow \in Nat
      BY <1>1 DEF Chan
    <3>2. \A v \in Seq(Nat) : v \in Seq(Int)
      OBVIOUS
    <3>3. QED
      BY <3>1, <3>2
  <2>2. a \in Seq(Nat)
    BY <2>1
  <2>3. size \in Int
    OBVIOUS
  <2>4. Total(a) = Total(c.chanreqs) + size
    BY <2>1, <2>3, TotalAppend
  <2>5. Total(c.chanreqs) \in Nat
    BY <2>1, TotalNat
  <2>6. QED
    BY <2>1, <2>2, <2>4, <2>5
<1>5. ts \in {"UNTHROTTLED", "UNTHROTTLING", "THROTTLED"}
  BY <1>1 DEF Chan
<1> HIDE DEF a
<1>6. /\ c1 \in Chan /\ Alike(c, c1) /\ c1.closes = c.closes
        /\ c1.pending_eof = c.pending_eof /\ c1.throttling_conn = c.throttling_conn
        /\ c1.throttled_by_backlog = c.throttled_by_backlog /\ c1.outbuffer = c.outbuffer
        /\ c1.remwindow = c.remwindow /\ c1.locwindow = c.locwindow
        /\ c1.locmaxwin = c.locmaxwin /\ c1.remlocwin = c.remlocwin /\ c1.chanreqs = a
        /\ c1.fixed = c.fixed /\ c1.chan = c.chan /\ c1.input_wanted = c.input_wanted
        /\ c1.socksbuf = c.socksbuf /\ c1.ready = c.ready /\ c1.backlog = c.backlog
        /\ c1.sockeof = c.sockeof /\ c1.unwritten = c.unwritten /\ c1.n = c.n
  BY <1>1, <1>4, <1>5 DEF Chan, Alike
<1>7. Append(x.tx, p) \in Seq(Pkt)
  BY <1>1, <1>3
<1>8. Asserts(x, c.closes \cap {"SENT_CLOSE", "RCVD_CLOSE"} = {}, "request after CLOSE") = x
  BY <1>2 DEF Asserts
<1> DEFINE z == [Push(x, p) EXCEPT !.c.chanreqs = Append(@, size)]
<1>9. ChanreqInit(x, size) = z
  BY <1>8, Zenon DEF ChanreqInit
<1> DEFINE cz == [c EXCEPT !.chanreqs = a]
<1>10. cz \in Chan /\ cz.throttle_state = c.throttle_state
  BY <1>1, <1>4 DEF Chan
<1> HIDE DEF p
<1>11. z.c = cz /\ z.tx = Append(x.tx, p) /\ z \in Work
  BY <1>1, <1>4, <1>7, <1>10 DEF Push, Work, a
<1> HIDE DEF z
<1>12. y.c = [z.c EXCEPT !.throttle_state = ts] /\ y.tx = z.tx
  BY <1>9, <1>10, <1>11 DEF Work
<1> HIDE DEF ts
<1>13. [cz EXCEPT !.throttle_state = ts] = c1
  BY <1>1 DEF Chan
<1>14. y.c = c1 /\ y.tx = Append(x.tx, p)
  BY <1>11, <1>12, <1>13
<1>15. y \in Work
  <2>1. y = [z EXCEPT !.c = [z.c EXCEPT !.throttle_state = ts]]
    BY <1>9, <1>10, <1>11 DEF Work, ts
  <2>2. y = [z EXCEPT !.c = c1]
    BY <1>11, <1>13, <2>1
  <2> HIDE DEF y, c1
  <2>3. QED
    BY <1>6, <1>11, <2>2 DEF Work
<1> HIDE DEF c, c1, y
<1>16. Sound(c1)
  <2>1. ~c.fixed
    BY DEF c
  <2>2. c1.remlocwin + Total(c1.chanreqs) >= c1.locwindow
    <3>1. c.remlocwin + Total(c.chanreqs) >= c.locwindow
      BY <1>2 DEF Sound
    <3>2. QED
      BY <1>4, <1>6, <3>1
  <2>3. QED
    BY <1>2, <1>6, <2>1, <2>2 DEF Sound, Alike
<1>17. m.fixed \/ Within(c1)
  BY <1>2, <1>6 DEF Within
<1>18. Both(c1, m.d, (m.q \o x.tx) \o <<p>>, m.r)
  <2>1. Both(c, m.d, m.q \o x.tx, m.r)
    BY <1>1 DEF Fits
  <2>2. m.d \in Chan /\ m.r \in Seq(Pkt) /\ m.q \o x.tx \in Seq(Pkt)
    BY <1>1, SettingType
  <2>3. "SENT_CLOSE" \notin c.closes /\ c1.chanreqs = Append(c.chanreqs, p.len)
    BY <1>2, <1>3, <1>6 DEF a
  <2>4. QED
    BY <1>1, <1>2, <1>3, <1>6, <2>1, <2>2, <2>3, BothRequest
<1>19. ~m.cut => /\ "SENT_EOF" \in c1.closes => c1.sockeof /\ c1.outbuffer = 0 /\ c1.socksbuf = 0
                 /\ "SENT_CLOSE" \in c1.closes => "RCVD_EOF" \in c1.closes
  <2>1. ~m.cut => Carried(c, m.d, m.q \o x.tx, m.s)
    BY <1>1 DEF Fits
  <2>2. QED
    BY <1>2, <1>6, <2>1 DEF Carried
<1>20. Fits(c1, Append(x.tx, p), m)
  <2>1. /\ "RCVD_CLOSE" \notin c1.closes
        /\ "RCVD_EOF" \in c1.closes <=> "RCVD_EOF" \in c.closes
    BY <1>2, <1>6
  <2>2. p.type # "DATA"
    BY <1>3
  <2>3. QED
    BY <1>1, <1>3, <1>6, <1>16, <1>17, <1>18, <1>19, <2>1, <2>2, FitsAppended
<1>21. Mid(y, m)
  BY <1>14, <1>15, <1>20 DEF Mid
<1>22. c1.remlocwin + Total(c1.chanreqs) >= c.locwindow + size
  <2>1. c.remlocwin + Total(c.chanreqs) >= c.locwindow
    BY <1>2 DEF Sound
  <2>2. QED
    BY <1>4, <1>6, <2>1
<1>23. QED
  BY <1>6, <1>14, <1>21, <1>22 DEF c, y, Alike

LEMMA AdjustMid ==
  ASSUME NEW m \in Setting, NEW x, Mid(x, m), NEW newwin \in Nat, newwin >= x.c.locwindow,
         "SENT_CLOSE" \notin x.c.closes, x.c.remlocwin + Total(x.c.chanreqs) >= newwin,
         m.fixed \/ newwin + x.c.backlog <= x.c.locmaxwin
  PROVE  /\ Mid(Adjust(x, newwin), m)
         /\ Adjust(x, newwin).c.backlog = x.c.backlog /\ Adjust(x, newwin).c.locmaxwin = x.c.locmaxwin
         /\ Adjust(x, newwin).c.chan = x.c.chan
<1> DEFINE c == x.c
<1> DEFINE size == newwin - c.locwindow
<1> DEFINE p == [Packet("WINDOW_ADJUST", c) EXCEPT !.len = size]
<1> DEFINE y == [Push(x, p) EXCEPT !.c.locwindow = newwin]
<1> DEFINE c1 == [c EXCEPT !.locwindow = newwin]
<1>a. Adjust(x, newwin) = y
  BY DEF Adjust
<1>1. x \in Work /\ c \in Chan /\ x.tx \in Seq(Pkt) /\ Fits(c, x.tx, m)
  BY WorkType DEF Mid
<1>2. ~c.halfopen /\ "RCVD_CLOSE" \notin c.closes /\ Sound(c) /\ (m.fixed \/ Within(c))
  BY <1>1 DEF Fits
<1>3. /\ c1 \in Chan /\ Alike(c, c1) /\ c1.closes = c.closes
        /\ c1.pending_eof = c.pending_eof /\ c1.throttling_conn = c.throttling_conn
        /\ c1.throttled_by_backlog = c.throttled_by_backlog /\ c1.outbuffer = c.outbuffer
        /\ c1.remwindow = c.remwindow /\ c1.locwindow = newwin /\ c1.locmaxwin = c.locmaxwin
        /\ c1.remlocwin = c.remlocwin /\ c1.chanreqs = c.chanreqs
        /\ c1.throttle_state = c.throttle_state /\ c1.fixed = c.fixed /\ c1.chan = c.chan
        /\ c1.input_wanted = c.input_wanted /\ c1.socksbuf = c.socksbuf /\ c1.ready = c.ready
        /\ c1.backlog = c.backlog /\ c1.sockeof = c.sockeof /\ c1.unwritten = c.unwritten
        /\ c1.n = c.n
  BY <1>1 DEF Chan, Alike
<1>b. size \in Nat /\ newwin = c.locwindow + size
  <2>1. c.locwindow \in Nat /\ newwin >= c.locwindow
    BY <1>1 DEF Chan
  <2> HIDE DEF c
  <2>2. QED
    BY <2>1
<1> HIDE DEF size
<1>c. p \in Pkt /\ p.type = "WINDOW_ADJUST" /\ p.to = c.remoteid /\ p.n = c.n /\ p.len = size
  BY <1>1, <1>b, PacketIs
<1> HIDE DEF p
<1>4. Append(x.tx, p) \in Seq(Pkt)
  BY <1>1, <1>c
<1>5. y.c = c1 /\ y.tx = Append(x.tx, p)
  BY <1>1, <1>3, <1>4 DEF Push, Work
<1>6. y \in Work
  BY <1>1, <1>3, <1>4 DEF Push, Work
<1> HIDE DEF c1, y
<1>7. Sound(c1)
  BY <1>2, <1>3 DEF Sound, Alike
<1>8. m.fixed \/ Within(c1)
  BY <1>2, <1>3 DEF Within
<1>9. Both(c1, m.d, (m.q \o x.tx) \o <<p>>, m.r)
  <2>1. Both(c, m.d, m.q \o x.tx, m.r)
    BY <1>1 DEF Fits
  <2>2. m.d \in Chan /\ m.r \in Seq(Pkt) /\ m.q \o x.tx \in Seq(Pkt)
    BY <1>1, SettingType
  <2>3. c1.locwindow = c.locwindow + p.len
    BY <1>b, <1>c, <1>3
  <2>4. QED
    BY <1>1, <1>2, <1>3, <1>c, <2>1, <2>2, <2>3, BothAdjust
<1>10. ~m.cut => /\ "SENT_EOF" \in c1.closes => c1.sockeof /\ c1.outbuffer = 0 /\ c1.socksbuf = 0
                 /\ "SENT_CLOSE" \in c1.closes => "RCVD_EOF" \in c1.closes
  <2>1. ~m.cut => Carried(c, m.d, m.q \o x.tx, m.s)
    BY <1>1 DEF Fits
  <2>2. QED
    BY <1>3, <2>1 DEF Carried
<1>11. Fits(c1, Append(x.tx, p), m)
  <2>1. /\ "RCVD_CLOSE" \notin c1.closes
        /\ "RCVD_EOF" \in c1.closes <=> "RCVD_EOF" \in c.closes
    BY <1>2, <1>3
  <2>2. p.type # "DATA"
    BY <1>c
  <2>3. QED
    BY <1>1, <1>3, <1>c, <1>7, <1>8, <1>9, <1>10, <2>1, <2>2, FitsAppended
<1>12. QED
  BY <1>a, <1>3, <1>5, <1>6, <1>11 DEF Mid

LEMMA SetWindowMid ==
  ASSUME NEW m \in Setting, NEW x, Mid(x, m), NEW newwin \in Nat,
         m.fixed \/ newwin + x.c.backlog <= x.c.locmaxwin
  PROVE  /\ Mid(SetWindow(x, newwin), m)
         /\ SetWindow(x, newwin).c.backlog = x.c.backlog
         /\ SetWindow(x, newwin).c.locmaxwin = x.c.locmaxwin
         /\ SetWindow(x, newwin).c.chan = x.c.chan
<1> DEFINE c == x.c
<1> DEFINE size == newwin - c.locwindow
<1> DEFINE z == [ChanreqInit(x, size) EXCEPT
                   !.c.throttle_state = IF @ = "UNTHROTTLED" THEN @ ELSE "UNTHROTTLING"]
<1> DEFINE y == [x EXCEPT !.c.remlocwin = newwin, !.c.throttle_state = "THROTTLED"]
<1> DEFINE c1 == [c EXCEPT !.remlocwin = newwin, !.throttle_state = "THROTTLED"]
<1> DEFINE silent == c.closes \cap {"RCVD_EOF", "SENT_CLOSE"} # {} \/ c.fixed
<1>1. x \in Work /\ c \in Chan /\ x.tx \in Seq(Pkt) /\ Fits(c, x.tx, m)
  BY WorkType DEF Mid
<1>2. ~c.halfopen /\ "RCVD_CLOSE" \notin c.closes /\ Sound(c) /\ (m.fixed \/ Within(c))
  BY <1>1 DEF Fits
<1>3. c.locwindow \in Nat /\ c.locmaxwin \in Nat /\ c.chanreqs \in Seq(Nat)
  BY <1>1 DEF Chan
<1>4. SetWindow(x, newwin) =
        IF silent \/ newwin \div 2 < c.locwindow THEN x
        ELSE Adjust(AskOrSettle(x, newwin), newwin)
  BY DEF SetWindow
<1>5. CASE silent \/ newwin \div 2 < c.locwindow
  BY <1>4, <1>5
<1>6. CASE ~(silent \/ newwin \div 2 < c.locwindow)
  <2>1. size \in Nat /\ newwin = c.locwindow + size
    <3>1. ~(newwin \div 2 < c.locwindow)
      BY <1>6
    <3>2. c.locwindow <= newwin
      BY <1>3, <3>1
    <3>3. QED
      BY <1>3, <3>2
  <2>2. "SENT_CLOSE" \notin c.closes /\ ~c.fixed
    BY <1>6
  <2> HIDE DEF size
  <2> HIDE DEF silent
  <2>4. CASE newwin = c.locmaxwin
    <3>1. /\ Mid(z, m) /\ z.c.locwindow = c.locwindow /\ z.c.locmaxwin = c.locmaxwin
          /\ z.c.backlog = c.backlog /\ z.c.closes = c.closes /\ z.c.remoteid = c.remoteid
          /\ z.c.n = c.n /\ z.c.chan = c.chan /\ z.c.remlocwin + Total(z.c.chanreqs) >= c.locwindow + size
      BY <2>1, <2>2, RequestMid
    <3>2. SetWindow(x, newwin) = Adjust(z, newwin)
      <4>1. AskOrSettle(x, newwin) = z
        BY <2>4 DEF AskOrSettle, size
      <4>2. QED
        BY <1>4, <1>6, <4>1
    <3> HIDE DEF z
    <3>3. z.c.remlocwin + Total(z.c.chanreqs) >= newwin /\ newwin >= z.c.locwindow
      BY <1>3, <2>1, <3>1
    <3>4. QED
      BY <2>2, <3>1, <3>2, <3>3, AdjustMid
  <2>5. CASE newwin # c.locmaxwin
    <3>1. /\ c1 \in Chan /\ Alike(c, c1) /\ c1.closes = c.closes
          /\ c1.pending_eof = c.pending_eof /\ c1.throttling_conn = c.throttling_conn
          /\ c1.throttled_by_backlog = c.throttled_by_backlog /\ c1.outbuffer = c.outbuffer
          /\ c1.remwindow = c.remwindow /\ c1.locwindow = c.locwindow
          /\ c1.locmaxwin = c.locmaxwin /\ c1.remlocwin = newwin /\ c1.chanreqs = c.chanreqs
          /\ c1.fixed = c.fixed /\ c1.chan = c.chan /\ c1.input_wanted = c.input_wanted
          /\ c1.socksbuf = c.socksbuf /\ c1.ready = c.ready /\ c1.backlog = c.backlog
          /\ c1.sockeof = c.sockeof /\ c1.unwritten = c.unwritten /\ c1.n = c.n
      <4>1. newwin \in Int
        OBVIOUS
      <4>2. QED
        BY <1>1, <4>1 DEF Chan, Alike
    <3>2. y.c = c1 /\ y.tx = x.tx /\ y \in Work
      BY <1>1, <3>1 DEF Work
    <3>3. SetWindow(x, newwin) = Adjust(y, newwin)
      <4>1. AskOrSettle(x, newwin) = y
        BY <2>5 DEF AskOrSettle
      <4>2. QED
        BY <1>4, <1>6, <4>1
    <3> HIDE DEF c, c1, y
    <3>4. Total(c.chanreqs) \in Nat
      BY <1>3, TotalNat
    <3>5. Sound(c1) /\ (m.fixed \/ Within(c1))
      BY <1>2, <1>3, <2>1, <2>2, <3>1, <3>4 DEF Sound, Within, Alike
    <3>6. Mid(y, m)
      <4>1. Fits(c1, x.tx, m)
        BY <1>1, <3>1, <3>5, FitsSame
      <4>2. QED
        BY <3>2, <4>1 DEF Mid
    <3>7. y.c.remlocwin + Total(y.c.chanreqs) >= newwin
      BY <3>1, <3>2, <3>4
    <3>8. m.fixed \/ newwin + y.c.backlog <= y.c.locmaxwin
      BY <3>1, <3>2 DEF c
    <3>9. "SENT_CLOSE" \notin y.c.closes /\ newwin >= y.c.locwindow
      BY <1>3, <2>1, <2>2, <3>1, <3>2
    <3>10. QED
      BY <3>1, <3>2, <3>3, <3>6, <3>7, <3>8, <3>9, AdjustMid DEF c
  <2>6. QED
    BY <2>4, <2>5
<1>7. QED
  BY <1>5, <1>6

LEMMA ThrottleMid ==
  ASSUME NEW m \in Setting, NEW x, Mid(x, m), NEW b \in BOOLEAN, m.fixed \/ ~b
  PROVE  Mid([x EXCEPT !.c.throttling_conn = b], m)
<1> DEFINE c == x.c
<1> DEFINE y == [x EXCEPT !.c.throttling_conn = b]
<1> DEFINE c1 == [c EXCEPT !.throttling_conn = b]
<1>1. x \in Work /\ c \in Chan /\ x.tx \in Seq(Pkt) /\ Fits(c, x.tx, m)
  BY WorkType DEF Mid
<1>2. ~c.halfopen /\ Sound(c) /\ (m.fixed \/ Within(c))
  BY <1>1 DEF Fits
<1>3. /\ c1 \in Chan /\ Alike(c, c1) /\ c1.closes = c.closes
        /\ c1.pending_eof = c.pending_eof /\ c1.throttling_conn = b
        /\ c1.throttled_by_backlog = c.throttled_by_backlog /\ c1.outbuffer = c.outbuffer
        /\ c1.remwindow = c.remwindow /\ c1.locwindow = c.locwindow
        /\ c1.locmaxwin = c.locmaxwin /\ c1.remlocwin = c.remlocwin
        /\ c1.chanreqs = c.chanreqs /\ c1.throttle_state = c.throttle_state
        /\ c1.fixed = c.fixed /\ c1.chan = c.chan /\ c1.input_wanted = c.input_wanted
        /\ c1.socksbuf = c.socksbuf /\ c1.ready = c.ready /\ c1.backlog = c.backlog
        /\ c1.sockeof = c.sockeof /\ c1.unwritten = c.unwritten /\ c1.n = c.n
  BY <1>1 DEF Chan, Alike
<1>4. y.c = c1 /\ y.tx = x.tx /\ y \in Work
  BY <1>1, <1>3 DEF Work
<1> HIDE DEF c, c1, y
<1>5. Sound(c1)
  BY <1>2, <1>3 DEF Sound, Alike
<1>6. m.fixed \/ Within(c1)
  BY <1>2, <1>3 DEF Within
<1>7. Fits(c1, x.tx, m)
  BY <1>1, <1>3, <1>5, <1>6, FitsSame
<1>8. Mid(y, m)
  BY <1>4, <1>7 DEF Mid
<1>9. QED
  BY <1>8 DEF y

\* The window that is opened again and the backlog make up locmaxwin.
LEMMA BackMid ==
  ASSUME NEW m \in Setting, NEW x, Mid(x, m), NEW bufsize \in Nat, x.c.backlog = bufsize
  PROVE  LET y == IF bufsize < x.c.locmaxwin THEN SetWindow(x, x.c.locmaxwin - bufsize) ELSE x
         IN  /\ Mid(y, m) /\ y.c.backlog = bufsize /\ y.c.locmaxwin = x.c.locmaxwin
             /\ y.c.throttling_conn \in BOOLEAN
             /\ m.fixed \/ (~y.c.throttling_conn /\ bufsize <= x.c.locmaxwin)
<1> DEFINE c == x.c
<1> DEFINE y == IF bufsize < c.locmaxwin THEN SetWindow(x, c.locmaxwin - bufsize) ELSE x
<1>1. c.locmaxwin \in Nat
  BY WorkType DEF Mid, Chan
<1>2. Mid(y, m) /\ y.c.backlog = bufsize /\ y.c.locmaxwin = c.locmaxwin
  <2>1. CASE bufsize < c.locmaxwin
    <3> DEFINE newwin == c.locmaxwin - bufsize
    <3>1. newwin \in Nat /\ newwin + x.c.backlog <= x.c.locmaxwin
      <4> HIDE DEF c
      <4>1. newwin \in Nat /\ newwin + bufsize <= c.locmaxwin
        BY <1>1, <2>1
      <4>2. QED
        BY <4>1 DEF c
    <3> HIDE DEF newwin
    <3>2. y = SetWindow(x, newwin)
      BY <2>1 DEF newwin
    <3>3. QED
      BY <3>1, <3>2, SetWindowMid
  <2>2. CASE ~(bufsize < c.locmaxwin)
    BY <2>2
  <2>3. QED
    BY <2>1, <2>2
<1> HIDE DEF y
<1>3. y.c \in Chan /\ (m.fixed \/ Within(y.c))
  BY <1>2, WorkType DEF Mid, Fits
<1>4. y.c.locwindow \in Nat /\ y.c.throttling_conn \in BOOLEAN
  BY <1>3 DEF Chan
<1>5. m.fixed \/ (~y.c.throttling_conn /\ bufsize <= c.locmaxwin)
  <2>1. CASE m.fixed
    BY <2>1
  <2>2. CASE ~m.fixed
    <3>1. y.c.locwindow + y.c.backlog <= y.c.locmaxwin /\ ~y.c.throttling_conn
      BY <1>3, <2>2 DEF Within
    <3>2. bufsize <= c.locmaxwin
      BY <1>1, <1>2, <1>4, <3>1
    <3>3. QED
      BY <3>1, <3>2
  <2>3. QED
    BY <2>1, <2>2
<1>6. QED
  BY <1>2, <1>4, <1>5, Zenon DEF y

LEMMA UnthrottleMid ==
  ASSUME NEW m \in Setting, NEW x, Mid(x, m), NEW bufsize \in Nat, x.c.backlog = bufsize
  PROVE  Mid(Unthrottle(x, bufsize), m)
<1> DEFINE y == IF bufsize < x.c.locmaxwin THEN SetWindow(x, x.c.locmaxwin - bufsize) ELSE x
<1> DEFINE b == y.c.throttling_conn /\ bufsize > x.c.locmaxwin
<1>1. /\ Mid(y, m) /\ y.c.throttling_conn \in BOOLEAN
      /\ m.fixed \/ (~y.c.throttling_conn /\ bufsize <= x.c.locmaxwin)
  BY BackMid, Zenon
<1>2. Unthrottle(x, bufsize) = [y EXCEPT !.c.throttling_conn = b]
  BY DEF Unthrottle
<1>3. b \in BOOLEAN /\ (m.fixed \/ ~b)
  BY <1>1, Zenon
<1> HIDE DEF b, y
<1>4. QED
  BY <1>1, <1>2, <1>3, ThrottleMid

LEMMA OpenedMid ==
  ASSUME NEW m \in Setting, NEW x, Mid(x, m), NEW bufsize \in Nat, x.c.backlog = bufsize
  PROVE  Mid(Opened(x, bufsize), m)
<1> DEFINE y == IF bufsize < x.c.locmaxwin THEN SetWindow(x, x.c.locmaxwin - bufsize) ELSE x
<1> DEFINE b == y.c.throttling_conn \/ bufsize > y.c.locmaxwin
<1>1. /\ Mid(y, m) /\ y.c.throttling_conn \in BOOLEAN /\ y.c.locmaxwin = x.c.locmaxwin
      /\ m.fixed \/ (~y.c.throttling_conn /\ bufsize <= x.c.locmaxwin)
  BY BackMid, Zenon
<1>2. Opened(x, bufsize) = [y EXCEPT !.c.throttling_conn = b]
  BY DEF Opened
<1>3. x.c.locmaxwin \in Nat
  BY WorkType DEF Mid, Chan
<1> HIDE DEF y
<1>4. bufsize <= x.c.locmaxwin => ~(bufsize > y.c.locmaxwin)
  BY <1>1, <1>3
<1>5. b \in BOOLEAN /\ (m.fixed \/ ~b)
  BY <1>1, <1>4, Zenon
<1> HIDE DEF b
<1>6. QED
  BY <1>1, <1>2, <1>5, ThrottleMid

\* When the streams are cut, a socket may fail.
LEMMA InitiateCloseMid ==
  ASSUME NEW m \in Setting, NEW x, Mid(x, m), m.cut, ~x.c.fixed
  PROVE  Mid(InitiateClose(x), m)
<1> DEFINE c == x.c
<1> DEFINE y == [x EXCEPT !.c.chan = "zombie", !.c.backlog = 0, !.c.input_wanted = FALSE,
                          !.c.socksbuf = 0, !.c.unwritten = 0, !.c.pending_eof = FALSE]
<1> DEFINE c1 == [c EXCEPT !.chan = "zombie", !.backlog = 0, !.input_wanted = FALSE,
                           !.socksbuf = 0, !.unwritten = 0, !.pending_eof = FALSE]
<1>1. x \in Work /\ c \in Chan /\ x.tx \in Seq(Pkt) /\ Fits(c, x.tx, m)
  BY WorkType DEF Mid
<1>2. ~c.halfopen /\ Sound(c) /\ (m.fixed \/ Within(c)) /\ ~c.fixed /\ "RCVD_CLOSE" \notin c.closes
  BY <1>1 DEF Fits
<1>3. /\ c1 \in Chan /\ Alike(c, c1) /\ c1.closes = c.closes /\ c1.pending_eof = FALSE
        /\ c1.throttling_conn = c.throttling_conn
        /\ c1.throttled_by_backlog = c.throttled_by_backlog /\ c1.outbuffer = c.outbuffer
        /\ c1.remwindow = c.remwindow /\ c1.locwindow = c.locwindow
        /\ c1.locmaxwin = c.locmaxwin /\ c1.remlocwin = c.remlocwin
        /\ c1.chanreqs = c.chanreqs /\ c1.throttle_state = c.throttle_state
        /\ c1.fixed = c.fixed /\ c1.chan = "zombie" /\ c1.input_wanted = FALSE
        /\ c1.socksbuf = 0 /\ c1.ready = c.ready /\ c1.backlog = 0 /\ c1.sockeof = c.sockeof
        /\ c1.unwritten = 0 /\ c1.n = c.n
  BY <1>1 DEF Chan, Alike
<1>4. y.c = c1 /\ y.tx = x.tx /\ y \in Work
  BY <1>1, <1>3 DEF Work
<1>5. InitiateClose(x) = CheckClose(y)
  BY DEF InitiateClose
<1> HIDE DEF c, c1, y
<1>6. Sound(c1)
  BY <1>2, <1>3 DEF Sound, Alike
<1>7. m.fixed \/ Within(c1)
  <2>1. c.locwindow \in Nat /\ c.backlog \in Nat /\ c.locmaxwin \in Nat
    BY <1>1 DEF Chan
  <2>2. QED
    BY <1>2, <1>3, <2>1 DEF Within
<1>8. Both(c1, m.d, m.q \o x.tx, m.r)
  <2>1. m.d \in Chan /\ m.r \in Seq(Pkt) /\ m.q \o x.tx \in Seq(Pkt) /\ Both(c, m.d, m.q \o x.tx, m.r)
    BY <1>1, SettingType DEF Fits
  <2>2. QED
    BY <1>1, <1>3, <2>1, BothSame
<1>9. Fits(c1, x.tx, m)
  <2>1. c.localid = m.id /\ c.n = m.d.n /\ \A i \in DOMAIN x.tx : x.tx[i].n = c.n
    BY <1>1 DEF Fits
  <2>2. QED
    BY <1>2, <1>3, <1>6, <1>7, <1>8, <2>1 DEF Fits, Alike
<1>10. QED
  BY <1>4, <1>5, <1>9, CheckCloseMid DEF Mid

-----------------------------------------------------------------------------
(* The packets of a channel that is open, or confirmed *)

\* What a handler begins and ends with; m is what is around c, before or after the packet is taken.
Start(c) == [c |-> c, tx |-> <<>>, faults |-> {}]
Meets(c, m) ==
  /\ c.localid = m.id /\ c.n = m.d.n /\ c.chan # "freed" /\ "RCVD_CLOSE" \notin c.closes
  /\ Both(c, m.d, m.q, m.r) /\ Sound(c) /\ Sound(m.d) /\ (m.fixed \/ Within(c))
  /\ m.cut \/ (Carried(c, m.d, m.q, m.s) /\ Carried(m.d, c, m.r, m.t))
Done(x, m) ==
  /\ x \in Work /\ x.c.localid = m.id /\ x.c.n = m.d.n
  /\ (x.c.chan = "freed" <=> "RCVD_CLOSE" \in x.c.closes) /\ \A i \in DOMAIN x.tx : x.tx[i].n = x.c.n
  /\ Both(x.c, m.d, m.q \o x.tx, m.r) /\ Sound(x.c) /\ (m.fixed \/ Within(x.c))
  /\ m.cut \/ (Carried(x.c, m.d, m.q \o x.tx, m.s) /\ Carried(m.d, x.c, m.r, m.t))
Taken(m, m1) ==
  /\ m.r # <<>> /\ m1.id = m.id /\ m1.d = m.d /\ m1.q = m.q /\ m1.r = Tail(m.r) /\ m1.fixed = m.fixed
SameStreams(m, m1) == m1.cut = m.cut /\ m1.s = m.s /\ m1.t = m.t

LEMMA MidDone ==
  ASSUME NEW m, NEW x, Mid(x, m)
  PROVE  Done(x, m)
<1>1. x.c.chan = "freed" <=> "RCVD_CLOSE" \in x.c.closes
  BY DEF Mid, Fits
<1>2. QED
  BY <1>1, Zenon DEF Mid, Fits, Done

LEMMA StartMid ==
  ASSUME NEW m \in Setting, NEW c \in Chan, c.localid = m.id, c.n = m.d.n, ~c.halfopen,
         c.chan # "freed", "RCVD_CLOSE" \notin c.closes, Both(c, m.d, m.q, m.r), Sound(c),
         m.fixed \/ Within(c),
         m.cut \/ (Carried(c, m.d, m.q, m.s) /\ Carried(m.d, c, m.r, m.t))
  PROVE  Mid(Start(c), m)
<1> DEFINE w == <<>>
<1>1. m.q \o w = m.q
  BY SettingType
<1>2. w \in Seq(Pkt) /\ \A i \in DOMAIN w : w[i].n = c.n
  OBVIOUS
<1> HIDE DEF w
<1>3. Fits(c, w, m)
  BY <1>1, <1>2, Zenon DEF Fits
<1>4. Start(c) \in Work /\ Start(c).c = c /\ Start(c).tx = w
  BY <1>2 DEF Start, Work, w
<1>5. QED
  BY <1>3, <1>4 DEF Mid

LEMMA TakenType ==
  ASSUME NEW m \in Setting, NEW m1 \in Setting, NEW c \in Chan, Meets(c, m), Taken(m, m1)
  PROVE  /\ m.d \in Chan /\ m.q \in Seq(Pkt) /\ m.r \in Seq(Pkt) /\ m.r # <<>> /\ m.r[1] \in Pkt
         /\ m1.id = m.id /\ m1.d = m.d /\ m1.q = m.q /\ m1.r = Tail(m.r) /\ m1.fixed = m.fixed
         /\ Both(c, m.d, m.q, m.r) /\ Sound(m.d) /\ Sound(c)
         /\ Addressed(m.d, c, m.r) /\ Ends(m.d, c, m.r) /\ Answered(m.d, c, m.r, m.q)
         /\ Windows(m.d, c, m.r, m.q)
         /\ (c.halfopen <=> m.r[1].type = "OPEN_CONFIRMATION")
         /\ (m.r[1].type = "EOF" \/ m.r[1].type = "DATA" => "RCVD_EOF" \notin c.closes)
<1>1. m.d \in Chan /\ m.q \in Seq(Pkt) /\ m.r \in Seq(Pkt) /\ m.r # <<>>
  BY SettingType DEF Taken
<1>2. m.r[1] \in Pkt /\ 1 \in DOMAIN m.r
  BY <1>1
<1>3. Addressed(m.d, c, m.r) /\ Ends(m.d, c, m.r) /\ Answered(m.d, c, m.r, m.q)
      /\ Windows(m.d, c, m.r, m.q)
  BY DEF Meets, Both, Sides
<1>4. c.halfopen <=> m.r[1].type = "OPEN_CONFIRMATION"
  BY <1>2, <1>3 DEF Addressed
<1>5. m.r[1].type = "EOF" \/ m.r[1].type = "DATA" => "RCVD_EOF" \notin c.closes
  BY <1>2, <1>3 DEF Ends, Has
<1>6. QED
  BY <1>1, <1>2, <1>3, <1>4, <1>5, Zenon DEF Meets, Taken

LEMMA CarriedTaken ==
  ASSUME NEW c, NEW c1, NEW d, NEW q, NEW r \in Seq(Pkt), NEW s, NEW t, r # <<>>, r[1].type # "DATA",
         Carried(c, d, q, s), Carried(d, c, r, t), c1.chan = c.chan, c1.sockeof = c.sockeof,
         c1.socksbuf = c.socksbuf, c1.outbuffer = c.outbuffer, c1.closes = c.closes,
         c1.fixed = c.fixed
  PROVE  Carried(c1, d, q, s) /\ Carried(d, c1, Tail(r), t)
<1>1. Data(Tail(r)) = Data(r)
  <2>1. Shrinks(r)
    BY TailShrinks
  <2>2. /\ Data(r) = Data(Tail(r)) + (IF r[1].type = "DATA" THEN r[1].len ELSE 0)
        /\ Data(Tail(r)) \in Nat
    BY <2>1, Zenon DEF Shrinks
  <2>3. QED
    BY <2>2
<1>2. Carried(c1, d, q, s)
  BY DEF Carried
<1>3. QED
  BY <1>1, <1>2 DEF Carried

LEMMA RcvWindowAdjustDone ==
  ASSUME NEW m \in Setting, NEW m1 \in Setting, NEW c \in Chan, Meets(c, m), Taken(m, m1),
         SameStreams(m, m1), m.r[1].type = "WINDOW_ADJUST"
  PROVE  Done(IF "SENT_EOF" \in Start(c).c.closes THEN Start(c)
              ELSE TrySendAndUnthrottle([Start(c) EXCEPT !.c.remwindow = @ + m.r[1].len]), m1)
<1> DEFINE w == IF "SENT_EOF" \in c.closes THEN c.remwindow ELSE c.remwindow + m.r[1].len
<1> DEFINE c1 == [c EXCEPT !.remwindow = w]
<1>1. /\ m.d \in Chan /\ m.q \in Seq(Pkt) /\ m.r \in Seq(Pkt) /\ m.r # <<>> /\ m.r[1] \in Pkt
      /\ m1.id = m.id /\ m1.d = m.d /\ m1.q = m.q /\ m1.r = Tail(m.r) /\ m1.fixed = m.fixed
      /\ Both(c, m.d, m.q, m.r) /\ Sound(m.d) /\ Sound(c) /\ ~c.halfopen
  BY TakenType
<1>2. w \in Nat
  <2>1. c.remwindow \in Nat /\ m.r[1].len \in Nat
    BY <1>1 DEF Chan, Pkt
  <2>2. QED
    BY <2>1
<1> HIDE DEF w
<1>3. /\ c1 \in Chan /\ Alike(c, c1) /\ c1.closes = c.closes
        /\ c1.pending_eof = c.pending_eof /\ c1.throttling_conn = c.throttling_conn
        /\ c1.throttled_by_backlog = c.throttled_by_backlog /\ c1.outbuffer = c.outbuffer
        /\ c1.remwindow = w /\ c1.locwindow = c.locwindow /\ c1.locmaxwin = c.locmaxwin
        /\ c1.remlocwin = c.remlocwin /\ c1.chanreqs = c.chanreqs
        /\ c1.throttle_state = c.throttle_state /\ c1.fixed = c.fixed /\ c1.chan = c.chan
        /\ c1.input_wanted = c.input_wanted /\ c1.socksbuf = c.socksbuf /\ c1.ready = c.ready
        /\ c1.backlog = c.backlog /\ c1.sockeof = c.sockeof /\ c1.unwritten = c.unwritten
        /\ c1.n = c.n
  BY <1>2 DEF Chan, Alike
<1>4. Start(c1) = IF "SENT_EOF" \in c.closes THEN Start(c)
                  ELSE [Start(c) EXCEPT !.c.remwindow = @ + m.r[1].len]
  BY DEF Start, w, Chan
<1> HIDE DEF c1
<1>5. Both(c1, m1.d, m1.q, m1.r)
  <2>1. "SENT_EOF" \notin c.closes => c1.remwindow = c.remwindow + m.r[1].len
    BY <1>3 DEF w
  <2>2. Both(c1, m.d, m.q, Tail(m.r))
    BY <1>1, <1>3, <2>1, BothRcvAdjust
  <2>3. QED
    BY <1>1, <2>2
<1>6. Sound(c1) /\ (m1.fixed \/ Within(c1))
  BY <1>1, <1>3 DEF Meets, Sound, Within, Alike
<1>7. m1.cut \/ (Carried(c1, m1.d, m1.q, m1.s) /\ Carried(m1.d, c1, m1.r, m1.t))
  <2>1. ASSUME Carried(c, m.d, m.q, m.s) /\ Carried(m.d, c, m.r, m.t)
        PROVE  Carried(c1, m.d, m.q, m.s) /\ Carried(m.d, c1, Tail(m.r), m.t)
    BY <1>1, <1>3, <2>1, CarriedTaken
  <2>2. QED
    BY <1>1, <2>1, Zenon DEF Meets, SameStreams
<1>8. /\ c1.localid = m1.id /\ c1.n = m1.d.n /\ ~c1.halfopen /\ c1.chan # "freed"
      /\ "RCVD_CLOSE" \notin c1.closes
  BY <1>1, <1>3 DEF Meets, Alike
<1>9. Mid(Start(c1), m1)
  BY <1>3, <1>5, <1>6, <1>7, <1>8, StartMid
<1>10. Start(c).c = c /\ Start(c1).c = c1
  BY DEF Start
<1>11. CASE "SENT_EOF" \in c.closes
  BY <1>4, <1>9, <1>10, <1>11, MidDone
<1>12. CASE "SENT_EOF" \notin c.closes
  <2>1. Done(TrySendAndUnthrottle(Start(c1)), m1)
    BY <1>3, <1>9, <1>10, <1>12, TrySendAndUnthrottleMid, MidDone
  <2>2. Start(c1) = [Start(c) EXCEPT !.c.remwindow = @ + m.r[1].len]
    BY <1>4, <1>12
  <2>3. QED
    BY <1>10, <1>12, <2>1, <2>2
<1>13. QED
  BY <1>11, <1>12

LEMMA RcvRequestDone ==
  ASSUME NEW m \in Setting, NEW m1 \in Setting, NEW c \in Chan, Meets(c, m), Taken(m, m1),
         SameStreams(m, m1), m.r[1].type = "REQUEST"
  PROVE  Done(IF "SENT_CLOSE" \in Start(c).c.closes THEN Start(c)
              ELSE Push(Start(c), [Packet("FAILURE", Start(c).c) EXCEPT !.len = m.r[1].len]), m1)
<1>1. /\ m.d \in Chan /\ m.q \in Seq(Pkt) /\ m.r \in Seq(Pkt) /\ m.r # <<>> /\ m.r[1] \in Pkt
      /\ m1.id = m.id /\ m1.d = m.d /\ m1.q = m.q /\ m1.r = Tail(m.r) /\ m1.fixed = m.fixed
      /\ Both(c, m.d, m.q, m.r) /\ Sound(m.d) /\ Sound(c) /\ ~c.halfopen
  BY TakenType
<1>2. Start(c).c = c
  BY DEF Start
<1>3. m1.cut \/ (Carried(c, m1.d, m1.q, m1.s) /\ Carried(m1.d, c, m1.r, m1.t))
  BY <1>1, CarriedTaken DEF Meets, SameStreams
<1>4. CASE "SENT_CLOSE" \in c.closes
  <2>1. Both(c, m1.d, m1.q, m1.r)
    BY <1>1, <1>4, BothRcvRequestClosed DEF Alike
  <2>2. Mid(Start(c), m1)
    BY <1>1, <1>3, <2>1, StartMid DEF Meets
  <2>3. QED
    BY <1>2, <1>4, <2>2, MidDone
<1>5. CASE "SENT_CLOSE" \notin c.closes
  <2> DEFINE p == [Packet("FAILURE", c) EXCEPT !.len = m.r[1].len]
  <2> DEFINE y == Push(Start(c), p)
  <2>1. m.r[1].len \in Nat
    BY <1>1 DEF Pkt
  <2>2. p \in Pkt /\ p.type = "FAILURE" /\ p.to = c.remoteid /\ p.n = c.n /\ p.len = m.r[1].len
    BY <2>1, PacketIs
  <2> HIDE DEF p
  <2>3. Both(c, m1.d, m1.q \o <<p>>, m1.r)
    BY <1>1, <1>5, <2>2, BothRcvRequest
  <2>4. y.c = c /\ y.tx = <<p>> /\ y \in Work
    <3>1. Append(<<>>, p) = <<p>> /\ <<p>> \in Seq(Pkt)
      BY <2>2
    <3>2. QED
      BY <3>1 DEF Start, Push, Work
  <2>5. \A i \in DOMAIN y.tx : y.tx[i].n = c.n
    BY <2>2, <2>4
  <2>6. m1.cut \/ (Carried(c, m1.d, m1.q \o <<p>>, m1.s) /\ Carried(m1.d, c, m1.r, m1.t))
    <3>1. Ours(c, <<p>>, "FAILURE") /\ <<p>> \in Seq(Pkt)
      BY <2>2 DEF Ours
    <3>2. Data(<<p>>) = 0
      BY <2>2, LensOne DEF Data
    <3>3. c.socksbuf \in Nat /\ c.outbuffer \in Nat /\ c.socksbuf + c.outbuffer + 0 = c.socksbuf + c.outbuffer
      BY DEF Chan
    <3>4. m1.s \in Stream /\ m1.q \in Seq(Pkt)
      BY SettingType
    <3>5. Carried(c, m1.d, m1.q, m1.s) => Carried(c, m1.d, m1.q \o <<p>>, m1.s)
      <4>1. ASSUME Carried(c, m1.d, m1.q, m1.s)
            PROVE  /\ "SENT_EOF" \in c.closes => c.sockeof /\ c.outbuffer = 0 /\ c.socksbuf = 0
                   /\ "SENT_CLOSE" \in c.closes => "RCVD_EOF" \in c.closes
                   /\ "RCVD_EOF" \in c.closes => ~c.fixed
        BY <4>1 DEF Carried
      <4>2. QED
        BY <3>1, <3>2, <3>3, <3>4, <4>1, CarriedPushed
    <3>6. QED
      BY <1>3, <3>5
  <2>7. /\ y.c.localid = m1.id /\ y.c.n = m1.d.n
        /\ (y.c.chan = "freed" <=> "RCVD_CLOSE" \in y.c.closes)
        /\ Sound(y.c) /\ (m1.fixed \/ Within(y.c))
    BY <1>1, <2>4 DEF Meets
  <2> HIDE DEF y
  <2>8. Done(y, m1)
    BY <2>3, <2>4, <2>5, <2>6, <2>7, Zenon DEF Done
  <2>9. QED
    BY <1>2, <1>5, <2>8 DEF y, p
<1>6. QED
  BY <1>4, <1>5

\* The reply that comes is to the request that was made first.
LEMMA FailureAnswers ==
  ASSUME NEW c \in Chan, NEW d \in Chan, NEW q \in Seq(Pkt), NEW r \in Seq(Pkt), r # <<>>,
         r[1].type = "FAILURE", Answered(d, c, r, q)
  PROVE  c.chanreqs # <<>> /\ Head(c.chanreqs) = r[1].len
<1>1. PICK rest \in Seq(Nat) : c.chanreqs = Asks(r, "FAILURE") \o rest
  BY DEF Answered
<1>2. Shrinks(r) /\ r[1] \in Pkt
  BY TailShrinks
<1>3. Asks(r, "FAILURE") = <<r[1].len>> \o Asks(Tail(r), "FAILURE")
  BY <1>2 DEF Shrinks
<1>4. Tail(r) \in Seq(Pkt) /\ r[1].len \in Nat
  BY <1>2 DEF Pkt
<1>5. Asks(Tail(r), "FAILURE") \in Seq(Nat)
  BY <1>4, AsksType
<1>6. QED
  <2> DEFINE a == Asks(Tail(r), "FAILURE")
  <2>1. \A u, v \in Seq(Nat), x \in Nat :
          Head((<<x>> \o u) \o v) = x /\ (<<x>> \o u) \o v # <<>>
    BY TailOfJoined
  <2>2. c.chanreqs = (<<r[1].len>> \o a) \o rest /\ a \in Seq(Nat)
    BY <1>1, <1>3, <1>5
  <2> DEFINE l == r[1].len
  <2>3. c.chanreqs = (<<l>> \o a) \o rest /\ a \in Seq(Nat) /\ l \in Nat /\ rest \in Seq(Nat)
    BY <1>1, <1>4, <2>2
  <2> HIDE DEF a, l
  <2>4. Head((<<l>> \o a) \o rest) = l /\ (<<l>> \o a) \o rest # <<>>
    BY <2>1, <2>3, Zenon
  <2>5. QED
    BY <2>3, <2>4, Zenon DEF l

LEMMA RcvFailureDone ==
  ASSUME NEW m \in Setting, NEW m1 \in Setting, NEW c \in Chan, Meets(c, m), Taken(m, m1),
         SameStreams(m, m1), m.r[1].type = "FAILURE"
  PROVE  Done(CheckClose(Replied(Start(c))), m1)
<1> DEFINE a == Tail(c.chanreqs)
<1> DEFINE h == Head(c.chanreqs)
<1> DEFINE ts == IF c.throttle_state = "UNTHROTTLING" THEN "UNTHROTTLED" ELSE c.throttle_state
<1> DEFINE c1 == [c EXCEPT !.remlocwin = c.remlocwin + h, !.throttle_state = ts, !.chanreqs = a]
<1>1. /\ m.d \in Chan /\ m.q \in Seq(Pkt) /\ m.r \in Seq(Pkt) /\ m.r # <<>> /\ m.r[1] \in Pkt
      /\ m1.id = m.id /\ m1.d = m.d /\ m1.q = m.q /\ m1.r = Tail(m.r) /\ m1.fixed = m.fixed
      /\ Both(c, m.d, m.q, m.r) /\ Sound(m.d) /\ Sound(c) /\ ~c.halfopen
      /\ Answered(m.d, c, m.r, m.q)
  BY TakenType
<1>2. c.chanreqs # <<>> /\ c.chanreqs \in Seq(Nat)
  BY <1>1, FailureAnswers DEF Chan
<1>3. a \in Seq(Nat) /\ h \in Nat /\ h = c.chanreqs[1]
  BY <1>2
<1>4. ts \in {"UNTHROTTLED", "UNTHROTTLING", "THROTTLED"} /\ c.remlocwin + h \in Int
  <2>1. ts \in {"UNTHROTTLED", "UNTHROTTLING", "THROTTLED"} /\ c.remlocwin \in Int
    BY DEF Chan
  <2> HIDE DEF h
  <2>2. QED
    BY <1>3, <2>1
<1>5. Start(c1) = Replied(Start(c))
  <2>1. Start(c).c = c
    BY DEF Start
  <2>2. Replied(Start(c)) = [Start(c) EXCEPT !.c.remlocwin = c.remlocwin + h, !.c.throttle_state = ts,
                                             !.c.chanreqs = a]
    BY <2>1 DEF Replied
  <2> HIDE DEF a, h, ts
  <2>3. QED
    BY <2>2 DEF Start, Chan
<1> HIDE DEF a, h, ts
<1>6. /\ c1 \in Chan /\ Alike(c, c1) /\ c1.closes = c.closes
        /\ c1.pending_eof = c.pending_eof /\ c1.throttling_conn = c.throttling_conn
        /\ c1.throttled_by_backlog = c.throttled_by_backlog /\ c1.outbuffer = c.outbuffer
        /\ c1.remwindow = c.remwindow /\ c1.locwindow = c.locwindow
        /\ c1.locmaxwin = c.locmaxwin /\ c1.remlocwin = c.remlocwin + h /\ c1.chanreqs = a
        /\ c1.fixed = c.fixed /\ c1.chan = c.chan /\ c1.input_wanted = c.input_wanted
        /\ c1.socksbuf = c.socksbuf /\ c1.ready = c.ready /\ c1.backlog = c.backlog
        /\ c1.sockeof = c.sockeof /\ c1.unwritten = c.unwritten /\ c1.n = c.n
  BY <1>3, <1>4 DEF Chan, Alike
<1> HIDE DEF c1
<1>7. Both(c1, m1.d, m1.q, m1.r)
  <2>1. Both(c1, m.d, m.q, Tail(m.r))
    BY <1>1, <1>6, BothRcvFailure DEF a
  <2>2. QED
    BY <1>1, <2>1
<1>8. Sound(c1) /\ (m1.fixed \/ Within(c1))
  <2>1. c.remlocwin + Total(c.chanreqs) >= c.locwindow
    BY <1>1 DEF Sound
  <2>2. Total(c.chanreqs) = h + Total(a) /\ Total(a) \in Nat
    <3>1. c.chanreqs \in Seq(Int)
      BY <1>2
    <3>2. QED
      BY <1>2, <1>3, <3>1, TotalTail, TotalNat DEF a
  <2>3. c1.remlocwin + Total(c1.chanreqs) >= c1.locwindow
    <3>1. c.remlocwin \in Int /\ c.locwindow \in Nat
      BY DEF Chan
    <3>2. QED
      BY <1>3, <1>6, <2>1, <2>2, <3>1
  <2>4. "SENT_CLOSE" \notin c.closes /\ ~c.fixed
    BY <1>1, <1>2 DEF Sound
  <2>5. Sound(c1)
    BY <1>1, <1>6, <2>3, <2>4 DEF Sound, Alike
  <2>6. QED
    BY <1>1, <1>6, <2>5 DEF Meets, Within
<1>9. m1.cut \/ (Carried(c1, m1.d, m1.q, m1.s) /\ Carried(m1.d, c1, m1.r, m1.t))
  <2>1. ASSUME Carried(c, m.d, m.q, m.s) /\ Carried(m.d, c, m.r, m.t)
        PROVE  Carried(c1, m.d, m.q, m.s) /\ Carried(m.d, c1, Tail(m.r), m.t)
    <3>1. m.r \in Seq(Pkt) /\ m.r # <<>> /\ m.r[1].type # "DATA"
      BY <1>1
    <3>2. /\ c1.chan = c.chan /\ c1.sockeof = c.sockeof /\ c1.socksbuf = c.socksbuf
          /\ c1.outbuffer = c.outbuffer /\ c1.closes = c.closes /\ c1.fixed = c.fixed
      BY <1>6
    <3>3. QED
      BY <2>1, <3>1, <3>2, CarriedTaken
  <2>2. QED
    BY <1>1, <2>1, Zenon DEF Meets, SameStreams
<1>10. /\ c1.localid = m1.id /\ c1.n = m1.d.n /\ ~c1.halfopen /\ c1.chan # "freed"
       /\ "RCVD_CLOSE" \notin c1.closes
  BY <1>1, <1>6 DEF Meets, Alike
<1>11. Mid(Start(c1), m1)
  BY <1>6, <1>7, <1>8, <1>9, <1>10, StartMid
<1>12. QED
  BY <1>5, <1>11, CheckCloseMid, MidDone

LEMMA SameWork ==
  ASSUME NEW x \in Work, x.tx = <<>>
  PROVE  x = Start(x.c)
BY DEF Start, Work

LEMMA StartType ==
  ASSUME NEW c \in Chan
  PROVE  Start(c) \in Work /\ Start(c).c = c /\ Start(c).tx = <<>>
<1>1. <<>> \in Seq(Pkt)
  OBVIOUS
<1>2. QED
  BY <1>1 DEF Start, Work

LEMMA GrownMid ==
  ASSUME NEW m \in Setting, NEW x, Mid(x, m), NEW bufsize \in Nat, x.c.chan = "zombie" => bufsize = 0,
         m.fixed \/ x.c.locwindow + bufsize <= x.c.locmaxwin
  PROVE  Mid(Grown(x, bufsize), m) /\ Grown(x, bufsize).c.backlog = bufsize
<1> DEFINE c == x.c
<1> DEFINE lm == IF c.remlocwin <= 0 /\ c.locmaxwin < MaxWin /\ c.throttle_state = "UNTHROTTLED"
                 THEN c.locmaxwin + WinSize ELSE c.locmaxwin
<1> DEFINE y == [x EXCEPT !.c.backlog = bufsize, !.c.locmaxwin = lm]
<1> DEFINE c1 == [c EXCEPT !.backlog = bufsize, !.locmaxwin = lm]
<1>1. x \in Work /\ c \in Chan /\ x.tx \in Seq(Pkt) /\ Fits(c, x.tx, m)
  BY WorkType DEF Mid
<1>2. ~c.halfopen /\ Sound(c) /\ (m.fixed \/ Within(c))
  BY <1>1 DEF Fits
<1>3. lm \in Nat /\ lm >= c.locmaxwin /\ c.locmaxwin \in Nat /\ c.locwindow \in Nat
  <2>1. c.locmaxwin \in Nat /\ c.locwindow \in Nat /\ WinSize \in Nat
    BY <1>1, SizeAssumption DEF Chan
  <2> HIDE DEF c
  <2>2. QED
    BY <2>1
<1>4. Grown(x, bufsize) = y
  BY <1>1 DEF Grown, Work, Chan
<1> HIDE DEF lm
<1>5. /\ c1 \in Chan /\ Alike(c, c1) /\ c1.closes = c.closes
        /\ c1.pending_eof = c.pending_eof /\ c1.throttling_conn = c.throttling_conn
        /\ c1.throttled_by_backlog = c.throttled_by_backlog /\ c1.outbuffer = c.outbuffer
        /\ c1.remwindow = c.remwindow /\ c1.locwindow = c.locwindow /\ c1.locmaxwin = lm
        /\ c1.remlocwin = c.remlocwin /\ c1.chanreqs = c.chanreqs
        /\ c1.throttle_state = c.throttle_state /\ c1.fixed = c.fixed /\ c1.chan = c.chan
        /\ c1.input_wanted = c.input_wanted /\ c1.socksbuf = c.socksbuf /\ c1.ready = c.ready
        /\ c1.backlog = bufsize /\ c1.sockeof = c.sockeof /\ c1.unwritten = c.unwritten
        /\ c1.n = c.n
  BY <1>1, <1>3 DEF Chan, Alike
<1>6. y.c = c1 /\ y.tx = x.tx /\ y \in Work
  BY <1>1, <1>5 DEF Work
<1>7. c.chan = "zombie" => bufsize = 0
  OBVIOUS
<1>8. m.fixed \/ c.locwindow + bufsize <= c.locmaxwin
  OBVIOUS
<1> HIDE DEF c, c1, y
<1>9. Sound(c1)
  BY <1>2, <1>5, <1>7 DEF Sound, Alike
<1>10. m.fixed \/ Within(c1)
  BY <1>2, <1>3, <1>5, <1>8 DEF Within
<1>11. Fits(c1, x.tx, m)
  BY <1>1, <1>5, <1>9, <1>10, FitsSame
<1>12. QED
  BY <1>4, <1>5, <1>6, <1>11 DEF Mid

\* The socket has ended, or the greeting will not come: EOF is to be sent.
LEMMA PendingMid ==
  ASSUME NEW m \in Setting, NEW x, Mid(x, m), "SENT_EOF" \notin x.c.closes, x.c.chan # "zombie",
         x.c.sockeof \/ (x.c.fixed /\ "RCVD_EOF" \in x.c.closes)
  PROVE  Mid([x EXCEPT !.c.pending_eof = TRUE], m)
<1> DEFINE c == x.c
<1> DEFINE y == [x EXCEPT !.c.pending_eof = TRUE]
<1> DEFINE c1 == [c EXCEPT !.pending_eof = TRUE]
<1>1. x \in Work /\ c \in Chan /\ x.tx \in Seq(Pkt) /\ Fits(c, x.tx, m)
  BY WorkType DEF Mid
<1>2. ~c.halfopen /\ Sound(c) /\ (m.fixed \/ Within(c))
  BY <1>1 DEF Fits
<1>3. /\ c1 \in Chan /\ Alike(c, c1) /\ c1.closes = c.closes /\ c1.pending_eof = TRUE
        /\ c1.throttling_conn = c.throttling_conn
        /\ c1.throttled_by_backlog = c.throttled_by_backlog /\ c1.outbuffer = c.outbuffer
        /\ c1.remwindow = c.remwindow /\ c1.locwindow = c.locwindow
        /\ c1.locmaxwin = c.locmaxwin /\ c1.remlocwin = c.remlocwin
        /\ c1.chanreqs = c.chanreqs /\ c1.throttle_state = c.throttle_state
        /\ c1.fixed = c.fixed /\ c1.chan = c.chan /\ c1.input_wanted = c.input_wanted
        /\ c1.socksbuf = c.socksbuf /\ c1.ready = c.ready /\ c1.backlog = c.backlog
        /\ c1.sockeof = c.sockeof /\ c1.unwritten = c.unwritten /\ c1.n = c.n
  BY <1>1 DEF Chan, Alike
<1>4. y.c = c1 /\ y.tx = x.tx /\ y \in Work
  BY <1>1, <1>3 DEF Work
<1>5. /\ "SENT_EOF" \notin c.closes /\ c.chan # "zombie"
      /\ c.sockeof \/ (c.fixed /\ "RCVD_EOF" \in c.closes)
  OBVIOUS
<1> HIDE DEF c, c1, y
<1>6. Sound(c1)
  BY <1>2, <1>3, <1>5 DEF Sound, Alike
<1>7. m.fixed \/ Within(c1)
  BY <1>2, <1>3 DEF Within
<1>8. Fits(c1, x.tx, m)
  BY <1>1, <1>3, <1>6, <1>7, FitsSame
<1>9. Mid(y, m)
  BY <1>4, <1>8 DEF Mid
<1>10. QED
  BY <1>9 DEF y

\* The greeting ends the fixed window.
LEMMA GreetedMid ==
  ASSUME NEW m \in Setting, NEW x, Mid(x, m), "RCVD_EOF" \notin x.c.closes
  PROVE  LET y == Greeted(x)
         IN  /\ Mid(y, m) /\ y.c.backlog = x.c.backlog /\ y.c.chan = x.c.chan
             /\ m.fixed \/ y = x
<1> DEFINE c == x.c
<1> DEFINE y == [x EXCEPT !.c.fixed = FALSE, !.c.ready = TRUE, !.c.input_wanted = TRUE]
<1> DEFINE c1 == [c EXCEPT !.fixed = FALSE, !.ready = TRUE, !.input_wanted = TRUE]
<1>1. x \in Work /\ c \in Chan /\ x.tx \in Seq(Pkt) /\ Fits(c, x.tx, m)
  BY WorkType DEF Mid
<1>2. ~c.halfopen /\ Sound(c) /\ (m.fixed \/ Within(c)) /\ "RCVD_EOF" \notin c.closes
  BY <1>1 DEF Fits
<1>3. CASE ~c.fixed
  BY <1>3, Zenon DEF Greeted
<1>4. CASE c.fixed
  <2>1. /\ c1 \in Chan /\ Alike(c, c1) /\ c1.closes = c.closes
        /\ c1.pending_eof = c.pending_eof /\ c1.throttling_conn = c.throttling_conn
        /\ c1.throttled_by_backlog = c.throttled_by_backlog /\ c1.outbuffer = c.outbuffer
        /\ c1.remwindow = c.remwindow /\ c1.locwindow = c.locwindow
        /\ c1.locmaxwin = c.locmaxwin /\ c1.remlocwin = c.remlocwin
        /\ c1.chanreqs = c.chanreqs /\ c1.throttle_state = c.throttle_state
        /\ c1.fixed = FALSE /\ c1.chan = c.chan /\ c1.input_wanted = TRUE
        /\ c1.socksbuf = c.socksbuf /\ c1.ready = TRUE /\ c1.backlog = c.backlog
        /\ c1.sockeof = c.sockeof /\ c1.unwritten = c.unwritten /\ c1.n = c.n
    BY <1>1 DEF Chan, Alike
  <2>2. y.c = c1 /\ y.tx = x.tx /\ y \in Work
    BY <1>1, <2>1 DEF Work
  <2>3. Greeted(x) = SetWindow(y, WinSize)
    BY <1>4 DEF Greeted
  <2>4. m.fixed \in BOOLEAN /\ WinSize \in Nat
    BY SettingType, SizeAssumption
  <2> HIDE DEF c, c1, y
  <2>5. Sound(c1) /\ m.fixed
    BY <1>2, <1>4, <2>1, <2>4 DEF Sound, Within, Alike
  <2>6. Fits(c1, x.tx, m)
    BY <1>1, <2>1, <2>5, FitsSame
  <2>7. Mid(y, m)
    BY <2>2, <2>6 DEF Mid
  <2>8. /\ Mid(SetWindow(y, WinSize), m) /\ SetWindow(y, WinSize).c.backlog = y.c.backlog
        /\ SetWindow(y, WinSize).c.chan = y.c.chan
    BY <2>4, <2>5, <2>7, SetWindowMid
  <2>9. QED
    BY <2>1, <2>2, <2>3, <2>5, <2>8 DEF c
<1>5. QED
  BY <1>3, <1>4

LEMMA RcvDataDone ==
  ASSUME NEW m \in Setting, NEW m1 \in Setting, NEW c \in Chan, Meets(c, m), Taken(m, m1),
         m.r[1].type = "DATA", m1.cut = m.cut, m1.s = m.s,
         ~m.cut => /\ m1.t.owed = m.t.owed - m.r[1].len /\ m1.t.eof = m.t.eof
                   /\ m1.t.ended = m.t.ended,
         NEW bufsize \in Remains(c, m.r[1].len)
  PROVE  Done(Opened(Grown(Greeted([Start(c) EXCEPT !.c.locwindow = @ - m.r[1].len,
                                                    !.c.remlocwin = @ - m.r[1].len]), bufsize), bufsize), m1)
<1> DEFINE l == m.r[1].len
<1> DEFINE lw == c.locwindow - l
<1> DEFINE rw == c.remlocwin - l
<1> DEFINE c1 == [c EXCEPT !.locwindow = lw, !.remlocwin = rw]
<1>1. /\ m.d \in Chan /\ m.q \in Seq(Pkt) /\ m.r \in Seq(Pkt) /\ m.r # <<>> /\ m.r[1] \in Pkt
      /\ m1.id = m.id /\ m1.d = m.d /\ m1.q = m.q /\ m1.r = Tail(m.r) /\ m1.fixed = m.fixed
      /\ Both(c, m.d, m.q, m.r) /\ Sound(m.d) /\ Sound(c) /\ ~c.halfopen
      /\ Windows(m.d, c, m.r, m.q) /\ "RCVD_EOF" \notin c.closes
  BY TakenType
<1>2. l \in Nat /\ c.locwindow \in Nat /\ c.remlocwin \in Int /\ c.backlog \in Nat /\ c.locmaxwin \in Nat
  BY <1>1 DEF Chan, Pkt
<1>3. Data(m.r) = Data(Tail(m.r)) + l /\ Data(Tail(m.r)) \in Nat
  <2>1. Shrinks(m.r)
    BY <1>1, TailShrinks
  <2>2. /\ Data(m.r) = Data(Tail(m.r)) + (IF m.r[1].type = "DATA" THEN m.r[1].len ELSE 0)
        /\ Data(Tail(m.r)) \in Nat
    BY <2>1, Zenon DEF Shrinks
  <2>3. QED
    BY <2>2
<1>4. c1 \in Chan =>
        [Start(c) EXCEPT !.c.locwindow = @ - m.r[1].len, !.c.remlocwin = @ - m.r[1].len] = Start(c1)
  <2>1. Start(c).c = c
    BY DEF Start
  <2>2. [Start(c) EXCEPT !.c.locwindow = @ - m.r[1].len, !.c.remlocwin = @ - m.r[1].len]
          = [Start(c) EXCEPT !.c.locwindow = lw, !.c.remlocwin = rw]
    BY <2>1
  <2> HIDE DEF lw, rw
  <2> DEFINE x == Start(c)
  <2> DEFINE z == [x EXCEPT !.c.locwindow = lw, !.c.remlocwin = rw]
  <2>3. x \in Work /\ x.c = c /\ x.tx = <<>>
    BY StartType
  <2> HIDE DEF x
  <2>4. c1 \in Chan => z.c = c1 /\ z.tx = <<>> /\ z \in Work
    BY <2>3 DEF Work
  <2> HIDE DEF z, c1
  <2>5. c1 \in Chan => z = Start(c1)
    BY <2>4, SameWork
  <2>6. QED
    BY <2>2, <2>5 DEF x, z
<1> HIDE DEF l
<1>5. lw \in Nat /\ rw \in Int /\ lw + l = c.locwindow /\ rw + l = c.remlocwin
  <2>1. Data(m.r) <= c.locwindow
    BY <1>1 DEF Windows
  <2>2. QED
    BY <1>2, <1>3, <2>1
<1>6. lw = c.locwindow - m.r[1].len
  BY DEF l
<1> HIDE DEF lw, rw
<1>7. /\ c1 \in Chan /\ Alike(c, c1) /\ c1.closes = c.closes
        /\ c1.pending_eof = c.pending_eof /\ c1.throttling_conn = c.throttling_conn
        /\ c1.throttled_by_backlog = c.throttled_by_backlog /\ c1.outbuffer = c.outbuffer
        /\ c1.remwindow = c.remwindow /\ c1.locwindow = lw /\ c1.locmaxwin = c.locmaxwin
        /\ c1.remlocwin = rw /\ c1.chanreqs = c.chanreqs
        /\ c1.throttle_state = c.throttle_state /\ c1.fixed = c.fixed /\ c1.chan = c.chan
        /\ c1.input_wanted = c.input_wanted /\ c1.socksbuf = c.socksbuf /\ c1.ready = c.ready
        /\ c1.backlog = c.backlog /\ c1.sockeof = c.sockeof /\ c1.unwritten = c.unwritten
        /\ c1.n = c.n
  BY <1>5 DEF Chan, Alike
<1> HIDE DEF c1
<1>8. Both(c1, m1.d, m1.q, m1.r)
  <2>1. Both(c1, m.d, m.q, Tail(m.r))
    BY <1>1, <1>6, <1>7, BothRcvData
  <2>2. QED
    BY <1>1, <2>1
<1>9. Sound(c1)
  <2>1. Total(c.chanreqs) \in Nat
    BY TotalNat DEF Chan
  <2>2. c.remlocwin + Total(c.chanreqs) >= c.locwindow
    BY <1>1 DEF Sound
  <2>3. c1.remlocwin + Total(c1.chanreqs) >= c1.locwindow
    BY <1>2, <1>5, <1>7, <2>1, <2>2
  <2>4. QED
    BY <1>1, <1>7, <2>3 DEF Sound, Alike
<1>10. m1.fixed \/ Within(c1)
  <2>1. m.fixed \/ Within(c)
    BY DEF Meets
  <2>2. QED
    BY <1>1, <1>2, <1>5, <1>7, <2>1 DEF Within
<1>11. m1.cut \/ (Carried(c1, m1.d, m1.q, m1.s) /\ Carried(m1.d, c1, m1.r, m1.t))
  <2>1. ASSUME ~m.cut
        PROVE  Carried(c1, m.d, m.q, m.s) /\ Carried(m.d, c1, Tail(m.r), m1.t)
    <3>1. Carried(c, m.d, m.q, m.s) /\ Carried(m.d, c, m.r, m.t)
      BY <2>1 DEF Meets
    <3>2. Carried(c1, m.d, m.q, m.s)
      BY <1>7, <3>1 DEF Carried
    <3>3. m1.t.owed = m.t.owed - l /\ m1.t.eof = m.t.eof /\ m1.t.ended = m.t.ended
      BY <2>1 DEF l
    <3>4. m.d.socksbuf \in Nat /\ m.d.outbuffer \in Nat
      BY <1>1 DEF Chan
    <3>5. m1.t.owed = m.d.socksbuf + m.d.outbuffer + Data(Tail(m.r))
      <4>1. m.t.owed = m.d.socksbuf + m.d.outbuffer + Data(m.r)
        BY <3>1 DEF Carried
      <4>2. QED
        BY <1>2, <1>3, <3>3, <3>4, <4>1
    <3>6. Carried(m.d, c1, Tail(m.r), m1.t)
      BY <1>7, <3>1, <3>3, <3>5 DEF Carried
    <3>7. QED
      BY <3>2, <3>6
  <2>2. QED
    BY <1>1, <2>1, Zenon
<1>12. /\ c1.localid = m1.id /\ c1.n = m1.d.n /\ ~c1.halfopen /\ c1.chan # "freed"
       /\ "RCVD_CLOSE" \notin c1.closes
  BY <1>1, <1>7 DEF Meets, Alike
<1>13. Mid(Start(c1), m1) /\ Start(c1).c = c1
  BY <1>7, <1>8, <1>9, <1>10, <1>11, <1>12, StartMid DEF Start
<1> DEFINE y == Greeted(Start(c1))
<1>14. /\ Mid(y, m1) /\ y.c.backlog = c.backlog /\ y.c.chan = c.chan
       /\ m1.fixed \/ y = Start(c1)
  BY <1>1, <1>7, <1>13, GreetedMid
<1> HIDE DEF y
<1>15. bufsize \in Nat /\ bufsize <= c.backlog + l /\ (c.chan = "zombie" => bufsize = 0)
  <2>1. bufsize \in Remains(c, l)
    BY DEF l
  <2>2. QED
    BY <1>2, <2>1 DEF Remains
<1>16. m1.fixed \/ y.c.locwindow + bufsize <= y.c.locmaxwin
  <2>1. ASSUME ~m1.fixed
        PROVE  y.c.locwindow + bufsize <= y.c.locmaxwin
    <3>1. y.c = c1 /\ Within(c)
      BY <1>1, <1>13, <1>14, <2>1 DEF Meets
    <3>2. c.locwindow + c.backlog <= c.locmaxwin
      BY <3>1 DEF Within
    <3>3. QED
      BY <1>2, <1>5, <1>7, <1>15, <3>1, <3>2
  <2>2. QED
    BY <2>1, Zenon
<1>17. Mid(Grown(y, bufsize), m1) /\ Grown(y, bufsize).c.backlog = bufsize
  BY <1>14, <1>15, <1>16, GrownMid
<1>18. Mid(Opened(Grown(y, bufsize), bufsize), m1)
  BY <1>15, <1>17, OpenedMid
<1>19. QED
  BY <1>4, <1>7, <1>18, MidDone DEF y

\* What was to be sent before the channel was open is sent now.
LEMMA ConfirmedMid ==
  ASSUME NEW m \in Setting, NEW x, Mid(x, m)
  PROVE  LET z == CheckClose(x) IN  Mid(IF z.c.pending_eof THEN TryEof(z) ELSE z, m)
<1> DEFINE z == CheckClose(x)
<1>1. Mid(z, m)
  BY CheckCloseMid
<1> HIDE DEF z
<1>2. z.c.pending_eof => Mid(TryEof(z), m)
  BY <1>1, TryEofMid
<1>3. Mid(IF z.c.pending_eof THEN TryEof(z) ELSE z, m)
  BY <1>1, <1>2
<1>4. QED
  BY <1>3 DEF z

LEMMA RcvConfirmationDone ==
  ASSUME NEW m \in Setting, NEW m1 \in Setting, NEW c \in Chan, Meets(c, m), Taken(m, m1),
         SameStreams(m, m1), m.r[1].type = "OPEN_CONFIRMATION"
  PROVE  Done(Confirmed([Start(c) EXCEPT !.c.remoteid = m.r[1].from, !.c.halfopen = FALSE,
                                         !.c.remwindow = m.r[1].len]), m1)
<1> DEFINE p == m.r[1]
<1> DEFINE s == Start(c)
<1> DEFINE x == [s EXCEPT !.c.remoteid = p.from, !.c.halfopen = FALSE, !.c.remwindow = p.len]
<1> DEFINE cx == [c EXCEPT !.remoteid = p.from, !.halfopen = FALSE, !.remwindow = p.len]
<1>1. /\ m.d \in Chan /\ m.q \in Seq(Pkt) /\ m.r \in Seq(Pkt) /\ m.r # <<>> /\ p \in Pkt
      /\ m1.id = m.id /\ m1.d = m.d /\ m1.q = m.q /\ m1.r = Tail(m.r) /\ m1.fixed = m.fixed
      /\ Both(c, m.d, m.q, m.r) /\ Sound(m.d) /\ Sound(c) /\ c.halfopen
  BY TakenType
<1>2. p.from \in Nat /\ p.len \in Nat
  BY <1>1 DEF Pkt
<1>3. s \in Work /\ s.c = c /\ s.tx = <<>>
  BY StartType
<1> HIDE DEF p, s
<1>4. /\ cx \in Chan /\ cx.remoteid = p.from /\ ~cx.halfopen /\ cx.remwindow = p.len
      /\ cx.localid = c.localid /\ cx.closes = c.closes /\ cx.pending_eof = c.pending_eof
      /\ cx.throttling_conn = c.throttling_conn /\ cx.outbuffer = c.outbuffer
      /\ cx.locwindow = c.locwindow /\ cx.locmaxwin = c.locmaxwin /\ cx.remlocwin = c.remlocwin
      /\ cx.chanreqs = c.chanreqs /\ cx.fixed = c.fixed /\ cx.chan = c.chan
      /\ cx.socksbuf = c.socksbuf /\ cx.backlog = c.backlog /\ cx.sockeof = c.sockeof /\ cx.n = c.n
  BY <1>2 DEF Chan
<1>5. x.c = cx /\ x.tx = <<>> /\ x \in Work
  BY <1>3, <1>4 DEF Work
<1> HIDE DEF x, cx
<1>6. x = Start(cx)
  BY <1>5, SameWork
<1>7. /\ c.closes = {} /\ c.outbuffer = 0 /\ (c.chan = "zombie" => c.socksbuf = 0)
      /\ c.socksbuf \in Nat /\ c.chan \in {"socket", "zombie"}
  BY <1>1 DEF Sound, Meets, Chan
<1>8. ASSUME NEW y \in Chan, y.localid = cx.localid, ~y.halfopen, y.remoteid = cx.remoteid,
             y.remwindow = cx.remwindow, y.closes = cx.closes, y.pending_eof = cx.pending_eof,
             y.throttling_conn = cx.throttling_conn, y.locwindow = cx.locwindow,
             y.locmaxwin = cx.locmaxwin, y.remlocwin = cx.remlocwin, y.chanreqs = cx.chanreqs,
             y.fixed = cx.fixed, y.chan = cx.chan, y.backlog = cx.backlog, y.sockeof = cx.sockeof,
             y.n = cx.n, y.socksbuf = 0, y.outbuffer = c.socksbuf
      PROVE  Mid(Start(y), m1)
  <2>1. Both(y, m1.d, m1.q, m1.r)
    <3>1. Both(y, m.d, m.q, Tail(m.r))
      BY <1>1, <1>4, <1>8, BothRcvConfirmation DEF p
    <3>2. QED
      BY <1>1, <3>1
  <2>2. Sound(y)
    BY <1>1, <1>4, <1>8 DEF Sound
  <2>3. m1.fixed \/ Within(y)
    BY <1>1, <1>4, <1>8 DEF Meets, Within
  <2>4. m1.cut \/ (Carried(y, m1.d, m1.q, m1.s) /\ Carried(m1.d, y, m1.r, m1.t))
    <3>1. ASSUME Carried(c, m.d, m.q, m.s) /\ Carried(m.d, c, m.r, m.t)
          PROVE  Carried(y, m.d, m.q, m.s) /\ Carried(m.d, y, Tail(m.r), m.t)
      <4>1. Shrinks(m.r)
        BY <1>1, TailShrinks
      <4>2. /\ Data(m.r) = Data(Tail(m.r)) + (IF m.r[1].type = "DATA" THEN m.r[1].len ELSE 0)
            /\ Data(Tail(m.r)) \in Nat
        BY <4>1, Zenon DEF Shrinks
      <4>3. Data(m.r) = Data(Tail(m.r))
        BY <4>2
      <4>4. c.socksbuf + c.outbuffer = y.socksbuf + y.outbuffer
        BY <1>7, <1>8
      <4>5. Carried(y, m.d, m.q, m.s)
        BY <1>4, <1>7, <1>8, <3>1, <4>4 DEF Carried
      <4>6. Carried(m.d, y, Tail(m.r), m.t)
        BY <1>4, <1>8, <3>1, <4>3 DEF Carried
      <4>7. QED
        BY <4>5, <4>6
    <3>2. QED
      BY <1>1, <3>1, Zenon DEF Meets, SameStreams
  <2>5. y.localid = m1.id /\ y.n = m1.d.n /\ y.chan # "freed" /\ "RCVD_CLOSE" \notin y.closes
    BY <1>1, <1>4, <1>7, <1>8 DEF Meets
  <2>6. QED
    BY <1>8, <2>1, <2>2, <2>3, <2>4, <2>5, StartMid
<1>9. Mid(Started(x), m1)
  <2>1. CASE c.chan = "zombie"
    <3>1. Mid(Start(cx), m1)
      BY <1>4, <1>7, <1>8, <2>1
    <3>2. Started(x) = x
      BY <1>4, <1>5, <2>1 DEF Started
    <3>3. QED
      BY <1>6, <3>1, <3>2
  <2>2. CASE c.chan = "socket"
    <3> DEFINE y == Ready(x)
    <3> DEFINE cy == [cx EXCEPT !.ready = TRUE, !.input_wanted = TRUE, !.socksbuf = 0]
    <3> DEFINE z == [y EXCEPT !.c.outbuffer = @ + c.socksbuf]
    <3> DEFINE cz == [cy EXCEPT !.outbuffer = c.socksbuf]
    <3>1. /\ cy \in Chan /\ cy.remoteid = cx.remoteid /\ ~cy.halfopen /\ cy.remwindow = cx.remwindow
          /\ cy.localid = cx.localid /\ cy.closes = cx.closes /\ cy.pending_eof = cx.pending_eof
          /\ cy.throttling_conn = cx.throttling_conn /\ cy.outbuffer = cx.outbuffer
          /\ cy.locwindow = cx.locwindow /\ cy.locmaxwin = cx.locmaxwin /\ cy.remlocwin = cx.remlocwin
          /\ cy.chanreqs = cx.chanreqs /\ cy.fixed = cx.fixed /\ cy.chan = cx.chan
          /\ cy.socksbuf = 0 /\ cy.backlog = cx.backlog /\ cy.sockeof = cx.sockeof /\ cy.n = cx.n
      BY <1>4 DEF Chan
    <3>2. y.c = cy /\ y.tx = <<>> /\ y \in Work
      BY <1>5, <3>1 DEF Ready, Work
    <3> HIDE DEF y, cy
    <3>3. /\ cz \in Chan /\ cz.remoteid = cy.remoteid /\ ~cz.halfopen /\ cz.remwindow = cy.remwindow
          /\ cz.localid = cy.localid /\ cz.closes = cy.closes /\ cz.pending_eof = cy.pending_eof
          /\ cz.throttling_conn = cy.throttling_conn /\ cz.outbuffer = c.socksbuf
          /\ cz.locwindow = cy.locwindow /\ cz.locmaxwin = cy.locmaxwin /\ cz.remlocwin = cy.remlocwin
          /\ cz.chanreqs = cy.chanreqs /\ cz.fixed = cy.fixed /\ cz.chan = cy.chan
          /\ cz.socksbuf = cy.socksbuf /\ cz.backlog = cy.backlog /\ cz.sockeof = cy.sockeof /\ cz.n = cy.n
      BY <1>7, <3>1 DEF Chan
    <3>4. y.c.outbuffer + c.socksbuf = c.socksbuf
      BY <1>4, <1>7, <3>1, <3>2
    <3>5. z = [y EXCEPT !.c.outbuffer = c.socksbuf]
      BY <3>4
    <3>6. z.c = cz /\ z.tx = <<>> /\ z \in Work
      BY <3>2, <3>3, <3>5 DEF Work
    <3> HIDE DEF z, cz
    <3>7. z = Start(cz) /\ y = Start(cy)
      BY <3>2, <3>6, SameWork
    <3>8. Mid(z, m1)
      BY <1>8, <3>1, <3>3, <3>7
    <3>9. "SENT_EOF" \notin y.c.closes
      BY <1>4, <1>7, <3>1, <3>2
    <3>10. CASE c.socksbuf > 0
      <4>1. Mid([y EXCEPT !.c.outbuffer = @ + c.socksbuf], m1)
        BY <3>8 DEF z
      <4>2. Mid(Write(y, c.socksbuf), m1)
        BY <1>7, <3>2, <3>9, <4>1, WriteMid
      <4>3. Started(x) = Write(y, c.socksbuf)
        BY <1>4, <1>5, <2>2, <3>10 DEF Started, y
      <4>4. QED
        BY <4>2, <4>3
    <3>11. CASE ~(c.socksbuf > 0)
      <4>1. cy.outbuffer = c.socksbuf
        BY <1>4, <1>7, <3>1, <3>11
      <4>2. Mid(Start(cy), m1)
        BY <1>8, <3>1, <4>1
      <4>3. Started(x) = y
        BY <1>4, <1>5, <2>2, <3>11 DEF Started, y
      <4>4. QED
        BY <3>7, <4>2, <4>3
    <3>12. QED
      BY <3>10, <3>11
  <2>3. QED
    BY <1>7, <2>1, <2>2
<1>10. Mid(Confirmed(x), m1)
  <2> DEFINE y == Started(x)
  <2>1. Mid(y, m1)
    BY <1>9
  <2> HIDE DEF y
  <2>2. LET z == CheckClose(y) IN  Mid(IF z.c.pending_eof THEN TryEof(z) ELSE z, m1)
    BY <2>1, ConfirmedMid
  <2>3. QED
    BY <2>2, Zenon DEF Confirmed, y
<1>11. QED
  BY <1>10, MidDone DEF x, p, s

LEMMA RcvEofDone ==
  ASSUME NEW m \in Setting, NEW m1 \in Setting, NEW c \in Chan, Meets(c, m), Taken(m, m1),
         m.r[1].type = "EOF", c.fixed \/ m.cut => m1.cut,
         ~m1.cut => m1.s = m.s /\ m1.t.owed = m.t.owed /\ m1.t.eof = m.t.eof
  PROVE  Done(IF "RCVD_EOF" \in Start(c).c.closes THEN Start(c) ELSE CheckClose(GotEof(Start(c))), m1)
<1> DEFINE s == Start(c)
<1> DEFINE x == [s EXCEPT !.c.closes = @ \cup {"RCVD_EOF"}]
<1> DEFINE c1 == [c EXCEPT !.closes = c.closes \cup {"RCVD_EOF"}]
<1>1. /\ m.d \in Chan /\ m.q \in Seq(Pkt) /\ m.r \in Seq(Pkt) /\ m.r # <<>> /\ m.r[1] \in Pkt
      /\ m1.id = m.id /\ m1.d = m.d /\ m1.q = m.q /\ m1.r = Tail(m.r) /\ m1.fixed = m.fixed
      /\ Both(c, m.d, m.q, m.r) /\ Sound(m.d) /\ Sound(c) /\ ~c.halfopen
      /\ "RCVD_EOF" \notin c.closes
  BY TakenType
<1>2. s \in Work /\ s.c = c /\ s.tx = <<>>
  BY StartType
<1> HIDE DEF s
<1>3. /\ c1 \in Chan /\ Alike(c, c1) /\ c1.closes = c.closes \cup {"RCVD_EOF"}
        /\ c1.pending_eof = c.pending_eof /\ c1.throttling_conn = c.throttling_conn
        /\ c1.throttled_by_backlog = c.throttled_by_backlog /\ c1.outbuffer = c.outbuffer
        /\ c1.remwindow = c.remwindow /\ c1.locwindow = c.locwindow
        /\ c1.locmaxwin = c.locmaxwin /\ c1.remlocwin = c.remlocwin
        /\ c1.chanreqs = c.chanreqs /\ c1.throttle_state = c.throttle_state
        /\ c1.fixed = c.fixed /\ c1.chan = c.chan /\ c1.input_wanted = c.input_wanted
        /\ c1.socksbuf = c.socksbuf /\ c1.ready = c.ready /\ c1.backlog = c.backlog
        /\ c1.sockeof = c.sockeof /\ c1.unwritten = c.unwritten /\ c1.n = c.n
  BY DEF Chan, Alike
<1>4. x.c = c1 /\ x.tx = <<>> /\ x \in Work
  BY <1>2, <1>3 DEF Work
<1>5. GotEof(s) = IF c.fixed THEN WriteEof(x) ELSE x
  <2>1. GotEof(s) = SendEof(x)
    BY <1>1, <1>2 DEF GotEof
  <2>2. x.c.fixed = c.fixed
    BY <1>3, <1>4
  <2> HIDE DEF x
  <2>3. QED
    BY <2>1, <2>2 DEF SendEof
<1> HIDE DEF x, c1
<1>6. x = Start(c1)
  BY <1>4, SameWork
<1>7. Both(c1, m1.d, m1.q, m1.r)
  <2>1. Both(c1, m.d, m.q, Tail(m.r))
    BY <1>1, <1>3, BothRcvEof
  <2>2. QED
    BY <1>1, <2>1
<1>8. Sound(c1)
  BY <1>1, <1>3 DEF Sound, Alike
<1>9. m1.fixed \/ Within(c1)
  BY <1>1, <1>3 DEF Meets, Within
<1>10. m1.cut \/ (Carried(c1, m1.d, m1.q, m1.s) /\ Carried(m1.d, c1, m1.r, m1.t))
  <2>1. ASSUME ~m1.cut
        PROVE  Carried(c1, m.d, m.q, m.s) /\ Carried(m.d, c1, Tail(m.r), m1.t)
    <3>1. Carried(c, m.d, m.q, m.s) /\ Carried(m.d, c, m.r, m.t) /\ ~c.fixed
      BY <2>1 DEF Meets
    <3>2. Carried(c1, m.d, m.q, m.s)
      BY <1>3, <3>1 DEF Carried
    <3>3. Shrinks(m.r)
      BY <1>1, TailShrinks
    <3>4. /\ Data(m.r) = Data(Tail(m.r)) + (IF m.r[1].type = "DATA" THEN m.r[1].len ELSE 0)
          /\ Data(Tail(m.r)) \in Nat
      BY <3>3, Zenon DEF Shrinks
    <3>5. Data(m.r) = Data(Tail(m.r))
      BY <3>4
    <3>6. m1.t.owed = m.t.owed /\ m1.t.eof = m.t.eof /\ "RCVD_EOF" \in c1.closes
      BY <1>3, <2>1
    <3>7. Carried(m.d, c1, Tail(m.r), m1.t)
      BY <1>3, <3>1, <3>5, <3>6 DEF Carried
    <3>8. QED
      BY <3>2, <3>7
  <2>2. QED
    BY <1>1, <2>1, Zenon
<1>11. /\ c1.localid = m1.id /\ c1.n = m1.d.n /\ ~c1.halfopen /\ c1.chan # "freed"
       /\ "RCVD_CLOSE" \notin c1.closes
  BY <1>1, <1>3 DEF Meets, Alike
<1>12. Mid(x, m1)
  BY <1>3, <1>6, <1>7, <1>8, <1>9, <1>10, <1>11, StartMid
<1>13. c.fixed => Mid(WriteEof(x), m1)
  <2>1. ASSUME c.fixed, "SENT_EOF" \notin x.c.closes
        PROVE  Mid([x EXCEPT !.c.pending_eof = TRUE], m1)
    <3>1. c1.fixed /\ c1.chan # "zombie" /\ "RCVD_EOF" \in c1.closes
      BY <1>1, <1>3, <2>1 DEF Sound
    <3>2. QED
      BY <1>4, <1>12, <2>1, <3>1, PendingMid
  <2>2. QED
    BY <1>4, <1>12, <2>1, WriteEofMid
<1>14. Mid(GotEof(s), m1)
  BY <1>5, <1>12, <1>13
<1>15. QED
  BY <1>1, <1>2, <1>14, CheckCloseMid, MidDone DEF s

-----------------------------------------------------------------------------
(* CLOSE ends the other direction, too *)

Kept(c, c1) ==
  /\ c1 \in Chan /\ Alike(c, c1) /\ c1.n = c.n /\ c1.remwindow = c.remwindow
  /\ c1.locwindow = c.locwindow /\ c1.locmaxwin = c.locmaxwin /\ c1.backlog = c.backlog
  /\ c1.throttling_conn = c.throttling_conn /\ c1.fixed = c.fixed /\ c1.sockeof = c.sockeof
  /\ c1.socksbuf = c.socksbuf

\* EOF is sent, and CLOSE follows.
LEMMA WriteEofIs ==
  ASSUME NEW x \in Work, ~x.c.halfopen, x.c.outbuffer = 0, x.c.chanreqs = <<>>,
         x.c.closes = {"RCVD_EOF"}
  PROVE  LET y == WriteEof(x)
         IN  /\ y \in Work /\ Kept(x.c, y.c) /\ y.c.closes = {"SENT_EOF", "RCVD_EOF", "SENT_CLOSE"}
             /\ y.c.chanreqs = <<>> /\ y.c.outbuffer = 0 /\ ~y.c.pending_eof /\ y.c.chan = x.c.chan
             /\ y.c.remlocwin = x.c.remlocwin
             /\ y.tx = Append(Append(x.tx, Packet("EOF", x.c)), Packet("CLOSE", x.c))
<1> DEFINE c == x.c
<1> DEFINE y == [x EXCEPT !.c.pending_eof = TRUE]
<1> DEFINE c1 == [c EXCEPT !.pending_eof = TRUE]
<1> DEFINE p == Packet("EOF", c)
<1> DEFINE z == [Push(y, p) EXCEPT !.c.pending_eof = FALSE, !.c.closes = @ \cup {"SENT_EOF"}]
<1> DEFINE c2 == [c1 EXCEPT !.pending_eof = FALSE, !.closes = c1.closes \cup {"SENT_EOF"}]
<1> DEFINE o == Packet("CLOSE", c)
<1> DEFINE u == [Push(z, o) EXCEPT !.c.closes = @ \cup {"SENT_EOF", "SENT_CLOSE"}]
<1> DEFINE c3 == [c2 EXCEPT !.closes = c2.closes \cup {"SENT_EOF", "SENT_CLOSE"}]
<1>1. x \in Work /\ c \in Chan /\ x.tx \in Seq(Pkt) /\ ~c.halfopen /\ c.outbuffer = 0
      /\ c.chanreqs = <<>> /\ c.closes = {"RCVD_EOF"}
  BY WorkType
<1>2. /\ c1 \in Chan /\ Alike(c, c1) /\ c1.closes = c.closes /\ c1.pending_eof = TRUE
        /\ c1.throttling_conn = c.throttling_conn
        /\ c1.throttled_by_backlog = c.throttled_by_backlog /\ c1.outbuffer = c.outbuffer
        /\ c1.remwindow = c.remwindow /\ c1.locwindow = c.locwindow
        /\ c1.locmaxwin = c.locmaxwin /\ c1.remlocwin = c.remlocwin
        /\ c1.chanreqs = c.chanreqs /\ c1.throttle_state = c.throttle_state
        /\ c1.fixed = c.fixed /\ c1.chan = c.chan /\ c1.input_wanted = c.input_wanted
        /\ c1.socksbuf = c.socksbuf /\ c1.ready = c.ready /\ c1.backlog = c.backlog
        /\ c1.sockeof = c.sockeof /\ c1.unwritten = c.unwritten /\ c1.n = c.n
  BY <1>1 DEF Chan, Alike
<1>3. y.c = c1 /\ y.tx = x.tx /\ y \in Work
  BY <1>1, <1>2 DEF Work
<1>4. WriteEof(x) = TryEof(y)
  BY <1>1 DEF WriteEof
<1>5. p \in Pkt /\ o \in Pkt
  BY <1>1, PacketIs, ZenonT(40)
<1>6. Packet("EOF", c1) = p
  BY <1>2 DEF Packet, Alike
<1> HIDE DEF c, c1, y
<1>7. TryEof(y) = CheckClose(z)
  <2>1. ~y.c.halfopen /\ ~(y.c.outbuffer > 0) /\ y.c.pending_eof
    BY <1>1, <1>2, <1>3 DEF Alike
  <2>2. Asserts(y, y.c.pending_eof, "no EOF pending") = y
    BY <2>1 DEF Asserts
  <2>3. QED
    BY <1>3, <1>6, <2>1, <2>2, Zenon DEF TryEof
<1> HIDE DEF p
<1>8. Append(x.tx, p) \in Seq(Pkt) /\ Append(Append(x.tx, p), o) \in Seq(Pkt)
  BY <1>1, <1>5
<1>9. c1.closes \cup {"SENT_EOF"} = {"SENT_EOF", "RCVD_EOF"}
  BY <1>1, <1>2
<1>10. /\ c2 \in Chan /\ Alike(c1, c2) /\ c2.closes = {"SENT_EOF", "RCVD_EOF"}
        /\ c2.pending_eof = FALSE /\ c2.throttling_conn = c1.throttling_conn
        /\ c2.throttled_by_backlog = c1.throttled_by_backlog /\ c2.outbuffer = c1.outbuffer
        /\ c2.remwindow = c1.remwindow /\ c2.locwindow = c1.locwindow
        /\ c2.locmaxwin = c1.locmaxwin /\ c2.remlocwin = c1.remlocwin
        /\ c2.chanreqs = c1.chanreqs /\ c2.throttle_state = c1.throttle_state
        /\ c2.fixed = c1.fixed /\ c2.chan = c1.chan /\ c2.input_wanted = c1.input_wanted
        /\ c2.socksbuf = c1.socksbuf /\ c2.ready = c1.ready /\ c2.backlog = c1.backlog
        /\ c2.sockeof = c1.sockeof /\ c2.unwritten = c1.unwritten /\ c2.n = c1.n
  BY <1>2, <1>9, ZenonT(40) DEF Chan, Alike
<1>11. z.c = c2 /\ z.tx = Append(x.tx, p) /\ z \in Work
  BY <1>3, <1>8, <1>10 DEF Push, Work
<1> HIDE DEF o, c2, z
<1>12. Packet("CLOSE", c2) = o
  BY <1>2, <1>10 DEF Packet, Alike, o
<1>13. CheckClose(z) = IF {"SENT_CLOSE", "RCVD_CLOSE"} \subseteq u.c.closes THEN Destroy(u) ELSE u
  <2>1. WantClose(z.c) /\ z.c.chanreqs = <<>> /\ "SENT_CLOSE" \notin z.c.closes /\ ~z.c.halfopen
    BY <1>1, <1>2, <1>10, <1>11 DEF WantClose, Alike
  <2>2. QED
    BY <1>11, <1>12, <2>1 DEF CheckClose
<1>14. c2.closes \cup {"SENT_EOF", "SENT_CLOSE"} = {"SENT_EOF", "RCVD_EOF", "SENT_CLOSE"}
  BY <1>10
<1>15. /\ c3 \in Chan /\ Alike(c2, c3) /\ c3.closes = {"SENT_EOF", "RCVD_EOF", "SENT_CLOSE"}
        /\ c3.pending_eof = c2.pending_eof /\ c3.throttling_conn = c2.throttling_conn
        /\ c3.throttled_by_backlog = c2.throttled_by_backlog /\ c3.outbuffer = c2.outbuffer
        /\ c3.remwindow = c2.remwindow /\ c3.locwindow = c2.locwindow
        /\ c3.locmaxwin = c2.locmaxwin /\ c3.remlocwin = c2.remlocwin
        /\ c3.chanreqs = c2.chanreqs /\ c3.throttle_state = c2.throttle_state
        /\ c3.fixed = c2.fixed /\ c3.chan = c2.chan /\ c3.input_wanted = c2.input_wanted
        /\ c3.socksbuf = c2.socksbuf /\ c3.ready = c2.ready /\ c3.backlog = c2.backlog
        /\ c3.sockeof = c2.sockeof /\ c3.unwritten = c2.unwritten /\ c3.n = c2.n
  BY <1>10, <1>14 DEF Chan, Alike
<1>16. u.c = c3 /\ u.tx = Append(Append(x.tx, p), o) /\ u \in Work
  BY <1>8, <1>11, <1>15 DEF Push, Work
<1> HIDE DEF u, c3
<1>17. CheckClose(z) = u
  BY <1>13, <1>15, <1>16
<1>18. Kept(c, c3)
  BY <1>2, <1>10, <1>15 DEF Kept, Alike
<1>19. QED
  BY <1>1, <1>2, <1>4, <1>7, <1>10, <1>15, <1>16, <1>17, <1>18 DEF c, p, o

LEMMA GotCloseIs ==
  ASSUME NEW x \in Work, ~x.c.halfopen, x.c.chanreqs = <<>>, {"SENT_EOF", "RCVD_EOF"} \subseteq x.c.closes,
         "RCVD_CLOSE" \notin x.c.closes
  PROVE  LET y == GotClose(x)
         IN  /\ y \in Work /\ Kept(x.c, y.c) /\ y.c.chan = "freed"
             /\ y.c.closes = {"SENT_EOF", "RCVD_EOF", "SENT_CLOSE", "RCVD_CLOSE"}
             /\ y.c.chanreqs = <<>> /\ y.c.outbuffer = x.c.outbuffer
             /\ y.c.pending_eof = x.c.pending_eof /\ y.c.remlocwin = x.c.remlocwin
             /\ y.tx = IF "SENT_CLOSE" \in x.c.closes THEN x.tx ELSE Append(x.tx, Packet("CLOSE", x.c))
<1> DEFINE c == x.c
<1> DEFINE all == {"SENT_EOF", "RCVD_EOF", "SENT_CLOSE", "RCVD_CLOSE"}
<1> DEFINE y == [x EXCEPT !.c.closes = @ \cup {"RCVD_CLOSE"}]
<1> DEFINE c1 == [c EXCEPT !.closes = c.closes \cup {"RCVD_CLOSE"}]
<1> DEFINE o == Packet("CLOSE", c)
<1> DEFINE u == [Push(y, o) EXCEPT !.c.closes = @ \cup {"SENT_EOF", "SENT_CLOSE"}]
<1> DEFINE c2 == [c1 EXCEPT !.closes = c1.closes \cup {"SENT_EOF", "SENT_CLOSE"}]
<1>1. x \in Work /\ c \in Chan /\ x.tx \in Seq(Pkt) /\ ~c.halfopen /\ c.closes \subseteq all
      /\ c.chanreqs = <<>> /\ {"SENT_EOF", "RCVD_EOF"} \subseteq c.closes /\ "RCVD_CLOSE" \notin c.closes
  <2>1. c \in Chan
    BY WorkType
  <2>2. c.closes \subseteq all
    BY <2>1 DEF Chan
  <2>3. QED
    BY <2>1, <2>2, WorkType
<1>2. /\ c1 \in Chan /\ Alike(c, c1) /\ c1.closes = c.closes \cup {"RCVD_CLOSE"}
        /\ c1.pending_eof = c.pending_eof /\ c1.throttling_conn = c.throttling_conn
        /\ c1.throttled_by_backlog = c.throttled_by_backlog /\ c1.outbuffer = c.outbuffer
        /\ c1.remwindow = c.remwindow /\ c1.locwindow = c.locwindow
        /\ c1.locmaxwin = c.locmaxwin /\ c1.remlocwin = c.remlocwin
        /\ c1.chanreqs = c.chanreqs /\ c1.throttle_state = c.throttle_state
        /\ c1.fixed = c.fixed /\ c1.chan = c.chan /\ c1.input_wanted = c.input_wanted
        /\ c1.socksbuf = c.socksbuf /\ c1.ready = c.ready /\ c1.backlog = c.backlog
        /\ c1.sockeof = c.sockeof /\ c1.unwritten = c.unwritten /\ c1.n = c.n
  BY <1>1 DEF Chan, Alike
<1>3. y.c = c1 /\ y.tx = x.tx /\ y \in Work
  BY <1>1, <1>2 DEF Work
<1>4. GotClose(x) = CheckClose(y)
  BY <1>1 DEF GotClose
<1>5. o \in Pkt
  BY <1>1, PacketIs
<1>6. Packet("CLOSE", c1) = o
  BY <1>2 DEF Packet, Alike
<1>7. Append(x.tx, o) \in Seq(Pkt)
  BY <1>1, <1>5
<1> HIDE DEF c, c1, y, o
<1>8. WantClose(y.c) /\ y.c.chanreqs = <<>> /\ ~y.c.halfopen
  BY <1>1, <1>2, <1>3 DEF WantClose, Alike
\* ssh2_channel_destroy
<1>9. ASSUME NEW z \in Work, NEW cz \in Chan, z.c = cz, cz.closes = all, cz.chanreqs = <<>>
      PROVE  LET v == Destroy(z)
             IN  /\ v \in Work /\ Kept(cz, v.c) /\ v.c.chan = "freed" /\ v.c.closes = all
                 /\ v.c.chanreqs = <<>> /\ v.c.outbuffer = cz.outbuffer
                 /\ v.c.pending_eof = cz.pending_eof /\ v.c.remlocwin = cz.remlocwin /\ v.tx = z.tx
  <2> DEFINE v == [z EXCEPT !.c.chan = "freed"]
  <2> DEFINE cv == [cz EXCEPT !.chan = "freed"]
  <2>1. Destroy(z) = v
    BY <1>9 DEF Destroy, Asserts
  <2>2. /\ cv \in Chan /\ Alike(cz, cv) /\ cv.closes = cz.closes
        /\ cv.pending_eof = cz.pending_eof /\ cv.throttling_conn = cz.throttling_conn
        /\ cv.throttled_by_backlog = cz.throttled_by_backlog /\ cv.outbuffer = cz.outbuffer
        /\ cv.remwindow = cz.remwindow /\ cv.locwindow = cz.locwindow
        /\ cv.locmaxwin = cz.locmaxwin /\ cv.remlocwin = cz.remlocwin
        /\ cv.chanreqs = cz.chanreqs /\ cv.throttle_state = cz.throttle_state
        /\ cv.fixed = cz.fixed /\ cv.chan = "freed" /\ cv.input_wanted = cz.input_wanted
        /\ cv.socksbuf = cz.socksbuf /\ cv.ready = cz.ready /\ cv.backlog = cz.backlog
        /\ cv.sockeof = cz.sockeof /\ cv.unwritten = cz.unwritten /\ cv.n = cz.n
    BY DEF Chan, Alike
  <2>3. v.c = cv /\ v.tx = z.tx /\ v \in Work
    BY <1>9, <2>2 DEF Work
  <2> HIDE DEF v, cv
  <2>4. Kept(cz, cv)
    BY <2>2 DEF Kept
  <2>5. QED
    BY <1>9, <2>1, <2>2, <2>3, <2>4
<1>10. CASE "SENT_CLOSE" \in c.closes
  <2>1. c1.closes = all
    BY <1>1, <1>2, <1>10
  <2>2. CheckClose(y) = Destroy(y)
    BY <1>3, <1>8, <2>1 DEF CheckClose
  <2>3. Kept(c, c1)
    BY <1>2 DEF Kept
  <2> DEFINE v == Destroy(y)
  <2>4. /\ v \in Work /\ Kept(c1, v.c) /\ v.c.chan = "freed" /\ v.c.closes = all
        /\ v.c.chanreqs = <<>> /\ v.c.outbuffer = c1.outbuffer
        /\ v.c.pending_eof = c1.pending_eof /\ v.c.remlocwin = c1.remlocwin /\ v.tx = y.tx
    BY <1>1, <1>2, <1>3, <1>9, <2>1
  <2> HIDE DEF v
  <2>5. GotClose(x) = v
    BY <1>4, <2>2 DEF v
  <2>6. Kept(c, v.c)
    BY <2>3, <2>4 DEF Kept, Alike
  <2>7. QED
    BY <1>2, <1>3, <1>10, <2>4, <2>5, <2>6 DEF c
<1>11. CASE "SENT_CLOSE" \notin c.closes
  <2>1. c1.closes \cup {"SENT_EOF", "SENT_CLOSE"} = all
    BY <1>1, <1>2
  <2>2. /\ c2 \in Chan /\ Alike(c1, c2) /\ c2.closes = all /\ c2.pending_eof = c1.pending_eof
        /\ c2.throttling_conn = c1.throttling_conn
        /\ c2.throttled_by_backlog = c1.throttled_by_backlog /\ c2.outbuffer = c1.outbuffer
        /\ c2.remwindow = c1.remwindow /\ c2.locwindow = c1.locwindow
        /\ c2.locmaxwin = c1.locmaxwin /\ c2.remlocwin = c1.remlocwin
        /\ c2.chanreqs = c1.chanreqs /\ c2.throttle_state = c1.throttle_state
        /\ c2.fixed = c1.fixed /\ c2.chan = c1.chan /\ c2.input_wanted = c1.input_wanted
        /\ c2.socksbuf = c1.socksbuf /\ c2.ready = c1.ready /\ c2.backlog = c1.backlog
        /\ c2.sockeof = c1.sockeof /\ c2.unwritten = c1.unwritten /\ c2.n = c1.n
    BY <1>2, <2>1 DEF Chan, Alike
  <2>3. u.c = c2 /\ u.tx = Append(x.tx, o) /\ u \in Work
    BY <1>3, <1>7, <2>2 DEF Push, Work
  <2>4. "SENT_CLOSE" \notin y.c.closes /\ Packet("CLOSE", y.c) = o
    BY <1>2, <1>3, <1>6, <1>11
  <2>5. CheckClose(y) = IF {"SENT_CLOSE", "RCVD_CLOSE"} \subseteq u.c.closes THEN Destroy(u) ELSE u
    BY <1>8, <2>4 DEF CheckClose
  <2> HIDE DEF u, c2
  <2>6. CheckClose(y) = Destroy(u)
    BY <2>2, <2>3, <2>5
  <2>7. Kept(c, c2)
    BY <1>2, <2>2 DEF Kept, Alike
  <2> DEFINE v == Destroy(u)
  <2>8. /\ v \in Work /\ Kept(c2, v.c) /\ v.c.chan = "freed" /\ v.c.closes = all
        /\ v.c.chanreqs = <<>> /\ v.c.outbuffer = c2.outbuffer
        /\ v.c.pending_eof = c2.pending_eof /\ v.c.remlocwin = c2.remlocwin /\ v.tx = u.tx
    BY <1>1, <1>2, <1>9, <2>2, <2>3
  <2> HIDE DEF v
  <2>9. GotClose(x) = v
    BY <1>4, <2>6 DEF v
  <2>10. Kept(c, v.c)
    BY <2>7, <2>8 DEF Kept, Alike
  <2>11. QED
    BY <1>2, <1>11, <2>2, <2>3, <2>8, <2>9, <2>10 DEF c, o
<1>12. QED
  BY <1>10, <1>11

LEMMA AllRepliedIs ==
  ASSUME NEW x \in Work
  PROVE  LET y == AllReplied(x)
         IN  /\ y \in Work /\ Kept(x.c, y.c) /\ y.c.closes = x.c.closes /\ y.c.chanreqs = <<>>
             /\ y.c.outbuffer = x.c.outbuffer /\ y.c.pending_eof = x.c.pending_eof
             /\ y.c.chan = x.c.chan /\ y.c.remlocwin = x.c.remlocwin + Total(x.c.chanreqs)
             /\ y.tx = x.tx
<1> DEFINE c == x.c
<1> DEFINE rw == c.remlocwin + Total(c.chanreqs)
<1> DEFINE ts == IF c.chanreqs # <<>> /\ c.throttle_state = "UNTHROTTLING"
                 THEN "UNTHROTTLED" ELSE c.throttle_state
<1> DEFINE y == [x EXCEPT !.c.remlocwin = rw, !.c.throttle_state = ts, !.c.chanreqs = <<>>]
<1> DEFINE c1 == [c EXCEPT !.remlocwin = rw, !.throttle_state = ts, !.chanreqs = <<>>]
<1>1. x \in Work /\ c \in Chan /\ x.tx \in Seq(Pkt)
  BY WorkType
<1>2. c.remlocwin \in Int /\ c.chanreqs \in Seq(Nat) /\ ts \in {"UNTHROTTLED", "UNTHROTTLING", "THROTTLED"}
  BY <1>1 DEF Chan
<1>3. rw \in Int
  <2>1. Total(c.chanreqs) \in Nat
    BY <1>2, TotalNat
  <2>2. QED
    BY <1>2, <2>1
<1>4. AllReplied(x) = y
  BY <1>1 DEF AllReplied, Work, Chan
<1> HIDE DEF rw, ts
<1>5. <<>> \in Seq(Nat)
  OBVIOUS
<1>6. /\ c1 \in Chan /\ Alike(c, c1) /\ c1.closes = c.closes
        /\ c1.pending_eof = c.pending_eof /\ c1.throttling_conn = c.throttling_conn
        /\ c1.throttled_by_backlog = c.throttled_by_backlog /\ c1.outbuffer = c.outbuffer
        /\ c1.remwindow = c.remwindow /\ c1.locwindow = c.locwindow
        /\ c1.locmaxwin = c.locmaxwin /\ c1.remlocwin = rw /\ c1.chanreqs = <<>>
        /\ c1.fixed = c.fixed /\ c1.chan = c.chan /\ c1.input_wanted = c.input_wanted
        /\ c1.socksbuf = c.socksbuf /\ c1.ready = c.ready /\ c1.backlog = c.backlog
        /\ c1.sockeof = c.sockeof /\ c1.unwritten = c.unwritten /\ c1.n = c.n
  BY <1>1, <1>2, <1>3, <1>5 DEF Chan, Alike
<1>7. y.c = c1 /\ y.tx = x.tx /\ y \in Work
  BY <1>1, <1>6 DEF Work
<1> HIDE DEF y, c1
<1>8. Kept(c, c1)
  BY <1>6 DEF Kept
<1>9. QED
  BY <1>4, <1>6, <1>7, <1>8 DEF rw

LEMMA EndingIs ==
  ASSUME NEW x \in Work, ~x.c.halfopen, x.c.chanreqs = <<>>, "RCVD_EOF" \in x.c.closes,
         "RCVD_CLOSE" \notin x.c.closes, "SENT_CLOSE" \in x.c.closes => "SENT_EOF" \in x.c.closes,
         x.c.chan # "freed"
  PROVE  LET y == Ending(x)
         IN  /\ y \in Work /\ Kept(x.c, y.c) /\ y.c.chanreqs = <<>> /\ y.c.chan = x.c.chan
             /\ y.c.remlocwin = x.c.remlocwin
             /\ IF "SENT_EOF" \in x.c.closes THEN y = x
                ELSE /\ y.c.closes = {"SENT_EOF", "RCVD_EOF", "SENT_CLOSE"} /\ y.c.outbuffer = 0
                     /\ ~y.c.pending_eof
                     /\ y.tx = Append(Append(x.tx, Packet("EOF", x.c)), Packet("CLOSE", x.c))
<1> DEFINE c == x.c
<1> DEFINE y == [x EXCEPT !.c.outbuffer = 0]
<1> DEFINE c1 == [c EXCEPT !.outbuffer = 0]
<1> DEFINE z == WriteEof(y)
<1>1. x \in Work /\ c \in Chan /\ x.tx \in Seq(Pkt) /\ ~c.halfopen /\ c.chanreqs = <<>>
      /\ c.chan # "freed"
  BY WorkType
<1>2. CASE "SENT_EOF" \in c.closes
  <2>1. Kept(c, c)
    BY <1>1 DEF Kept, Alike
  <2>2. Ending(x) = x
    BY <1>2, Zenon DEF Ending
  <2>3. QED
    BY <1>1, <1>2, <2>1, <2>2
<1>3. CASE "SENT_EOF" \notin c.closes
  <2>1. c.closes \subseteq {"SENT_EOF", "RCVD_EOF", "SENT_CLOSE", "RCVD_CLOSE"}
    BY <1>1 DEF Chan
  <2>2. c.closes = {"RCVD_EOF"}
    BY <1>3, <2>1
  <2>3. /\ c1 \in Chan /\ Alike(c, c1) /\ c1.closes = c.closes
        /\ c1.pending_eof = c.pending_eof /\ c1.throttling_conn = c.throttling_conn
        /\ c1.throttled_by_backlog = c.throttled_by_backlog /\ c1.outbuffer = 0
        /\ c1.remwindow = c.remwindow /\ c1.locwindow = c.locwindow
        /\ c1.locmaxwin = c.locmaxwin /\ c1.remlocwin = c.remlocwin
        /\ c1.chanreqs = c.chanreqs /\ c1.throttle_state = c.throttle_state
        /\ c1.fixed = c.fixed /\ c1.chan = c.chan /\ c1.input_wanted = c.input_wanted
        /\ c1.socksbuf = c.socksbuf /\ c1.ready = c.ready /\ c1.backlog = c.backlog
        /\ c1.sockeof = c.sockeof /\ c1.unwritten = c.unwritten /\ c1.n = c.n
    BY <1>1 DEF Chan, Alike
  <2>4. y.c = c1 /\ y.tx = x.tx /\ y \in Work
    BY <1>1, <2>3 DEF Work
  <2>5. Ending(x) = CheckThrottle(z)
    BY <1>3 DEF Ending
  <2>6. Packet("EOF", c1) = Packet("EOF", c) /\ Packet("CLOSE", c1) = Packet("CLOSE", c)
    BY <2>3 DEF Packet, Alike
  <2> HIDE DEF c, c1, y
  <2>7. /\ z \in Work /\ Kept(c1, z.c) /\ z.c.closes = {"SENT_EOF", "RCVD_EOF", "SENT_CLOSE"}
        /\ z.c.chanreqs = <<>> /\ z.c.outbuffer = 0 /\ ~z.c.pending_eof /\ z.c.chan = c1.chan
        /\ z.c.remlocwin = c1.remlocwin
        /\ z.tx = Append(Append(y.tx, Packet("EOF", c1)), Packet("CLOSE", c1))
    BY <1>1, <2>2, <2>3, <2>4, WriteEofIs DEF Alike
  <2> HIDE DEF z
  <2> DEFINE b == ~z.c.throttled_by_backlog /\ ~z.c.pending_eof /\ "SENT_EOF" \notin z.c.closes
  <2> DEFINE v == [z EXCEPT !.c.input_wanted = b]
  <2> DEFINE d == z.c
  <2> DEFINE cv == [d EXCEPT !.input_wanted = b]
  <2>8. CheckThrottle(z) = v
    <3>1. Asserts(z, z.c.chan # "freed", "use after free") = z
      BY <1>1, <2>3, <2>7 DEF Asserts
    <3>2. QED
      BY <3>1, Zenon DEF CheckThrottle
  <2>9. b \in BOOLEAN /\ d \in Chan /\ z.tx \in Seq(Pkt)
    BY <2>7, WorkType
  <2> HIDE DEF b
  <2>10. /\ cv \in Chan /\ Alike(d, cv) /\ cv.closes = d.closes
         /\ cv.pending_eof = d.pending_eof /\ cv.throttling_conn = d.throttling_conn
         /\ cv.throttled_by_backlog = d.throttled_by_backlog /\ cv.outbuffer = d.outbuffer
         /\ cv.remwindow = d.remwindow /\ cv.locwindow = d.locwindow
         /\ cv.locmaxwin = d.locmaxwin /\ cv.remlocwin = d.remlocwin
         /\ cv.chanreqs = d.chanreqs /\ cv.throttle_state = d.throttle_state
         /\ cv.fixed = d.fixed /\ cv.chan = d.chan /\ cv.input_wanted = b
         /\ cv.socksbuf = d.socksbuf /\ cv.ready = d.ready /\ cv.backlog = d.backlog
         /\ cv.sockeof = d.sockeof /\ cv.unwritten = d.unwritten /\ cv.n = d.n
    BY <2>9 DEF Chan, Alike
  <2>11. v.c = cv /\ v.tx = z.tx /\ v \in Work
    BY <2>7, <2>10 DEF Work
  <2> HIDE DEF cv, v
  <2>12. Kept(c, cv)
    BY <2>3, <2>7, <2>10 DEF Kept, Alike
  <2>13. QED
    BY <1>3, <2>3, <2>4, <2>5, <2>6, <2>7, <2>8, <2>10, <2>11, <2>12 DEF c
<1>4. QED
  BY <1>2, <1>3

LEMMA GotEofIs ==
  ASSUME NEW c \in Chan, Sound(c), ~c.halfopen, "RCVD_CLOSE" \notin c.closes
  PROVE  LET y == GotEof(Start(c))
         IN  /\ y \in Work /\ Kept(c, y.c) /\ y.c.chanreqs = c.chanreqs /\ y.c.chan = c.chan
             /\ y.c.remlocwin = c.remlocwin
             /\ \/ /\ y.c.closes = c.closes \cup {"RCVD_EOF"} /\ y.c.outbuffer = c.outbuffer
                   /\ y.c.pending_eof = c.pending_eof /\ y.tx = <<>>
                \/ /\ c.fixed /\ c.closes = {}
                   /\ y.c.closes = {"SENT_EOF", "RCVD_EOF", "SENT_CLOSE"} /\ y.c.outbuffer = 0
                   /\ ~y.c.pending_eof
                   /\ y.tx = Append(Append(<<>>, Packet("EOF", c)), Packet("CLOSE", c))
<1> DEFINE s == Start(c)
<1> DEFINE x == [s EXCEPT !.c.closes = @ \cup {"RCVD_EOF"}]
<1> DEFINE c1 == [c EXCEPT !.closes = c.closes \cup {"RCVD_EOF"}]
<1>1. s \in Work /\ s.c = c /\ s.tx = <<>>
  BY StartType
<1> HIDE DEF s
<1>2. /\ c1 \in Chan /\ Alike(c, c1) /\ c1.closes = c.closes \cup {"RCVD_EOF"}
        /\ c1.pending_eof = c.pending_eof /\ c1.throttling_conn = c.throttling_conn
        /\ c1.throttled_by_backlog = c.throttled_by_backlog /\ c1.outbuffer = c.outbuffer
        /\ c1.remwindow = c.remwindow /\ c1.locwindow = c.locwindow
        /\ c1.locmaxwin = c.locmaxwin /\ c1.remlocwin = c.remlocwin
        /\ c1.chanreqs = c.chanreqs /\ c1.throttle_state = c.throttle_state
        /\ c1.fixed = c.fixed /\ c1.chan = c.chan /\ c1.input_wanted = c.input_wanted
        /\ c1.socksbuf = c.socksbuf /\ c1.ready = c.ready /\ c1.backlog = c.backlog
        /\ c1.sockeof = c.sockeof /\ c1.unwritten = c.unwritten /\ c1.n = c.n
  BY DEF Chan, Alike
<1>3. x.c = c1 /\ x.tx = <<>> /\ x \in Work
  BY <1>1, <1>2 DEF Work
<1>4. CASE "RCVD_EOF" \in c.closes
  <2>1. GotEof(s) = s
    BY <1>1, <1>4 DEF GotEof
  <2>2. Kept(c, c) /\ c.closes = c.closes \cup {"RCVD_EOF"}
    BY <1>4 DEF Kept, Alike
  <2>3. QED
    BY <1>1, <2>1, <2>2 DEF s
<1>5. CASE "RCVD_EOF" \notin c.closes
  <2>1. GotEof(s) = SendEof(x)
    BY <1>1, <1>5 DEF GotEof
  <2>2. x.c.fixed = c.fixed
    BY <1>2, <1>3
  <2>3. Packet("EOF", c1) = Packet("EOF", c) /\ Packet("CLOSE", c1) = Packet("CLOSE", c)
    BY <1>2 DEF Packet, Alike
  <2> HIDE DEF x, c1
  <2>4. Kept(c, c1)
    BY <1>2 DEF Kept
  <2>5. CASE ~c.fixed
    <3>1. GotEof(s) = x
      BY <2>1, <2>2, <2>5 DEF SendEof
    <3>2. QED
      BY <1>2, <1>3, <2>4, <3>1 DEF s
  <2>6. CASE c.fixed
    <3>1. GotEof(s) = WriteEof(x)
      BY <2>1, <2>2, <2>6 DEF SendEof
    <3>2. c.closes = {} /\ c.chanreqs = <<>> /\ c.outbuffer = 0
      <4>1. c.closes \subseteq {"SENT_EOF", "RCVD_EOF", "SENT_CLOSE", "RCVD_CLOSE"}
        BY DEF Chan
      <4>2. /\ "SENT_CLOSE" \notin c.closes /\ "SENT_EOF" \notin c.closes
            /\ c.chanreqs = <<>> /\ c.outbuffer = 0
        BY <1>5, <2>6 DEF Sound
      <4>3. QED
        BY <1>5, <4>1, <4>2
    <3>3. c1.closes = {"RCVD_EOF"}
      BY <1>2, <3>2
    <3> DEFINE y == WriteEof(x)
    <3>4. /\ y \in Work /\ Kept(c1, y.c) /\ y.c.closes = {"SENT_EOF", "RCVD_EOF", "SENT_CLOSE"}
          /\ y.c.chanreqs = <<>> /\ y.c.outbuffer = 0 /\ ~y.c.pending_eof /\ y.c.chan = c1.chan
          /\ y.c.remlocwin = c1.remlocwin
          /\ y.tx = Append(Append(x.tx, Packet("EOF", c1)), Packet("CLOSE", c1))
      BY <1>2, <1>3, <3>2, <3>3, WriteEofIs DEF Alike
    <3> HIDE DEF y
    <3>5. GotEof(s) = y
      BY <3>1 DEF y
    <3>6. Kept(c, y.c)
      BY <2>4, <3>4 DEF Kept, Alike
    <3>7. QED
      BY <1>2, <1>3, <2>3, <2>6, <3>2, <3>4, <3>5, <3>6 DEF s
  <2>7. QED
    BY <2>5, <2>6
<1>6. QED
  BY <1>4, <1>5
LEMMA AppendType ==
  ASSUME NEW a \in Seq(Pkt), NEW o \in Pkt
  PROVE  /\ Append(a, o) \in Seq(Pkt) /\ Len(Append(a, o)) = Len(a) + 1
         /\ Append(a, o)[Len(a) + 1] = o /\ \A k \in 1..Len(a) : Append(a, o)[k] = a[k]
OBVIOUS

LEMMA TwoPushed ==
  ASSUME NEW p \in Pkt, NEW o \in Pkt
  PROVE  Append(Append(<<>>, p), o) = <<p, o>> /\ Append(<<>>, o) = <<o>>
<1> DEFINE a == <<p>>
<1> DEFINE b == Append(a, o)
<1> DEFINE w == <<p, o>>
<1>1. Append(<<>>, p) = a /\ Append(<<>>, o) = <<o>>
  OBVIOUS
<1>2. a \in Seq(Pkt) /\ Len(a) = 1 /\ a[1] = p
  OBVIOUS
<1>3. w \in Seq(Pkt) /\ Len(w) = 2 /\ w[1] = p /\ w[2] = o
  OBVIOUS
<1> HIDE DEF a, w
<1>4. /\ b \in Seq(Pkt) /\ Len(b) = Len(a) + 1 /\ b[Len(a) + 1] = o
      /\ \A k \in 1..Len(a) : b[k] = a[k]
  BY <1>2, AppendType
<1> HIDE DEF b
<1>5. Len(b) = 2 /\ b[1] = p /\ b[2] = o
  BY <1>2, <1>4
<1>6. \A k \in 1..Len(b) : b[k] = w[k]
  BY <1>3, <1>5
<1>7. b = w
  BY <1>3, <1>4, <1>5, <1>6, SameSeq
<1>8. QED
  BY <1>1, <1>7 DEF b, w

LEMMA RcvCloseIs ==
  ASSUME NEW c \in Chan, Sound(c), ~c.halfopen, c.chan # "freed", "RCVD_CLOSE" \notin c.closes
  PROVE  LET y == GotClose(Ending(AllReplied(GotEof(Start(c)))))
         IN  /\ y \in Work /\ Kept(c, y.c) /\ y.c.chan = "freed" /\ y.c.chanreqs = <<>>
             /\ y.c.closes = {"SENT_EOF", "RCVD_EOF", "SENT_CLOSE", "RCVD_CLOSE"}
             /\ y.c.remlocwin = c.remlocwin + Total(c.chanreqs) /\ ~y.c.pending_eof
             /\ "SENT_EOF" \in c.closes => y.c.outbuffer = c.outbuffer
             /\ c.fixed => y.c.outbuffer = 0
             /\ y.tx = IF "SENT_CLOSE" \in c.closes THEN <<>>
                       ELSE IF "SENT_EOF" \in c.closes THEN <<Packet("CLOSE", c)>>
                       ELSE <<Packet("EOF", c), Packet("CLOSE", c)>>
<1> DEFINE g == GotEof(Start(c))
<1> DEFINE a == AllReplied(g)
<1> DEFINE e == Ending(a)
<1> DEFINE y == GotClose(e)
<1> DEFINE p == Packet("EOF", c)
<1> DEFINE o == Packet("CLOSE", c)
<1>1. /\ g \in Work /\ Kept(c, g.c) /\ g.c.chanreqs = c.chanreqs /\ g.c.chan = c.chan
      /\ g.c.remlocwin = c.remlocwin
      /\ \/ /\ g.c.closes = c.closes \cup {"RCVD_EOF"} /\ g.c.outbuffer = c.outbuffer
            /\ g.c.pending_eof = c.pending_eof /\ g.tx = <<>>
         \/ /\ c.fixed /\ c.closes = {}
            /\ g.c.closes = {"SENT_EOF", "RCVD_EOF", "SENT_CLOSE"} /\ g.c.outbuffer = 0
            /\ ~g.c.pending_eof /\ g.tx = Append(Append(<<>>, p), o)
  BY GotEofIs
<1> HIDE DEF g
<1>2. /\ a \in Work /\ Kept(g.c, a.c) /\ a.c.closes = g.c.closes /\ a.c.chanreqs = <<>>
      /\ a.c.outbuffer = g.c.outbuffer /\ a.c.pending_eof = g.c.pending_eof
      /\ a.c.chan = g.c.chan /\ a.c.remlocwin = g.c.remlocwin + Total(g.c.chanreqs)
      /\ a.tx = g.tx
  BY <1>1, AllRepliedIs
<1> HIDE DEF a
<1>3. Kept(c, a.c)
  BY <1>1, <1>2 DEF Kept, Alike
<1>4. /\ ~a.c.halfopen /\ "RCVD_EOF" \in a.c.closes /\ "RCVD_CLOSE" \notin a.c.closes
      /\ ("SENT_CLOSE" \in a.c.closes => "SENT_EOF" \in a.c.closes) /\ a.c.chan # "freed"
  <2>1. "SENT_CLOSE" \in c.closes => "SENT_EOF" \in c.closes
    BY DEF Sound
  <2>2. QED
    BY <1>1, <1>2, <1>3, <2>1 DEF Kept, Alike
<1>5. Packet("EOF", a.c) = p /\ Packet("CLOSE", a.c) = o
  BY <1>3 DEF Kept, Alike, Packet
<1>6. /\ e \in Work /\ Kept(a.c, e.c) /\ e.c.chanreqs = <<>> /\ e.c.chan = a.c.chan
      /\ e.c.remlocwin = a.c.remlocwin
      /\ IF "SENT_EOF" \in a.c.closes THEN e = a
         ELSE /\ e.c.closes = {"SENT_EOF", "RCVD_EOF", "SENT_CLOSE"} /\ e.c.outbuffer = 0
              /\ ~e.c.pending_eof
              /\ e.tx = Append(Append(a.tx, Packet("EOF", a.c)), Packet("CLOSE", a.c))
  BY <1>2, <1>4, EndingIs
<1> HIDE DEF e
<1>7. Kept(c, e.c)
  BY <1>3, <1>6 DEF Kept, Alike
<1>8. ~e.c.halfopen /\ {"SENT_EOF", "RCVD_EOF"} \subseteq e.c.closes /\ "RCVD_CLOSE" \notin e.c.closes
  BY <1>4, <1>6, <1>7 DEF Kept, Alike
<1>9. Packet("CLOSE", e.c) = o
  BY <1>7 DEF Kept, Alike, Packet
<1>10. /\ y \in Work /\ Kept(e.c, y.c) /\ y.c.chan = "freed"
       /\ y.c.closes = {"SENT_EOF", "RCVD_EOF", "SENT_CLOSE", "RCVD_CLOSE"}
       /\ y.c.chanreqs = <<>> /\ y.c.outbuffer = e.c.outbuffer
       /\ y.c.pending_eof = e.c.pending_eof /\ y.c.remlocwin = e.c.remlocwin
       /\ y.tx = IF "SENT_CLOSE" \in e.c.closes THEN e.tx ELSE Append(e.tx, Packet("CLOSE", e.c))
  BY <1>6, <1>8, GotCloseIs
<1> HIDE DEF y
<1>11. Kept(c, y.c)
  BY <1>7, <1>10 DEF Kept, Alike
<1>12. y.c.remlocwin = c.remlocwin + Total(c.chanreqs)
  BY <1>1, <1>2, <1>6, <1>10
<1>13. c.pending_eof => "SENT_EOF" \notin c.closes
  BY DEF Sound
<1>14. /\ ~y.c.pending_eof
       /\ "SENT_EOF" \in c.closes => y.c.outbuffer = c.outbuffer
       /\ c.fixed => y.c.outbuffer = 0
  <2>1. c.fixed => c.outbuffer = 0
    BY DEF Sound
  <2>2. CASE "SENT_EOF" \in c.closes
    <3>1. ~c.pending_eof
      BY <1>13, <2>2
    <3>2. g.c.outbuffer = c.outbuffer /\ g.c.pending_eof = c.pending_eof /\ "SENT_EOF" \in g.c.closes
      BY <1>1, <2>2
    <3>3. QED
      BY <1>2, <1>6, <1>10, <2>1, <3>1, <3>2, Zenon
  <2>3. CASE "SENT_EOF" \notin c.closes
    <3>1. CASE c.fixed /\ c.closes = {} /\ "SENT_EOF" \in g.c.closes
      <4>1. g.c.outbuffer = 0 /\ ~g.c.pending_eof
        BY <1>1, <3>1
      <4>2. QED
        BY <1>2, <1>6, <1>10, <2>3, <3>1, <4>1, Zenon
    <3>2. CASE "SENT_EOF" \notin g.c.closes
      BY <1>2, <1>6, <1>10, <2>3, <3>2, Zenon
    <3>3. QED
      BY <1>1, <2>3, <3>1, <3>2
  <2>4. QED
    BY <2>2, <2>3
<1>15. y.tx = IF "SENT_CLOSE" \in c.closes THEN <<>>
              ELSE IF "SENT_EOF" \in c.closes THEN <<o>> ELSE <<p, o>>
  <2>1. "SENT_CLOSE" \in c.closes => "SENT_EOF" \in c.closes
    BY DEF Sound
  <2>a. p \in Pkt /\ o \in Pkt
    BY PacketIs, ZenonT(40)
  <2> HIDE DEF p, o
  <2>2. Append(Append(<<>>, p), o) = <<p, o>> /\ Append(<<>>, o) = <<o>>
    BY <2>a, TwoPushed
  <2>3. CASE "SENT_EOF" \in c.closes
    <3>1. g.tx = <<>> /\ g.c.closes = c.closes \cup {"RCVD_EOF"}
      BY <1>1, <2>3
    <3>2. e = a /\ ("SENT_CLOSE" \in a.c.closes <=> "SENT_CLOSE" \in c.closes)
      BY <1>2, <1>6, <2>3, <3>1
    <3>3. CASE "SENT_CLOSE" \in c.closes
      <4>1. y.tx = e.tx
        BY <1>10, <3>2, <3>3
      <4>2. QED
        BY <1>2, <3>1, <3>2, <3>3, <4>1
    <3>4. CASE "SENT_CLOSE" \notin c.closes
      <4>1. y.tx = Append(e.tx, o)
        BY <1>9, <1>10, <3>2, <3>4
      <4>2. QED
        BY <1>2, <2>2, <2>3, <3>1, <3>2, <3>4, <4>1
    <3>5. QED
      BY <3>3, <3>4
  <2>4. CASE "SENT_EOF" \notin c.closes
    <3>1. CASE g.c.closes = {"SENT_EOF", "RCVD_EOF", "SENT_CLOSE"}
      <4>1. g.tx = <<p, o>>
        BY <1>1, <2>2, <2>4, <3>1
      <4>2. e = a /\ "SENT_CLOSE" \in a.c.closes
        BY <1>2, <1>6, <3>1
      <4>3. QED
        BY <1>2, <1>10, <2>1, <2>4, <4>1, <4>2
    <3>2. CASE g.c.closes = c.closes \cup {"RCVD_EOF"} /\ g.tx = <<>>
      <4>1. "SENT_EOF" \notin a.c.closes
        BY <1>2, <2>4, <3>2
      <4>2. e.tx = <<p, o>> /\ "SENT_CLOSE" \in e.c.closes
        BY <1>2, <1>5, <1>6, <2>2, <3>2, <4>1
      <4>3. QED
        BY <1>10, <2>1, <2>4, <4>2
    <3>3. QED
      BY <1>1, <3>1, <3>2
  <2>5. QED
    BY <2>3, <2>4
<1>16. QED
  BY <1>10, <1>11, <1>12, <1>14, <1>15, Zenon DEF y, e, a, g, p, o

\* What is pushed on a queue when CLOSE has been taken.
LEMMA BothRcvClosePushed ==
  ASSUME NEW c \in Chan, NEW c1 \in Chan, NEW d \in Chan, NEW q \in Seq(Pkt), NEW r \in Seq(Pkt),
         Both(c, d, q, r), Sound(d), Sound(c), r # <<>>, Alike(c, c1), ~c.halfopen, r[1].type = "CLOSE",
         c1.closes = {"SENT_EOF", "RCVD_EOF", "SENT_CLOSE", "RCVD_CLOSE"},
         c1.remwindow = c.remwindow, c1.locwindow = c.locwindow, c1.chanreqs = <<>>,
         NEW p \in Pkt, p.type = "EOF", p.to = c.remoteid,
         NEW o \in Pkt, o.type = "CLOSE", o.to = c.remoteid
  PROVE  Both(c1, d, q \o (IF "SENT_CLOSE" \in c.closes THEN <<>>
                           ELSE IF "SENT_EOF" \in c.closes THEN <<o>> ELSE <<p, o>>), Tail(r))
<1> DEFINE c2 == [c EXCEPT !.closes = c.closes \cup {"RCVD_EOF", "RCVD_CLOSE"}, !.chanreqs = <<>>]
<1> DEFINE c3 == [c2 EXCEPT !.closes = c2.closes \cup {"SENT_EOF"}]
<1>1. c.closes \subseteq {"SENT_EOF", "RCVD_EOF", "SENT_CLOSE", "RCVD_CLOSE"}
      /\ ("SENT_CLOSE" \in c.closes => "SENT_EOF" \in c.closes)
  BY DEF Chan, Sound
<1>2. /\ c2 \in Chan /\ Alike(c, c2) /\ c2.closes = c.closes \cup {"RCVD_EOF", "RCVD_CLOSE"}
      /\ c2.remwindow = c.remwindow /\ c2.locwindow = c.locwindow /\ c2.chanreqs = <<>>
  <2>1. <<>> \in Seq(Nat)
    OBVIOUS
  <2>2. QED
    BY <2>1 DEF Chan, Alike
<1>3. /\ c3 \in Chan /\ Alike(c2, c3) /\ c3.closes = c2.closes \cup {"SENT_EOF"}
      /\ c3.remwindow = c2.remwindow /\ c3.locwindow = c2.locwindow /\ c3.chanreqs = <<>>
  BY <1>2, ZenonT(40) DEF Chan, Alike
<1> HIDE DEF c2, c3
<1>4. Tail(r) \in Seq(Pkt)
  OBVIOUS
<1>5. CASE "SENT_CLOSE" \in c.closes
  <2>1. c1.closes = c.closes \cup {"RCVD_EOF", "RCVD_CLOSE"}
    BY <1>1, <1>5
  <2>2. Both(c1, d, q, Tail(r))
    BY <2>1, BothRcvClose
  <2>3. q \o <<>> = q
    OBVIOUS
  <2>4. QED
    BY <1>5, <2>2, <2>3
<1>6. CASE "SENT_CLOSE" \notin c.closes
  <2>1. Both(c2, d, q, Tail(r))
    BY <1>2, BothRcvClose
  <2>2. CASE "SENT_EOF" \in c.closes
    <3>1. c1.closes = c2.closes \cup {"SENT_EOF", "SENT_CLOSE"} /\ "SENT_CLOSE" \notin c2.closes
      BY <1>1, <1>2, <1>6, <2>2
    <3>2. Alike(c2, c1) /\ ~c2.halfopen /\ o.to = c2.remoteid
      BY <1>2 DEF Alike
    <3>3. Both(c1, d, q \o <<o>>, Tail(r))
      BY <1>2, <1>4, <2>1, <3>1, <3>2, BothClose
    <3>4. QED
      BY <1>6, <2>2, <3>3
  <2>3. CASE "SENT_EOF" \notin c.closes
    <3>1. {"SENT_EOF", "SENT_CLOSE"} \cap c2.closes = {}
      BY <1>2, <1>6, <2>3
    <3>2. ~c2.halfopen /\ p.to = c2.remoteid
      BY <1>2 DEF Alike
    <3>3. Both(c3, d, q \o <<p>>, Tail(r))
      BY <1>2, <1>3, <1>4, <2>1, <3>1, <3>2, BothEof
    <3>4. q \o <<p>> \in Seq(Pkt)
      OBVIOUS
    <3>5. c1.closes = c3.closes \cup {"SENT_EOF", "SENT_CLOSE"} /\ "SENT_CLOSE" \notin c3.closes
      BY <1>1, <1>2, <1>3, <1>6
    <3>6. Alike(c3, c1) /\ ~c3.halfopen /\ o.to = c3.remoteid
      BY <1>2, <1>3 DEF Alike
    <3>7. Both(c1, d, (q \o <<p>>) \o <<o>>, Tail(r))
      BY <1>2, <1>3, <1>4, <3>3, <3>4, <3>5, <3>6, BothClose
    <3>8. (q \o <<p>>) \o <<o>> = q \o <<p, o>>
      OBVIOUS
    <3>9. QED
      BY <1>6, <2>3, <3>7, <3>8
  <2>4. QED
    BY <2>2, <2>3
<1>7. QED
  BY <1>5, <1>6

LEMMA RcvCloseDone ==
  ASSUME NEW m \in Setting, NEW m1 \in Setting, NEW c \in Chan, Meets(c, m), Taken(m, m1),
         m.r[1].type = "CLOSE", c.fixed \/ m.cut => m1.cut,
         ~m1.cut => m1.s = m.s /\ m1.t.owed = m.t.owed /\ m1.t.eof = m.t.eof
  PROVE  Done(GotClose(Ending(AllReplied(GotEof(Start(c))))), m1)
<1> DEFINE y == GotClose(Ending(AllReplied(GotEof(Start(c)))))
<1> DEFINE p == Packet("EOF", c)
<1> DEFINE o == Packet("CLOSE", c)
<1> DEFINE w == IF "SENT_CLOSE" \in c.closes THEN <<>>
                ELSE IF "SENT_EOF" \in c.closes THEN <<o>> ELSE <<p, o>>
<1> DEFINE c1 == y.c
<1>1. /\ m.d \in Chan /\ m.q \in Seq(Pkt) /\ m.r \in Seq(Pkt) /\ m.r # <<>> /\ m.r[1] \in Pkt
      /\ m1.id = m.id /\ m1.d = m.d /\ m1.q = m.q /\ m1.r = Tail(m.r) /\ m1.fixed = m.fixed
      /\ Both(c, m.d, m.q, m.r) /\ Sound(m.d) /\ Sound(c) /\ ~c.halfopen /\ Ends(m.d, c, m.r)
  BY TakenType
<1>2. c.chan # "freed" /\ "RCVD_CLOSE" \notin c.closes
  BY DEF Meets
<1>3. /\ y \in Work /\ Kept(c, c1) /\ c1.chan = "freed" /\ c1.chanreqs = <<>>
      /\ c1.closes = {"SENT_EOF", "RCVD_EOF", "SENT_CLOSE", "RCVD_CLOSE"}
      /\ c1.remlocwin = c.remlocwin + Total(c.chanreqs) /\ ~c1.pending_eof
      /\ "SENT_EOF" \in c.closes => c1.outbuffer = c.outbuffer
      /\ c.fixed => c1.outbuffer = 0
      /\ y.tx = w
  BY <1>1, <1>2, RcvCloseIs, Zenon
<1> HIDE DEF y
<1>4. /\ p \in Pkt /\ p.type = "EOF" /\ p.to = c.remoteid /\ p.n = c.n
      /\ o \in Pkt /\ o.type = "CLOSE" /\ o.to = c.remoteid /\ o.n = c.n
  <2>1. p \in Pkt /\ p.type = "EOF" /\ p.to = c.remoteid /\ p.n = c.n
    BY DEF Packet, Pkt, Chan
  <2>2. o \in Pkt /\ o.type = "CLOSE" /\ o.to = c.remoteid /\ o.n = c.n
    BY DEF Packet, Pkt, Chan
  <2>3. QED
    BY <2>1, <2>2
<1> HIDE DEF p, o
<1>5. Both(c1, m1.d, m1.q \o w, m1.r)
  <2>1. Both(c1, m.d, m.q \o w, Tail(m.r))
    BY <1>1, <1>3, <1>4, BothRcvClosePushed DEF Kept
  <2>2. QED
    BY <1>1, <2>1
<1>6. w \in Seq(Pkt) /\ \A i \in DOMAIN w : w[i].n = c.n /\ w[i].type # "DATA"
  <2>1. <<>> \in Seq(Pkt) /\ <<o>> \in Seq(Pkt) /\ <<p, o>> \in Seq(Pkt)
    BY <1>4
  <2>2. /\ \A i \in DOMAIN <<o>> : <<o>>[i].n = c.n /\ <<o>>[i].type # "DATA"
        /\ \A i \in DOMAIN <<p, o>> : <<p, o>>[i].n = c.n /\ <<p, o>>[i].type # "DATA"
    BY <1>4
  <2>3. QED
    BY <2>1, <2>2
<1>7. Data(w) = 0
  BY <1>6, DataNone DEF Has
<1> HIDE DEF w
<1>8. Sound(c1)
  <2>1. c1.remlocwin + Total(c1.chanreqs) >= c1.locwindow
    <3>1. c.remlocwin + Total(c.chanreqs) >= c.locwindow
      BY <1>1 DEF Sound
    <3>2. Total(c.chanreqs) \in Nat /\ c.remlocwin \in Int
      BY TotalNat DEF Chan
    <3>3. Total(<<>>) = 0
      <4> DEFINE v == <<>>
      <4>1. v \in Seq(Int) /\ \A k \in DOMAIN v : v[k] = 0
        OBVIOUS
      <4> HIDE DEF v
      <4>2. Total(v) = 0
        BY <4>1, TotalZero
      <4>3. QED
        BY <4>2 DEF v
    <3>4. QED
      BY <1>3, <3>1, <3>2, <3>3 DEF Kept
  <2>2. c.fixed => ~c.sockeof
    BY <1>1 DEF Sound
  <2>3. c.socksbuf = 0
    BY <1>1 DEF Sound
  <2>4. QED
    BY <1>1, <1>3, <2>1, <2>2, <2>3 DEF Sound, Kept, Alike
<1>9. m1.fixed \/ Within(c1)
  BY <1>1, <1>3 DEF Meets, Within, Kept
<1>10. m1.cut \/ (Carried(c1, m1.d, m1.q \o w, m1.s) /\ Carried(m1.d, c1, m1.r, m1.t))
  <2>1. ASSUME ~m1.cut
        PROVE  Carried(c1, m.d, m.q \o w, m.s) /\ Carried(m.d, c1, Tail(m.r), m1.t)
    <3>1. Carried(c, m.d, m.q, m.s) /\ Carried(m.d, c, m.r, m.t) /\ ~c.fixed
      BY <2>1 DEF Meets
    \* The other end has sent CLOSE, so it has had EOF.
    <3>2. "SENT_EOF" \in c.closes
      <4>1. 1 \in DOMAIN m.r
        BY <1>1
      <4>2. "SENT_CLOSE" \in m.d.closes
        BY <1>1, <4>1 DEF Ends, Has
      <4>3. "RCVD_EOF" \in m.d.closes
        BY <3>1, <4>2 DEF Carried
      <4>4. Ends(c, m.d, m.q)
        BY <1>1 DEF Both, Sides
      <4>5. QED
        BY <4>3, <4>4 DEF Ends
    <3>3. Data(m.q \o w) = Data(m.q)
      <4>1. Data(m.q \o w) = Data(m.q) + Data(w) /\ Data(m.q) \in Nat
        BY <1>1, <1>6, DataSums
      <4>2. QED
        BY <1>7, <4>1
    <3>4. Carried(c1, m.d, m.q \o w, m.s)
      BY <1>3, <3>1, <3>2, <3>3 DEF Carried, Kept
    <3>5. Shrinks(m.r)
      BY <1>1, TailShrinks
    <3>6. /\ Data(m.r) = Data(Tail(m.r)) + (IF m.r[1].type = "DATA" THEN m.r[1].len ELSE 0)
          /\ Data(Tail(m.r)) \in Nat
      BY <3>5, Zenon DEF Shrinks
    <3>7. Data(m.r) = Data(Tail(m.r))
      BY <3>6
    <3>8. m1.t.owed = m.t.owed /\ m1.t.eof = m.t.eof /\ "RCVD_EOF" \in c1.closes
      BY <1>3, <2>1
    <3>9. Carried(m.d, c1, Tail(m.r), m1.t)
      BY <1>3, <3>1, <3>7, <3>8 DEF Carried
    <3>10. QED
      BY <3>4, <3>9
  <2>2. QED
    BY <1>1, <2>1, Zenon
<1>11. c1.localid = m1.id /\ c1.n = m1.d.n /\ c1.n = c.n
  BY <1>1, <1>3 DEF Meets, Kept, Alike
<1>12. Done(y, m1)
  BY <1>3, <1>5, <1>6, <1>8, <1>9, <1>10, <1>11 DEF Done
<1>13. QED
  BY <1>12 DEF y

-----------------------------------------------------------------------------
(* A step of one channel leaves the other channels as they were *)

History == [cut : BOOLEAN, early : BOOLEAN, from : [End -> Stream]]

LEMMA OtherEnd ==
  ASSUME NEW e \in End
  PROVE  /\ Other(e) \in End /\ Other(e) # e /\ Other(Other(e)) = e
         /\ \A b \in End : b = e \/ b = Other(e)
<1>1. PICK x \in End, y \in End : x # y /\ End = {x, y}
  BY EndAssumption
<1>2. \A a \in End : Other(a) \in End /\ Other(a) # a
  <2> SUFFICES ASSUME NEW a \in End
               PROVE  Other(a) \in End /\ Other(a) # a
    OBVIOUS
  <2>1. \E b \in End : b # a
    BY <1>1
  <2>2. QED
    BY <2>1 DEF Other
<1>3. QED
  BY <1>1, <1>2

LEMMA NotNone == NoChannel \notin Chan
<1>1. SUFFICES ASSUME NoChannel \in Chan
               PROVE  FALSE
  OBVIOUS
<1>2. DOMAIN NoChannel = {"localid"}
  BY DEF NoChannel
<1>3. "n" \in DOMAIN NoChannel
  BY <1>1 DEF Chan
<1>4. QED
  BY <1>2, <1>3

\* alloc_channel_id_general finds a number that is free.
LEMMA FreeId ==
  ASSUME NEW e \in End, FreeIds(e) # {}
  PROVE  Min(FreeIds(e)) \in Id /\ channels[e][Min(FreeIds(e))] = NoChannel
<1> DEFINE S == FreeIds(e)
<1>1. S \subseteq Nat /\ S # {} /\ S \subseteq Id /\ \A i \in S : channels[e][i] = NoChannel
  BY SizeAssumption DEF FreeIds
<1>2. PICK i \in S : \A j \in S : i <= j
  BY <1>1, Least
<1> HIDE DEF S
<1>3. Min(S) \in S
  BY <1>1, <1>2 DEF Min
<1>4. Min(S) \in Id /\ channels[e][Min(S)] = NoChannel
  BY <1>1, <1>3
<1>5. QED
  BY <1>4 DEF S

LEMMA TypeIs ==
  ASSUME TypeOK, NEW e \in End, NEW n \in 1..MaxOpens
  PROVE  /\ net[e] \in Seq(Pkt) /\ Of(net[e], n) \in Seq(Pkt) /\ stream[n] \in History
         /\ stream[n].from[e] \in Stream /\ stream[n].cut \in BOOLEAN
         /\ \A i \in Id : channels[e][i] # NoChannel => channels[e][i] \in Chan
<1>1. net[e] \in Seq(Pkt) /\ stream[n] \in History
  BY DEF TypeOK, History, Stream
<1>2. Of(net[e], n) \in Seq(Pkt)
  BY <1>1, OfType
<1>3. stream[n].from[e] \in Stream /\ stream[n].cut \in BOOLEAN
  BY <1>1 DEF History
<1>4. \A i \in Id : channels[e][i] # NoChannel => channels[e][i] \in Chan
  BY DEF TypeOK
<1>5. QED
  BY <1>1, <1>2, <1>3, <1>4

\* Nothing of the k-th channel has changed.
Untouched(k) ==
  /\ \A b \in End : Of(net'[b], k) = Of(net[b], k)
  /\ \A b \in End, i \in Id :
       \/ channels'[b][i] = channels[b][i]
       \/ /\ channels[b][i] = NoChannel \/ channels[b][i].n # k
          /\ channels'[b][i] = NoChannel \/ channels'[b][i].n # k
  /\ stream'[k] = stream[k]

LEMMA HoldsKept ==
  ASSUME NEW k, Untouched(k), NEW e \in End
  PROVE  /\ Holds(e, k)' <=> Holds(e, k)
         /\ \A i \in Id : channels[e][i] # NoChannel /\ channels[e][i].n = k
                            => channels'[e][i] = channels[e][i]
BY DEF Untouched, Holds

LEMMA ClosedKept ==
  ASSUME NEW k, Untouched(k), Closed(k), k > opens' => k > opens
  PROVE  Closed(k)'
<1>1. \A e \in End : ~Holds(e, k)' /\ Of(net'[e], k) = <<>>
  BY HoldsKept DEF Closed, Untouched
<1>2. stream'[k] = stream[k]
  BY DEF Untouched
<1>3. Whole(k)'
  BY <1>2 DEF Closed, Whole
<1>4. k > opens' => stream'[k] = NewStream
  BY <1>2 DEF Closed
<1>5. QED
  BY <1>1, <1>3, <1>4 DEF Closed

LEMMA AskingKept ==
  ASSUME NEW k, Untouched(k), NEW e \in End, Asking(e, k)
  PROVE  Asking(e, k)'
<1>1. Other(e) \in End
  BY OtherEnd
<1>2. /\ ~Holds(Other(e), k)' <=> ~Holds(Other(e), k)
      /\ Of(net'[e], k) = Of(net[e], k) /\ Of(net'[Other(e)], k) = Of(net[Other(e)], k)
      /\ stream'[k] = stream[k]
  BY <1>1, HoldsKept DEF Untouched
<1>3. \A i \in Id : channels[e][i] # NoChannel /\ channels[e][i].n = k
                      => channels'[e][i] = channels[e][i]
  BY HoldsKept
<1>4. QED
  BY <1>2, <1>3, ZenonT(40) DEF Asking

LEMMA JoinedKept ==
  ASSUME NEW k, Untouched(k), Joined(k)
  PROVE  Joined(k)'
<1>1. PICK g \in [End -> Chan] : \A e \in End : Side(e, k, g)
  BY DEF Joined
<1>2. ASSUME NEW e \in End
      PROVE  Side(e, k, g)'
  <2>1. Side(e, k, g) /\ Other(e) \in End /\ g[e] \in Chan
    BY <1>1, OtherEnd
  <2>2. /\ Holds(e, k)' <=> Holds(e, k)
        /\ Of(net'[e], k) = Of(net[e], k) /\ Of(net'[Other(e)], k) = Of(net[Other(e)], k)
        /\ stream'[k] = stream[k]
    BY <2>1, HoldsKept DEF Untouched
  <2>3. \A i \in Id : channels[e][i] # NoChannel /\ channels[e][i].n = k
                        => channels'[e][i] = channels[e][i]
    BY HoldsKept
  <2>4. g[e] # NoChannel /\ g[e].n = k
    BY <2>1, NotNone DEF Side
  <2>5. IF g[e].chan = "freed" THEN ~Holds(e, k)'
        ELSE g[e].localid \in Id /\ channels'[e][g[e].localid] = g[e]
    BY <2>1, <2>2, <2>3, <2>4 DEF Side
  <2>6. QED
    BY <2>1, <2>2, <2>5, Zenon DEF Side
<1>3. QED
  BY <1>2 DEF Joined

LEMMA ConnKept ==
  ASSUME NEW k, Untouched(k), Conn(k), k > opens => Closed(k), k > opens' => k > opens
  PROVE  Conn(k)' /\ (k > opens' => Closed(k)')
<1>1. Closed(k) => Closed(k)'
  BY ClosedKept
<1>2. (\E e \in End : Asking(e, k)) => (\E e \in End : Asking(e, k)')
  BY AskingKept
<1>3. Joined(k) => Joined(k)'
  BY JoinedKept
<1>4. QED
  BY <1>1, <1>2, <1>3 DEF Conn

-----------------------------------------------------------------------------
(* A step of a channel that is open, or about to be, at both ends *)

\* The channel as end e finds it, with g[b] the struct of end b, the packets q it has sent and
\* those r that have been sent to it, and the streams s.
Around(e, g, q, r, s) ==
  [id |-> g[e].localid, d |-> g[Other(e)], q |-> q, r |-> r, fixed |-> IF e \in FixedEnds THEN TRUE ELSE FALSE,
   cut |-> s.cut, s |-> s.from[e], t |-> s.from[Other(e)]]

LEMMA AroundIs ==
  ASSUME NEW e \in End, NEW g \in [End -> Chan], NEW q \in Seq(Pkt), NEW r \in Seq(Pkt),
         NEW s \in History
  PROVE  LET m == Around(e, g, q, r, s)
         IN  /\ m \in Setting /\ m.id = g[e].localid /\ m.d = g[Other(e)] /\ m.q = q /\ m.r = r
             /\ (m.fixed <=> e \in FixedEnds) /\ (m.cut <=> s.cut) /\ m.cut = s.cut
             /\ m.s = s.from[e] /\ m.t = s.from[Other(e)]
<1> DEFINE m == Around(e, g, q, r, s)
<1> DEFINE b == IF e \in FixedEnds THEN TRUE ELSE FALSE
<1> DEFINE id == g[e].localid
<1> DEFINE d == g[Other(e)]
<1> DEFINE u == s.cut
<1> DEFINE v == s.from[e]
<1> DEFINE w == s.from[Other(e)]
<1>1. Other(e) \in End
  BY OtherEnd
<1>2. b \in BOOLEAN /\ id \in Nat /\ d \in Chan /\ u \in BOOLEAN /\ v \in Stream /\ w \in Stream
  <2>1. b \in BOOLEAN
    BY Zenon
  <2>2. d \in Chan /\ g[e] \in Chan
    BY <1>1
  <2>3. id \in Nat
    BY <2>2 DEF Chan
  <2>4. u \in BOOLEAN
    BY Zenon DEF History
  <2>5. v \in Stream /\ w \in Stream
    BY <1>1 DEF History
  <2>6. QED
    BY <2>1, <2>2, <2>3, <2>4, <2>5
<1>3. m = [id |-> id, d |-> d, q |-> q, r |-> r, fixed |-> b, cut |-> u, s |-> v, t |-> w]
  BY DEF Around
<1> HIDE DEF m, b, id, d, u, v, w
<1>4. /\ m \in Setting /\ m.id = id /\ m.d = d /\ m.q = q /\ m.r = r
      /\ m.fixed = b /\ m.cut = u /\ m.s = v /\ m.t = w
  BY <1>2, <1>3 DEF Setting
<1>5. QED
  BY <1>4, Zenon DEF m, b, id, d, u, v, w

LEMMA JoinedMeets ==
  ASSUME TypeOK, NEW e \in End, NEW n \in 1..MaxOpens, NEW g \in [End -> Chan],
         \A b \in End : Side(b, n, g), g[e].chan # "freed"
  PROVE  Meets(g[e], Around(e, g, Of(net[e], n), Of(net[Other(e)], n), stream[n]))
<1> DEFINE f == Other(e)
<1> DEFINE q == Of(net[e], n)
<1> DEFINE r == Of(net[f], n)
<1> DEFINE s == stream[n]
<1> DEFINE m == Around(e, g, q, r, s)
<1>1. f \in End /\ Other(f) = e
  BY OtherEnd
<1>2. q \in Seq(Pkt) /\ r \in Seq(Pkt) /\ s \in History
  BY <1>1, TypeIs
<1>3. /\ m \in Setting /\ m.id = g[e].localid /\ m.d = g[f] /\ m.q = q /\ m.r = r
      /\ (m.fixed <=> e \in FixedEnds) /\ (m.cut <=> s.cut) /\ m.s = s.from[e] /\ m.t = s.from[f]
  BY <1>2, AroundIs
<1>4. /\ Sound(g[e]) /\ (e \notin FixedEnds => Within(g[e])) /\ g[e].n = n
      /\ (g[e].chan = "freed" <=> "RCVD_CLOSE" \in g[e].closes)
      /\ Sides(g[e], g[f], q, r) /\ (s.cut \/ Carried(g[e], g[f], q, s.from[e]))
  BY Zenon DEF Side
<1>5. /\ Sound(g[f]) /\ g[f].n = n
      /\ Sides(g[f], g[e], r, q) /\ (s.cut \/ Carried(g[f], g[e], r, s.from[f]))
  BY <1>1, Zenon DEF Side
<1> HIDE DEF f, q, r, s, m
<1>6. Meets(g[e], m)
  BY <1>3, <1>4, <1>5, Zenon DEF Meets, Both
<1>7. QED
  BY <1>6 DEF f, q, r, s, m

\* What a step does to the channels of an end.
LEMMA KeepIs ==
  ASSUME TypeOK, NEW e \in End, NEW id \in Id, NEW x, x.c \in Chan, x.faults = {}, Keep(e, id, x)
  PROVE  LET c == IF x.c.chan = "freed" THEN NoChannel ELSE x.c
         IN  /\ channels' \in [End -> [Id -> Chan \cup {NoChannel}]]
             /\ channels'[e][id] = c
             /\ \A b \in End, i \in Id : b # e \/ i # id => channels'[b][i] = channels[b][i]
             /\ conn_throttle_count' \in [End -> Int] /\ faults' = faults
<1> DEFINE c == IF x.c.chan = "freed" THEN NoChannel ELSE x.c
<1> DEFINE u == IF x.c.throttling_conn THEN 1 ELSE 0
<1> DEFINE v == IF channels[e][id] # NoChannel /\ channels[e][id].throttling_conn THEN 1 ELSE 0
<1>1. c \in Chan \cup {NoChannel} /\ u \in Int /\ v \in Int
  OBVIOUS
<1>2. /\ channels' = [channels EXCEPT ![e][id] = c] /\ faults' = faults \cup x.faults
      /\ conn_throttle_count' = [conn_throttle_count EXCEPT ![e] = @ + u - v]
  BY DEF Keep
<1> HIDE DEF c, u, v
<1>3. /\ channels \in [End -> [Id -> Chan \cup {NoChannel}]]
      /\ conn_throttle_count \in [End -> Int]
  BY DEF TypeOK
<1>4. conn_throttle_count' \in [End -> Int] /\ faults' = faults
  BY <1>1, <1>2, <1>3
<1>5. /\ channels' \in [End -> [Id -> Chan \cup {NoChannel}]] /\ channels'[e][id] = c
      /\ \A b \in End, i \in Id : b # e \/ i # id => channels'[b][i] = channels[b][i]
  BY <1>1, <1>2, <1>3
<1>6. QED
  BY <1>4, <1>5 DEF c

\* The same for the invariants of all channels: the channel at id was of connection n and is.
LEMMA Live1Kept ==
  ASSUME TypeOK, Live1, NEW e \in End, NEW id \in Id, NEW x, x.c \in Chan, x.faults = {},
         Keep(e, id, x), opens' >= opens, opens' \in Nat, NEW n, n <= opens', x.c.n = n,
         x.c.chan = "freed"
           \/ /\ x.c.localid = id /\ "RCVD_CLOSE" \notin x.c.closes
              /\ Sound(x.c) /\ (e \notin FixedEnds => Within(x.c)),
         \A i \in Id : i # id /\ channels[e][i] # NoChannel => channels[e][i].n # n
  PROVE  Live1'
<1> DEFINE c == IF x.c.chan = "freed" THEN NoChannel ELSE x.c
<1>1. /\ channels'[e][id] = c
      /\ \A b \in End, i \in Id : b # e \/ i # id => channels'[b][i] = channels[b][i]
  BY KeepIs
<1> SUFFICES ASSUME NEW b \in End, NEW i \in Id, channels'[b][i] # NoChannel
             PROVE  /\ channels'[b][i].localid = i /\ channels'[b][i].n <= opens'
                    /\ channels'[b][i].chan # "freed" /\ "RCVD_CLOSE" \notin channels'[b][i].closes
                    /\ Sound(channels'[b][i]) /\ (b \notin FixedEnds => Within(channels'[b][i]))
                    /\ \A j \in Id : channels'[b][j] # NoChannel
                                     /\ channels'[b][j].n = channels'[b][i].n => j = i
  BY DEF Live1
<1>2. CASE b = e /\ i = id
  <2>1. x.c.chan # "freed" /\ channels'[b][i] = x.c
    BY <1>1, <1>2
  <2>2. /\ x.c.localid = i /\ x.c.n <= opens' /\ "RCVD_CLOSE" \notin x.c.closes
        /\ Sound(x.c) /\ (b \notin FixedEnds => Within(x.c))
    BY <1>2, <2>1
  <2>3. \A j \in Id : channels'[b][j] # NoChannel /\ channels'[b][j].n = x.c.n => j = i
    BY <1>1, <1>2
  <2>4. QED
    BY <2>1, <2>2, <2>3, Zenon
<1>3. CASE b # e \/ i # id
  <2>1. channels'[b][i] = channels[b][i]
    BY <1>1, <1>3
  <2>2. /\ channels[b][i].localid = i /\ channels[b][i].n <= opens
        /\ channels[b][i].chan # "freed" /\ "RCVD_CLOSE" \notin channels[b][i].closes
        /\ Sound(channels[b][i]) /\ (b \notin FixedEnds => Within(channels[b][i]))
        /\ \A j \in Id : channels[b][j] # NoChannel /\ channels[b][j].n = channels[b][i].n => j = i
    BY <2>1, Zenon DEF Live1
  <2>3. channels[b][i].n <= opens'
    <3>1. channels[b][i].n \in Nat /\ opens \in Nat
      <4>1. channels[b][i] \in Chan
        BY <2>1 DEF TypeOK
      <4>2. MaxOpens \in Nat
        BY SizeAssumption
      <4>3. channels[b][i].n \in 1..MaxOpens
        BY <4>1 DEF Chan
      <4>4. opens \in 0..MaxOpens
        BY DEF TypeOK
      <4>5. QED
        BY <4>2, <4>3, <4>4
    <3>2. QED
      BY <2>2, <3>1
  <2>4. \A j \in Id : channels'[b][j] # NoChannel /\ channels'[b][j].n = channels'[b][i].n => j = i
    <3> SUFFICES ASSUME NEW j \in Id, channels'[b][j] # NoChannel,
                        channels'[b][j].n = channels'[b][i].n
                 PROVE  j = i
      OBVIOUS
    <3>1. CASE b = e /\ j = id
      BY <1>1, <1>3, <2>1, <3>1
    <3>2. CASE b # e \/ j # id
      BY <1>1, <2>1, <2>2, <3>2
    <3>3. QED
      BY <3>1, <3>2
  <2>5. QED
    BY <2>1, <2>2, <2>3, <2>4, Zenon
<1>4. QED
  BY <1>2, <1>3

\* The step is of the n-th channel: of the other channels, it changes no packet and no stream.
NetFits(e, n, tx) ==
  /\ net' \in [End -> Seq(Pkt)] /\ Of(net'[e], n) = Of(net[e], n) \o tx
  /\ \A b \in End : \A k : k # n => Of(net'[b], k) = Of(net[b], k)
StreamFits(n) ==
  /\ stream' \in [1..MaxOpens -> History] /\ \A k \in 1..MaxOpens : k # n => stream'[k] = stream[k]
  /\ stream'[n].cut => stream'[n].from = NewStream.from
OfOne(e, n, tx) == NetFits(e, n, tx) /\ StreamFits(n)

LEMMA OthersKept ==
  ASSUME TypeOK, NEW e \in End, NEW id \in Id, NEW x, x.c \in Chan, x.faults = {}, Keep(e, id, x),
         NEW n \in 1..MaxOpens, NEW tx, OfOne(e, n, tx), x.c.n = n,
         channels[e][id] = NoChannel \/ channels[e][id].n = n,
         NEW k \in 1..MaxOpens, k # n
  PROVE  Untouched(k)
<1>1. /\ channels'[e][id] = IF x.c.chan = "freed" THEN NoChannel ELSE x.c
      /\ \A b \in End, i \in Id : b # e \/ i # id => channels'[b][i] = channels[b][i]
  BY KeepIs
<1>2. /\ channels'[e][id] = NoChannel \/ channels'[e][id].n # k
      /\ channels[e][id] = NoChannel \/ channels[e][id].n # k
  BY <1>1
<1>3. \A b \in End, i \in Id :
        \/ channels'[b][i] = channels[b][i]
        \/ /\ channels[b][i] = NoChannel \/ channels[b][i].n # k
           /\ channels'[b][i] = NoChannel \/ channels'[b][i].n # k
  BY <1>1, <1>2, Zenon
<1>4. stream'[k] = stream[k] /\ \A b \in End : Of(net'[b], k) = Of(net[b], k)
  BY Zenon DEF OfOne, NetFits, StreamFits
<1>5. QED
  BY <1>3, <1>4, Zenon DEF Untouched

LEMMA StreamsType ==
  ASSUME NEW s \in [1..MaxOpens -> History]
  PROVE  s \in [1..MaxOpens ->
           [cut : BOOLEAN, early : BOOLEAN,
            from : [End -> [owed : Int, eof : BOOLEAN, ended : BOOLEAN]]]]
BY DEF History, Stream

LEMMA CutFromKept ==
  ASSUME CutFrom, NEW e, NEW n \in 1..MaxOpens, NEW tx, OfOne(e, n, tx)
  PROVE  CutFrom'
BY DEF OfOne, NetFits, StreamFits, CutFrom

\* A step of the n-th channel, at end e, after which that channel is in one of its phases.
LEMMA StepOf ==
  ASSUME IInv, NEW e \in End, NEW id \in Id, NEW n \in 1..MaxOpens, NEW x \in Work, Keep(e, id, x),
         OfOne(e, n, x.tx), x.c.n = n, opens' \in 0..MaxOpens, opens' >= opens, n <= opens',
         channels[e][id] = NoChannel \/ channels[e][id].n = n,
         \A i \in Id : i # id /\ channels[e][i] # NoChannel => channels[e][i].n # n,
         x.c.chan = "freed"
           \/ /\ x.c.localid = id /\ "RCVD_CLOSE" \notin x.c.closes
              /\ Sound(x.c) /\ (e \notin FixedEnds => Within(x.c)),
         Conn(n)'
  PROVE  IInv'
<1>1. TypeOK /\ faults = {} /\ Live1 /\ CutFrom /\ \A k \in 1..MaxOpens : Conn(k) /\ (k > opens => Closed(k))
  BY Zenon DEF IInv
<1>2. x.c \in Chan /\ x.faults = {}
  BY WorkType
<1>3. /\ channels' \in [End -> [Id -> Chan \cup {NoChannel}]]
      /\ conn_throttle_count' \in [End -> Int] /\ faults' = faults
  BY <1>1, <1>2, KeepIs
<1>4. opens \in Nat /\ opens' \in Nat /\ MaxOpens \in Nat
  BY <1>1, SizeAssumption DEF TypeOK
<1>5. TypeOK'
  <2>1. net' \in [End -> Seq(Pkt)] /\ stream' \in [1..MaxOpens -> History]
    BY DEF OfOne, NetFits, StreamFits
  <2>2. QED
    BY <1>3, <2>1, StreamsType DEF TypeOK
<1>6. Live1'
  BY <1>1, <1>2, <1>4, Live1Kept
<1>7. CutFrom'
  BY <1>1, CutFromKept
<1>8. ASSUME NEW k \in 1..MaxOpens
      PROVE  Conn(k)' /\ (k > opens' => Closed(k)')
  <2>1. CASE k = n
    BY <1>4, <2>1
  <2>2. CASE k # n
    <3>1. Untouched(k)
      BY <1>1, <1>2, <2>2, OthersKept
    <3>2. Conn(k) /\ (k > opens => Closed(k)) /\ (k > opens' => k > opens)
      BY <1>1, <1>4
    <3>3. QED
      BY <3>1, <3>2, ConnKept
  <2>3. QED
    BY <2>1, <2>2
<1>9. QED
  BY <1>1, <1>3, <1>5, <1>6, <1>7, <1>8, Zenon DEF IInv

LEMMA StepJoined ==
  ASSUME IInv, NEW e \in End, NEW n \in 1..MaxOpens, NEW g \in [End -> Chan],
         \A b \in End : Side(b, n, g), g[e].chan # "freed",
         NEW x, Keep(e, g[e].localid, x), UNCHANGED opens, OfOne(e, n, x.tx),
         Done(x, Around(e, g, Of(net[e], n), Of(net'[Other(e)], n), stream'[n]))
  PROVE  IInv'
<1> DEFINE f == Other(e)
<1> DEFINE id == g[e].localid
<1> DEFINE q == Of(net[e], n)
<1> DEFINE r1 == Of(net'[f], n)
<1> DEFINE s1 == stream'[n]
<1> DEFINE m == Around(e, g, q, r1, s1)
<1> DEFINE g1 == [g EXCEPT ![e] = x.c]
<1>1. f \in End /\ Other(f) = e /\ f # e /\ \A b \in End : b = e \/ b = f
  BY OtherEnd
<1>2. TypeOK /\ faults = {} /\ Live1 /\ CutFrom /\ \A k \in 1..MaxOpens : Conn(k) /\ (k > opens => Closed(k))
  BY Zenon DEF IInv
<1>3. /\ net' \in [End -> Seq(Pkt)] /\ Of(net'[e], n) = q \o x.tx
      /\ stream' \in [1..MaxOpens -> History] /\ s1 \in History
  BY DEF OfOne, NetFits, StreamFits
<1>4. q \in Seq(Pkt) /\ r1 \in Seq(Pkt)
  BY <1>1, <1>2, <1>3, TypeIs, OfType
<1>5. /\ m \in Setting /\ m.id = id /\ m.d = g[f] /\ m.q = q /\ m.r = r1
      /\ (m.fixed <=> e \in FixedEnds) /\ (m.cut <=> s1.cut) /\ m.s = s1.from[e] /\ m.t = s1.from[f]
  <2>1. m = Around(e, g, q, r1, s1) /\ id = g[e].localid /\ f = Other(e)
    OBVIOUS
  <2> HIDE DEF m, id, q, r1, s1, f
  <2>2. QED
    BY <1>3, <1>4, <2>1, AroundIs, SMTT(30)
<1>6. /\ id \in Id /\ channels[e][id] = g[e] /\ g[e].n = n
  BY Zenon DEF Side
<1>7. g[f].n = n /\ g[e] # NoChannel /\ g[e] \in Chan /\ g[f] \in Chan
  BY <1>1, NotNone DEF Side
<1>8. Done(x, m)
  OBVIOUS
<1> HIDE DEF m
<1>9. /\ x \in Work /\ x.c.localid = id /\ x.c.n = n
      /\ (x.c.chan = "freed" <=> "RCVD_CLOSE" \in x.c.closes)
      /\ Sides(x.c, g[f], q \o x.tx, r1) /\ Sides(g[f], x.c, r1, q \o x.tx)
      /\ Sound(x.c) /\ (e \notin FixedEnds => Within(x.c))
      /\ s1.cut \/ (Carried(x.c, g[f], q \o x.tx, s1.from[e]) /\ Carried(g[f], x.c, r1, s1.from[f]))
  BY <1>5, <1>7, <1>8, Zenon DEF Done, Both
<1>10. x.c \in Chan /\ x.faults = {}
  BY <1>9, WorkType
<1>11. /\ channels' \in [End -> [Id -> Chan \cup {NoChannel}]]
       /\ channels'[e][id] = IF x.c.chan = "freed" THEN NoChannel ELSE x.c
       /\ \A b \in End, i \in Id : b # e \/ i # id => channels'[b][i] = channels[b][i]
  BY <1>2, <1>6, <1>10, KeepIs
<1> HIDE DEF id, q, r1, s1
<1>14. n <= opens /\ \A i \in Id : i # id /\ channels[e][i] # NoChannel => channels[e][i].n # n
  BY <1>2, <1>6, <1>7 DEF Live1
<1>15. opens' \in 0..MaxOpens /\ opens' >= opens /\ n <= opens'
  BY <1>2, <1>14 DEF TypeOK
<1>18. Joined(n)'
  <2>1. g1 \in [End -> Chan] /\ g1[e] = x.c /\ g1[f] = g[f]
    BY <1>1, <1>10
  <2> HIDE DEF g1
  <2>2. Side(e, n, g1)'
    <3>1. IF x.c.chan = "freed" THEN ~Holds(e, n)'
          ELSE x.c.localid \in Id /\ channels'[e][x.c.localid] = x.c
      <4>1. CASE x.c.chan = "freed"
        <5>1. \A i \in Id : channels'[e][i] # NoChannel => channels'[e][i].n # n
          BY <1>11, <1>14, <4>1
        <5>2. QED
          BY <4>1, <5>1 DEF Holds
      <4>2. CASE x.c.chan # "freed"
        BY <1>6, <1>9, <1>11, <4>2
      <4>3. QED
        BY <4>1, <4>2
    <3>2. Sides(x.c, g[f], Of(net'[e], n), Of(net'[f], n))
      BY <1>3, <1>9 DEF r1
    <3>3. stream'[n].cut \/ Carried(x.c, g[f], Of(net'[e], n), stream'[n].from[e])
      BY <1>3, <1>9, Zenon DEF s1
    <3>4. QED
      BY <1>1, <1>9, <2>1, <3>1, <3>2, <3>3, Zenon DEF Side
  <2>3. Side(f, n, g1)'
    <3>1. Side(f, n, g)
      BY <1>1
    <3>2. Holds(f, n)' <=> Holds(f, n)
      BY <1>1, <1>11 DEF Holds
    <3>3. IF g[f].chan = "freed" THEN ~Holds(f, n)'
          ELSE g[f].localid \in Id /\ channels'[f][g[f].localid] = g[f]
      BY <1>1, <1>11, <3>1, <3>2 DEF Side
    <3>4. Sides(g[f], x.c, Of(net'[f], n), Of(net'[e], n))
      BY <1>3, <1>9 DEF r1
    <3>5. stream'[n].cut \/ Carried(g[f], x.c, Of(net'[f], n), stream'[n].from[f])
      BY <1>9, Zenon DEF s1, r1
    <3>6. /\ Sound(g[f]) /\ (f \notin FixedEnds => Within(g[f])) /\ g[f].n = n
          /\ (g[f].chan = "freed" <=> "RCVD_CLOSE" \in g[f].closes)
      BY <3>1, Zenon DEF Side
    <3>7. QED
      BY <1>1, <2>1, <3>3, <3>4, <3>5, <3>6, Zenon DEF Side
  <2>4. \A b \in End : Side(b, n, g1)'
    BY <1>1, <2>2, <2>3
  <2>5. QED
    BY <2>1, <2>4 DEF Joined
<1>19. Conn(n)'
  BY <1>18 DEF Conn
<1>20. Keep(e, id, x)
  BY DEF id
<1>21. x.c.chan = "freed"
         \/ /\ x.c.localid = id /\ "RCVD_CLOSE" \notin x.c.closes
            /\ Sound(x.c) /\ (e \notin FixedEnds => Within(x.c))
  BY <1>9
<1>22. QED
  BY <1>6, <1>9, <1>14, <1>15, <1>19, <1>20, <1>21, StepOf

\* What becomes of the packets when some are sent, and when one is taken as well.
LEMMA NetPushed ==
  ASSUME TypeOK, NEW e \in End, NEW n \in 1..MaxOpens, NEW tx \in Seq(Pkt),
         \A i \in DOMAIN tx : tx[i].n = n, net' = [net EXCEPT ![e] = @ \o tx]
  PROVE  NetFits(e, n, tx) /\ \A b \in End : b # e => net'[b] = net[b]
<1>1. net \in [End -> Seq(Pkt)] /\ net[e] \in Seq(Pkt)
  BY DEF TypeOK
<1>2. net[e] \o tx \in Seq(Pkt)
  BY <1>1, ConcatType
<1>3. /\ net' \in [End -> Seq(Pkt)] /\ net'[e] = net[e] \o tx
      /\ \A b \in End : b # e => net'[b] = net[b]
  BY <1>1, <1>2
<1>4. Of(net'[e], n) = Of(net[e], n) \o tx /\ \A k : k # n => Of(net'[e], k) = Of(net[e], k)
  BY <1>1, <1>3, OfPushed
<1>5. \A b \in End : \A k : k # n => Of(net'[b], k) = Of(net[b], k)
  BY <1>3, <1>4, Zenon
<1>6. QED
  BY <1>3, <1>4, <1>5 DEF NetFits

LEMMA NetTaken ==
  ASSUME TypeOK, NEW e \in End, NEW n \in 1..MaxOpens, NEW tx \in Seq(Pkt),
         \A i \in DOMAIN tx : tx[i].n = n, net[Other(e)] # <<>>, net[Other(e)][1].n = n,
         net' = [net EXCEPT ![e] = @ \o tx, ![Other(e)] = Tail(@)]
  PROVE  NetFits(e, n, tx) /\ Of(net'[Other(e)], n) = Tail(Of(net[Other(e)], n))
<1> DEFINE f == Other(e)
<1>1. f \in End /\ f # e /\ \A b \in End : b = e \/ b = f
  BY OtherEnd
<1>2. net \in [End -> Seq(Pkt)] /\ net[e] \in Seq(Pkt) /\ net[f] \in Seq(Pkt)
  BY <1>1 DEF TypeOK
<1>3. net[e] \o tx \in Seq(Pkt) /\ Tail(net[f]) \in Seq(Pkt)
  BY <1>2, ConcatType
<1>4. net' = [net EXCEPT ![e] = @ \o tx, ![f] = Tail(@)] /\ net[f] # <<>> /\ net[f][1].n = n
  OBVIOUS
<1> HIDE DEF f
<1>5. net' \in [End -> Seq(Pkt)] /\ net'[e] = net[e] \o tx /\ net'[f] = Tail(net[f])
  BY <1>1, <1>2, <1>3, <1>4
<1>6. Of(net'[e], n) = Of(net[e], n) \o tx /\ \A k : k # n => Of(net'[e], k) = Of(net[e], k)
  <2>1. Of(net[e] \o tx, n) = Of(net[e], n) \o tx /\ \A k : k # n => Of(net[e] \o tx, k) = Of(net[e], k)
    BY <1>2, OfPushed, SMTT(30)
  <2>2. net'[e] = net[e] \o tx
    BY <1>5
  <2>3. QED
    BY <2>1, <2>2, Zenon
<1>7. \A k : k # n => Of(Tail(net[f]), k) = Of(net[f], k)
  BY <1>2, <1>4, OfTail
<1>8. Of(Tail(net[f]), n) = Tail(Of(net[f], n))
  BY <1>2, <1>4, OfTail
<1>9. \A b \in End : \A k : k # n => Of(net'[b], k) = Of(net[b], k)
  BY <1>1, <1>5, <1>6, <1>7, Zenon
<1>10. NetFits(e, n, tx) /\ Of(net'[f], n) = Tail(Of(net[f], n))
  BY <1>5, <1>6, <1>8, <1>9 DEF NetFits
<1>11. QED
  BY <1>10 DEF f

\* What becomes of the streams.
LEMMA StreamKept ==
  ASSUME TypeOK, CutFrom, NEW n \in 1..MaxOpens, UNCHANGED stream
  PROVE  StreamFits(n)
BY DEF TypeOK, CutFrom, StreamFits, History, Stream

LEMMA StreamCut ==
  ASSUME TypeOK, NEW n \in 1..MaxOpens, NEW early \in BOOLEAN, stream' = Cut(n, early)
  PROVE  StreamFits(n) /\ stream'[n].cut /\ stream'[n].from = NewStream.from
<1> DEFINE s == [NewStream EXCEPT !.cut = TRUE, !.early = @ \/ early]
<1>1. stream' = [stream EXCEPT ![n] = s] /\ stream \in [1..MaxOpens -> History]
  BY DEF Cut, TypeOK, History, Stream
<1>2. s \in History /\ s.cut /\ s.from = NewStream.from
  <2> DEFINE from == [b \in End |-> NoStream]
  <2> DEFINE a == FALSE \/ early
  <2>1. from \in [End -> Stream] /\ a \in BOOLEAN
    BY DEF NoStream, Stream
  <2>2. NewStream = [cut |-> FALSE, early |-> FALSE, from |-> from]
    BY DEF NewStream
  <2>3. NewStream.from = from /\ NewStream.early = FALSE
    BY <2>2
  <2>4. s = [NewStream EXCEPT !.cut = TRUE, !.early = a]
    BY <2>3
  <2> HIDE DEF from, a, s
  <2>5. s = [cut |-> TRUE, early |-> a, from |-> from]
    BY <2>2, <2>4
  <2>6. QED
    BY <2>1, <2>3, <2>5 DEF History
<1> HIDE DEF s
<1>3. QED
  BY <1>1, <1>2 DEF StreamFits

LEMMA StreamLogged ==
  ASSUME TypeOK, CutFrom, NEW n \in 1..MaxOpens, NEW s \in History, s.cut = stream[n].cut,
         stream' = Log(n, s)
  PROVE  /\ StreamFits(n) /\ stream'[n].cut = stream[n].cut
         /\ stream'[n] = IF stream[n].cut THEN stream[n] ELSE s
<1>1. stream \in [1..MaxOpens -> History] /\ (stream[n].cut => stream[n].from = NewStream.from)
  BY DEF TypeOK, History, Stream, CutFrom
<1>2. CASE stream[n].cut
  <2>1. stream' = stream
    BY <1>2 DEF Log
  <2>2. QED
    BY <1>1, <1>2, <2>1 DEF StreamFits
<1>3. CASE ~stream[n].cut
  <2>1. stream' = [stream EXCEPT ![n] = s]
    BY <1>3 DEF Log
  <2>2. stream' \in [1..MaxOpens -> History] /\ stream'[n] = s
        /\ \A k \in 1..MaxOpens : k # n => stream'[k] = stream[k]
    BY <1>1, <2>1
  <2>3. QED
    BY <1>3, <2>2 DEF StreamFits
<1>4. QED
  BY <1>2, <1>3

\* A packet other than an OPEN or its refusal is for a channel that is there.
FirstOf(e, p) == net[Other(e)] # <<>> /\ p = net[Other(e)][1]

LEMMA IncomingIs ==
  ASSUME TypeOK, NEW e \in End, NEW type, NEW p \in Incoming(e, type)
  PROVE  p \in Pkt /\ FirstOf(e, p) /\ p.type = type /\ p.n \in 1..MaxOpens
<1>1. net[Other(e)] \in Seq(Pkt)
  BY OtherEnd DEF TypeOK
<1>2. p.type = type /\ \E k \in {1} \cap DOMAIN net[Other(e)] : p = net[Other(e)][k]
  BY DEF Incoming
<1>3. p = net[Other(e)][1] /\ 1 \in DOMAIN net[Other(e)]
  BY <1>2
<1>4. p \in Pkt /\ net[Other(e)] # <<>>
  BY <1>1, <1>3
<1>5. QED
  BY <1>2, <1>3, <1>4 DEF FirstOf, Pkt

LEMMA FirstPicked ==
  ASSUME TypeOK, NEW e \in End, NEW p \in Pkt, FirstOf(e, p)
  PROVE  /\ Of(net[Other(e)], p.n) \in Seq(Pkt) /\ Of(net[Other(e)], p.n) # <<>>
         /\ Of(net[Other(e)], p.n)[1] = p /\ 1 \in DOMAIN Of(net[Other(e)], p.n)
<1>1. net[Other(e)] \in Seq(Pkt)
  BY OtherEnd DEF TypeOK
<1>2. Of(net[Other(e)], p.n) \in Seq(Pkt)
  BY <1>1, OfType
<1>3. Of(net[Other(e)], p.n) # <<>> /\ Of(net[Other(e)], p.n)[1] = p
  BY <1>1, OfTail DEF FirstOf
<1>4. QED
  BY <1>2, <1>3

LEMMA PacketFor ==
  ASSUME IInv, NEW e \in End, NEW p \in Pkt, FirstOf(e, p), p.type \notin {"OPEN", "OPEN_FAILURE"}
  PROVE  \E g \in [End -> Chan] :
           /\ \A b \in End : Side(b, p.n, g)
           /\ g[e].chan # "freed" /\ g[e].localid = p.to /\ p.to \in Id /\ channels[e][p.to] = g[e]
<1> DEFINE f == Other(e)
<1> DEFINE r == Of(net[f], p.n)
<1>1. TypeOK /\ p.n \in 1..MaxOpens /\ Conn(p.n)
  BY DEF IInv, Pkt
<1>2. r \in Seq(Pkt) /\ r # <<>> /\ r[1] = p /\ 1 \in DOMAIN r
  BY <1>1, FirstPicked
<1>3. f \in End /\ Other(f) = e /\ \A b \in End : b = e \/ b = f
  BY OtherEnd
<1>4. ~Closed(p.n)
  BY <1>2, <1>3 DEF Closed
<1>5. \A b \in End : ~Asking(b, p.n)
  <2> SUFFICES ASSUME NEW b \in End, Asking(b, p.n)
               PROVE  FALSE
    OBVIOUS
  <2>1. \/ Of(net[Other(b)], p.n) = <<>> /\ Of(net[b], p.n)[1].type = "OPEN"
        \/ Of(net[b], p.n) = <<>> /\ Of(net[Other(b)], p.n)[1].type = "OPEN_FAILURE"
    BY Zenon DEF Asking
  <2>2. QED
    BY <1>2, <1>3, <2>1
<1>6. PICK g \in [End -> Chan] : \A b \in End : Side(b, p.n, g)
  BY <1>1, <1>4, <1>5 DEF Conn, Joined
<1>7. Addressed(g[f], g[e], r) /\ Ends(g[f], g[e], r)
  BY <1>3, <1>6 DEF Side, Sides
<1>8. "RCVD_CLOSE" \notin g[e].closes
  BY <1>2, <1>7 DEF Ends
<1>9. g[e].chan # "freed" /\ g[e].localid \in Id /\ channels[e][g[e].localid] = g[e]
  BY <1>6, <1>8 DEF Side
<1>10. p.to = g[e].localid
  BY <1>2, <1>7 DEF Addressed
<1>11. QED
  BY <1>6, <1>9, <1>10

\* A packet of the channel has been handled.
LEMMA StepReceived ==
  ASSUME IInv, NEW e \in End, NEW p \in Pkt, FirstOf(e, p), NEW g \in [End -> Chan],
         \A b \in End : Side(b, p.n, g), g[e].chan # "freed", g[e].localid = p.to,
         NEW x, Handled(e, p.to, x), UNCHANGED opens, StreamFits(p.n),
         Done(x, Around(e, g, Of(net[e], p.n), Tail(Of(net[Other(e)], p.n)), stream'[p.n]))
  PROVE  IInv'
<1> DEFINE n == p.n
<1> DEFINE m == Around(e, g, Of(net[e], n), Tail(Of(net[Other(e)], n)), stream'[n])
<1>1. TypeOK /\ n \in 1..MaxOpens
  BY DEF IInv, Pkt
<1>2. g[Other(e)].n = n
  BY OtherEnd DEF Side
<1>3. x.tx \in Seq(Pkt) /\ \A i \in DOMAIN x.tx : x.tx[i].n = n
  <2>1. m.d = g[Other(e)]
    BY DEF Around
  <2>2. Done(x, m)
    OBVIOUS
  <2> HIDE DEF m
  <2>3. x \in Work /\ x.c.n = m.d.n /\ \A i \in DOMAIN x.tx : x.tx[i].n = x.c.n
    BY <2>2 DEF Done
  <2>4. QED
    BY <1>2, <2>1, <2>3, WorkType
<1>4. /\ Keep(e, g[e].localid, x) /\ net' = [net EXCEPT ![e] = @ \o x.tx, ![Other(e)] = Tail(@)]
      /\ net[Other(e)] # <<>> /\ net[Other(e)][1].n = n
  BY DEF Handled, FirstOf
<1>5. NetFits(e, n, x.tx) /\ Of(net'[Other(e)], n) = Tail(Of(net[Other(e)], n))
  BY <1>1, <1>3, <1>4, NetTaken
<1>6. OfOne(e, n, x.tx)
  BY <1>5 DEF OfOne
<1>7. Done(x, Around(e, g, Of(net[e], n), Of(net'[Other(e)], n), stream'[n]))
  BY <1>5
<1>8. QED
  BY <1>1, <1>4, <1>6, <1>7, StepJoined

\* A socket has been handled.
LEMMA StepSocket ==
  ASSUME IInv, NEW e \in End, NEW n \in 1..MaxOpens, NEW g \in [End -> Chan],
         \A b \in End : Side(b, n, g), g[e].chan # "freed",
         NEW x, Did(e, g[e].localid, x), UNCHANGED opens, StreamFits(n),
         Done(x, Around(e, g, Of(net[e], n), Of(net[Other(e)], n), stream'[n]))
  PROVE  IInv'
<1> DEFINE m == Around(e, g, Of(net[e], n), Of(net[Other(e)], n), stream'[n])
<1>1. TypeOK
  BY DEF IInv
<1>2. g[Other(e)].n = n /\ Other(e) \in End /\ Other(e) # e
  BY OtherEnd DEF Side
<1>3. x.tx \in Seq(Pkt) /\ \A i \in DOMAIN x.tx : x.tx[i].n = n
  <2>1. m.d = g[Other(e)]
    BY DEF Around
  <2>2. Done(x, m)
    OBVIOUS
  <2> HIDE DEF m
  <2>3. x \in Work /\ x.c.n = m.d.n /\ \A i \in DOMAIN x.tx : x.tx[i].n = x.c.n
    BY <2>2 DEF Done
  <2>4. QED
    BY <1>2, <2>1, <2>3, WorkType
<1>4. Keep(e, g[e].localid, x) /\ net' = [net EXCEPT ![e] = @ \o x.tx]
  BY DEF Did
<1>5. NetFits(e, n, x.tx) /\ net'[Other(e)] = net[Other(e)]
  BY <1>1, <1>2, <1>3, <1>4, NetPushed
<1>6. OfOne(e, n, x.tx)
  BY <1>5 DEF OfOne
<1>7. Done(x, Around(e, g, Of(net[e], n), Of(net'[Other(e)], n), stream'[n]))
  BY <1>5
<1>8. QED
  BY <1>4, <1>6, <1>7, StepJoined


-----------------------------------------------------------------------------
(* What the sockets ask for *)

Stays(m, m1) == m1.id = m.id /\ m1.d = m.d /\ m1.q = m.q /\ m1.r = m.r /\ m1.fixed = m.fixed

LEMMA StaysType ==
  ASSUME NEW m \in Setting, NEW m1 \in Setting, NEW c \in Chan, Meets(c, m), Stays(m, m1)
  PROVE  /\ m.d \in Chan /\ m.q \in Seq(Pkt) /\ m.r \in Seq(Pkt)
         /\ m1.id = m.id /\ m1.d = m.d /\ m1.q = m.q /\ m1.r = m.r /\ m1.fixed = m.fixed
         /\ c.localid = m.id /\ c.n = m.d.n /\ c.chan # "freed" /\ "RCVD_CLOSE" \notin c.closes
         /\ Both(c, m.d, m.q, m.r) /\ Sound(c) /\ Sound(m.d) /\ (m.fixed \/ Within(c))
         /\ (m.cut \/ (Carried(c, m.d, m.q, m.s) /\ Carried(m.d, c, m.r, m.t)))
         /\ Data(m.q) \in Nat /\ m.s \in Stream /\ m.t \in Stream /\ m1.s \in Stream
<1>1. m.d \in Chan /\ m.q \in Seq(Pkt) /\ m.r \in Seq(Pkt) /\ m.s \in Stream /\ m.t \in Stream /\ m1.s \in Stream
  BY SettingType
<1>2. Data(m.q) \in Nat
  BY <1>1, LensNat DEF Data
<1>3. QED
  BY <1>1, <1>2, Zenon DEF Stays, Meets

LEMMA StartDone ==
  ASSUME NEW m \in Setting, NEW c \in Chan, Meets(c, m)
  PROVE  Done(Start(c), m)
<1> DEFINE w == <<>>
<1>1. m.q \o w = m.q
  BY SettingType
<1>2. w \in Seq(Pkt) /\ \A i \in DOMAIN w : w[i].n = c.n
  OBVIOUS
<1>3. Start(c) \in Work /\ Start(c).c = c /\ Start(c).tx = w
  BY StartType
<1> HIDE DEF w
<1> DEFINE s == Start(c)
<1>4. s \in Work /\ s.c = c /\ s.tx = w
  BY <1>3
<1> HIDE DEF s
<1>5. c.chan = "freed" <=> "RCVD_CLOSE" \in c.closes
  BY DEF Meets
<1>6. Done(s, m)
  BY <1>1, <1>2, <1>4, <1>5, Zenon DEF Done, Meets
<1>7. QED
  BY <1>6 DEF s

\* A change of a channel that is around the same.
LEMMA MeetsStill ==
  ASSUME NEW m \in Setting, NEW m1 \in Setting, NEW c \in Chan, Meets(c, m), Stays(m, m1),
         NEW c1 \in Chan, Alike(c, c1), c1.n = c.n, c1.closes = c.closes, c1.chan # "freed",
         c1.remwindow = c.remwindow, c1.locwindow = c.locwindow, c1.chanreqs = c.chanreqs,
         Sound(c1), m.fixed \/ Within(c1),
         m1.cut \/ (Carried(c1, m.d, m.q, m1.s) /\ Carried(m.d, c1, m.r, m1.t))
  PROVE  Meets(c1, m1) /\ (~c.halfopen => Mid(Start(c1), m1))
<1>1. /\ m.d \in Chan /\ m.q \in Seq(Pkt) /\ m.r \in Seq(Pkt)
      /\ m1.id = m.id /\ m1.d = m.d /\ m1.q = m.q /\ m1.r = m.r /\ m1.fixed = m.fixed
      /\ c.localid = m.id /\ c.n = m.d.n /\ c.chan # "freed" /\ "RCVD_CLOSE" \notin c.closes
      /\ Both(c, m.d, m.q, m.r) /\ Sound(m.d)
  BY StaysType
<1>2. Both(c1, m.d, m.q, m.r)
  BY <1>1, BothSame
<1>3. c1.localid = m.id /\ c1.n = m.d.n /\ "RCVD_CLOSE" \notin c1.closes /\ (~c.halfopen => ~c1.halfopen)
  BY <1>1 DEF Alike
<1>4. m1.cut \/ (Carried(c1, m1.d, m1.q, m1.s) /\ Carried(m1.d, c1, m1.r, m1.t))
  BY <1>1, Zenon
<1>5. Meets(c1, m1)
  BY <1>1, <1>2, <1>3, <1>4, Zenon DEF Meets
<1>6. ~c.halfopen => Mid(Start(c1), m1)
  BY <1>1, <1>2, <1>3, <1>4, StartMid
<1>7. QED
  BY <1>5, <1>6

\* pfd_receive
LEMMA SocketReceiveDone ==
  ASSUME NEW m \in Setting, NEW m1 \in Setting, NEW c \in Chan, Meets(c, m), Stays(m, m1),
         c.chan = "socket", ~c.fixed, c.input_wanted, ~c.sockeof, NEW len \in 1..c.unwritten,
         m.cut => m1.cut, m1.t = m.t,
         ~m1.cut => m1.s.owed = m.s.owed + len /\ m1.s.eof = m.s.eof /\ m1.s.ended = m.s.ended
  PROVE  Done(Write([Start(c) EXCEPT !.c.unwritten = @ - len], len), m1)
<1> DEFINE s == Start(c)
<1> DEFINE c1 == [c EXCEPT !.unwritten = c.unwritten - len]
<1> DEFINE c2 == [c1 EXCEPT !.outbuffer = c1.outbuffer + len]
<1> DEFINE x == [s EXCEPT !.c.unwritten = @ - len]
<1> DEFINE y == [x EXCEPT !.c.outbuffer = @ + len]
<1>1. /\ m.d \in Chan /\ m.q \in Seq(Pkt) /\ m.r \in Seq(Pkt) /\ Data(m.q) \in Nat
      /\ Sound(c) /\ (m.fixed \/ Within(c)) /\ m.s \in Stream /\ m1.s \in Stream
      /\ (m.cut \/ (Carried(c, m.d, m.q, m.s) /\ Carried(m.d, c, m.r, m.t)))
  BY StaysType
<1>2. ~c.halfopen /\ "SENT_EOF" \notin c.closes /\ ~c.pending_eof
  BY <1>1 DEF Sound
<1>3. /\ c.unwritten \in Nat /\ c.outbuffer \in Nat /\ c.socksbuf \in Nat /\ len \in Nat
      /\ c.unwritten - len \in Nat /\ c.outbuffer + len \in Nat
  BY DEF Chan
<1>4. s \in Work /\ s.c = c /\ s.tx = <<>>
  BY StartType
<1> HIDE DEF s
<1>5. /\ c1 \in Chan /\ Alike(c, c1) /\ c1.closes = c.closes
        /\ c1.pending_eof = c.pending_eof /\ c1.throttling_conn = c.throttling_conn
        /\ c1.throttled_by_backlog = c.throttled_by_backlog /\ c1.outbuffer = c.outbuffer
        /\ c1.remwindow = c.remwindow /\ c1.locwindow = c.locwindow
        /\ c1.locmaxwin = c.locmaxwin /\ c1.remlocwin = c.remlocwin
        /\ c1.chanreqs = c.chanreqs /\ c1.throttle_state = c.throttle_state
        /\ c1.fixed = c.fixed /\ c1.chan = c.chan /\ c1.input_wanted = c.input_wanted
        /\ c1.socksbuf = c.socksbuf /\ c1.ready = c.ready /\ c1.backlog = c.backlog
        /\ c1.sockeof = c.sockeof /\ c1.unwritten = c.unwritten - len /\ c1.n = c.n
  BY <1>3 DEF Chan, Alike
<1>6. x.c = c1 /\ x.tx = <<>> /\ x \in Work
  BY <1>4, <1>5 DEF Work
<1> HIDE DEF c1, x
<1>7. /\ c2 \in Chan /\ Alike(c1, c2) /\ c2.closes = c1.closes
        /\ c2.pending_eof = c1.pending_eof /\ c2.throttling_conn = c1.throttling_conn
        /\ c2.throttled_by_backlog = c1.throttled_by_backlog
        /\ c2.outbuffer = c1.outbuffer + len /\ c2.remwindow = c1.remwindow
        /\ c2.locwindow = c1.locwindow /\ c2.locmaxwin = c1.locmaxwin
        /\ c2.remlocwin = c1.remlocwin /\ c2.chanreqs = c1.chanreqs
        /\ c2.throttle_state = c1.throttle_state /\ c2.fixed = c1.fixed /\ c2.chan = c1.chan
        /\ c2.input_wanted = c1.input_wanted /\ c2.socksbuf = c1.socksbuf
        /\ c2.ready = c1.ready /\ c2.backlog = c1.backlog /\ c2.sockeof = c1.sockeof
        /\ c2.unwritten = c1.unwritten /\ c2.n = c1.n
  BY <1>3, <1>5 DEF Chan, Alike
<1>8. y.c = c2 /\ y.tx = <<>> /\ y \in Work
  BY <1>6, <1>7 DEF Work
<1> HIDE DEF c2, y
<1>9. y = Start(c2)
  BY <1>8, SameWork
<1>10. Sound(c2)
  BY <1>1, <1>2, <1>5, <1>7 DEF Sound, Alike
<1>11. m.fixed \/ Within(c2)
  BY <1>1, <1>5, <1>7 DEF Within
<1>12. m1.cut \/ (Carried(c2, m.d, m.q, m1.s) /\ Carried(m.d, c2, m.r, m1.t))
  <2>1. ASSUME ~m1.cut
        PROVE  Carried(c2, m.d, m.q, m1.s) /\ Carried(m.d, c2, m.r, m1.t)
    <3>1. Carried(c, m.d, m.q, m.s) /\ Carried(m.d, c, m.r, m.t)
      BY <1>1, <2>1, Zenon
    <3>2. m1.s.owed = m.s.owed + len /\ m1.s.eof = m.s.eof /\ m1.s.ended = m.s.ended
      BY <2>1
    <3>3. m1.s.owed = c2.socksbuf + c2.outbuffer + Data(m.q)
      BY <1>1, <1>3, <1>5, <1>7, <3>1, <3>2 DEF Carried
    <3>4. Carried(c2, m.d, m.q, m1.s)
      BY <1>2, <1>5, <1>7, <3>1, <3>2, <3>3 DEF Carried
    <3>5. Carried(m.d, c2, m.r, m1.t)
      BY <1>5, <1>7, <3>1 DEF Carried
    <3>6. QED
      BY <3>4, <3>5
  <2>2. QED
    BY <2>1
<1>13. Mid(y, m1)
  <2>1. Alike(c, c2)
    BY <1>5, <1>7 DEF Alike
  <2>2. c2.n = c.n /\ c2.closes = c.closes /\ c2.chan # "freed" /\ c2.remwindow = c.remwindow
        /\ c2.locwindow = c.locwindow /\ c2.chanreqs = c.chanreqs /\ c2 \in Chan
    BY <1>5, <1>7
  <2>3. QED
    BY <1>2, <1>9, <1>10, <1>11, <1>12, <2>1, <2>2, MeetsStill
<1>14. Mid(Write(x, len), m1)
  <2>1. "SENT_EOF" \notin x.c.closes
    BY <1>2, <1>5, <1>6
  <2>2. Mid([x EXCEPT !.c.outbuffer = @ + len], m1)
    BY <1>13 DEF y
  <2>3. QED
    BY <1>3, <1>6, <2>1, <2>2, WriteMid
<1>15. Done(Write(x, len), m1)
  BY <1>14, MidDone
<1>16. QED
  BY <1>15 DEF x, s

\* What is to be sent is not changed by sending it, when no EOF waits for that.
LEMMA WriteKeeps ==
  ASSUME NEW x, x \in Work, NEW len \in Nat, ~x.c.pending_eof, "SENT_EOF" \notin x.c.closes
  PROVE  /\ Write(x, len).c.chan = x.c.chan /\ Write(x, len).c.sockeof = x.c.sockeof
         /\ Write(x, len).c.closes = x.c.closes
<1> DEFINE z == [x EXCEPT !.c.outbuffer = @ + len]
<1> DEFINE n == IF z.c.halfopen THEN 0 ELSE Min({z.c.outbuffer, z.c.remwindow})
<1> DEFINE w == DataPackets(z.c, n)
<1> DEFINE y == [z EXCEPT !.tx = @ \o w, !.c.outbuffer = @ - n, !.c.remwindow = @ - n]
<1> DEFINE Same(v) == /\ v.c.chan = x.c.chan /\ v.c.sockeof = x.c.sockeof /\ v.c.closes = x.c.closes
                      /\ v.c.pending_eof = x.c.pending_eof
<1>1. Write(x, len) = TrySend(z)
  BY DEF Write, Asserts
<1>2. x.c \in Chan /\ x.c.outbuffer + len \in Nat
  <2>1. x.c \in Chan
    BY WorkType
  <2>2. x.c.outbuffer \in Nat
    BY <2>1 DEF Chan
  <2>3. QED
    BY <2>1, <2>2
<1>3. Same(z) /\ z.c \in Chan /\ DOMAIN z = {"c", "tx", "faults"}
  <2>1. z.c = [x.c EXCEPT !.outbuffer = x.c.outbuffer + len] /\ DOMAIN z = {"c", "tx", "faults"}
    BY DEF Work
  <2> HIDE DEF z
  <2>2. QED
    BY <1>2, <2>1, ZenonT(40) DEF Chan
<1> HIDE DEF z
<1>4. y.c = [z.c EXCEPT !.outbuffer = @ - n, !.remwindow = @ - n]
  BY <1>3
<1> HIDE DEF n, w
<1>5. Same(y)
  <2> HIDE DEF y
  <2>1. QED
    BY <1>3, <1>4 DEF Chan
<1>6. TrySend(z) = IF y.c.outbuffer = 0 /\ y.c.pending_eof THEN TryEof(y) ELSE y
  BY Zenon DEF TrySend, n, w, y
<1> HIDE DEF y
<1>7. Write(x, len) = y
  BY <1>1, <1>5, <1>6
<1>8. QED
  BY <1>5, <1>7

\* FD_CLOSE, or an error, at a channel whose other end has not answered yet.
Closing(c) == [c EXCEPT !.sockeof = TRUE, !.unwritten = 0, !.pending_eof = TRUE]
Failed(c) == [c EXCEPT !.chan = "zombie", !.backlog = 0, !.input_wanted = FALSE,
                       !.socksbuf = 0, !.unwritten = 0, !.pending_eof = FALSE]

LEMMA ClosingIs ==
  ASSUME NEW c \in Chan, c.halfopen, Sound(c), ~c.sockeof, c.chan = "socket"
  PROVE  LET c1 == Closing(c)
         IN  /\ c1 \in Chan /\ Alike(c, c1) /\ c1.n = c.n /\ c1.closes = c.closes /\ c1.chan = c.chan
             /\ c1.remwindow = c.remwindow /\ c1.locwindow = c.locwindow /\ c1.chanreqs = c.chanreqs
             /\ c1.locmaxwin = c.locmaxwin /\ c1.backlog = c.backlog /\ c1.fixed = c.fixed
             /\ c1.throttling_conn = c.throttling_conn /\ c1.outbuffer = c.outbuffer
             /\ c1.socksbuf = c.socksbuf /\ c1.sockeof /\ Sound(c1)
             /\ WriteEof([Start(c) EXCEPT !.c.sockeof = TRUE, !.c.unwritten = 0]) = Start(c1)
<1> DEFINE s == Start(c)
<1> DEFINE y == [s EXCEPT !.c.sockeof = TRUE, !.c.unwritten = 0]
<1> DEFINE z == [y EXCEPT !.c.pending_eof = TRUE]
<1> DEFINE c1 == Closing(c)
<1>1. /\ c1 \in Chan /\ Alike(c, c1) /\ c1.closes = c.closes /\ c1.pending_eof = TRUE
        /\ c1.throttling_conn = c.throttling_conn
        /\ c1.throttled_by_backlog = c.throttled_by_backlog /\ c1.outbuffer = c.outbuffer
        /\ c1.remwindow = c.remwindow /\ c1.locwindow = c.locwindow
        /\ c1.locmaxwin = c.locmaxwin /\ c1.remlocwin = c.remlocwin
        /\ c1.chanreqs = c.chanreqs /\ c1.throttle_state = c.throttle_state
        /\ c1.fixed = c.fixed /\ c1.chan = c.chan /\ c1.input_wanted = c.input_wanted
        /\ c1.socksbuf = c.socksbuf /\ c1.ready = c.ready /\ c1.backlog = c.backlog
        /\ c1.sockeof = TRUE /\ c1.unwritten = 0 /\ c1.n = c.n
  BY DEF Closing, Chan, Alike
<1>2. s \in Work /\ s.c = c /\ s.tx = <<>>
  BY StartType
<1> HIDE DEF s
<1>3. y.c = [c EXCEPT !.sockeof = TRUE, !.unwritten = 0] /\ y.tx = <<>> /\ y \in Work
  BY <1>2 DEF Work, Chan
<1>4. z.c = c1 /\ z.tx = <<>> /\ z \in Work
  BY <1>2, <1>1 DEF Work, Closing
<1> HIDE DEF c1
<1>5. z = Start(c1)
  <2> HIDE DEF z
  <2>1. QED
    BY <1>1, <1>4, SameWork
<1>6. y.c.closes = {} /\ c1.halfopen /\ c1.pending_eof
  <2>1. c.closes = {}
    BY DEF Sound
  <2>2. y.c.closes = c.closes
    <3> HIDE DEF y
    <3>1. QED
      BY <1>3 DEF Chan
  <2>3. c1.halfopen /\ c1.pending_eof
    BY <1>1 DEF Alike
  <2>4. QED
    BY <2>1, <2>2, <2>3
<1>7. WriteEof(y) = z
  <2> HIDE DEF y
  <2>1. WriteEof(y) = TryEof([y EXCEPT !.c.pending_eof = TRUE])
    BY <1>6 DEF WriteEof
  <2>2. WriteEof(y) = TryEof(z)
    BY <2>1 DEF z
  <2> HIDE DEF z
  <2>3. TryEof(z) = z
    BY <1>1, <1>4, <1>6 DEF TryEof, Asserts
  <2>4. QED
    BY <2>2, <2>3
<1>8. Sound(c1)
  BY <1>1, <1>6 DEF Sound, Alike
<1>9. WriteEof(y) = Start(c1)
  BY <1>5, <1>7
<1>10. QED
  BY <1>1, <1>8, <1>9, Zenon DEF c1, y, s

LEMMA FailedIs ==
  ASSUME NEW c \in Chan, Sound(c), ~c.fixed
  PROVE  LET c1 == Failed(c)
         IN  /\ c1 \in Chan /\ Alike(c, c1) /\ c1.n = c.n /\ c1.closes = c.closes /\ c1.chan = "zombie"
             /\ c1.remwindow = c.remwindow /\ c1.locwindow = c.locwindow /\ c1.chanreqs = c.chanreqs
             /\ (Within(c) => Within(c1)) /\ c1.fixed = c.fixed
             /\ Sound(c1) /\ (c.halfopen => InitiateClose(Start(c)) = Start(c1))
<1> DEFINE s == Start(c)
<1> DEFINE z == [s EXCEPT !.c.chan = "zombie", !.c.backlog = 0, !.c.input_wanted = FALSE,
                          !.c.socksbuf = 0, !.c.unwritten = 0, !.c.pending_eof = FALSE]
<1> DEFINE c1 == Failed(c)
<1>1. /\ c1 \in Chan /\ Alike(c, c1) /\ c1.closes = c.closes /\ c1.pending_eof = FALSE
        /\ c1.throttling_conn = c.throttling_conn
        /\ c1.throttled_by_backlog = c.throttled_by_backlog /\ c1.outbuffer = c.outbuffer
        /\ c1.remwindow = c.remwindow /\ c1.locwindow = c.locwindow
        /\ c1.locmaxwin = c.locmaxwin /\ c1.remlocwin = c.remlocwin
        /\ c1.chanreqs = c.chanreqs /\ c1.throttle_state = c.throttle_state
        /\ c1.fixed = c.fixed /\ c1.chan = "zombie" /\ c1.input_wanted = FALSE
        /\ c1.socksbuf = 0 /\ c1.ready = c.ready /\ c1.backlog = 0 /\ c1.sockeof = c.sockeof
        /\ c1.unwritten = 0 /\ c1.n = c.n
  BY DEF Failed, Chan, Alike
<1>2. s \in Work /\ s.c = c /\ s.tx = <<>>
  BY StartType
<1> HIDE DEF s
<1>3. z.c = c1 /\ z.tx = <<>> /\ z \in Work
  BY <1>2, <1>1 DEF Work, Failed
<1>4. InitiateClose(s) = CheckClose(z)
  BY DEF InitiateClose
<1> HIDE DEF c1, z
<1>5. z = Start(c1)
  BY <1>1, <1>3, SameWork
<1>6. c.halfopen => CheckClose(z) = z
  BY <1>1, <1>3 DEF CheckClose, Alike
<1>7. Sound(c1)
  BY <1>1 DEF Sound, Alike
<1>8. Within(c) => Within(c1)
  <2>1. c.locwindow \in Nat /\ c.backlog \in Nat /\ c.locmaxwin \in Nat
    BY DEF Chan
  <2>2. QED
    BY <1>1, <2>1 DEF Within
<1>9. c.halfopen => InitiateClose(s) = Start(c1)
  BY <1>4, <1>5, <1>6
<1>10. QED
  BY <1>1, <1>7, <1>8, <1>9, Zenon DEF c1, s

LEMMA SocketClosingDone ==
  ASSUME NEW m \in Setting, NEW m1 \in Setting, NEW c \in Chan, Meets(c, m), Stays(m, m1),
         c.chan = "socket", ~c.fixed, ~c.sockeof, NEW len \in 0..c.unwritten,
         m.cut => m1.cut, len > 0 /\ ~c.ready => m1.cut,
         ~m1.cut => m1.t = m.t /\ m1.s.owed = m.s.owed + len /\ m1.s.eof /\ m1.s.ended = m.s.ended
  PROVE  LET y == [Start(c) EXCEPT !.c.sockeof = TRUE, !.c.unwritten = 0]
         IN  Done(WriteEof(IF len > 0 /\ c.ready THEN Write(y, len) ELSE y), m1)
<1> DEFINE s == Start(c)
<1> DEFINE y == [s EXCEPT !.c.sockeof = TRUE, !.c.unwritten = 0]
<1> DEFINE cy == [c EXCEPT !.sockeof = TRUE, !.unwritten = 0]
<1> DEFINE z == IF len > 0 /\ c.ready THEN Write(y, len) ELSE y
<1>1. /\ m.d \in Chan /\ m.q \in Seq(Pkt) /\ m.r \in Seq(Pkt) /\ Data(m.q) \in Nat
      /\ Sound(c) /\ (m.fixed \/ Within(c)) /\ m.s \in Stream /\ m1.s \in Stream
      /\ (m.cut \/ (Carried(c, m.d, m.q, m.s) /\ Carried(m.d, c, m.r, m.t)))
  BY StaysType
<1>2. /\ c.unwritten \in Nat /\ c.outbuffer \in Nat /\ c.socksbuf \in Nat /\ len \in Nat
      /\ c.outbuffer + len \in Nat /\ "SENT_EOF" \notin c.closes /\ ~c.pending_eof
  <2>1. c.unwritten \in Nat /\ c.outbuffer \in Nat /\ c.socksbuf \in Nat
    BY DEF Chan
  <2>2. "SENT_EOF" \notin c.closes /\ ~c.pending_eof
    BY <1>1 DEF Sound
  <2>3. QED
    BY <2>1, <2>2
\* The streams, when c1 has more to send by extra, and the socket has ended.
<1>3. ASSUME NEW c1 \in Chan, c1.outbuffer = c.outbuffer + len \/ (m1.cut \/ len = 0),
             c1.outbuffer = c.outbuffer \/ c1.outbuffer = c.outbuffer + len,
             c1.chan = c.chan, c1.socksbuf = c.socksbuf, c1.closes = c.closes, c1.fixed = c.fixed
      PROVE  m1.cut \/ (Carried(c1, m.d, m.q, m1.s) /\ Carried(m.d, c1, m.r, m1.t))
  <2>1. ASSUME ~m1.cut
        PROVE  Carried(c1, m.d, m.q, m1.s) /\ Carried(m.d, c1, m.r, m1.t)
    <3>1. Carried(c, m.d, m.q, m.s) /\ Carried(m.d, c, m.r, m.t)
      BY <1>1, <2>1, Zenon
    <3>2. m1.s.owed = m.s.owed + len /\ m1.s.eof /\ m1.s.ended = m.s.ended
      BY <2>1
    <3>3. c1.outbuffer = c.outbuffer + len
      BY <1>2, <1>3, <2>1
    <3>4. m1.s.owed = c1.socksbuf + c1.outbuffer + Data(m.q)
      BY <1>1, <1>2, <1>3, <3>1, <3>2, <3>3 DEF Carried
    <3>5. Carried(c1, m.d, m.q, m1.s)
      BY <1>2, <1>3, <3>1, <3>2, <3>4 DEF Carried
    <3>6. Carried(m.d, c1, m.r, m1.t)
      BY <1>3, <2>1, <3>1 DEF Carried
    <3>7. QED
      BY <3>5, <3>6
  <2>2. QED
    BY <2>1
<1>4. CASE c.halfopen
  <2>1. ~c.ready
    BY <1>1, <1>4 DEF Sound
  <2> DEFINE c1 == Closing(c)
  <2>2. /\ c1 \in Chan /\ Alike(c, c1) /\ c1.n = c.n /\ c1.closes = c.closes /\ c1.chan = c.chan
        /\ c1.remwindow = c.remwindow /\ c1.locwindow = c.locwindow /\ c1.chanreqs = c.chanreqs
        /\ c1.locmaxwin = c.locmaxwin /\ c1.backlog = c.backlog /\ c1.fixed = c.fixed
        /\ c1.throttling_conn = c.throttling_conn /\ c1.outbuffer = c.outbuffer
        /\ c1.socksbuf = c.socksbuf /\ Sound(c1) /\ WriteEof(y) = Start(c1)
    BY <1>1, <1>4, ClosingIs, Zenon
  <2> HIDE DEF c1
  <2>3. m.fixed \/ Within(c1)
    BY <1>1, <2>2 DEF Within
  <2>4. m1.cut \/ (Carried(c1, m.d, m.q, m1.s) /\ Carried(m.d, c1, m.r, m1.t))
    <3>1. c1.outbuffer = c.outbuffer + len \/ (m1.cut \/ len = 0)
      BY <1>2, <2>1
    <3>2. QED
      BY <1>3, <2>2, <3>1
  <2>5. Meets(c1, m1)
    BY <2>2, <2>3, <2>4, MeetsStill
  <2>6. Done(Start(c1), m1)
    BY <2>2, <2>5, StartDone
  <2>7. z = y
    BY <2>1
  <2>8. Done(WriteEof(z), m1)
    BY <2>2, <2>6, <2>7
  <2>9. QED
    BY <2>8 DEF z, y, s
<1>5. CASE ~c.halfopen
  <2>1. s \in Work /\ s.c = c /\ s.tx = <<>>
    BY StartType
  <2> HIDE DEF s
  <2>2. /\ cy \in Chan /\ Alike(c, cy) /\ cy.closes = c.closes
        /\ cy.pending_eof = c.pending_eof /\ cy.throttling_conn = c.throttling_conn
        /\ cy.throttled_by_backlog = c.throttled_by_backlog /\ cy.outbuffer = c.outbuffer
        /\ cy.remwindow = c.remwindow /\ cy.locwindow = c.locwindow
        /\ cy.locmaxwin = c.locmaxwin /\ cy.remlocwin = c.remlocwin
        /\ cy.chanreqs = c.chanreqs /\ cy.throttle_state = c.throttle_state
        /\ cy.fixed = c.fixed /\ cy.chan = c.chan /\ cy.input_wanted = c.input_wanted
        /\ cy.socksbuf = c.socksbuf /\ cy.ready = c.ready /\ cy.backlog = c.backlog
        /\ cy.sockeof = TRUE /\ cy.unwritten = 0 /\ cy.n = c.n
    BY DEF Chan, Alike
  <2>3. y.c = cy /\ y.tx = <<>> /\ y \in Work
    BY <2>1, <2>2 DEF Work
  <2> HIDE DEF cy, y
  <2>4. ~y.c.pending_eof /\ "SENT_EOF" \notin y.c.closes /\ y.c.chan = "socket" /\ y.c.sockeof
    BY <1>2, <2>2, <2>3
  <2>5. Mid(z, m1) /\ z.c.chan = "socket" /\ z.c.sockeof /\ "SENT_EOF" \notin z.c.closes
    <3>1. CASE len > 0 /\ c.ready
      <4> DEFINE x == [y EXCEPT !.c.outbuffer = @ + len]
      <4> DEFINE c1 == [cy EXCEPT !.outbuffer = cy.outbuffer + len]
      <4>1. /\ c1 \in Chan /\ Alike(cy, c1) /\ c1.closes = cy.closes
        /\ c1.pending_eof = cy.pending_eof /\ c1.throttling_conn = cy.throttling_conn
        /\ c1.throttled_by_backlog = cy.throttled_by_backlog
        /\ c1.outbuffer = cy.outbuffer + len /\ c1.remwindow = cy.remwindow
        /\ c1.locwindow = cy.locwindow /\ c1.locmaxwin = cy.locmaxwin
        /\ c1.remlocwin = cy.remlocwin /\ c1.chanreqs = cy.chanreqs
        /\ c1.throttle_state = cy.throttle_state /\ c1.fixed = cy.fixed /\ c1.chan = cy.chan
        /\ c1.input_wanted = cy.input_wanted /\ c1.socksbuf = cy.socksbuf
        /\ c1.ready = cy.ready /\ c1.backlog = cy.backlog /\ c1.sockeof = cy.sockeof
        /\ c1.unwritten = cy.unwritten /\ c1.n = cy.n
        BY <1>2, <2>2, ZenonT(40) DEF Chan, Alike
      <4>2. x.c = c1 /\ x.tx = <<>> /\ x \in Work
        BY <2>3, <4>1 DEF Work
      <4> HIDE DEF c1, x
      <4>3. x = Start(c1)
        BY <4>2, SameWork
      <4>4. Sound(c1)
        BY <1>1, <1>2, <1>5, <2>2, <4>1 DEF Sound, Alike
      <4>5. m.fixed \/ Within(c1)
        BY <1>1, <2>2, <4>1 DEF Within
      <4>6. m1.cut \/ (Carried(c1, m.d, m.q, m1.s) /\ Carried(m.d, c1, m.r, m1.t))
        BY <1>3, <2>2, <4>1
      <4>7. Mid(x, m1)
        <5>1. Alike(c, c1)
          BY <2>2, <4>1 DEF Alike
        <5>2. c1.n = c.n /\ c1.closes = c.closes /\ c1.chan # "freed" /\ c1.remwindow = c.remwindow
              /\ c1.locwindow = c.locwindow /\ c1.chanreqs = c.chanreqs /\ c1 \in Chan
          BY <2>2, <4>1
        <5>3. QED
          BY <1>5, <4>3, <4>4, <4>5, <4>6, <5>1, <5>2, MeetsStill
      <4>8. Mid([y EXCEPT !.c.outbuffer = @ + len], m1)
        BY <4>7 DEF x
      <4>9. Mid(Write(y, len), m1)
        BY <1>2, <2>3, <2>4, <4>8, WriteMid
      <4>10. /\ Write(y, len).c.chan = y.c.chan /\ Write(y, len).c.sockeof = y.c.sockeof
             /\ Write(y, len).c.closes = y.c.closes
        BY <1>2, <2>3, <2>4, WriteKeeps
      <4>11. z = Write(y, len)
        BY <3>1
      <4> HIDE DEF z
      <4>12. QED
        BY <2>4, <4>9, <4>10, <4>11
    <3>2. CASE ~(len > 0 /\ c.ready)
      <4>1. Sound(cy)
        BY <1>1, <1>2, <1>5, <2>2 DEF Sound, Alike
      <4>2. m.fixed \/ Within(cy)
        BY <1>1, <2>2 DEF Within
      <4>3. m1.cut \/ (Carried(cy, m.d, m.q, m1.s) /\ Carried(m.d, cy, m.r, m1.t))
        <5>1. m1.cut \/ len = 0
          BY <1>2, <3>2
        <5>2. QED
          BY <1>3, <2>2, <5>1
      <4>4. y = Start(cy)
        BY <2>2, <2>3, SameWork
      <4>5. Mid(y, m1)
        <5>1. cy.n = c.n /\ cy.closes = c.closes /\ cy.chan # "freed" /\ cy.remwindow = c.remwindow
              /\ cy.locwindow = c.locwindow /\ cy.chanreqs = c.chanreqs /\ cy \in Chan /\ Alike(c, cy)
          BY <2>2
        <5>2. QED
          BY <1>5, <4>1, <4>2, <4>3, <4>4, <5>1, MeetsStill
      <4>6. z = y
        BY <3>2
      <4> HIDE DEF z
      <4>7. QED
        BY <2>4, <4>5, <4>6
    <3>3. QED
      BY <3>1, <3>2
  <2> HIDE DEF z
  <2>6. z \in Work
    BY <2>5 DEF Mid
  <2>7. Mid([z EXCEPT !.c.pending_eof = TRUE], m1)
    <3>1. z.c.chan # "zombie"
      BY <2>5
    <3>2. QED
      BY <2>5, <3>1, PendingMid
  <2>8. Mid(WriteEof(z), m1)
    BY <2>5, <2>6, <2>7, WriteEofMid
  <2>9. Done(WriteEof(z), m1)
    BY <2>8, MidDone
  <2>10. QED
    BY <2>9 DEF z, y, s
<1>6. QED
  BY <1>4, <1>5

LEMMA SocketErrorDone ==
  ASSUME NEW m \in Setting, NEW m1 \in Setting, NEW c \in Chan, Meets(c, m), Stays(m, m1),
         ~c.fixed, m1.cut
  PROVE  Done(InitiateClose(Start(c)), m1)
<1> DEFINE c1 == Failed(c)
<1>1. Sound(c) /\ (m.fixed \/ Within(c)) /\ c.chan # "freed"
  BY StaysType
<1>2. CASE c.halfopen
  <2>1. /\ c1 \in Chan /\ Alike(c, c1) /\ c1.n = c.n /\ c1.closes = c.closes /\ c1.chan = "zombie"
        /\ c1.remwindow = c.remwindow /\ c1.locwindow = c.locwindow /\ c1.chanreqs = c.chanreqs
        /\ (Within(c) => Within(c1)) /\ Sound(c1) /\ InitiateClose(Start(c)) = Start(c1)
    BY <1>1, <1>2, FailedIs
  <2> HIDE DEF c1
  <2>2. m.fixed \/ Within(c1)
    BY <1>1, <2>1
  <2>3. Meets(c1, m1)
    BY <2>1, <2>2, MeetsStill
  <2>4. QED
    BY <2>1, <2>3, StartDone
<1>3. CASE ~c.halfopen
  <2>1. Mid(Start(c), m1)
    <3>1. Alike(c, c)
      BY DEF Alike
    <3>2. QED
      BY <1>1, <1>3, <3>1, MeetsStill
  <2>2. Start(c).c = c
    BY StartType
  <2>3. Mid(InitiateClose(Start(c)), m1)
    BY <2>1, <2>2, InitiateCloseMid
  <2>4. QED
    BY <2>3, MidDone
<1>4. QED
  BY <1>2, <1>3

LEMMA SocketSentDone ==
  ASSUME NEW m \in Setting, NEW c \in Chan, Meets(c, m), c.chan = "socket",
         NEW bufsize \in 0..(c.backlog - 1)
  PROVE  Done(Unthrottle([Start(c) EXCEPT !.c.backlog = bufsize], bufsize), m)
<1> DEFINE s == Start(c)
<1> DEFINE x == [s EXCEPT !.c.backlog = bufsize]
<1> DEFINE c1 == [c EXCEPT !.backlog = bufsize]
<1>1. Stays(m, m)
  BY DEF Stays
<1>2. /\ Sound(c) /\ (m.fixed \/ Within(c))
      /\ (m.cut \/ (Carried(c, m.d, m.q, m.s) /\ Carried(m.d, c, m.r, m.t)))
  BY <1>1, StaysType
<1>3. c.backlog \in Nat /\ bufsize \in Nat /\ c.locwindow \in Nat /\ c.locmaxwin \in Nat
  BY DEF Chan
<1>4. ~c.halfopen
  BY <1>2, <1>3 DEF Sound
<1>5. s \in Work /\ s.c = c /\ s.tx = <<>>
  BY StartType
<1> HIDE DEF s
<1>6. /\ c1 \in Chan /\ Alike(c, c1) /\ c1.closes = c.closes
        /\ c1.pending_eof = c.pending_eof /\ c1.throttling_conn = c.throttling_conn
        /\ c1.throttled_by_backlog = c.throttled_by_backlog /\ c1.outbuffer = c.outbuffer
        /\ c1.remwindow = c.remwindow /\ c1.locwindow = c.locwindow
        /\ c1.locmaxwin = c.locmaxwin /\ c1.remlocwin = c.remlocwin
        /\ c1.chanreqs = c.chanreqs /\ c1.throttle_state = c.throttle_state
        /\ c1.fixed = c.fixed /\ c1.chan = c.chan /\ c1.input_wanted = c.input_wanted
        /\ c1.socksbuf = c.socksbuf /\ c1.ready = c.ready /\ c1.backlog = bufsize
        /\ c1.sockeof = c.sockeof /\ c1.unwritten = c.unwritten /\ c1.n = c.n
  BY <1>3 DEF Chan, Alike
<1>7. x.c = c1 /\ x.tx = <<>> /\ x \in Work
  BY <1>5, <1>6 DEF Work
<1> HIDE DEF c1, x
<1>8. x = Start(c1)
  BY <1>7, SameWork
<1>9. Sound(c1)
  BY <1>2, <1>4, <1>6 DEF Sound, Alike
<1>10. m.fixed \/ Within(c1)
  BY <1>2, <1>3, <1>6 DEF Within
<1>11. m.cut \/ (Carried(c1, m.d, m.q, m.s) /\ Carried(m.d, c1, m.r, m.t))
  BY <1>2, <1>6 DEF Carried
<1>12. Mid(x, m)
  <2>1. c1.n = c.n /\ c1.closes = c.closes /\ c1.chan # "freed" /\ c1.remwindow = c.remwindow
        /\ c1.locwindow = c.locwindow /\ c1.chanreqs = c.chanreqs /\ c1 \in Chan /\ Alike(c, c1)
    BY <1>6
  <2>2. QED
    BY <1>1, <1>4, <1>8, <1>9, <1>10, <1>11, <2>1, MeetsStill
<1>13. x.c.backlog = bufsize
  BY <1>6, <1>7
<1>14. Mid(Unthrottle(x, bufsize), m)
  BY <1>3, <1>12, <1>13, UnthrottleMid
<1>15. Done(Unthrottle(x, bufsize), m)
  BY <1>14, MidDone
<1>16. QED
  BY <1>15 DEF x, s

-----------------------------------------------------------------------------
(* The steps that handle a packet of a channel *)

\* The channel before the step, and after it, without the packet or, for a socket, with all.
Before(e, g, n) == Around(e, g, Of(net[e], n), Of(net[Other(e)], n), stream[n])
Relieved(e, g, n) == Around(e, g, Of(net[e], n), Tail(Of(net[Other(e)], n)), stream'[n])
Beside(e, g, n) == Around(e, g, Of(net[e], n), Of(net[Other(e)], n), stream'[n])

\* m and m1 have these streams.
Carry(e, n, m, m1) ==
  /\ m.cut = stream[n].cut /\ m.s = stream[n].from[e] /\ m.t = stream[n].from[Other(e)]
  /\ m1.cut = stream'[n].cut /\ m1.s = stream'[n].from[e] /\ m1.t = stream'[n].from[Other(e)]
  /\ (m.cut <=> stream[n].cut) /\ (m1.cut <=> stream'[n].cut)

LEMMA Arrives ==
  ASSUME IInv, NEW e \in End, NEW p \in Pkt, FirstOf(e, p), NEW g \in [End -> Chan],
         \A b \in End : Side(b, p.n, g), g[e].chan # "freed", StreamFits(p.n)
  PROVE  LET m == Before(e, g, p.n)
             m1 == Relieved(e, g, p.n)
         IN  /\ m \in Setting /\ m1 \in Setting /\ Meets(g[e], m) /\ Taken(m, m1) /\ m.r[1] = p
             /\ Carry(e, p.n, m, m1)
<1> DEFINE n == p.n
<1> DEFINE q == Of(net[e], n)
<1> DEFINE r == Of(net[Other(e)], n)
<1> DEFINE r1 == Tail(r)
<1> DEFINE m == Before(e, g, n)
<1> DEFINE m1 == Relieved(e, g, n)
<1>1. TypeOK /\ n \in 1..MaxOpens
  BY DEF IInv, Pkt
<1>2. q \in Seq(Pkt) /\ stream[n] \in History
  BY <1>1, TypeIs
<1>3. r \in Seq(Pkt) /\ r # <<>> /\ r[1] = p
  BY <1>1, FirstPicked
<1>4. r1 \in Seq(Pkt) /\ stream'[n] \in History
  BY <1>1, <1>3 DEF StreamFits
<1>5. Meets(g[e], m)
  BY <1>1, JoinedMeets DEF Before
<1>6. m = Around(e, g, q, r, stream[n]) /\ m1 = Around(e, g, q, r1, stream'[n])
  BY DEF Before, Relieved
<1>7. r1 = Tail(r)
  OBVIOUS
<1> HIDE DEF m, m1, q, r, r1, n
<1>8. /\ m \in Setting /\ m.id = g[e].localid /\ m.d = g[Other(e)] /\ m.q = q /\ m.r = r
      /\ (m.fixed <=> e \in FixedEnds) /\ (m.cut <=> stream[n].cut) /\ m.cut = stream[n].cut
      /\ m.s = stream[n].from[e] /\ m.t = stream[n].from[Other(e)]
  BY <1>2, <1>3, <1>6, AroundIs
<1>9. /\ m1 \in Setting /\ m1.id = g[e].localid /\ m1.d = g[Other(e)] /\ m1.q = q /\ m1.r = r1
      /\ (m1.fixed <=> e \in FixedEnds) /\ (m1.cut <=> stream'[n].cut) /\ m1.cut = stream'[n].cut
      /\ m1.s = stream'[n].from[e] /\ m1.t = stream'[n].from[Other(e)]
  BY <1>2, <1>4, <1>6, AroundIs
<1>10. m1.fixed = m.fixed
  <2>1. m.fixed \in BOOLEAN /\ m1.fixed \in BOOLEAN
    BY <1>8, <1>9, SettingType
  <2>2. QED
    BY <1>8, <1>9, <2>1
<1>11. Taken(m, m1)
  BY <1>3, <1>7, <1>8, <1>9, <1>10, Zenon DEF Taken
<1>12. Carry(e, n, m, m1) /\ m.r[1] = p
  BY <1>3, <1>8, <1>9, Zenon DEF Carry
<1>13. QED
  BY <1>5, <1>8, <1>9, <1>11, <1>12, Zenon DEF m, m1, n

\* What the handlers do to the streams.
LEMMA CarrySame ==
  ASSUME UNCHANGED stream, NEW e, NEW n, NEW m, NEW m1, Carry(e, n, m, m1)
  PROVE  SameStreams(m, m1)
BY DEF Carry, SameStreams

LEMMA CarryData ==
  ASSUME TypeOK, CutFrom, NEW e \in End, NEW n \in 1..MaxOpens, NEW len \in Nat,
         stream' = Log(n, [stream[n] EXCEPT !.from[Other(e)].owed = @ - len])
  PROVE  /\ StreamFits(n)
         /\ \A m, m1 : Carry(e, n, m, m1) =>
              /\ m1.cut = m.cut /\ m1.s = m.s
              /\ ~m.cut => m1.t.owed = m.t.owed - len /\ m1.t.eof = m.t.eof /\ m1.t.ended = m.t.ended
<1> DEFINE f == Other(e)
<1> DEFINE s == [stream[n] EXCEPT !.from[f].owed = @ - len]
<1>1. f \in End /\ f # e
  BY OtherEnd
<1>2. stream[n] \in History
  BY TypeIs
<1> HIDE DEF f
<1>3. s \in History
  BY <1>1, <1>2 DEF History, Stream
<1>4. /\ s.cut = stream[n].cut /\ s.from[e] = stream[n].from[e]
      /\ s.from[f].owed = stream[n].from[f].owed - len /\ s.from[f].eof = stream[n].from[f].eof
      /\ s.from[f].ended = stream[n].from[f].ended
  BY <1>1, <1>2 DEF History, Stream
<1>5. stream' = Log(n, s)
  BY DEF f
<1> HIDE DEF s
<1>6. /\ StreamFits(n) /\ stream'[n].cut = stream[n].cut
      /\ stream'[n] = IF stream[n].cut THEN stream[n] ELSE s
  BY <1>3, <1>4, <1>5, StreamLogged
<1>7. /\ stream'[n].from[e] = stream[n].from[e]
      /\ ~stream[n].cut => /\ stream'[n].from[f].owed = stream[n].from[f].owed - len
                           /\ stream'[n].from[f].eof = stream[n].from[f].eof
                           /\ stream'[n].from[f].ended = stream[n].from[f].ended
  BY <1>4, <1>6
<1>8. QED
  BY <1>6, <1>7, Zenon DEF Carry, f

LEMMA CarryEnded ==
  ASSUME TypeOK, CutFrom, NEW e \in End, NEW c, c.n \in 1..MaxOpens, stream' = Ended(e, c)
  PROVE  /\ StreamFits(c.n)
         /\ \A m, m1 : Carry(e, c.n, m, m1) =>
              /\ c.fixed \/ m.cut => m1.cut
              /\ ~m1.cut => m1.s = m.s /\ m1.t.owed = m.t.owed /\ m1.t.eof = m.t.eof
<1> DEFINE f == Other(e)
<1> DEFINE n == c.n
<1> DEFINE s == [stream[n] EXCEPT !.from[f].ended = TRUE]
<1>1. f \in End /\ f # e
  BY OtherEnd
<1>2. stream[n] \in History
  BY TypeIs
<1>3. CASE c.fixed
  <2>1. stream' = Cut(n, FALSE)
    BY <1>3 DEF Ended
  <2>2. StreamFits(n) /\ stream'[n].cut
    BY <2>1, StreamCut
  <2>3. QED
    BY <2>2, Zenon DEF Carry
<1>4. CASE ~c.fixed
  <2>1. stream' = Log(n, s)
    BY <1>4 DEF Ended
  <2> HIDE DEF f, n
  <2>2. s \in History
    BY <1>1, <1>2 DEF History, Stream
  <2>3. /\ s.cut = stream[n].cut /\ s.from[e] = stream[n].from[e]
        /\ s.from[f].owed = stream[n].from[f].owed /\ s.from[f].eof = stream[n].from[f].eof
    BY <1>1, <1>2 DEF History, Stream
  <2> HIDE DEF s
  <2>4. /\ StreamFits(n) /\ stream'[n].cut = stream[n].cut
        /\ stream'[n] = IF stream[n].cut THEN stream[n] ELSE s
    <3>1. n \in 1..MaxOpens
      BY DEF n
    <3>2. QED
      BY <2>1, <2>2, <2>3, <3>1, StreamLogged
  <2>5. /\ stream'[n].from[e] = stream[n].from[e] /\ stream'[n].from[f].owed = stream[n].from[f].owed
        /\ stream'[n].from[f].eof = stream[n].from[f].eof
    BY <2>3, <2>4
  <2>6. QED
    BY <1>4, <2>4, <2>5, Zenon DEF Carry, f, n
<1>5. QED
  BY <1>3, <1>4

LEMMA AtIs ==
  ASSUME NEW e, NEW id
  PROVE  At(e, id) = Start(channels[e][id])
BY DEF At, Start

LEMMA RcvConfirmationStep ==
  ASSUME IInv, NEW e \in End, RcvConfirmation(e)
  PROVE  IInv'
<1>1. TypeOK /\ CutFrom
  BY DEF IInv
<1>2. PICK p \in Incoming(e, "OPEN_CONFIRMATION") :
        /\ Handled(e, p.to,
             Confirmed([At(e, p.to) EXCEPT !.c.remoteid = p.from, !.c.halfopen = FALSE, !.c.remwindow = p.len]))
        /\ UNCHANGED stream /\ UNCHANGED opens
  BY Zenon DEF RcvConfirmation
<1>3. p \in Pkt /\ FirstOf(e, p) /\ p.type = "OPEN_CONFIRMATION" /\ p.n \in 1..MaxOpens
  BY <1>1, IncomingIs
<1>4. PICK g \in [End -> Chan] :
        /\ \A b \in End : Side(b, p.n, g)
        /\ g[e].chan # "freed" /\ g[e].localid = p.to /\ p.to \in Id /\ channels[e][p.to] = g[e]
  BY <1>3, PacketFor
<1> DEFINE c == g[e]
<1> DEFINE x == Confirmed([Start(c) EXCEPT !.c.remoteid = p.from, !.c.halfopen = FALSE, !.c.remwindow = p.len])
<1> DEFINE m == Before(e, g, p.n)
<1> DEFINE m1 == Relieved(e, g, p.n)
<1>5. At(e, p.to) = Start(c)
  BY <1>4, AtIs
<1>6. Handled(e, p.to, x)
  BY <1>2, <1>5
<1>7. StreamFits(p.n)
  BY <1>1, <1>2, <1>3, StreamKept
<1>8. /\ m \in Setting /\ m1 \in Setting /\ Meets(c, m) /\ Taken(m, m1) /\ m.r[1] = p
      /\ Carry(e, p.n, m, m1)
  BY <1>3, <1>4, <1>7, Arrives
<1>9. SameStreams(m, m1)
  BY <1>2, <1>8, CarrySame
<1>10. Done(x, m1)
  <2>1. c \in Chan /\ m.r[1].type = "OPEN_CONFIRMATION"
    BY <1>3, <1>4, <1>8
  <2> HIDE DEF c, m, m1
  <2>2. Done(Confirmed([Start(c) EXCEPT !.c.remoteid = m.r[1].from, !.c.halfopen = FALSE, !.c.remwindow = m.r[1].len]), m1)
    BY <2>1, <1>8, <1>9, RcvConfirmationDone, Zenon
  <2>3. m.r[1] = p
    BY <1>8
  <2>4. QED
    BY <2>2, <2>3
<1> HIDE DEF x
<1>11. Done(x, Around(e, g, Of(net[e], p.n), Tail(Of(net[Other(e)], p.n)), stream'[p.n]))
  BY <1>10 DEF Relieved
<1>12. QED
  BY <1>2, <1>3, <1>4, <1>6, <1>7, <1>11, StepReceived

LEMMA RcvWindowAdjustStep ==
  ASSUME IInv, NEW e \in End, RcvWindowAdjust(e)
  PROVE  IInv'
<1>1. TypeOK /\ CutFrom
  BY DEF IInv
<1>2. PICK p \in Incoming(e, "WINDOW_ADJUST") :
        /\ Handled(e, p.to,
             IF "SENT_EOF" \in At(e, p.to).c.closes THEN At(e, p.to)
               ELSE TrySendAndUnthrottle([At(e, p.to) EXCEPT !.c.remwindow = @ + p.len]))
        /\ UNCHANGED stream /\ UNCHANGED opens
  BY DEF RcvWindowAdjust
<1>3. p \in Pkt /\ FirstOf(e, p) /\ p.type = "WINDOW_ADJUST" /\ p.n \in 1..MaxOpens
  BY <1>1, IncomingIs
<1>4. PICK g \in [End -> Chan] :
        /\ \A b \in End : Side(b, p.n, g)
        /\ g[e].chan # "freed" /\ g[e].localid = p.to /\ p.to \in Id /\ channels[e][p.to] = g[e]
  BY <1>3, PacketFor
<1> DEFINE c == g[e]
<1> DEFINE x == IF "SENT_EOF" \in Start(c).c.closes THEN Start(c)
               ELSE TrySendAndUnthrottle([Start(c) EXCEPT !.c.remwindow = @ + p.len])
<1> DEFINE m == Before(e, g, p.n)
<1> DEFINE m1 == Relieved(e, g, p.n)
<1>5. At(e, p.to) = Start(c)
  BY <1>4, AtIs
<1>6. Handled(e, p.to, x)
  BY <1>2, <1>5
<1>7. StreamFits(p.n)
  BY <1>1, <1>2, <1>3, StreamKept
<1>8. /\ m \in Setting /\ m1 \in Setting /\ Meets(c, m) /\ Taken(m, m1) /\ m.r[1] = p
      /\ Carry(e, p.n, m, m1)
  BY <1>3, <1>4, <1>7, Arrives
<1>9. SameStreams(m, m1)
  BY <1>2, <1>8, CarrySame
<1>10. Done(x, m1)
  <2>1. c \in Chan /\ m.r[1].type = "WINDOW_ADJUST"
    BY <1>3, <1>4, <1>8
  <2> HIDE DEF c, m, m1
  <2>2. Done(IF "SENT_EOF" \in Start(c).c.closes THEN Start(c)
               ELSE TrySendAndUnthrottle([Start(c) EXCEPT !.c.remwindow = @ + m.r[1].len]), m1)
    BY <2>1, <1>8, <1>9, RcvWindowAdjustDone
  <2>3. m.r[1] = p
    BY <1>8
  <2>4. QED
    BY <2>2, <2>3
<1> HIDE DEF x
<1>11. Done(x, Around(e, g, Of(net[e], p.n), Tail(Of(net[Other(e)], p.n)), stream'[p.n]))
  BY <1>10 DEF Relieved
<1>12. QED
  BY <1>2, <1>3, <1>4, <1>6, <1>7, <1>11, StepReceived

LEMMA RcvRequestStep ==
  ASSUME IInv, NEW e \in End, RcvRequest(e)
  PROVE  IInv'
<1>1. TypeOK /\ CutFrom
  BY DEF IInv
<1>2. PICK p \in Incoming(e, "REQUEST") :
        /\ Handled(e, p.to,
             IF "SENT_CLOSE" \in At(e, p.to).c.closes THEN At(e, p.to)
               ELSE Push(At(e, p.to), [Packet("FAILURE", At(e, p.to).c) EXCEPT !.len = p.len]))
        /\ UNCHANGED stream /\ UNCHANGED opens
  BY DEF RcvRequest
<1>3. p \in Pkt /\ FirstOf(e, p) /\ p.type = "REQUEST" /\ p.n \in 1..MaxOpens
  BY <1>1, IncomingIs
<1>4. PICK g \in [End -> Chan] :
        /\ \A b \in End : Side(b, p.n, g)
        /\ g[e].chan # "freed" /\ g[e].localid = p.to /\ p.to \in Id /\ channels[e][p.to] = g[e]
  BY <1>3, PacketFor
<1> DEFINE c == g[e]
<1> DEFINE x == IF "SENT_CLOSE" \in Start(c).c.closes THEN Start(c)
               ELSE Push(Start(c), [Packet("FAILURE", Start(c).c) EXCEPT !.len = p.len])
<1> DEFINE m == Before(e, g, p.n)
<1> DEFINE m1 == Relieved(e, g, p.n)
<1>5. At(e, p.to) = Start(c)
  BY <1>4, AtIs
<1>6. Handled(e, p.to, x)
  BY <1>2, <1>5
<1>7. StreamFits(p.n)
  BY <1>1, <1>2, <1>3, StreamKept
<1>8. /\ m \in Setting /\ m1 \in Setting /\ Meets(c, m) /\ Taken(m, m1) /\ m.r[1] = p
      /\ Carry(e, p.n, m, m1)
  BY <1>3, <1>4, <1>7, Arrives
<1>9. SameStreams(m, m1)
  BY <1>2, <1>8, CarrySame
<1>10. Done(x, m1)
  <2>1. c \in Chan /\ m.r[1].type = "REQUEST"
    BY <1>3, <1>4, <1>8
  <2> HIDE DEF c, m, m1
  <2>2. Done(IF "SENT_CLOSE" \in Start(c).c.closes THEN Start(c)
               ELSE Push(Start(c), [Packet("FAILURE", Start(c).c) EXCEPT !.len = m.r[1].len]), m1)
    BY <2>1, <1>8, <1>9, RcvRequestDone
  <2>3. m.r[1] = p
    BY <1>8
  <2>4. QED
    BY <2>2, <2>3
<1> HIDE DEF x
<1>11. Done(x, Around(e, g, Of(net[e], p.n), Tail(Of(net[Other(e)], p.n)), stream'[p.n]))
  BY <1>10 DEF Relieved
<1>12. QED
  BY <1>2, <1>3, <1>4, <1>6, <1>7, <1>11, StepReceived

LEMMA RcvFailureStep ==
  ASSUME IInv, NEW e \in End, RcvFailure(e)
  PROVE  IInv'
<1>1. TypeOK /\ CutFrom
  BY DEF IInv
<1>2. PICK p \in Incoming(e, "FAILURE") :
        /\ Handled(e, p.to,
             CheckClose(Replied(At(e, p.to))))
        /\ UNCHANGED stream /\ UNCHANGED opens
  BY DEF RcvFailure
<1>3. p \in Pkt /\ FirstOf(e, p) /\ p.type = "FAILURE" /\ p.n \in 1..MaxOpens
  BY <1>1, IncomingIs
<1>4. PICK g \in [End -> Chan] :
        /\ \A b \in End : Side(b, p.n, g)
        /\ g[e].chan # "freed" /\ g[e].localid = p.to /\ p.to \in Id /\ channels[e][p.to] = g[e]
  BY <1>3, PacketFor
<1> DEFINE c == g[e]
<1> DEFINE x == CheckClose(Replied(Start(c)))
<1> DEFINE m == Before(e, g, p.n)
<1> DEFINE m1 == Relieved(e, g, p.n)
<1>5. At(e, p.to) = Start(c)
  BY <1>4, AtIs
<1>6. Handled(e, p.to, x)
  BY <1>2, <1>5
<1>7. StreamFits(p.n)
  BY <1>1, <1>2, <1>3, StreamKept
<1>8. /\ m \in Setting /\ m1 \in Setting /\ Meets(c, m) /\ Taken(m, m1) /\ m.r[1] = p
      /\ Carry(e, p.n, m, m1)
  BY <1>3, <1>4, <1>7, Arrives
<1>9. SameStreams(m, m1)
  BY <1>2, <1>8, CarrySame
<1>10. Done(x, m1)
  <2>1. c \in Chan /\ m.r[1].type = "FAILURE"
    BY <1>3, <1>4, <1>8
  <2> HIDE DEF c, m, m1
  <2>2. Done(CheckClose(Replied(Start(c))), m1)
    BY <2>1, <1>8, <1>9, RcvFailureDone
  <2>3. m.r[1] = p
    BY <1>8
  <2>4. QED
    BY <2>2, <2>3
<1> HIDE DEF x
<1>11. Done(x, Around(e, g, Of(net[e], p.n), Tail(Of(net[Other(e)], p.n)), stream'[p.n]))
  BY <1>10 DEF Relieved
<1>12. QED
  BY <1>2, <1>3, <1>4, <1>6, <1>7, <1>11, StepReceived

LEMMA RcvEofStep ==
  ASSUME IInv, NEW e \in End, RcvEof(e)
  PROVE  IInv'
<1>1. TypeOK /\ CutFrom
  BY DEF IInv
<1>2. PICK p \in Incoming(e, "EOF") :
        /\ Handled(e, p.to,
             IF "RCVD_EOF" \in At(e, p.to).c.closes THEN At(e, p.to) ELSE CheckClose(GotEof(At(e, p.to))))
        /\ stream' = Ended(e, At(e, p.to).c) /\ UNCHANGED opens
  BY DEF RcvEof
<1>3. p \in Pkt /\ FirstOf(e, p) /\ p.type = "EOF" /\ p.n \in 1..MaxOpens
  BY <1>1, IncomingIs
<1>4. PICK g \in [End -> Chan] :
        /\ \A b \in End : Side(b, p.n, g)
        /\ g[e].chan # "freed" /\ g[e].localid = p.to /\ p.to \in Id /\ channels[e][p.to] = g[e]
  BY <1>3, PacketFor
<1> DEFINE c == g[e]
<1> DEFINE x == IF "RCVD_EOF" \in Start(c).c.closes THEN Start(c) ELSE CheckClose(GotEof(Start(c)))
<1> DEFINE m == Before(e, g, p.n)
<1> DEFINE m1 == Relieved(e, g, p.n)
<1>5. At(e, p.to) = Start(c)
  BY <1>4, AtIs
<1>6. Handled(e, p.to, x)
  BY <1>2, <1>5
<1>7. StreamFits(p.n) /\ (Carry(e, p.n, m, m1) =>
        /\ c.fixed \/ m.cut => m1.cut
        /\ ~m1.cut => m1.s = m.s /\ m1.t.owed = m.t.owed /\ m1.t.eof = m.t.eof)
  <2>1. c.n = p.n
    BY <1>4 DEF Side
  <2>2. At(e, p.to).c = c
    BY <1>5, StartType, <1>4
  <2>3. stream' = Ended(e, c)
    BY <1>2, <2>2
  <2> HIDE DEF c, m, m1
  <2>4. QED
    BY <1>1, <1>3, <2>1, <2>3, CarryEnded
<1>8. /\ m \in Setting /\ m1 \in Setting /\ Meets(c, m) /\ Taken(m, m1) /\ m.r[1] = p
      /\ Carry(e, p.n, m, m1)
  BY <1>3, <1>4, <1>7, Arrives
<1>9. /\ c.fixed \/ m.cut => m1.cut
      /\ ~m1.cut => m1.s = m.s /\ m1.t.owed = m.t.owed /\ m1.t.eof = m.t.eof
  BY <1>7, <1>8
<1>10. Done(x, m1)
  <2>1. c \in Chan /\ m.r[1].type = "EOF"
    BY <1>3, <1>4, <1>8
  <2> HIDE DEF c, m, m1
  <2>2. Done(IF "RCVD_EOF" \in Start(c).c.closes THEN Start(c) ELSE CheckClose(GotEof(Start(c))), m1)
    BY <2>1, <1>8, <1>9, RcvEofDone
  <2>3. m.r[1] = p
    BY <1>8
  <2>4. QED
    BY <2>2, <2>3
<1> HIDE DEF x
<1>11. Done(x, Around(e, g, Of(net[e], p.n), Tail(Of(net[Other(e)], p.n)), stream'[p.n]))
  BY <1>10 DEF Relieved
<1>12. QED
  BY <1>2, <1>3, <1>4, <1>6, <1>7, <1>11, StepReceived

LEMMA RcvCloseStep ==
  ASSUME IInv, NEW e \in End, RcvClose(e)
  PROVE  IInv'
<1>1. TypeOK /\ CutFrom
  BY DEF IInv
<1>2. PICK p \in Incoming(e, "CLOSE") :
        /\ Handled(e, p.to,
             GotClose(Ending(AllReplied(GotEof(At(e, p.to))))))
        /\ stream' = Ended(e, At(e, p.to).c) /\ UNCHANGED opens
  BY DEF RcvClose
<1>3. p \in Pkt /\ FirstOf(e, p) /\ p.type = "CLOSE" /\ p.n \in 1..MaxOpens
  BY <1>1, IncomingIs
<1>4. PICK g \in [End -> Chan] :
        /\ \A b \in End : Side(b, p.n, g)
        /\ g[e].chan # "freed" /\ g[e].localid = p.to /\ p.to \in Id /\ channels[e][p.to] = g[e]
  BY <1>3, PacketFor
<1> DEFINE c == g[e]
<1> DEFINE x == GotClose(Ending(AllReplied(GotEof(Start(c)))))
<1> DEFINE m == Before(e, g, p.n)
<1> DEFINE m1 == Relieved(e, g, p.n)
<1>5. At(e, p.to) = Start(c)
  BY <1>4, AtIs
<1>6. Handled(e, p.to, x)
  BY <1>2, <1>5
<1>7. StreamFits(p.n) /\ (Carry(e, p.n, m, m1) =>
        /\ c.fixed \/ m.cut => m1.cut
        /\ ~m1.cut => m1.s = m.s /\ m1.t.owed = m.t.owed /\ m1.t.eof = m.t.eof)
  <2>1. c.n = p.n
    BY <1>4 DEF Side
  <2>2. At(e, p.to).c = c
    BY <1>5, StartType, <1>4
  <2>3. stream' = Ended(e, c)
    BY <1>2, <2>2
  <2> HIDE DEF c, m, m1
  <2>4. QED
    BY <1>1, <1>3, <2>1, <2>3, CarryEnded
<1>8. /\ m \in Setting /\ m1 \in Setting /\ Meets(c, m) /\ Taken(m, m1) /\ m.r[1] = p
      /\ Carry(e, p.n, m, m1)
  BY <1>3, <1>4, <1>7, Arrives
<1>9. /\ c.fixed \/ m.cut => m1.cut
      /\ ~m1.cut => m1.s = m.s /\ m1.t.owed = m.t.owed /\ m1.t.eof = m.t.eof
  BY <1>7, <1>8
<1>10. Done(x, m1)
  <2>1. c \in Chan /\ m.r[1].type = "CLOSE"
    BY <1>3, <1>4, <1>8
  <2> HIDE DEF c, m, m1
  <2>2. Done(GotClose(Ending(AllReplied(GotEof(Start(c))))), m1)
    BY <2>1, <1>8, <1>9, RcvCloseDone
  <2>3. m.r[1] = p
    BY <1>8
  <2>4. QED
    BY <2>2, <2>3
<1> HIDE DEF x
<1>11. Done(x, Around(e, g, Of(net[e], p.n), Tail(Of(net[Other(e)], p.n)), stream'[p.n]))
  BY <1>10, SMTT(30) DEF Relieved
<1>12. QED
  BY <1>2, <1>3, <1>4, <1>6, <1>7, <1>11, StepReceived

LEMMA RcvDataStep ==
  ASSUME IInv, NEW e \in End, RcvData(e)
  PROVE  IInv'
<1>1. TypeOK /\ CutFrom
  BY DEF IInv
<1>2. PICK p \in Incoming(e, "DATA") :
        /\ \E bufsize \in Remains(channels[e][p.to], p.len) :
             LET x == [At(e, p.to) EXCEPT !.c.locwindow = @ - p.len, !.c.remlocwin = @ - p.len]
             IN  Handled(e, p.to, Opened(Grown(Greeted(x), bufsize), bufsize))
        /\ stream' = Log(p.n, [stream[p.n] EXCEPT !.from[Other(e)].owed = @ - p.len])
        /\ UNCHANGED opens
  BY Zenon DEF RcvData
<1>3. p \in Pkt /\ FirstOf(e, p) /\ p.type = "DATA" /\ p.n \in 1..MaxOpens /\ p.len \in Nat
  BY <1>1, IncomingIs DEF Pkt
<1>4. PICK g \in [End -> Chan] :
        /\ \A b \in End : Side(b, p.n, g)
        /\ g[e].chan # "freed" /\ g[e].localid = p.to /\ p.to \in Id /\ channels[e][p.to] = g[e]
  BY <1>3, PacketFor
<1> DEFINE c == g[e]
<1>5. At(e, p.to) = Start(c)
  BY <1>4, AtIs
<1>6. PICK bufsize \in Remains(c, p.len) :
        Handled(e, p.to, Opened(Grown(Greeted(
          [Start(c) EXCEPT !.c.locwindow = @ - p.len, !.c.remlocwin = @ - p.len]), bufsize), bufsize))
  BY <1>2, <1>4, <1>5
<1> DEFINE x == Opened(Grown(Greeted(
          [Start(c) EXCEPT !.c.locwindow = @ - p.len, !.c.remlocwin = @ - p.len]), bufsize), bufsize)
<1> DEFINE m == Before(e, g, p.n)
<1> DEFINE m1 == Relieved(e, g, p.n)
<1>7. StreamFits(p.n) /\ (Carry(e, p.n, m, m1) =>
        /\ m1.cut = m.cut /\ m1.s = m.s
        /\ ~m.cut => m1.t.owed = m.t.owed - p.len /\ m1.t.eof = m.t.eof /\ m1.t.ended = m.t.ended)
  <2> HIDE DEF c, m, m1
  <2>1. QED
    BY <1>1, <1>2, <1>3, CarryData
<1>8. /\ m \in Setting /\ m1 \in Setting /\ Meets(c, m) /\ Taken(m, m1) /\ m.r[1] = p
      /\ Carry(e, p.n, m, m1)
  BY <1>3, <1>4, <1>7, Arrives
<1>9. /\ m1.cut = m.cut /\ m1.s = m.s
      /\ ~m.cut => m1.t.owed = m.t.owed - p.len /\ m1.t.eof = m.t.eof /\ m1.t.ended = m.t.ended
  BY <1>7, <1>8
<1>10. Done(x, m1)
  <2>1. c \in Chan /\ m.r[1].type = "DATA" /\ m.r[1] = p
    BY <1>3, <1>4, <1>8
  <2> HIDE DEF c, m, m1
  <2>2. bufsize \in Remains(c, m.r[1].len)
    BY <1>6, <2>1
  <2>3. Done(Opened(Grown(Greeted([Start(c) EXCEPT !.c.locwindow = @ - m.r[1].len,
                                 !.c.remlocwin = @ - m.r[1].len]), bufsize), bufsize), m1)
    BY <1>8, <1>9, <2>1, <2>2, RcvDataDone, Zenon
  <2>4. QED
    BY <2>1, <2>3
<1>11. Handled(e, p.to, x)
  BY <1>6
<1> HIDE DEF x
<1>12. Done(x, Around(e, g, Of(net[e], p.n), Tail(Of(net[Other(e)], p.n)), stream'[p.n]))
  BY <1>10 DEF Relieved
<1>13. QED
  BY <1>2, <1>3, <1>4, <1>7, <1>11, <1>12, StepReceived, ZenonT(40)

-----------------------------------------------------------------------------
(* The steps of a socket *)

LEMMA Sits ==
  ASSUME IInv, NEW e \in End, NEW n \in 1..MaxOpens, NEW g \in [End -> Chan],
         \A b \in End : Side(b, n, g), g[e].chan # "freed", StreamFits(n)
  PROVE  LET m == Before(e, g, n)
             m1 == Beside(e, g, n)
         IN  /\ m \in Setting /\ m1 \in Setting /\ Meets(g[e], m) /\ Stays(m, m1)
             /\ Carry(e, n, m, m1)
<1> DEFINE q == Of(net[e], n)
<1> DEFINE r == Of(net[Other(e)], n)
<1> DEFINE m == Before(e, g, n)
<1> DEFINE m1 == Beside(e, g, n)
<1>1. TypeOK
  BY DEF IInv
<1>2. q \in Seq(Pkt) /\ stream[n] \in History
  BY <1>1, TypeIs
<1>3. r \in Seq(Pkt)
  BY <1>1, OtherEnd, TypeIs
<1>4. stream'[n] \in History
  BY DEF StreamFits
<1>5. Meets(g[e], m)
  BY <1>1, JoinedMeets DEF Before
<1>6. m = Around(e, g, q, r, stream[n]) /\ m1 = Around(e, g, q, r, stream'[n])
  BY DEF Before, Beside
<1> HIDE DEF m, m1, q, r
<1>7. /\ m \in Setting /\ m.id = g[e].localid /\ m.d = g[Other(e)] /\ m.q = q /\ m.r = r
      /\ (m.fixed <=> e \in FixedEnds) /\ (m.cut <=> stream[n].cut) /\ m.cut = stream[n].cut
      /\ m.s = stream[n].from[e] /\ m.t = stream[n].from[Other(e)]
  BY <1>2, <1>3, <1>6, AroundIs
<1>8. /\ m1 \in Setting /\ m1.id = g[e].localid /\ m1.d = g[Other(e)] /\ m1.q = q /\ m1.r = r
      /\ (m1.fixed <=> e \in FixedEnds) /\ (m1.cut <=> stream'[n].cut) /\ m1.cut = stream'[n].cut
      /\ m1.s = stream'[n].from[e] /\ m1.t = stream'[n].from[Other(e)]
  BY <1>3, <1>2, <1>4, <1>6, AroundIs
<1>9. m1.fixed = m.fixed
  <2>1. m.fixed \in BOOLEAN /\ m1.fixed \in BOOLEAN
    BY <1>7, <1>8, SettingType
  <2>2. QED
    BY <1>7, <1>8, <2>1
<1>10. Stays(m, m1)
  BY <1>7, <1>8, <1>9, Zenon DEF Stays
<1>11. Carry(e, n, m, m1)
  BY <1>7, <1>8, Zenon DEF Carry
<1>12. QED
  BY <1>5, <1>7, <1>8, <1>10, <1>11, Zenon DEF m, m1

\* The phases in which a channel has a socket.
LEMMA SocketFor ==
  ASSUME IInv, NEW e \in End, NEW id \in Id, channels[e][id] # NoChannel
  PROVE  LET c == channels[e][id]
         IN  /\ c \in Chan /\ c.n \in 1..MaxOpens /\ c.localid = id /\ c.chan # "freed" /\ Sound(c)
             /\ \/ Asking(e, c.n) /\ c.halfopen
                \/ \E g \in [End -> Chan] : (\A b \in End : Side(b, c.n, g)) /\ g[e] = c
<1> DEFINE c == channels[e][id]
<1>1. TypeOK /\ Live1
  BY DEF IInv
<1>2. c \in Chan /\ c.n \in 1..MaxOpens
  <2>1. c \in Chan
    BY <1>1, SizeAssumption DEF TypeOK
  <2> HIDE DEF c
  <2>2. QED
    BY <2>1 DEF Chan
<1>3. /\ c.localid = id /\ c.chan # "freed" /\ Sound(c)
      /\ \A j \in Id : channels[e][j] # NoChannel /\ channels[e][j].n = c.n => j = id
  BY <1>1, Zenon DEF Live1
<1>4. Conn(c.n) /\ Holds(e, c.n)
  BY <1>2 DEF IInv, Holds
<1>5. ~Closed(c.n)
  BY <1>4 DEF Closed
<1>6. ASSUME NEW b \in End, Asking(b, c.n)
      PROVE  Asking(e, c.n) /\ c.halfopen
  <2>1. ~Holds(Other(b), c.n)
    BY <1>6 DEF Asking
  <2>2. b = e
    BY <1>4, <2>1, OtherEnd
  <2>3. \E i \in Id : channels[e][i] # NoChannel /\ channels[e][i].n = c.n /\ channels[e][i].halfopen
    BY <1>6, <2>2, Zenon DEF Asking
  <2>4. c.halfopen
    BY <1>3, <2>3
  <2>5. QED
    BY <1>6, <2>2, <2>4
<1>7. ASSUME NEW g \in [End -> Chan], \A b \in End : Side(b, c.n, g)
      PROVE  g[e] = c
  <2>1. g[e].chan # "freed" /\ g[e].localid \in Id /\ channels[e][g[e].localid] = g[e]
    BY <1>4, <1>7 DEF Side
  <2>2. g[e] # NoChannel /\ g[e].n = c.n
    BY <1>7, NotNone DEF Side
  <2>3. g[e].localid = id
    BY <1>3, <2>1, <2>2
  <2>4. QED
    BY <2>1, <2>3
<1>8. \/ Asking(e, c.n) /\ c.halfopen
      \/ \E g \in [End -> Chan] : (\A b \in End : Side(b, c.n, g)) /\ g[e] = c
  BY <1>4, <1>5, <1>6, <1>7 DEF Conn, Joined
<1>9. QED
  BY <1>2, <1>3, <1>8

\* What the sockets do to the streams.
LEMMA CarryWritten ==
  ASSUME TypeOK, CutFrom, NEW e \in End, NEW n \in 1..MaxOpens, NEW len \in Nat,
         stream' = Log(n, [stream[n] EXCEPT !.from[e].owed = @ + len])
           \/ stream' = Log(n, [stream[n] EXCEPT !.from[e].owed = @ + len, !.from[e].eof = TRUE])
  PROVE  /\ StreamFits(n) /\ stream'[n].cut = stream[n].cut
         /\ stream'[n].from[Other(e)] = stream[n].from[Other(e)]
         /\ ~stream'[n].cut =>
              /\ stream'[n].from[e].owed = stream[n].from[e].owed + len
              /\ stream'[n].from[e].ended = stream[n].from[e].ended
              /\ \/ stream'[n].from[e].eof = stream[n].from[e].eof
                    /\ stream' = Log(n, [stream[n] EXCEPT !.from[e].owed = @ + len])
                 \/ stream'[n].from[e].eof
                    /\ stream' = Log(n, [stream[n] EXCEPT !.from[e].owed = @ + len, !.from[e].eof = TRUE])
<1> DEFINE s == [stream[n] EXCEPT !.from[e].owed = @ + len]
<1> DEFINE t == [stream[n] EXCEPT !.from[e].owed = @ + len, !.from[e].eof = TRUE]
<1>1. Other(e) \in End /\ Other(e) # e
  BY OtherEnd
<1>2. stream[n] \in History
  BY TypeIs
<1>3. s \in History /\ t \in History
  <2>1. s \in History
    BY <1>2 DEF History, Stream
  <2>2. t = [s EXCEPT !.from[e].eof = TRUE]
    BY <1>2 DEF History, Stream
  <2> HIDE DEF s, t
  <2>3. QED
    BY <2>1, <2>2 DEF History, Stream
<1>4. /\ s.cut = stream[n].cut /\ s.from[Other(e)] = stream[n].from[Other(e)]
      /\ s.from[e].owed = stream[n].from[e].owed + len /\ s.from[e].eof = stream[n].from[e].eof
      /\ s.from[e].ended = stream[n].from[e].ended
  BY <1>1, <1>2 DEF History, Stream
<1>5. /\ t.cut = stream[n].cut /\ t.from[Other(e)] = stream[n].from[Other(e)]
      /\ t.from[e].owed = stream[n].from[e].owed + len /\ t.from[e].eof
      /\ t.from[e].ended = stream[n].from[e].ended
  BY <1>1, <1>2 DEF History, Stream
<1>6. stream' = Log(n, s) \/ stream' = Log(n, t)
  OBVIOUS
<1> HIDE DEF s, t
<1>7. CASE stream' = Log(n, s)
  <2>1. /\ StreamFits(n) /\ stream'[n].cut = stream[n].cut
        /\ stream'[n] = IF stream[n].cut THEN stream[n] ELSE s
    BY <1>3, <1>4, <1>7, StreamLogged
  <2>2. QED
    BY <1>4, <1>7, <2>1, Zenon DEF s
<1>8. CASE stream' = Log(n, t)
  <2>1. /\ StreamFits(n) /\ stream'[n].cut = stream[n].cut
        /\ stream'[n] = IF stream[n].cut THEN stream[n] ELSE t
    BY <1>3, <1>5, <1>8, StreamLogged
  <2>2. QED
    BY <1>5, <1>8, <2>1, Zenon DEF t
<1>9. QED
  BY <1>6, <1>7, <1>8

\* A step of a channel that the other end has not answered yet.
LEMMA StepAsking ==
  ASSUME IInv, NEW e \in End, NEW id \in Id, NEW c, c = channels[e][id], c # NoChannel,
         NEW n \in 1..MaxOpens, c.n = n, Asking(e, n), NEW c1 \in Chan, c1.n = n, c1.localid = id,
         c1.halfopen, c1.chan # "freed", Sound(c1), e \notin FixedEnds => Within(c1),
         c1.locwindow = c.locwindow, Did(e, id, Start(c1)), UNCHANGED opens, StreamFits(n),
         stream'[n].from[Other(e)] = NoStream,
         ~stream'[n].cut => /\ stream'[n].from[e].owed = c1.socksbuf
                            /\ c1.sockeof => stream'[n].from[e].eof
                            /\ ~stream'[n].from[e].ended /\ c1.chan = "socket"
  PROVE  IInv'
<1> DEFINE x == Start(c1)
<1> DEFINE f == Other(e)
<1>1. TypeOK /\ faults = {} /\ Live1 /\ CutFrom /\ \A k \in 1..MaxOpens : Conn(k) /\ (k > opens => Closed(k))
  BY Zenon DEF IInv
<1>2. x \in Work /\ x.c = c1 /\ x.tx = <<>> /\ x.faults = {}
  BY StartType, WorkType
<1>3. Keep(e, id, x) /\ net' = [net EXCEPT ![e] = @ \o x.tx]
  BY DEF Did
<1> HIDE DEF x
<1>4. f \in End /\ f # e /\ \A b \in End : b = e \/ b = f
  BY OtherEnd
<1>5. x.tx \in Seq(Pkt) /\ \A i \in DOMAIN x.tx : x.tx[i].n = n
  <2>1. <<>> \in Seq(Pkt) /\ DOMAIN <<>> = {}
    OBVIOUS
  <2>2. QED
    BY <1>2, <2>1
<1>6. NetFits(e, n, x.tx) /\ \A b \in End : b # e => net'[b] = net[b]
  BY <1>1, <1>3, <1>5, NetPushed
<1>7. OfOne(e, n, x.tx)
  BY <1>6 DEF OfOne
<1>8. Of(net'[e], n) = Of(net[e], n) /\ Of(net'[f], n) = Of(net[f], n)
  <2>1. Of(net[e], n) \in Seq(Pkt)
    BY <1>1, TypeIs
  <2>2. Of(net[e], n) \o <<>> = Of(net[e], n)
    BY <2>1
  <2>3. Of(net'[e], n) = Of(net[e], n) \o x.tx
    BY <1>6 DEF NetFits
  <2>4. QED
    BY <1>2, <1>4, <1>6, <2>2, <2>3
<1>9. /\ channels' \in [End -> [Id -> Chan \cup {NoChannel}]]
      /\ channels'[e][id] = c1
      /\ \A b \in End, i \in Id : b # e \/ i # id => channels'[b][i] = channels[b][i]
  BY <1>1, <1>2, <1>3, KeepIs
<1> HIDE DEF f
<1>11. n <= opens /\ \A i \in Id : i # id /\ channels[e][i] # NoChannel => channels[e][i].n # n
  BY <1>1 DEF Live1
<1>12. opens' \in 0..MaxOpens /\ opens' >= opens /\ n <= opens'
  BY <1>1, <1>11 DEF TypeOK
<1>15. Asking(e, n)'
  <2>1. /\ ~Holds(f, n) /\ stream'[n].from[f] = NoStream
        /\ \/ /\ Of(net[f], n) = <<>> /\ Len(Of(net[e], n)) = 1 /\ Of(net[e], n)[1].type = "OPEN"
              /\ Of(net[e], n)[1].from = id /\ Of(net[e], n)[1].len = c.locwindow
           \/ /\ Of(net[e], n) = <<>> /\ Len(Of(net[f], n)) = 1
              /\ Of(net[f], n)[1].type = "OPEN_FAILURE" /\ Of(net[f], n)[1].to = id
    <3>1. PICK i \in Id : /\ channels[e][i] # NoChannel /\ channels[e][i].n = n
                          /\ ~Holds(f, n)
                          /\ \/ /\ Of(net[f], n) = <<>> /\ Len(Of(net[e], n)) = 1
                                /\ Of(net[e], n)[1].type = "OPEN" /\ Of(net[e], n)[1].from = i
                                /\ Of(net[e], n)[1].len = channels[e][i].locwindow
                             \/ /\ Of(net[e], n) = <<>> /\ Len(Of(net[f], n)) = 1
                                /\ Of(net[f], n)[1].type = "OPEN_FAILURE" /\ Of(net[f], n)[1].to = i
      BY Zenon DEF Asking, f
    <3>2. i = id
      BY <1>11, <3>1
    <3>3. stream'[n].from[f] = NoStream
      BY DEF f
    <3>4. QED
      BY <3>1, <3>2, <3>3
  <2>2. ~Holds(f, n)'
    BY <1>4, <1>9, <2>1 DEF Holds
  <2>3. channels'[e][id] # NoChannel /\ channels'[e][id].n = n /\ channels'[e][id].halfopen
    BY <1>9, NotNone
  <2>4. \/ /\ Of(net'[f], n) = <<>> /\ Len(Of(net'[e], n)) = 1 /\ Of(net'[e], n)[1].type = "OPEN"
           /\ Of(net'[e], n)[1].from = id /\ Of(net'[e], n)[1].len = channels'[e][id].locwindow
        \/ /\ Of(net'[e], n) = <<>> /\ Len(Of(net'[f], n)) = 1
           /\ Of(net'[f], n)[1].type = "OPEN_FAILURE" /\ Of(net'[f], n)[1].to = id
    BY <1>8, <1>9, <2>1
  <2>5. ~stream'[n].cut => /\ stream'[n].from[e].owed = channels'[e][id].socksbuf
                           /\ channels'[e][id].sockeof => stream'[n].from[e].eof
                           /\ ~stream'[n].from[e].ended /\ channels'[e][id].chan = "socket"
    BY <1>9
  <2>6. QED
    BY <2>1, <2>2, <2>3, <2>4, <2>5, Zenon DEF Asking, f
<1>16. Conn(n)'
  BY <1>15 DEF Conn
<1>17. x.c.localid = id /\ "RCVD_CLOSE" \notin x.c.closes /\ Sound(x.c) /\ (e \notin FixedEnds => Within(x.c))
  BY <1>2, SMTT(30) DEF Sound
<1>18. QED
  BY <1>2, <1>3, <1>7, <1>11, <1>12, <1>16, <1>17, StepOf

LEMMA SocketReceiveStep ==
  ASSUME IInv, NEW e \in End, NEW id \in Id, SocketReceive(e, id)
  PROVE  IInv'
<1> DEFINE c == channels[e][id]
<1> DEFINE n == c.n
<1>1. TypeOK /\ CutFrom
  BY DEF IInv
<1>2. At(e, id) = Start(c) /\ Start(c).c = c
  BY AtIs, SMTT(30) DEF Start
<1>3. /\ c # NoChannel /\ ~c.fixed /\ c.chan = "socket" /\ c.input_wanted /\ ~c.sockeof
      /\ UNCHANGED opens
      /\ \E len \in 1..c.unwritten :
           /\ Did(e, id, Write([Start(c) EXCEPT !.c.unwritten = @ - len], len))
           /\ stream' = Log(n, [stream[n] EXCEPT !.from[e].owed = @ + len])
  BY <1>2, ZenonT(40) DEF SocketReceive, Socket
<1>4. PICK len \in 1..c.unwritten :
           /\ Did(e, id, Write([Start(c) EXCEPT !.c.unwritten = @ - len], len))
           /\ stream' = Log(n, [stream[n] EXCEPT !.from[e].owed = @ + len])
  BY <1>3, ZenonT(40)
<1>5. /\ c \in Chan /\ n \in 1..MaxOpens /\ c.localid = id /\ c.chan # "freed" /\ Sound(c)
      /\ \/ Asking(e, n) /\ c.halfopen
         \/ \E g \in [End -> Chan] : (\A b \in End : Side(b, n, g)) /\ g[e] = c
  BY <1>3, SocketFor, SMTT(30)
<1>6. PICK g \in [End -> Chan] : (\A b \in End : Side(b, n, g)) /\ g[e] = c
  BY <1>3, <1>5 DEF Sound
<1> DEFINE x == Write([Start(c) EXCEPT !.c.unwritten = @ - len], len)
<1> DEFINE m == Before(e, g, n)
<1> DEFINE m1 == Beside(e, g, n)
<1> HIDE DEF c
<1>7. len \in Nat
  BY <1>5, SMTT(30) DEF Chan
<1>8. /\ StreamFits(n) /\ stream'[n].cut = stream[n].cut
      /\ stream'[n].from[Other(e)] = stream[n].from[Other(e)]
  BY <1>1, <1>4, <1>5, <1>7, CarryWritten, ZenonT(40)
<1>9. ~stream'[n].cut => /\ stream'[n].from[e].owed = stream[n].from[e].owed + len
                         /\ stream'[n].from[e].eof = stream[n].from[e].eof
                         /\ stream'[n].from[e].ended = stream[n].from[e].ended
  <2>1. stream[n] \in History
    BY <1>1, <1>5, TypeIs
  <2>2. ~stream[n].cut => stream' = [stream EXCEPT ![n] = [stream[n] EXCEPT !.from[e].owed = @ + len]]
    BY <1>4 DEF Log
  <2>3. ~stream[n].cut => stream'[n] = [stream[n] EXCEPT !.from[e].owed = @ + len]
    BY <1>1, <1>5, <2>2 DEF TypeOK
  <2>4. QED
    BY <1>8, <2>1, <2>3 DEF History, Stream
<1>10. /\ m \in Setting /\ m1 \in Setting /\ Meets(c, m) /\ Stays(m, m1) /\ Carry(e, n, m, m1)
  BY <1>5, <1>6, <1>8, Sits
<1>11. /\ m.cut => m1.cut
       /\ m1.t = m.t
       /\ ~m1.cut => m1.s.owed = m.s.owed + len /\ m1.s.eof = m.s.eof /\ m1.s.ended = m.s.ended
  <2> HIDE DEF m, m1, n
  <2>1. QED
    BY <1>8, <1>9, <1>10, Zenon DEF Carry
<1>12. Done(x, m1)
  <2> HIDE DEF m, m1
  <2>1. QED
    BY <1>3, <1>4, <1>5, <1>10, <1>11, SocketReceiveDone
<1> HIDE DEF x
<1>13. Done(x, Around(e, g, Of(net[e], n), Of(net[Other(e)], n), stream'[n]))
  BY <1>12 DEF Beside
<1>14. Did(e, g[e].localid, x)
  BY <1>4, <1>5, <1>6 DEF x
<1>15. QED
  BY <1>3, <1>5, <1>6, <1>8, <1>13, <1>14, StepSocket, Zenon

LEMMA SocketSentStep ==
  ASSUME IInv, NEW e \in End, NEW id \in Id, SocketSent(e, id)
  PROVE  IInv'
<1> DEFINE c == channels[e][id]
<1> DEFINE n == c.n
<1>1. TypeOK /\ CutFrom
  BY DEF IInv
<1>2. At(e, id) = Start(c) /\ Start(c).c = c
  BY AtIs DEF Start
<1>3. /\ c # NoChannel /\ c.chan = "socket" /\ UNCHANGED <<opens, stream>>
      /\ \E bufsize \in 0..(c.backlog - 1) :
           Did(e, id, Unthrottle([Start(c) EXCEPT !.c.backlog = bufsize], bufsize))
  BY <1>2 DEF SocketSent, Socket
<1>4. PICK bufsize \in 0..(c.backlog - 1) :
           Did(e, id, Unthrottle([Start(c) EXCEPT !.c.backlog = bufsize], bufsize))
  BY <1>3
<1>5. /\ c \in Chan /\ n \in 1..MaxOpens /\ c.localid = id /\ c.chan # "freed" /\ Sound(c)
      /\ \/ Asking(e, n) /\ c.halfopen
         \/ \E g \in [End -> Chan] : (\A b \in End : Side(b, n, g)) /\ g[e] = c
  BY <1>3, SocketFor
<1>6. ~c.halfopen
  <2>1. c.backlog # 0
    BY <1>4
  <2>2. QED
    BY <1>5, <2>1 DEF Sound
<1>7. PICK g \in [End -> Chan] : (\A b \in End : Side(b, n, g)) /\ g[e] = c
  BY <1>5, <1>6
<1> DEFINE x == Unthrottle([Start(c) EXCEPT !.c.backlog = bufsize], bufsize)
<1> DEFINE m == Before(e, g, n)
<1> HIDE DEF c
<1>8. StreamFits(n)
  BY <1>1, <1>3, <1>5, StreamKept
<1>9. m \in Setting /\ Meets(c, m)
  BY <1>5, <1>7, <1>8, Sits
<1>10. Done(x, m)
  <2> HIDE DEF m
  <2>1. QED
    BY <1>3, <1>4, <1>5, <1>9, SocketSentDone
<1> HIDE DEF x
<1>11. Done(x, Around(e, g, Of(net[e], n), Of(net[Other(e)], n), stream'[n]))
  BY <1>3, <1>10 DEF Before
<1>12. Did(e, g[e].localid, x)
  BY <1>4, <1>5, <1>7 DEF x
<1>13. QED
  BY <1>3, <1>5, <1>7, <1>8, <1>11, <1>12, StepSocket

LEMMA SocketErrorStep ==
  ASSUME IInv, NEW e \in End, NEW id \in Id, SocketError(e, id)
  PROVE  IInv'
<1> DEFINE c == channels[e][id]
<1> DEFINE n == c.n
<1>1. TypeOK /\ CutFrom /\ Live1
  BY DEF IInv
<1>2. At(e, id) = Start(c) /\ Start(c).c = c
  BY AtIs DEF Start
<1>3. /\ c # NoChannel /\ ~c.fixed /\ c.chan = "socket" /\ UNCHANGED opens
      /\ Did(e, id, InitiateClose(Start(c))) /\ stream' = Cut(n, FALSE)
  BY <1>2 DEF SocketError, Socket
<1>4. /\ c \in Chan /\ n \in 1..MaxOpens /\ c.localid = id /\ c.chan # "freed" /\ Sound(c)
      /\ \/ Asking(e, n) /\ c.halfopen
         \/ \E g \in [End -> Chan] : (\A b \in End : Side(b, n, g)) /\ g[e] = c
  BY <1>3, SocketFor
<1>5. e \notin FixedEnds => Within(c)
  BY <1>1, <1>3, Zenon DEF Live1
<1> HIDE DEF c
<1>6. StreamFits(n) /\ stream'[n].cut /\ stream'[n].from = NewStream.from
  BY <1>1, <1>3, <1>4, StreamCut, Zenon
<1>7. CASE Asking(e, n) /\ c.halfopen
  <2> DEFINE c1 == Failed(c)
  <2>1. /\ c1 \in Chan /\ Alike(c, c1) /\ c1.n = c.n /\ c1.closes = c.closes /\ c1.chan = "zombie"
        /\ c1.locwindow = c.locwindow
        /\ (Within(c) => Within(c1)) /\ Sound(c1) /\ InitiateClose(Start(c)) = Start(c1)
    BY <1>3, <1>4, <1>7, FailedIs
  <2> HIDE DEF c1
  <2>2. c1.localid = id /\ c1.halfopen /\ c1.chan # "freed"
    BY <1>4, <1>7, <2>1 DEF Alike
  <2>3. stream'[n].from[Other(e)] = NoStream
    BY <1>6, OtherEnd DEF NewStream
  <2>4. Did(e, id, Start(c1))
    BY <1>3, <2>1
  <2>5. QED
    BY <1>3, <1>4, <1>5, <1>6, <1>7, <2>1, <2>2, <2>3, <2>4, StepAsking, Zenon DEF c
<1>8. CASE \E g \in [End -> Chan] : (\A b \in End : Side(b, n, g)) /\ g[e] = c
  <2>1. PICK g \in [End -> Chan] : (\A b \in End : Side(b, n, g)) /\ g[e] = c
    BY <1>8
  <2> DEFINE x == InitiateClose(Start(c))
  <2> DEFINE m == Before(e, g, n)
  <2> DEFINE m1 == Beside(e, g, n)
  <2>2. /\ m \in Setting /\ m1 \in Setting /\ Meets(c, m) /\ Stays(m, m1) /\ Carry(e, n, m, m1)
    BY <1>4, <1>6, <2>1, Sits
  <2>3. m1.cut
    <3> HIDE DEF m, m1, n
    <3>1. QED
      BY <1>6, <2>2, Zenon DEF Carry
  <2>4. Done(x, m1)
    <3> HIDE DEF m, m1
    <3>1. QED
      BY <1>3, <1>4, <2>2, <2>3, SocketErrorDone
  <2> HIDE DEF x
  <2>5. Done(x, Around(e, g, Of(net[e], n), Of(net[Other(e)], n), stream'[n]))
    BY <2>4 DEF Beside
  <2>6. Did(e, g[e].localid, x)
    BY <1>3, <1>4, <2>1 DEF x
  <2>7. QED
    BY <1>3, <1>4, <1>6, <2>1, <2>5, <2>6, StepSocket
<1>9. QED
  BY <1>4, <1>7, <1>8

LEMMA SocketClosingStep ==
  ASSUME IInv, NEW e \in End, NEW id \in Id, SocketClosing(e, id)
  PROVE  IInv'
<1> DEFINE c == channels[e][id]
<1> DEFINE n == c.n
<1> DEFINE y == [Start(c) EXCEPT !.c.sockeof = TRUE, !.c.unwritten = 0]
<1>1. TypeOK /\ CutFrom /\ Live1
  BY DEF IInv
<1>2. At(e, id) = Start(c) /\ Start(c).c = c
  BY AtIs DEF Start
<1>3. /\ c # NoChannel /\ ~c.fixed /\ c.chan = "socket" /\ ~c.sockeof /\ UNCHANGED opens
      /\ \E len \in 0..c.unwritten :
           /\ Did(e, id, WriteEof(IF len > 0 /\ c.ready THEN Write(y, len) ELSE y))
           /\ stream' = IF len > 0 /\ ~c.ready THEN Cut(n, TRUE)
                        ELSE Log(n, [stream[n] EXCEPT !.from[e].owed = @ + len, !.from[e].eof = TRUE])
  BY <1>2, ZenonT(40) DEF SocketClosing, Socket
<1>4. PICK len \in 0..c.unwritten :
           /\ Did(e, id, WriteEof(IF len > 0 /\ c.ready THEN Write(y, len) ELSE y))
           /\ stream' = IF len > 0 /\ ~c.ready THEN Cut(n, TRUE)
                        ELSE Log(n, [stream[n] EXCEPT !.from[e].owed = @ + len, !.from[e].eof = TRUE])
  BY <1>3, ZenonT(40)
<1>5. /\ c \in Chan /\ n \in 1..MaxOpens /\ c.localid = id /\ c.chan # "freed" /\ Sound(c)
      /\ \/ Asking(e, n) /\ c.halfopen
         \/ \E g \in [End -> Chan] : (\A b \in End : Side(b, n, g)) /\ g[e] = c
  BY <1>3, SocketFor
<1>6. e \notin FixedEnds => Within(c)
  BY <1>1, <1>3, Zenon DEF Live1
<1>7. c = channels[e][id]
  OBVIOUS
<1> HIDE DEF c
<1>8. len \in Nat
  BY <1>5 DEF Chan
\* The streams: data that comes too early cuts them, and any other is owed.
<1>9. StreamFits(n) /\ stream[n] \in History
      /\ (stream[n].cut => stream'[n].cut) /\ (len > 0 /\ ~c.ready => stream'[n].cut)
  <2>1. stream[n] \in History
    BY <1>1, <1>5, TypeIs
  <2>2. CASE len > 0 /\ ~c.ready
    BY <1>1, <1>4, <1>5, <2>1, <2>2, StreamCut
  <2>3. CASE ~(len > 0 /\ ~c.ready)
    <3>1. stream' = Log(n, [stream[n] EXCEPT !.from[e].owed = @ + len, !.from[e].eof = TRUE])
      BY <1>4, <2>3, Zenon
    <3>2. StreamFits(n) /\ stream'[n].cut = stream[n].cut
      BY <1>1, <1>5, <1>8, <3>1, CarryWritten, Zenon
    <3>3. QED
      BY <2>1, <2>3, <3>2
  <2>4. QED
    BY <2>2, <2>3
<1>10. ~stream'[n].cut => /\ stream'[n].from[e].owed = stream[n].from[e].owed + len
                          /\ stream'[n].from[e].eof
                          /\ stream'[n].from[e].ended = stream[n].from[e].ended
                          /\ stream'[n].from[Other(e)] = stream[n].from[Other(e)]
  <2> SUFFICES ASSUME ~stream'[n].cut
               PROVE  /\ stream'[n].from[e].owed = stream[n].from[e].owed + len
                      /\ stream'[n].from[e].eof
                      /\ stream'[n].from[e].ended = stream[n].from[e].ended
                      /\ stream'[n].from[Other(e)] = stream[n].from[Other(e)]
    BY SMTT(30)
  <2> DEFINE t == [stream[n] EXCEPT !.from[e].owed = @ + len, !.from[e].eof = TRUE]
  <2>1. stream' = Log(n, t) /\ ~stream[n].cut
    BY <1>4, <1>9
  <2>2. stream' = [stream EXCEPT ![n] = t]
    BY <2>1 DEF Log
  <2>3. stream'[n] = t
    BY <1>1, <1>5, <2>2, Zenon DEF TypeOK
  <2>4. Other(e) \in End /\ Other(e) # e
    BY OtherEnd
  <2>5. QED
    BY <1>9, <2>3, <2>4 DEF History, Stream
<1>11. CASE Asking(e, n) /\ c.halfopen
  <2> DEFINE c1 == Closing(c)
  <2>1. /\ c1 \in Chan /\ Alike(c, c1) /\ c1.n = c.n /\ c1.closes = c.closes /\ c1.chan = c.chan
        /\ c1.locwindow = c.locwindow /\ c1.locmaxwin = c.locmaxwin /\ c1.backlog = c.backlog
        /\ c1.fixed = c.fixed /\ c1.throttling_conn = c.throttling_conn
        /\ c1.socksbuf = c.socksbuf /\ Sound(c1) /\ WriteEof(y) = Start(c1)
    BY <1>3, <1>5, <1>11, ClosingIs, Zenon
  <2> HIDE DEF c1
  <2>2. ~c.ready
    BY <1>5, <1>11 DEF Sound
  <2>3. c1.localid = id /\ c1.halfopen /\ c1.chan # "freed"
    BY <1>5, <1>11, <2>1 DEF Alike
  <2>4. e \notin FixedEnds => Within(c1)
    BY <1>6, <2>1 DEF Within
  <2>5. Did(e, id, Start(c1))
    <3> HIDE DEF y
    <3>1. QED
      BY <1>4, <2>1, <2>2
  <2>6. /\ stream[n].from[Other(e)] = NoStream
        /\ ~stream[n].cut => stream[n].from[e].owed = c.socksbuf /\ ~stream[n].from[e].ended
    <3>1. PICK i \in Id : /\ channels[e][i] # NoChannel /\ channels[e][i].n = n
                          /\ stream[n].from[Other(e)] = NoStream
                          /\ ~stream[n].cut => /\ stream[n].from[e].owed = channels[e][i].socksbuf
                                               /\ ~stream[n].from[e].ended
      BY <1>11, ZenonT(40) DEF Asking
    <3>2. i = id
      BY <1>1, <1>3, <1>7, <3>1 DEF Live1
    <3>3. QED
      BY <1>7, <3>1, <3>2
  <2>7. stream'[n].from[Other(e)] = NoStream
    <3>1. CASE stream'[n].cut
      <4>1. stream'[n].from = NewStream.from
        BY <1>9, <3>1 DEF StreamFits
      <4>2. QED
        BY <4>1, OtherEnd DEF NewStream
    <3>2. CASE ~stream'[n].cut
      BY <1>10, <2>6, <3>2
    <3>3. QED
      BY <3>1, <3>2
  <2>8. ~stream'[n].cut => /\ stream'[n].from[e].owed = c1.socksbuf
                           /\ c1.sockeof => stream'[n].from[e].eof
                           /\ ~stream'[n].from[e].ended /\ c1.chan = "socket"
    <3>1. ~stream'[n].cut => ~stream[n].cut /\ len = 0
      BY <1>8, <1>9, <2>2
    <3>2. stream[n].from[e].owed \in Int
      BY <1>9 DEF History, Stream
    <3>3. ~stream'[n].cut => stream'[n].from[e].owed = c1.socksbuf
      BY <1>10, <2>1, <2>6, <3>1, <3>2
    <3>4. ~stream'[n].cut => stream'[n].from[e].eof /\ ~stream'[n].from[e].ended
      BY <1>10, <2>6, <3>1, Zenon
    <3>5. c1.chan = "socket"
      BY <1>3, <2>1, SMTT(30)
    <3>6. QED
      BY <3>3, <3>4, <3>5, Zenon
  <2>9. QED
    BY <1>3, <1>5, <1>7, <1>9, <1>11, <2>1, <2>3, <2>4, <2>5, <2>7, <2>8, StepAsking, Zenon
<1>12. CASE \E g \in [End -> Chan] : (\A b \in End : Side(b, n, g)) /\ g[e] = c
  <2>1. PICK g \in [End -> Chan] : (\A b \in End : Side(b, n, g)) /\ g[e] = c
    BY <1>12
  <2> DEFINE x == WriteEof(IF len > 0 /\ c.ready THEN Write(y, len) ELSE y)
  <2> DEFINE m == Before(e, g, n)
  <2> DEFINE m1 == Beside(e, g, n)
  <2>2. /\ m \in Setting /\ m1 \in Setting /\ Meets(c, m) /\ Stays(m, m1) /\ Carry(e, n, m, m1)
    BY <1>5, <1>9, <2>1, Sits
  <2>3. /\ m.cut => m1.cut
        /\ len > 0 /\ ~c.ready => m1.cut
        /\ ~m1.cut => m1.t = m.t /\ m1.s.owed = m.s.owed + len /\ m1.s.eof /\ m1.s.ended = m.s.ended
    <3> HIDE DEF m, m1, n
    <3>1. QED
      BY <1>9, <1>10, <2>2, Zenon DEF Carry
  <2>4. Done(x, m1)
    <3> HIDE DEF m, m1
    <3>1. QED
      BY <1>3, <1>4, <1>5, <2>2, <2>3, SocketClosingDone, Zenon
  <2> HIDE DEF x
  <2>5. Done(x, Around(e, g, Of(net[e], n), Of(net[Other(e)], n), stream'[n]))
    BY <2>4 DEF Beside
  <2>6. Did(e, g[e].localid, x)
    BY <1>4, <1>5, <2>1 DEF x
  <2>7. QED
    BY <1>3, <1>5, <1>9, <2>1, <2>5, <2>6, StepSocket, Zenon
<1>13. QED
  BY <1>5, <1>11, <1>12, SMTT(30)

-----------------------------------------------------------------------------
(* A channel is opened, and accepted or refused *)

\* The fields of a channel of ssh2_channel_init.
Fresh(c, n) ==
  /\ c \in Chan /\ c.closes = {} /\ c.chan = "socket" /\ c.n = n
  /\ c.pending_eof = FALSE /\ c.throttling_conn = FALSE /\ c.sockeof = FALSE
  /\ c.outbuffer = 0 /\ c.chanreqs = <<>> /\ c.backlog = 0
NewOne(c, n) ==
  /\ Fresh(c, n) /\ c.fixed = FALSE /\ c.socksbuf = 0
  /\ c.locwindow = WinSize /\ c.locmaxwin = WinSize /\ c.remlocwin = WinSize

LEMMA NewIs ==
  ASSUME NEW id \in Nat, NEW n \in 1..MaxOpens, NEW u \in Nat
  PROVE  /\ NewOne(NewChannel(id, n, u), n)
         /\ NewChannel(id, n, u).localid = id /\ NewChannel(id, n, u).halfopen = TRUE
         /\ NewChannel(id, n, u).input_wanted = FALSE /\ NewChannel(id, n, u).ready = FALSE
<1>1. WinSize \in Nat /\ <<>> \in Seq(Nat) /\ 0 \in Nat
  BY SizeAssumption
<1>2. QED
  BY <1>1 DEF NewChannel, Chan, NewOne, Fresh

LEMMA LoadType ==
  ASSUME NEW n \in 1..MaxOpens, NEW e \in End
  PROVE  Load[n][e] \in Nat
BY SizeAssumption

\* What RcvOpen answers with.
Asked(e, p) == [NewChannel(0, p.n, Load[p.n][e]) EXCEPT !.remoteid = p.from]
Admitted(e, p, id) == [Asked(e, p) EXCEPT !.localid = id, !.halfopen = FALSE, !.remwindow = p.len]
Accepted(e, p, id) ==
  IF e \in FixedEnds
  THEN [Admitted(e, p, id) EXCEPT !.locwindow = FixedWin, !.locmaxwin = FixedWin,
                               !.remlocwin = FixedWin, !.fixed = TRUE]
  ELSE [Admitted(e, p, id) EXCEPT !.ready = TRUE, !.input_wanted = TRUE]
Confirm(e, p, id) ==
  [Packet("OPEN_CONFIRMATION", Accepted(e, p, id))
     EXCEPT !.from = id, !.len = Accepted(e, p, id).locwindow]
Refuse(e, p) == Packet("OPEN_FAILURE", Asked(e, p))

IsAccepted(a, e, p, id) ==
  /\ Fresh(a, p.n) /\ a.localid = id /\ a.remoteid = p.from /\ a.halfopen = FALSE
  /\ a.remwindow = p.len /\ a.locmaxwin = a.locwindow /\ a.remlocwin = a.locwindow
  /\ a.socksbuf = 0 /\ a.fixed = (IF e \in FixedEnds THEN TRUE ELSE FALSE)

LEMMA AskedIs ==
  ASSUME NEW e \in End, NEW p \in Pkt
  PROVE  NewOne(Asked(e, p), p.n) /\ Asked(e, p).remoteid = p.from
<1> DEFINE u == Load[p.n][e]
<1> DEFINE c == NewChannel(0, p.n, u)
<1> DEFINE b == Asked(e, p)
<1>1. p.n \in 1..MaxOpens /\ p.from \in Nat /\ 0 \in Nat
  BY DEF Pkt
<1>2. u \in Nat
  BY <1>1, LoadType
<1>3. NewOne(c, p.n)
  <2> HIDE DEF u
  <2>1. QED
    BY <1>1, <1>2, NewIs
<1>4. b = [c EXCEPT !.remoteid = p.from]
  BY DEF Asked
<1> HIDE DEF b, c, u
<1>5. NewOne(b, p.n) /\ b.remoteid = p.from
  BY <1>1, <1>3, <1>4 DEF Chan, NewOne, Fresh
<1>6. QED
  BY <1>5 DEF b

LEMMA AcceptedIs ==
  ASSUME NEW e \in End, NEW p \in Pkt, NEW id \in Nat
  PROVE  IsAccepted(Accepted(e, p, id), e, p, id)
<1> DEFINE b == Asked(e, p)
<1> DEFINE t == Admitted(e, p, id)
<1> DEFINE a == Accepted(e, p, id)
<1>1. p.len \in Nat /\ FixedWin \in Nat /\ FixedWin \in Int
  BY SizeAssumption DEF Pkt
<1>2. NewOne(b, p.n) /\ b.remoteid = p.from
  BY AskedIs
<1>3. t = [b EXCEPT !.localid = id, !.halfopen = FALSE, !.remwindow = p.len]
  BY DEF Admitted
<1>4. a = IF e \in FixedEnds
          THEN [t EXCEPT !.locwindow = FixedWin, !.locmaxwin = FixedWin,
                         !.remlocwin = FixedWin, !.fixed = TRUE]
          ELSE [t EXCEPT !.ready = TRUE, !.input_wanted = TRUE]
  BY DEF Accepted
<1> HIDE DEF a, b, t
<1>5. /\ NewOne(t, p.n) /\ t.localid = id /\ t.remoteid = p.from /\ t.halfopen = FALSE
      /\ t.remwindow = p.len
  BY <1>1, <1>2, <1>3 DEF Chan, NewOne, Fresh
<1>6. CASE e \in FixedEnds
  <2>1. a = [t EXCEPT !.locwindow = FixedWin, !.locmaxwin = FixedWin, !.remlocwin = FixedWin,
                      !.fixed = TRUE]
    BY <1>4, <1>6
  <2>2. /\ Fresh(a, p.n) /\ a.localid = id /\ a.remoteid = p.from /\ a.halfopen = FALSE
        /\ a.remwindow = p.len /\ a.locmaxwin = a.locwindow /\ a.remlocwin = a.locwindow
        /\ a.socksbuf = 0 /\ a.fixed = TRUE
    BY <1>1, <1>5, <2>1 DEF Chan, NewOne, Fresh
  <2>3. QED
    BY <1>6, <2>2, Zenon DEF IsAccepted, a
<1>7. CASE e \notin FixedEnds
  <2>1. a = [t EXCEPT !.ready = TRUE, !.input_wanted = TRUE]
    BY <1>4, <1>7
  <2>2. /\ Fresh(a, p.n) /\ a.localid = id /\ a.remoteid = p.from /\ a.halfopen = FALSE
        /\ a.remwindow = p.len /\ a.locmaxwin = a.locwindow /\ a.remlocwin = a.locwindow
        /\ a.socksbuf = 0 /\ a.fixed = FALSE
    BY <1>1, <1>5, <2>1 DEF Chan, NewOne, Fresh
  <2>3. QED
    BY <1>7, <2>2, Zenon DEF IsAccepted, a
<1>8. QED
  BY <1>6, <1>7

LEMMA ConfirmIs ==
  ASSUME NEW e \in End, NEW p \in Pkt, NEW id \in Nat
  PROVE  /\ Confirm(e, p, id) \in Pkt /\ Confirm(e, p, id).type = "OPEN_CONFIRMATION"
         /\ Confirm(e, p, id).to = p.from /\ Confirm(e, p, id).from = id
         /\ Confirm(e, p, id).n = p.n
         /\ Confirm(e, p, id).len = Accepted(e, p, id).locwindow
<1> DEFINE a == Accepted(e, p, id)
<1> DEFINE o == Confirm(e, p, id)
<1>1. IsAccepted(a, e, p, id)
  BY AcceptedIs
<1>2. o = [Packet("OPEN_CONFIRMATION", a) EXCEPT !.from = id, !.len = a.locwindow]
  BY DEF Confirm
<1> HIDE DEF a, o
<1>3. a \in Chan /\ a.n = p.n /\ a.remoteid = p.from
  BY <1>1 DEF IsAccepted, Fresh
<1>4. a.locwindow \in Nat /\ p.from \in Nat /\ p.n \in 1..MaxOpens
  BY <1>3 DEF Chan, Pkt
<1>5. /\ o \in Pkt /\ o.type = "OPEN_CONFIRMATION" /\ o.to = p.from /\ o.from = id
      /\ o.n = p.n /\ o.len = a.locwindow
  BY <1>2, <1>3, <1>4 DEF Packet, Pkt
<1>6. QED
  BY <1>5 DEF a, o

LEMMA RefuseIs ==
  ASSUME NEW e \in End, NEW p \in Pkt
  PROVE  /\ Refuse(e, p) \in Pkt /\ Refuse(e, p).type = "OPEN_FAILURE"
         /\ Refuse(e, p).to = p.from /\ Refuse(e, p).n = p.n
<1> DEFINE b == Asked(e, p)
<1> DEFINE o == Refuse(e, p)
<1>1. p.n \in 1..MaxOpens /\ p.from \in Nat
  BY DEF Pkt
<1>2. NewOne(b, p.n) /\ b.remoteid = p.from
  BY AskedIs
<1>3. o = Packet("OPEN_FAILURE", b)
  BY DEF Refuse
<1> HIDE DEF b, o
<1>4. o \in Pkt /\ o.type = "OPEN_FAILURE" /\ o.to = p.from /\ o.n = p.n
  BY <1>1, <1>2, <1>3 DEF Packet, Pkt, NewOne, Fresh
<1>5. QED
  BY <1>4 DEF o

\* The channel that an OPEN, or its refusal, is about.
LEMMA AskingFor ==
  ASSUME IInv, NEW e \in End, NEW p \in Pkt, FirstOf(e, p)
  PROVE  /\ p.type = "OPEN" => Asking(Other(e), p.n)
         /\ p.type = "OPEN_FAILURE" => Asking(e, p.n)
<1> DEFINE f == Other(e)
<1> DEFINE r == Of(net[f], p.n)
<1>1. TypeOK /\ p.n \in 1..MaxOpens /\ Conn(p.n)
  BY DEF IInv, Pkt
<1>2. r \in Seq(Pkt) /\ r # <<>> /\ r[1] = p /\ 1 \in DOMAIN r
  BY <1>1, FirstPicked
<1>3. f \in End /\ Other(f) = e /\ \A b \in End : b = e \/ b = f
  BY OtherEnd
<1>4. ~Closed(p.n)
  BY <1>2, <1>3 DEF Closed
<1>5. Joined(p.n) => p.type \notin {"OPEN", "OPEN_FAILURE"}
  <2> SUFFICES ASSUME NEW g \in [End -> Chan], \A b \in End : Side(b, p.n, g)
               PROVE  p.type \notin {"OPEN", "OPEN_FAILURE"}
    BY DEF Joined
  <2>1. Addressed(g[f], g[e], r)
    BY <1>3 DEF Side, Sides
  <2>2. QED
    BY <1>2, <2>1 DEF Addressed
<1>6. ASSUME NEW b \in End, Asking(b, p.n)
      PROVE  (p.type = "OPEN" => b = f) /\ (p.type = "OPEN_FAILURE" => b = e)
  <2>1. \/ Of(net[Other(b)], p.n) = <<>> /\ Of(net[b], p.n)[1].type = "OPEN"
        \/ Of(net[b], p.n) = <<>> /\ Of(net[Other(b)], p.n)[1].type = "OPEN_FAILURE"
    BY <1>6, Zenon DEF Asking
  <2>2. b = e \/ b = f
    BY <1>3
  <2>3. QED
    BY <1>2, <1>3, <2>1, <2>2
<1>7. QED
  BY <1>1, <1>4, <1>5, <1>6 DEF Conn

LEMMA NewStreamIs ==
  NewStream \in History /\ ~NewStream.cut /\ NoStream \in Stream
  /\ \A b \in End : /\ NewStream.from[b] = NoStream /\ NewStream.from[b].owed = 0
                    /\ ~NewStream.from[b].eof /\ ~NewStream.from[b].ended
BY DEF NewStream, NoStream, History, Stream

LEMMA RcvOpenFailureStep ==
  ASSUME IInv, NEW e \in End, RcvOpenFailure(e)
  PROVE  IInv'
<1> DEFINE f == Other(e)
<1>1. TypeOK /\ Live1 /\ CutFrom
  BY DEF IInv
<1>2. PICK p \in Incoming(e, "OPEN_FAILURE") :
        /\ Handled(e, p.to, [At(e, p.to) EXCEPT !.c.chan = "freed"])
        /\ stream' = Cut(p.n, FALSE) /\ UNCHANGED opens
  BY DEF RcvOpenFailure
<1>3. p \in Pkt /\ FirstOf(e, p) /\ p.type = "OPEN_FAILURE" /\ p.n \in 1..MaxOpens
  BY <1>1, IncomingIs
<1> DEFINE n == p.n
<1>4. f \in End /\ f # e /\ \A b \in End : b = e \/ b = f
  BY OtherEnd
<1>5. Of(net[f], n) \in Seq(Pkt) /\ Of(net[f], n) # <<>> /\ Of(net[f], n)[1] = p
  BY <1>1, <1>3, FirstPicked
<1>6. Asking(e, n)
  BY <1>3, AskingFor
<1>7. PICK id \in Id :
        /\ channels[e][id] # NoChannel /\ channels[e][id].n = n /\ ~Holds(f, n)
        /\ \/ Of(net[f], n) = <<>>
           \/ Of(net[e], n) = <<>> /\ Len(Of(net[f], n)) = 1 /\ Of(net[f], n)[1].to = id
  BY <1>6, Zenon DEF Asking
<1>8. Of(net[e], n) = <<>> /\ Len(Of(net[f], n)) = 1 /\ p.to = id
  BY <1>5, <1>7
<1> DEFINE c == channels[e][id]
<1> DEFINE x == [Start(c) EXCEPT !.c.chan = "freed"]
<1>9. At(e, id) = Start(c)
  BY AtIs
<1>10. Handled(e, id, x)
  BY <1>2, <1>8, <1>9
<1>11. c \in Chan /\ n <= opens /\ \A i \in Id : i # id /\ channels[e][i] # NoChannel => channels[e][i].n # n
  BY <1>1, <1>3, <1>7, TypeIs DEF Live1
<1>12. Start(c) \in Work /\ Start(c).c = c /\ Start(c).tx = <<>>
  BY <1>11, StartType
<1>13. x \in Work /\ x.c = [c EXCEPT !.chan = "freed"] /\ x.tx = <<>>
  <2> DEFINE y == Start(c)
  <2>1. y \in Work /\ y.c = c /\ y.tx = <<>> /\ x = [y EXCEPT !.c.chan = "freed"]
    BY <1>12
  <2> HIDE DEF c, y
  <2>2. x.c = [c EXCEPT !.chan = "freed"] /\ x.tx = <<>>
    BY <2>1 DEF Work
  <2>3. [c EXCEPT !.chan = "freed"] \in Chan
    BY <1>11 DEF Chan
  <2>4. QED
    BY <2>1, <2>2, <2>3 DEF Work
<1> HIDE DEF c, x
<1>14. x.c \in Chan /\ x.c.chan = "freed" /\ x.c.n = n
  <2>1. c.n = n
    BY <1>7 DEF c
  <2>2. QED
    BY <1>11, <1>13, <2>1 DEF Chan
<1>15. /\ Keep(e, id, x) /\ net' = [net EXCEPT ![e] = @ \o x.tx, ![f] = Tail(@)]
       /\ net[f] # <<>> /\ net[f][1].n = n
  BY <1>3, <1>10 DEF Handled, FirstOf
<1>16. NetFits(e, n, x.tx) /\ Of(net'[f], n) = Tail(Of(net[f], n))
  <2>1. <<>> \in Seq(Pkt) /\ DOMAIN <<>> = {}
    OBVIOUS
  <2>2. x.tx \in Seq(Pkt) /\ \A i \in DOMAIN x.tx : x.tx[i].n = n
    BY <1>13, <2>1
  <2>3. QED
    BY <1>1, <1>3, <1>15, <2>2, NetTaken
<1>17. Of(net'[f], n) = <<>>
  BY <1>5, <1>8, <1>16
<1>18. Of(net'[e], n) = <<>>
  <2>1. Of(net'[e], n) = <<>> \o <<>>
    BY <1>8, <1>13, <1>16 DEF NetFits
  <2>2. QED
    BY <2>1
<1>19. StreamFits(n) /\ stream'[n].from = NewStream.from
  BY <1>1, <1>2, <1>3, StreamCut
<1>20. x.faults = {}
  BY <1>13, WorkType
<1>21. /\ channels'[e][id] = NoChannel
       /\ \A b \in End, i \in Id : b # e \/ i # id => channels'[b][i] = channels[b][i]
  BY <1>1, <1>14, <1>15, <1>20, KeepIs
<1>22. ~Holds(e, n)' /\ ~Holds(f, n)'
  BY <1>4, <1>7, <1>11, <1>21 DEF Holds
<1>23. Whole(n)'
  BY <1>19, NewStreamIs DEF Whole
<1>24. opens' = opens /\ opens \in 0..MaxOpens /\ ~(n > opens')
  BY <1>1, <1>2, <1>3, <1>11 DEF TypeOK
<1>25. Conn(n)'
  <2>1. Closed(n)'
    BY <1>4, <1>17, <1>18, <1>22, <1>23, <1>24 DEF Closed
  <2>2. QED
    BY <2>1 DEF Conn
<1>26. OfOne(e, n, x.tx)
  BY <1>16, <1>19 DEF OfOne
<1>27. channels[e][id] = NoChannel \/ channels[e][id].n = n
  BY <1>7
<1> HIDE DEF n, f
<1>28. n \in 1..MaxOpens
  BY <1>3 DEF n
<1>29. n <= opens' /\ opens' >= opens /\ opens' \in 0..MaxOpens
  BY <1>11, <1>24 DEF n
<1>30. QED
  BY <1>29, <1>11, <1>13, <1>14, <1>15, <1>24, <1>25, <1>26, <1>27, <1>28, StepOf, ZenonT(40)

\* A channel that is new.
LEMMA FreshSound ==
  ASSUME NEW c \in Chan, NEW n, Fresh(c, n), c.locwindow <= c.locmaxwin, c.remlocwin = c.locwindow,
         ~c.halfopen => c.socksbuf = 0,
         c.halfopen => c.fixed = FALSE /\ c.ready = FALSE /\ c.input_wanted = FALSE
  PROVE  Sound(c) /\ (c.fixed = FALSE => Within(c))
<1>1. <<>> \in Seq(Int) /\ DOMAIN <<>> = {}
  OBVIOUS
<1>2. Total(<<>>) = 0
  BY <1>1, TotalZero
<1>3. c.remlocwin + Total(c.chanreqs) >= c.locwindow
  BY <1>2 DEF Chan, Fresh
<1>4. Sound(c)
  BY <1>3 DEF Fresh, Sound
<1>5. c.fixed = FALSE => Within(c)
  BY DEF Fresh, Within, Chan
<1>6. QED
  BY <1>4, <1>5

LEMMA OneIs ==
  ASSUME NEW p \in Pkt
  PROVE  /\ <<p>> \in Seq(Pkt) /\ <<p>> # <<>> /\ Len(<<p>>) = 1 /\ <<p>>[1] = p
         /\ \A i \in DOMAIN <<p>> : <<p>>[i] = p
         /\ <<>> \o <<p>> = <<p>> /\ Tail(<<p>>) = <<>>
OBVIOUS

\* What OpenChannel makes and sends.
Dialled(e, id, n, socks) == [NewChannel(id, n, Load[n][e] - socks) EXCEPT !.socksbuf = socks]
Dial(e, id, n, socks) ==
  [Packet("OPEN", Dialled(e, id, n, socks))
     EXCEPT !.from = id, !.len = Dialled(e, id, n, socks).locwindow]

IsDialled(c, p, id, n, socks) ==
  /\ Fresh(c, n) /\ c.localid = id /\ c.halfopen = TRUE /\ c.socksbuf = socks
  /\ Sound(c) /\ Within(c)
  /\ p \in Pkt /\ p.type = "OPEN" /\ p.n = n /\ p.from = id /\ p.len = c.locwindow

LEMMA DialIs ==
  ASSUME NEW e \in End, NEW id \in Nat, NEW n \in 1..MaxOpens, NEW socks \in Nat, socks <= Load[n][e]
  PROVE  IsDialled(Dialled(e, id, n, socks), Dial(e, id, n, socks), id, n, socks)
<1> DEFINE c == Dialled(e, id, n, socks)
<1> DEFINE p == Dial(e, id, n, socks)
<1> DEFINE u == Load[n][e] - socks
<1> DEFINE b == NewChannel(id, n, u)
<1>1. Load[n][e] \in Nat
  BY LoadType
<1>2. u \in Nat
  BY <1>1
<1> HIDE DEF u
<1>3. NewOne(b, n) /\ b.localid = id /\ b.halfopen = TRUE /\ b.input_wanted = FALSE /\ b.ready = FALSE
  BY <1>2, NewIs, ZenonT(40)
<1>4. c = [b EXCEPT !.socksbuf = socks]
  BY DEF Dialled, u
<1>5. p = [Packet("OPEN", c) EXCEPT !.from = id, !.len = c.locwindow]
  BY DEF Dial
<1> HIDE DEF b, c, p
<1>6. /\ Fresh(c, n) /\ c.localid = id /\ c.halfopen = TRUE /\ c.socksbuf = socks
      /\ c.fixed = FALSE /\ c.ready = FALSE /\ c.input_wanted = FALSE
      /\ c.locwindow = WinSize /\ c.locmaxwin = WinSize /\ c.remlocwin = WinSize
  BY <1>3, <1>4 DEF Chan, NewOne, Fresh
<1>7. WinSize \in Nat /\ c \in Chan
  BY <1>6, SizeAssumption DEF Fresh
<1>8. Sound(c) /\ Within(c)
  <2>1. c.locwindow <= c.locmaxwin /\ c.remlocwin = c.locwindow /\ c.halfopen
    BY <1>6, <1>7
  <2>2. QED
    BY <1>6, <1>7, <2>1, FreshSound, Zenon
<1>9. c.remoteid \in Nat /\ c.n = n /\ c.locwindow \in Nat
  BY <1>6, <1>7 DEF Chan, Fresh
<1>10. p \in Pkt /\ p.type = "OPEN" /\ p.n = n /\ p.from = id /\ p.len = c.locwindow
  BY <1>5, <1>9 DEF Packet, Pkt
<1>11. IsDialled(c, p, id, n, socks)
  BY <1>6, <1>8, <1>10 DEF IsDialled
<1>12. QED
  BY <1>11 DEF c, p

LEMMA OpenChannelStep ==
  ASSUME IInv, NEW e \in End, NEW socks \in {0, 1}, OpenChannel(e, socks)
  PROVE  IInv'
<1> DEFINE f == Other(e)
<1> PICK n : n = opens + 1
  OBVIOUS
<1> PICK id : id = Min(FreeIds(e))
  OBVIOUS
<1> DEFINE c == Dialled(e, id, n, socks)
<1> DEFINE p == Dial(e, id, n, socks)
<1> DEFINE x == [c |-> c, tx |-> <<p>>, faults |-> {}]
<1>1. TypeOK /\ Live1 /\ CutFrom /\ \A k \in 1..MaxOpens : k > opens => Closed(k)
  BY DEF IInv
<1>2. f \in End /\ f # e /\ \A b \in End : b = e \/ b = f
  BY OtherEnd
<1>3. /\ FreeIds(e) # {} /\ n <= MaxOpens /\ socks <= Load[n][e] /\ opens' = n
      /\ Did(e, id, x) /\ stream' = Log(n, [stream[n] EXCEPT !.from[e].owed = socks])
  BY DEF OpenChannel, Dialled, Dial
<1>4. opens \in Nat /\ MaxOpens \in Nat /\ n \in 1..MaxOpens /\ n > opens
  BY <1>1, <1>3, SizeAssumption DEF TypeOK
<1>5. id \in Id /\ id \in Nat /\ channels[e][id] = NoChannel
  BY <1>3, FreeId, SizeAssumption
<1>6. Closed(n)
  BY <1>1, <1>4
<1>7. ~Holds(e, n) /\ ~Holds(f, n) /\ Of(net[e], n) = <<>> /\ Of(net[f], n) = <<>> /\ stream[n] = NewStream
  BY <1>2, <1>4, <1>6 DEF Closed
<1>8. socks \in Nat
  OBVIOUS
<1>9. /\ Fresh(c, n) /\ c.localid = id /\ c.halfopen = TRUE /\ c.socksbuf = socks
      /\ Sound(c) /\ Within(c)
      /\ p \in Pkt /\ p.type = "OPEN" /\ p.n = n /\ p.from = id /\ p.len = c.locwindow
  <2>1. IsDialled(c, p, id, n, socks)
    BY <1>3, <1>4, <1>5, <1>8, DialIs
  <2> HIDE DEF c, p
  <2>2. QED
    BY <2>1 DEF IsDialled
<1> HIDE DEF c, p
<1>10. <<p>> \in Seq(Pkt) /\ Len(<<p>>) = 1 /\ <<p>>[1] = p /\ \A i \in DOMAIN <<p>> : <<p>>[i].n = n
  BY <1>9, OneIs
<1>11. x \in Work /\ x.c = c /\ x.tx = <<p>> /\ x.faults = {}
  BY <1>9, <1>10 DEF Work, Fresh
<1> HIDE DEF x
<1>12. Keep(e, id, x) /\ net' = [net EXCEPT ![e] = @ \o x.tx]
  BY <1>3 DEF Did
<1>13. NetFits(e, n, x.tx) /\ \A b \in End : b # e => net'[b] = net[b]
  <2>1. x.tx \in Seq(Pkt) /\ \A i \in DOMAIN x.tx : x.tx[i].n = n
    BY <1>10, <1>11
  <2>2. QED
    BY <1>1, <1>4, <1>12, <2>1, NetPushed
<1>14. Of(net'[e], n) = <<p>> /\ Of(net'[f], n) = <<>>
  <2>1. Of(net'[e], n) = <<>> \o <<p>>
    BY <1>7, <1>11, <1>13 DEF NetFits
  <2>2. Of(net'[f], n) = <<>>
    BY <1>2, <1>7, <1>13
  <2>3. QED
    BY <1>9, <2>1, <2>2, OneIs
<1>15. /\ StreamFits(n) /\ stream'[n].cut = FALSE /\ stream'[n].from[f] = NoStream
       /\ stream'[n].from[e].owed = socks /\ ~stream'[n].from[e].ended
  <2> DEFINE s == [stream[n] EXCEPT !.from[e].owed = socks]
  <2>1. /\ s \in History /\ s.cut = stream[n].cut /\ s.cut = FALSE /\ s.from[f] = stream[n].from[f]
        /\ s.from[e].owed = socks /\ s.from[e].ended = stream[n].from[e].ended
    <3>1. stream[n] \in History /\ stream[n].cut = FALSE
      BY <1>7, NewStreamIs DEF History
    <3>2. QED
      BY <1>2, <3>1 DEF History, Stream
  <2>2. stream' = Log(n, s)
    BY <1>3
  <2> HIDE DEF s
  <2>3. StreamFits(n) /\ stream'[n] = s
    BY <1>1, <1>4, <2>1, <2>2, StreamLogged
  <2>4. stream[n].from[f] = NoStream /\ ~stream[n].from[e].ended
    BY <1>2, <1>7, NewStreamIs
  <2>5. QED
    BY <2>1, <2>3, <2>4
<1>16. OfOne(e, n, x.tx)
  BY <1>13, <1>15 DEF OfOne
<1>17. x.c \in Chan /\ x.c.n = n /\ x.c.chan = "socket" /\ x.c.localid = id /\ x.c.sockeof = FALSE
       /\ x.c.closes = {}
  BY <1>9, <1>11 DEF Fresh
<1>18. /\ channels'[e][id] = c
       /\ \A b \in End, i \in Id : b # e \/ i # id => channels'[b][i] = channels[b][i]
  BY <1>1, <1>5, <1>11, <1>12, <1>17, KeepIs
<1>19. Asking(e, n)'
  <2>1. ~Holds(f, n)'
    BY <1>2, <1>7, <1>18 DEF Holds
  <2>2. /\ channels'[e][id] # NoChannel /\ channels'[e][id].n = n /\ channels'[e][id].halfopen
        /\ channels'[e][id].socksbuf = socks /\ channels'[e][id].sockeof = FALSE
        /\ channels'[e][id].chan = "socket" /\ channels'[e][id].locwindow = p.len
    BY <1>9, <1>11, <1>17, <1>18, NotNone
  <2>3. /\ Of(net'[f], n) = <<>> /\ Len(Of(net'[e], n)) = 1 /\ Of(net'[e], n)[1].type = "OPEN"
        /\ Of(net'[e], n)[1].from = id /\ Of(net'[e], n)[1].len = channels'[e][id].locwindow
    BY <1>9, <1>10, <1>14, <2>2
  <2>4. /\ stream'[n].from[f] = NoStream
        /\ stream'[n].from[e].owed = channels'[e][id].socksbuf
        /\ channels'[e][id].sockeof => stream'[n].from[e].eof
        /\ ~stream'[n].from[e].ended
    BY <1>15, <2>2
  <2>5. QED
    BY <1>5, <2>1, <2>2, <2>3, <2>4, Zenon DEF Asking, f
<1>20. Conn(n)'
  BY <1>19 DEF Conn
<1>21. \A i \in Id : i # id /\ channels[e][i] # NoChannel => channels[e][i].n # n
  BY <1>7 DEF Holds
<1>22. opens' \in 0..MaxOpens /\ opens' >= opens /\ n <= opens'
  BY <1>3, <1>4
<1>23. x.c.localid = id /\ "RCVD_CLOSE" \notin x.c.closes /\ Sound(x.c) /\ (e \notin FixedEnds => Within(x.c))
  BY <1>9, <1>11, <1>17
<1>24. QED
  BY <1>4, <1>5, <1>11, <1>12, <1>16, <1>17, <1>20, <1>21, <1>22, <1>23, StepOf

\* A channel that has been accepted, at the two ends.
LEMMA Silent ==
  ASSUME NEW q \in Seq(Pkt), \A i \in DOMAIN q : q[i].type = "OPEN_CONFIRMATION"
  PROVE  /\ Data(q) = 0 /\ Adjusts(q) = 0
         /\ Asks(q, "FAILURE") = <<>> /\ Asks(q, "REQUEST") = <<>>
<1>1. ASSUME NEW t, t # "OPEN_CONFIRMATION"
      PROVE  Total(Lens(q, t)) = 0
  <2>1. Lens(q, t) = [k \in 1..Len(q) |-> 0]
    BY <1>1 DEF Lens
  <2>2. Lens(q, t) \in Seq(Int) /\ \A k \in DOMAIN Lens(q, t) : Lens(q, t)[k] = 0
    BY <2>1
  <2>3. QED
    BY <2>2, TotalZero
<1>2. ASSUME NEW t, t # "OPEN_CONFIRMATION"
      PROVE  Asks(q, t) = <<>>
  <2> DEFINE w == [k \in DOMAIN q |-> q[k].len]
  <2> DEFINE T == {k \in DOMAIN q : q[k].type = t}
  <2>1. w \in Seq(Nat) /\ Len(w) = Len(q)
    <3>1. Len(q) \in Nat /\ DOMAIN q = 1..Len(q) /\ \A k \in 1..Len(q) : q[k] \in Pkt
      OBVIOUS
    <3>2. \A k \in 1..Len(q) : q[k].len \in Nat
      BY <3>1 DEF Pkt
    <3>3. w = [k \in 1..Len(q) |-> q[k].len]
      BY <3>1
    <3>4. QED
      BY <3>1, <3>2, <3>3
  <2>2. \A k \in 1..Len(w) : k \notin T
    BY <1>2
  <2>3. Asks(q, t) = Picked(w, T)
    BY DEF Asks
  <2> HIDE DEF w, T
  <2>4. QED
    BY <2>1, <2>2, <2>3, PickedNone
<1>3. QED
  BY <1>1, <1>2 DEF Data, Adjusts

LEMMA NewSides ==
  ASSUME NEW a \in Chan, NEW c \in Chan, NEW o \in Pkt, a.closes = {}, a.chanreqs = <<>>,
         a.halfopen = FALSE, a.remoteid = c.localid, a.remwindow = c.locwindow, c.halfopen, Sound(c),
         o.type = "OPEN_CONFIRMATION", o.to = c.localid, o.from = a.localid, o.len = a.locwindow
  PROVE  Sides(a, c, <<o>>, <<>>) /\ Sides(c, a, <<>>, <<o>>)
<1> DEFINE q == <<o>>
<1> DEFINE r == <<>>
<1>1. q \in Seq(Pkt) /\ q # <<>> /\ DOMAIN q = {1} /\ q[1] = o
  OBVIOUS
<1>2. r \in Seq(Pkt) /\ r = <<>> /\ DOMAIN r = {}
  OBVIOUS
<1> HIDE DEF q, r
<1>3. /\ Data(q) = 0 /\ Adjusts(q) = 0 /\ Asks(q, "FAILURE") = <<>> /\ Asks(q, "REQUEST") = <<>>
      /\ Data(r) = 0 /\ Adjusts(r) = 0 /\ Asks(r, "FAILURE") = <<>> /\ Asks(r, "REQUEST") = <<>>
  BY <1>1, <1>2, Silent
<1>4. /\ c.closes = {} /\ c.chanreqs = <<>> /\ c.locwindow \in Nat /\ a.locwindow \in Nat
  BY DEF Sound, Chan
<1>5. Addressed(a, c, q) /\ Addressed(c, a, r)
  BY <1>1, <1>2 DEF Addressed
<1>6. Ends(a, c, q) /\ Ends(c, a, r)
  <2>1. Ordered(q) /\ Ordered(r)
    BY <1>1, <1>2 DEF Ordered
  <2>2. ~Has(q, {"CLOSE"}) /\ ~Has(r, {"CLOSE"}) /\ ~Has(q, {"EOF"}) /\ ~Has(r, {"EOF"})
    BY <1>1, <1>2 DEF Has
  <2>3. QED
    BY <1>4, <2>1, <2>2 DEF Ends
<1>7. Answered(a, c, q, r) /\ Answered(c, a, r, q)
  <2>1. <<>> \in Seq(Nat) /\ <<>> \o <<>> = <<>>
    OBVIOUS
  <2>2. QED
    BY <1>3, <1>4, <2>1 DEF Answered
<1>8. Windows(a, c, q, r) /\ Windows(c, a, r, q)
  BY <1>1, <1>3, <1>4 DEF Windows
<1>9. QED
  BY <1>5, <1>6, <1>7, <1>8 DEF Sides, q, r

LEMMA NewCarried ==
  ASSUME NEW a \in Chan, NEW c \in Chan, NEW o \in Pkt, NEW n, Fresh(a, n), a.socksbuf = 0,
         o.type = "OPEN_CONFIRMATION", c.halfopen, Sound(c), c.chan = "socket",
         NEW s, s.owed = c.socksbuf, c.sockeof => s.eof, ~s.ended
  PROVE  Carried(a, c, <<o>>, NoStream) /\ Carried(c, a, <<>>, s)
<1> DEFINE q == <<o>>
<1> DEFINE r == <<>>
<1>1. q \in Seq(Pkt) /\ DOMAIN q = {1} /\ q[1] = o /\ r \in Seq(Pkt) /\ DOMAIN r = {}
  OBVIOUS
<1> HIDE DEF q, r
<1>2. Data(q) = 0 /\ Data(r) = 0
  BY <1>1, Silent
<1>3. c.closes = {} /\ c.outbuffer = 0 /\ c.socksbuf \in Nat
  BY DEF Sound, Chan
<1>4. NoStream.owed = 0 /\ NoStream.ended = FALSE
  BY DEF NoStream
<1>5. Carried(a, c, q, NoStream)
  BY <1>2, <1>4 DEF Carried, Fresh
<1>6. Carried(c, a, r, s)
  BY <1>2, <1>3 DEF Carried
<1>7. QED
  BY <1>5, <1>6 DEF q, r

LEMMA TailOfOne ==
  ASSUME NEW s \in Seq(Pkt), Len(s) = 1
  PROVE  Tail(s) = <<>>
<1>1. <<>> \in Seq(Pkt) /\ Len(<<>>) = 0
  OBVIOUS
<1>2. s # <<>>
  <2>1. ASSUME s = <<>>
        PROVE  FALSE
    <3>1. Len(s) = 0
      BY <1>1, <2>1, Zenon
    <3>2. QED
      BY <3>1
  <2>2. QED
    BY <2>1
<1>3. Tail(s) \in Seq(Pkt) /\ Len(Tail(s)) = Len(s) - 1
  BY <1>2
<1>4. Len(Tail(s)) = 0
  BY <1>3
<1>5. \A k \in 1..Len(Tail(s)) : Tail(s)[k] = <<>>[k]
  <2> DEFINE m == Len(Tail(s))
  <2>1. m = 0
    BY <1>4
  <2> HIDE DEF m
  <2>2. 1..m = {}
    BY <2>1
  <2>3. QED
    BY <2>2, Zenon DEF m
<1>6. QED
  BY <1>1, <1>3, <1>4, <1>5, SameSeq

\* The channel at f that is asked for by the packet p.
OpenAt(f, p, id) ==
  LET c == channels[f][id]
      s == stream[p.n]
  IN  /\ c \in Chan /\ c.n = p.n /\ c.localid = id /\ c.halfopen /\ c.chan # "freed"
      /\ Sound(c) /\ (f \notin FixedEnds => Within(c))
      /\ p.n <= opens /\ p.from = id /\ p.len = c.locwindow
      /\ Len(Of(net[f], p.n)) = 1 /\ Of(net[Other(f)], p.n) = <<>> /\ ~Holds(Other(f), p.n)
      /\ s.from[Other(f)] = NoStream
      /\ ~s.cut => /\ s.from[f].owed = c.socksbuf /\ (c.sockeof => s.from[f].eof)
                   /\ ~s.from[f].ended /\ c.chan = "socket"

LEMMA OpenFor ==
  ASSUME IInv, NEW e \in End, NEW p \in Pkt, FirstOf(e, p), p.type = "OPEN"
  PROVE  \E id \in Id : OpenAt(Other(e), p, id)
<1> DEFINE f == Other(e)
<1> DEFINE n == p.n
<1>1. TypeOK /\ Live1 /\ n \in 1..MaxOpens
  BY DEF IInv, Pkt
<1>2. f \in End /\ Other(f) = e
  BY OtherEnd
<1>3. Of(net[f], n) # <<>> /\ Of(net[f], n)[1] = p
  BY <1>1, FirstPicked
<1>4. Asking(f, n)
  BY AskingFor
<1>5. PICK id \in Id :
        LET c == channels[f][id]
        IN  /\ c # NoChannel /\ c.n = n /\ c.halfopen /\ ~Holds(Other(f), n)
            /\ \/ /\ Of(net[Other(f)], n) = <<>> /\ Len(Of(net[f], n)) = 1
                  /\ Of(net[f], n)[1].from = id /\ Of(net[f], n)[1].len = c.locwindow
               \/ Of(net[f], n) = <<>>
            /\ stream[n].from[Other(f)] = NoStream
            /\ ~stream[n].cut => /\ stream[n].from[f].owed = c.socksbuf
                                 /\ (c.sockeof => stream[n].from[f].eof)
                                 /\ ~stream[n].from[f].ended /\ c.chan = "socket"
  <2> HIDE DEF f, n
  <2>1. QED
    BY <1>4, Zenon DEF Asking
<1>6. /\ channels[f][id] \in Chan /\ channels[f][id].localid = id /\ n <= opens
      /\ channels[f][id].chan # "freed"
      /\ Sound(channels[f][id]) /\ (f \notin FixedEnds => Within(channels[f][id]))
  BY <1>1, <1>2, <1>5, TypeIs DEF Live1
<1>7. OpenAt(f, p, id)
  <2> HIDE DEF f
  <2>1. QED
    BY <1>3, <1>5, <1>6, Zenon DEF OpenAt
<1>8. QED
  BY <1>7

LEMMA RcvOpenRefused ==
  ASSUME IInv, NEW e \in End, NEW p \in Pkt, FirstOf(e, p), p.type = "OPEN",
         net' = [net EXCEPT ![e] = Append(@, Refuse(e, p)), ![Other(e)] = Tail(@)],
         UNCHANGED <<channels, conn_throttle_count, faults, opens, stream>>
  PROVE  IInv'
<1> DEFINE f == Other(e)
<1> DEFINE n == p.n
<1> DEFINE o == Refuse(e, p)
<1>1. TypeOK /\ faults = {} /\ Live1 /\ CutFrom /\ \A k \in 1..MaxOpens : Conn(k) /\ (k > opens => Closed(k))
  BY Zenon DEF IInv
<1>2. f \in End /\ f # e /\ Other(f) = e /\ n \in 1..MaxOpens
  BY OtherEnd DEF Pkt
<1>3. PICK id \in Id : OpenAt(f, p, id)
  BY OpenFor
<1>4. o \in Pkt /\ o.type = "OPEN_FAILURE" /\ o.to = p.from /\ o.n = n
  BY RefuseIs
<1>5. net' = [net EXCEPT ![e] = Append(@, o), ![f] = Tail(@)] /\ net[f] # <<>> /\ net[f][1].n = n
  BY DEF FirstOf
<1> HIDE DEF f, o
<1>6. <<o>> \in Seq(Pkt) /\ Len(<<o>>) = 1 /\ <<o>>[1] = o /\ \A i \in DOMAIN <<o>> : <<o>>[i].n = n
  BY <1>4, OneIs
<1>7. net' = [net EXCEPT ![e] = @ \o <<o>>, ![f] = Tail(@)]
  <2>1. net[e] \in Seq(Pkt)
    BY <1>1 DEF TypeOK
  <2>2. Append(net[e], o) = net[e] \o <<o>>
    BY <1>4, <2>1
  <2>3. QED
    BY <1>5, <2>2
<1>8. NetFits(e, n, <<o>>) /\ Of(net'[f], n) = Tail(Of(net[f], n))
  BY <1>1, <1>2, <1>5, <1>6, <1>7, NetTaken, ZenonT(40) DEF f
<1>9. /\ Of(net[e], n) = <<>> /\ Len(Of(net[f], n)) = 1 /\ ~Holds(e, n) /\ p.from = id
      /\ channels[f][id] \in Chan /\ channels[f][id].n = n /\ channels[f][id].halfopen
      /\ stream[n].from[e] = NoStream /\ n <= opens
      /\ ~stream[n].cut => /\ stream[n].from[f].owed = channels[f][id].socksbuf
                           /\ (channels[f][id].sockeof => stream[n].from[f].eof)
                           /\ ~stream[n].from[f].ended /\ channels[f][id].chan = "socket"
  BY <1>2, <1>3, Zenon DEF OpenAt
<1>10. Of(net'[e], n) = <<o>> /\ Of(net'[f], n) = <<>>
  <2>1. Of(net'[e], n) = <<>> \o <<o>>
    BY <1>8, <1>9 DEF NetFits
  <2>2. Of(net[f], n) \in Seq(Pkt)
    BY <1>1, <1>2, TypeIs
  <2>3. Of(net'[f], n) = <<>>
    BY <1>8, <1>9, <2>2, TailOfOne
  <2>4. <<>> \o <<o>> = <<o>>
    BY <1>4, OneIs
  <2>5. QED
    BY <2>1, <2>3, <2>4
<1>11. channels' = channels /\ stream' = stream /\ opens' = opens
  OBVIOUS
<1>12. Asking(f, n)'
  <2>1. ~Holds(e, n)'
    BY <1>9, <1>11 DEF Holds
  <2>2. channels[f][id] # NoChannel
    BY <1>9, NotNone
  <2>3. Len(Of(net'[e], n)) = 1 /\ Of(net'[e], n)[1].type = "OPEN_FAILURE" /\ Of(net'[e], n)[1].to = id
    BY <1>4, <1>6, <1>9, <1>10
  <2>4. QED
    BY <1>2, <1>9, <1>10, <1>11, <2>1, <2>2, <2>3, Zenon DEF Asking
<1>13. Conn(n)'
  BY <1>2, <1>12 DEF Conn
<1>14. ASSUME NEW k \in 1..MaxOpens, k # n
       PROVE  Conn(k)' /\ (k > opens' => Closed(k)')
  <2>1. Untouched(k)
    BY <1>8, <1>11, <1>14 DEF Untouched, NetFits
  <2>2. Conn(k) /\ (k > opens => Closed(k)) /\ (k > opens' => k > opens)
    BY <1>1, <1>11
  <2>3. QED
    BY <2>1, <2>2, ConnKept
<1>15. ~(n > opens')
  BY <1>1, <1>2, <1>9, <1>11 DEF TypeOK
<1>16. TypeOK'
  BY <1>1, <1>8 DEF TypeOK, NetFits
<1>17. Live1' /\ CutFrom' /\ faults' = {}
  BY <1>1 DEF Live1, CutFrom
<1>18. \A k \in 1..MaxOpens : Conn(k)' /\ (k > opens' => Closed(k)')
  BY <1>13, <1>14, <1>15
<1>19. QED
  BY <1>16, <1>17, <1>18, Zenon DEF IInv

LEMMA RcvOpenAccepted ==
  ASSUME IInv, NEW e \in End, NEW p \in Pkt, FirstOf(e, p), p.type = "OPEN",
         NEW id \in Id, channels[e][id] = NoChannel, UNCHANGED <<opens, stream>>,
         Handled(e, id, [c |-> Accepted(e, p, id), tx |-> <<Confirm(e, p, id)>>, faults |-> {}])
  PROVE  IInv'
<1> DEFINE f == Other(e)
<1> DEFINE n == p.n
<1> DEFINE a == Accepted(e, p, id)
<1> DEFINE o == Confirm(e, p, id)
<1> DEFINE x == [c |-> a, tx |-> <<o>>, faults |-> {}]
<1>1. TypeOK /\ CutFrom
  BY DEF IInv
<1>2. f \in End /\ f # e /\ Other(f) = e /\ n \in 1..MaxOpens /\ \A b \in End : b = e \/ b = f
  BY OtherEnd DEF Pkt
<1>3. id \in Nat
  BY SizeAssumption
<1>4. PICK j \in Id : OpenAt(f, p, j)
  BY OpenFor
<1> PICK c : c = channels[f][j]
  OBVIOUS
<1>5. IsAccepted(a, e, p, id)
  BY <1>3, AcceptedIs
<1>6. o \in Pkt /\ o.type = "OPEN_CONFIRMATION" /\ o.to = p.from /\ o.from = id /\ o.n = n /\ o.len = a.locwindow
  BY <1>3, ConfirmIs
<1>7. /\ Keep(e, id, x) /\ net' = [net EXCEPT ![e] = @ \o x.tx, ![f] = Tail(@)]
      /\ net[f] # <<>> /\ net[f][1].n = n
  BY DEF Handled, FirstOf
<1>8. opens' = opens /\ stream' = stream
  OBVIOUS
<1> HIDE DEF f, a, o
<1>9. <<o>> \in Seq(Pkt) /\ \A i \in DOMAIN <<o>> : <<o>>[i].n = n
  BY <1>6, OneIs
<1>10. a \in Chan /\ a.n = n /\ a.closes = {} /\ a.chan = "socket" /\ a.localid = id /\ a.halfopen = FALSE
  BY <1>5 DEF IsAccepted, Fresh
<1>11. x \in Work /\ x.c = a /\ x.tx = <<o>> /\ x.faults = {}
  BY <1>9, <1>10 DEF Work
<1> HIDE DEF x
<1>12. NetFits(e, n, x.tx) /\ Of(net'[f], n) = Tail(Of(net[f], n))
  <2>1. x.tx \in Seq(Pkt) /\ \A i \in DOMAIN x.tx : x.tx[i].n = n
    BY <1>9, <1>11
  <2>2. QED
    BY <1>1, <1>2, <1>7, <2>1, NetTaken DEF f
<1>13. /\ c \in Chan /\ c.n = n /\ c.localid = j /\ c.halfopen /\ c.chan # "freed"
       /\ Sound(c) /\ (f \notin FixedEnds => Within(c)) /\ n <= opens /\ p.from = j /\ p.len = c.locwindow
       /\ Len(Of(net[f], n)) = 1 /\ Of(net[e], n) = <<>> /\ ~Holds(e, n)
       /\ stream[n].from[e] = NoStream
       /\ ~stream[n].cut => /\ stream[n].from[f].owed = c.socksbuf
                            /\ (c.sockeof => stream[n].from[f].eof)
                            /\ ~stream[n].from[f].ended /\ c.chan = "socket"
  BY <1>2, <1>4, Zenon DEF OpenAt
<1>14. channels[f][j] = c
  OBVIOUS
<1>15. Of(net'[e], n) = <<o>> /\ Of(net'[f], n) = <<>>
  <2>1. Of(net'[e], n) = <<>> \o <<o>>
    BY <1>11, <1>12, <1>13 DEF NetFits
  <2>2. Of(net[f], n) \in Seq(Pkt)
    BY <1>1, <1>2, TypeIs
  <2>3. Of(net'[f], n) = <<>>
    BY <1>12, <1>13, <2>2, TailOfOne
  <2>4. <<>> \o <<o>> = <<o>>
    BY <1>6, OneIs
  <2>5. QED
    BY <2>1, <2>3, <2>4
<1>16. /\ channels'[e][id] = a
       /\ \A b \in End, i \in Id : b # e \/ i # id => channels'[b][i] = channels[b][i]
  BY <1>1, <1>7, <1>10, <1>11, KeepIs
<1>17. Sides(a, c, <<o>>, <<>>) /\ Sides(c, a, <<>>, <<o>>)
  <2>1. /\ a.chanreqs = <<>> /\ a.remoteid = c.localid /\ a.remwindow = c.locwindow
        /\ o.to = c.localid /\ o.from = a.localid
    BY <1>5, <1>6, <1>10, <1>13 DEF IsAccepted, Fresh
  <2>2. QED
    BY <1>6, <1>10, <1>13, <2>1, NewSides
<1>18. stream[n].cut \/ (Carried(a, c, <<o>>, NoStream) /\ Carried(c, a, <<>>, stream[n].from[f]))
  <2>1. SUFFICES ASSUME ~stream[n].cut
                 PROVE  Carried(a, c, <<o>>, NoStream) /\ Carried(c, a, <<>>, stream[n].from[f])
    OBVIOUS
  <2>2. Fresh(a, n) /\ a.socksbuf = 0
    BY <1>5 DEF IsAccepted
  <2>3. /\ c.halfopen /\ c.chan = "socket" /\ stream[n].from[f].owed = c.socksbuf
        /\ (c.sockeof => stream[n].from[f].eof) /\ ~stream[n].from[f].ended
    BY <1>13, <2>1
  <2>4. QED
    BY <1>6, <1>10, <1>13, <2>2, <2>3, NewCarried
<1>19. Sound(a) /\ (e \notin FixedEnds => Within(a))
  <2>1. /\ Fresh(a, n) /\ a.locwindow <= a.locmaxwin /\ a.remlocwin = a.locwindow
        /\ ~a.halfopen /\ a.socksbuf = 0 /\ (e \notin FixedEnds => a.fixed = FALSE)
    BY <1>5, <1>10 DEF IsAccepted, Chan
  <2>2. QED
    BY <1>10, <2>1, FreshSound, Zenon
<1>20. PICK g \in [End -> Chan] : g[e] = a /\ g[f] = c
  <2> DEFINE h == [b \in End |-> IF b = e THEN a ELSE c]
  <2>1. h \in [End -> Chan] /\ h[e] = a /\ h[f] = c
    BY <1>2, <1>10, <1>13
  <2> HIDE DEF h
  <2>2. QED
    BY <2>1
<1>21. Side(e, n, g)'
  <2>1. /\ Sides(g[e], g[f], Of(net'[e], n), Of(net'[f], n))
        /\ stream'[n].cut \/ Carried(g[e], g[f], Of(net'[e], n), stream'[n].from[e])
    BY <1>8, <1>13, <1>15, <1>17, <1>18, <1>20
  <2>2. /\ Sound(g[e]) /\ (e \notin FixedEnds => Within(g[e])) /\ g[e].n = n
        /\ g[e].chan # "freed" /\ "RCVD_CLOSE" \notin g[e].closes
        /\ g[e].localid \in Id /\ channels'[e][g[e].localid] = g[e]
    BY <1>10, <1>16, <1>19, <1>20
  <2>3. QED
    BY <2>1, <2>2, Zenon DEF Side, f
<1>22. Side(f, n, g)'
  <2>1. /\ Sides(g[f], g[e], Of(net'[f], n), Of(net'[e], n))
        /\ stream'[n].cut \/ Carried(g[f], g[e], Of(net'[f], n), stream'[n].from[f])
    BY <1>8, <1>15, <1>17, <1>18, <1>20
  <2>2. /\ Sound(g[f]) /\ (f \notin FixedEnds => Within(g[f])) /\ g[f].n = n
        /\ g[f].chan # "freed" /\ "RCVD_CLOSE" \notin g[f].closes
        /\ g[f].localid \in Id /\ channels'[f][g[f].localid] = g[f]
    <3>1. c.closes = {}
      BY <1>13 DEF Sound
    <3>2. channels'[f][j] = c
      BY <1>2, <1>14, <1>16
    <3>3. QED
      BY <1>13, <1>20, <3>1, <3>2
  <2>3. QED
    BY <1>2, <2>1, <2>2, Zenon DEF Side
<1>23. Joined(n)'
  BY <1>2, <1>20, <1>21, <1>22 DEF Joined
<1>24. Conn(n)'
  BY <1>23 DEF Conn
<1>25. StreamFits(n)
  BY <1>1, <1>2, StreamKept
<1>26. OfOne(e, n, x.tx)
  BY <1>12, <1>25 DEF OfOne
<1>27. \A i \in Id : i # id /\ channels[e][i] # NoChannel => channels[e][i].n # n
  BY <1>13 DEF Holds
<1>28. opens' \in 0..MaxOpens /\ opens' >= opens /\ n <= opens'
  BY <1>1, <1>8, <1>13 DEF TypeOK
<1>29. x.c.n = n /\ x.c.localid = id /\ "RCVD_CLOSE" \notin x.c.closes /\ Sound(x.c)
       /\ (e \notin FixedEnds => Within(x.c))
  BY <1>10, <1>11, <1>19
<1>30. n \in 1..MaxOpens /\ x \in Work /\ Keep(e, id, x) /\ channels[e][id] = NoChannel
  BY <1>2, <1>7, <1>11
<1> HIDE DEF n
<1>31. QED
  BY <1>24, <1>26, <1>27, <1>28, <1>29, <1>30, StepOf

LEMMA RcvOpenStep ==
  ASSUME IInv, NEW e \in End, RcvOpen(e)
  PROVE  IInv'
<1>1. TypeOK
  BY DEF IInv
<1>2. PICK p \in Incoming(e, "OPEN") :
        /\ \/ /\ FreeIds(e) # {}
              /\ Handled(e, Min(FreeIds(e)),
                   [c |-> Accepted(e, p, Min(FreeIds(e))),
                    tx |-> <<Confirm(e, p, Min(FreeIds(e)))>>, faults |-> {}])
           \/ /\ net' = [net EXCEPT ![e] = Append(@, Refuse(e, p)), ![Other(e)] = Tail(@)]
              /\ UNCHANGED <<channels, conn_throttle_count, faults>>
        /\ UNCHANGED <<opens, stream>>
  BY Zenon DEF RcvOpen, Confirm, Accepted, Admitted, Asked, Refuse
<1>3. p \in Pkt /\ FirstOf(e, p) /\ p.type = "OPEN"
  BY <1>1, IncomingIs
<1>4. CASE /\ FreeIds(e) # {}
           /\ Handled(e, Min(FreeIds(e)),
                   [c |-> Accepted(e, p, Min(FreeIds(e))),
                    tx |-> <<Confirm(e, p, Min(FreeIds(e)))>>, faults |-> {}])
  <2> DEFINE id == Min(FreeIds(e))
  <2>1. id \in Id /\ channels[e][id] = NoChannel
    BY <1>4, FreeId
  <2>2. Handled(e, id, [c |-> Accepted(e, p, id), tx |-> <<Confirm(e, p, id)>>, faults |-> {}])
    BY <1>4
  <2> HIDE DEF id
  <2>3. QED
    BY <1>2, <1>3, <2>1, <2>2, RcvOpenAccepted
<1>5. CASE /\ net' = [net EXCEPT ![e] = Append(@, Refuse(e, p)), ![Other(e)] = Tail(@)]
           /\ UNCHANGED <<channels, conn_throttle_count, faults>>
  BY <1>2, <1>3, <1>5, RcvOpenRefused
<1>6. QED
  BY <1>2, <1>4, <1>5

-----------------------------------------------------------------------------
(* The invariant *)

LEMMA InitInv == Init => IInv
<1> SUFFICES ASSUME Init
             PROVE  IInv
  OBVIOUS
<1>1. /\ channels = [e \in End |-> [i \in Id |-> NoChannel]] /\ net = [e \in End |-> <<>>]
      /\ conn_throttle_count = [e \in End |-> 0] /\ faults = {} /\ opens = 0
      /\ stream = [n \in 1..MaxOpens |-> NewStream]
  BY DEF Init
<1>2. stream \in [1..MaxOpens -> History] /\ \A n \in 1..MaxOpens : stream[n] = NewStream
  BY <1>1, NewStreamIs
<1>3. TypeOK
  <2>1. channels \in [End -> [Id -> Chan \cup {NoChannel}]]
    BY <1>1
  <2>2. net \in [End -> Seq(Pkt)]
    <3>1. <<>> \in Seq(Pkt)
      OBVIOUS
    <3>2. QED
      BY <1>1, <3>1
  <2>3. conn_throttle_count \in [End -> Int] /\ opens \in 0..MaxOpens
    BY <1>1, SizeAssumption
  <2>4. stream \in [1..MaxOpens ->
          [cut : BOOLEAN, early : BOOLEAN,
           from : [End -> [owed : Int, eof : BOOLEAN, ended : BOOLEAN]]]]
    BY <1>2, StreamsType
  <2>5. QED
    BY <2>1, <2>2, <2>3, <2>4 DEF TypeOK
<1>4. Live1
  BY <1>1 DEF Live1
<1>5. CutFrom
  BY <1>2, NewStreamIs DEF CutFrom
<1>6. ASSUME NEW n \in 1..MaxOpens
      PROVE  Closed(n)
  <2>1. \A e \in End : ~Holds(e, n)
    BY <1>1 DEF Holds
  <2>2. \A e \in End : Of(net[e], n) = <<>>
    <3>1. SUFFICES ASSUME NEW e \in End
                   PROVE  Of(net[e], n) = <<>>
      OBVIOUS
    <3>2. net[e] = <<>> /\ net[e] \in Seq(Pkt) /\ Len(<<>>) = 0 /\ 1..0 = {}
      BY <1>1, <1>3 DEF TypeOK
    <3>3. \A k \in 1..Len(net[e]) : k \notin {i \in DOMAIN net[e] : net[e][i].n = n}
      BY <3>2, Zenon
    <3>4. QED
      BY <3>2, <3>3, PickedNone DEF Of
  <2>3. Whole(n)
    BY <1>2, NewStreamIs DEF Whole
  <2>4. QED
    BY <1>2, <2>1, <2>2, <2>3 DEF Closed
<1>7. QED
  BY <1>1, <1>3, <1>4, <1>5, <1>6, Zenon DEF IInv, Conn

LEMMA StutterInv ==
  ASSUME IInv, UNCHANGED vars
  PROVE  IInv'
<1>1. TypeOK /\ faults = {} /\ Live1 /\ CutFrom /\ \A k \in 1..MaxOpens : Conn(k) /\ (k > opens => Closed(k))
  BY Zenon DEF IInv
<1>2. /\ channels' = channels /\ net' = net /\ conn_throttle_count' = conn_throttle_count
      /\ faults' = faults /\ opens' = opens /\ stream' = stream
  BY DEF vars
<1>3. TypeOK' /\ Live1' /\ CutFrom' /\ faults' = {}
  BY <1>1, <1>2 DEF TypeOK, Live1, CutFrom
<1>4. ASSUME NEW k \in 1..MaxOpens
      PROVE  Conn(k)' /\ (k > opens' => Closed(k)')
  <2>1. Untouched(k)
    BY <1>2 DEF Untouched
  <2>2. Conn(k) /\ (k > opens => Closed(k)) /\ (k > opens' => k > opens)
    BY <1>1, <1>2
  <2>3. QED
    BY <2>1, <2>2, ConnKept
<1>5. QED
  BY <1>3, <1>4, Zenon DEF IInv

LEMMA NextInv == IInv /\ [Next]_vars => IInv'
<1> SUFFICES ASSUME IInv, [Next]_vars
             PROVE  IInv'
  OBVIOUS
<1>1. ASSUME NEW e \in End, Receive(e)
      PROVE  IInv'
  BY <1>1, RcvOpenStep, RcvConfirmationStep, RcvOpenFailureStep, RcvDataStep, RcvWindowAdjustStep,
     RcvRequestStep, RcvFailureStep, RcvEofStep, RcvCloseStep DEF Receive
<1>2. ASSUME NEW e \in End, NEW socks \in {0, 1}, OpenChannel(e, socks)
      PROVE  IInv'
  BY <1>2, OpenChannelStep
<1>3. ASSUME NEW e \in End, NEW id \in Id,
             \/ SocketReceive(e, id) \/ SocketClosing(e, id)
             \/ SocketError(e, id) \/ SocketSent(e, id)
      PROVE  IInv'
  BY <1>3, SocketReceiveStep, SocketClosingStep, SocketErrorStep, SocketSentStep
<1>4. CASE UNCHANGED vars
  BY <1>4, StutterInv
<1>5. QED
  BY <1>1, <1>2, <1>3, <1>4 DEF Next

\* What the two ends of every channel, the packets between them and the streams
\* of their sockets have to do with each other, at every moment of every run.
THEOREM InvariantHolds == Spec => []IInv
<1>1. Init => IInv
  BY InitInv
<1>2. IInv /\ [Next]_vars => IInv'
  BY NextInv
<1>3. QED
  BY <1>1, <1>2, PTL DEF Spec

-----------------------------------------------------------------------------
(* The properties *)

\* The next packet that e has been sent.
Right(e, p) ==
  p.type # "OPEN" =>
    /\ Expected(e, p) /\ channels[e][p.to].n = p.n
    /\ p.type = "FAILURE" => p.len = Head(channels[e][p.to].chanreqs)

LEMMA AnswerExpected ==
  ASSUME IInv, NEW e \in End, NEW p \in Pkt, FirstOf(e, p), p.type = "OPEN_FAILURE"
  PROVE  Right(e, p)
<1> DEFINE f == Other(e)
<1> DEFINE n == p.n
<1>1. TypeOK /\ n \in 1..MaxOpens
  BY DEF IInv, Pkt
<1>2. Of(net[f], n) # <<>> /\ Of(net[f], n)[1] = p
  BY <1>1, FirstPicked
<1>3. Asking(e, n)
  BY AskingFor
<1>4. PICK id \in Id :
        /\ channels[e][id] # NoChannel /\ channels[e][id].n = n /\ channels[e][id].halfopen
        /\ Of(net[f], n) = <<>> \/ Of(net[f], n)[1].to = id
  BY <1>3, Zenon DEF Asking
<1>5. p.to = id /\ channels[e][id] \in Chan
  BY <1>1, <1>2, <1>4, TypeIs
<1>6. channels[e][id].halfopen = TRUE
  BY <1>4, <1>5 DEF Chan
<1>7. (p.type \in {"OPEN_CONFIRMATION", "OPEN_FAILURE"}) = TRUE
  OBVIOUS
<1>8. channels[e][p.to].halfopen = (p.type \in {"OPEN_CONFIRMATION", "OPEN_FAILURE"})
  BY <1>5, <1>6, <1>7
<1>9. Expected(e, p)
  BY <1>4, <1>5, <1>8 DEF Expected
<1>10. QED
  BY <1>4, <1>5, <1>9 DEF Right

LEMMA OthersExpected ==
  ASSUME IInv, NEW e \in End, NEW p \in Pkt, FirstOf(e, p), p.type \notin {"OPEN", "OPEN_FAILURE"}
  PROVE  Right(e, p)
<1> DEFINE f == Other(e)
<1> DEFINE n == p.n
<1> DEFINE q == Of(net[e], n)
<1> DEFINE r == Of(net[f], n)
<1>1. TypeOK /\ n \in 1..MaxOpens
  BY DEF IInv, Pkt
<1>2. r \in Seq(Pkt) /\ r # <<>> /\ r[1] = p /\ 1 \in DOMAIN r
  BY <1>1, FirstPicked
<1>3. PICK g \in [End -> Chan] :
        /\ \A b \in End : Side(b, n, g)
        /\ g[e].chan # "freed" /\ g[e].localid = p.to /\ p.to \in Id /\ channels[e][p.to] = g[e]
  BY PacketFor
<1>4. f \in End /\ Other(f) = e /\ q \in Seq(Pkt)
  BY <1>1, OtherEnd, TypeIs
<1>5. g[e] \in Chan /\ g[f] \in Chan /\ g[e].n = n
  BY <1>3, <1>4 DEF Side
<1>6. Addressed(g[f], g[e], r) /\ Answered(g[f], g[e], r, q)
  BY <1>3, <1>4 DEF Side, Sides
<1> DEFINE c == g[e]
<1> HIDE DEF c, f, n, q, r
<1>7. (p.type = "OPEN_CONFIRMATION") <=> c.halfopen
  BY <1>2, <1>6 DEF Addressed, c
<1>8. p.type = "FAILURE" => c.chanreqs # <<>> /\ Head(c.chanreqs) = p.len
  BY <1>2, <1>4, <1>5, <1>6, FailureAnswers DEF c
<1>9. channels[e][p.to] = c /\ c \in Chan /\ c # NoChannel /\ c.n = n /\ p.to \in Id
  BY <1>3, <1>5, NotNone DEF c
<1>10. c.halfopen = (p.type \in {"OPEN_CONFIRMATION", "OPEN_FAILURE"})
  <2>1. CASE p.type = "OPEN_CONFIRMATION"
    <3>1. c.halfopen = TRUE
      BY <1>7, <1>9, <2>1 DEF Chan
    <3>2. (p.type \in {"OPEN_CONFIRMATION", "OPEN_FAILURE"}) = TRUE
      BY <2>1
    <3>3. QED
      BY <3>1, <3>2
  <2>2. CASE p.type # "OPEN_CONFIRMATION"
    <3>1. c.halfopen = FALSE
      BY <1>7, <1>9, <2>2 DEF Chan
    <3>2. (p.type \in {"OPEN_CONFIRMATION", "OPEN_FAILURE"}) = FALSE
      BY <2>2
    <3>3. QED
      BY <3>1, <3>2
  <2>3. QED
    BY <2>1, <2>2
<1>11. Expected(e, p)
  BY <1>8, <1>9, <1>10, Zenon DEF Expected
<1>12. QED
  BY <1>8, <1>9, <1>11, Zenon DEF Right, n

LEMMA InvNoProtocolError == IInv => NoProtocolError
<1> SUFFICES ASSUME IInv
             PROVE  NoProtocolError
  OBVIOUS
<1>1. TypeOK /\ faults = {}
  BY DEF IInv
<1>2. ASSUME NEW e \in End, net[Other(e)] # <<>>
      PROVE  Right(e, Head(net[Other(e)]))
  <2> DEFINE p == net[Other(e)][1]
  <2>1. net[Other(e)] \in Seq(Pkt)
    BY <1>1, OtherEnd DEF TypeOK
  <2>2. p \in Pkt /\ Head(net[Other(e)]) = p
    BY <1>2, <2>1
  <2>3. FirstOf(e, p)
    BY <1>2 DEF FirstOf
  <2> HIDE DEF p
  <2>4. CASE p.type = "OPEN"
    BY <2>2, <2>4 DEF Right
  <2>5. CASE p.type = "OPEN_FAILURE"
    BY <2>2, <2>3, <2>5, AnswerExpected
  <2>6. CASE p.type \notin {"OPEN", "OPEN_FAILURE"}
    BY <2>2, <2>3, <2>6, OthersExpected
  <2>7. QED
    BY <2>4, <2>5, <2>6
<1>3. QED
  BY <1>1, <1>2, Zenon DEF NoProtocolError, Right

\* Of a channel that is at both ends.
LEMMA BothThere ==
  ASSUME IInv, NEW e \in End, NEW f \in End, e # f, NEW i \in Id, NEW j \in Id,
         channels[e][i] # NoChannel, channels[f][j] # NoChannel, channels[e][i].n = channels[f][j].n
  PROVE  LET c == channels[e][i]
             d == channels[f][j]
         IN  Sides(c, d, Of(net[e], c.n), Of(net[f], c.n)) /\ Sound(d) /\ c \in Chan /\ d \in Chan
<1> PICK n : n = channels[e][i].n
  OBVIOUS
<1>1. TypeOK /\ Live1 /\ \A k \in 1..MaxOpens : Conn(k)
  BY DEF IInv
<1>2. channels[e][i] \in Chan /\ channels[f][j] \in Chan /\ n \in 1..MaxOpens
  <2>1. channels[e][i] \in Chan /\ channels[f][j] \in Chan
    BY <1>1 DEF TypeOK
  <2>2. QED
    BY <2>1 DEF Chan
<1>3. Other(e) = f /\ Other(f) = e /\ \A b \in End : b = e \/ b = f
  BY OtherEnd
<1>4. Holds(e, n) /\ Holds(f, n)
  BY DEF Holds
<1>5. ~Closed(n)
  BY <1>4 DEF Closed
<1>6. ASSUME NEW b \in End
      PROVE  ~Asking(b, n)
  <2>1. Asking(b, n) => ~Holds(Other(b), n)
    BY Zenon DEF Asking
  <2>2. QED
    BY <1>3, <1>4, <2>1
<1>7. PICK g \in [End -> Chan] : \A b \in End : Side(b, n, g)
  BY <1>1, <1>2, <1>5, <1>6 DEF Conn, Joined
<1>8. ASSUME NEW b \in End, NEW k \in Id, channels[b][k] # NoChannel, channels[b][k].n = n
      PROVE  channels[b][k] = g[b]
  <2>1. Side(b, n, g) /\ Holds(b, n)
    BY <1>7, <1>8 DEF Holds
  <2>2. g[b].localid \in Id /\ channels[b][g[b].localid] = g[b] /\ g[b].n = n
    BY <2>1, Zenon DEF Side
  <2>3. g[b] # NoChannel
    BY NotNone
  <2>4. g[b].localid = k
    BY <1>1, <1>8, <2>2, <2>3 DEF Live1
  <2>5. QED
    BY <2>2, <2>4
<1>9. channels[e][i] = g[e] /\ channels[f][j] = g[f]
  BY <1>8
<1>10. Sides(g[e], g[f], Of(net[e], n), Of(net[f], n)) /\ Sound(g[f])
  BY <1>3, <1>7 DEF Side
<1>11. QED
  BY <1>2, <1>9, <1>10

LEMMA InvWindowsAgree == IInv => WindowsAgree
<1> SUFFICES ASSUME IInv
             PROVE  WindowsAgree
  OBVIOUS
<1>1. Live1
  BY DEF IInv
<1>2. ASSUME NEW p \in Live, NEW q \in Live, Mates(p, q)
      PROVE  LET c == ChannelAt(p)
                 d == ChannelAt(q)
                 data == InFlight(p[1], "DATA", c.n)
             IN  /\ ~c.halfopen /\ "SENT_EOF" \notin c.closes =>
                      c.remwindow + data + InFlight(q[1], "WINDOW_ADJUST", c.n) = d.locwindow
                 /\ data <= d.locwindow
                 /\ d.remlocwin + Total(d.chanreqs) >= d.locwindow
  <2> DEFINE e == p[1]
  <2> DEFINE f == q[1]
  <2> DEFINE c == channels[e][p[2]]
  <2> DEFINE d == channels[f][q[2]]
  <2>1. /\ e \in End /\ f \in End /\ e # f /\ p[2] \in Id /\ q[2] \in Id /\ c # NoChannel /\ d # NoChannel
        /\ c.n = d.n /\ c = ChannelAt(p) /\ d = ChannelAt(q)
    BY <1>2 DEF Live, Mates, ChannelAt
  <2>2. Sides(c, d, Of(net[e], c.n), Of(net[f], c.n)) /\ Sound(d)
    <3> DEFINE i == p[2]
    <3> DEFINE j == q[2]
    <3>1. i \in Id /\ j \in Id /\ c = channels[e][i] /\ d = channels[f][j]
      BY <2>1
    <3> HIDE DEF e, f, i, j
    <3>2. QED
      BY <2>1, <3>1, BothThere
  <2>3. c = ChannelAt(p) /\ d = ChannelAt(q) /\ e = p[1] /\ f = q[1]
    BY <2>1
  <2> HIDE DEF c, d, e, f
  <2>4. Windows(c, d, Of(net[e], c.n), Of(net[f], c.n))
    BY <2>2 DEF Sides
  <2>5. /\ InFlight(e, "DATA", c.n) = Data(Of(net[e], c.n))
        /\ InFlight(f, "WINDOW_ADJUST", c.n) = Adjusts(Of(net[f], c.n))
    BY DEF InFlight, Data, Adjusts
  <2>6. /\ ~c.halfopen /\ "SENT_EOF" \notin c.closes =>
             c.remwindow + InFlight(e, "DATA", c.n) + InFlight(f, "WINDOW_ADJUST", c.n) = d.locwindow
        /\ InFlight(e, "DATA", c.n) <= d.locwindow
        /\ d.remlocwin + Total(d.chanreqs) >= d.locwindow
    BY <2>2, <2>4, <2>5 DEF Windows, Sound
  <2>7. QED
    BY <2>3, <2>6, Zenon
<1>3. BacklogWithinWindow
  <2> SUFFICES ASSUME NEW p \in Live, p[1] \notin FixedEnds
               PROVE  /\ ChannelAt(p).locwindow + ChannelAt(p).backlog <= ChannelAt(p).locmaxwin
                      /\ ~ChannelAt(p).throttling_conn
    BY DEF BacklogWithinWindow
  <2>1. p[1] \in End /\ p[2] \in Id /\ channels[p[1]][p[2]] # NoChannel
    BY DEF Live, ChannelAt
  <2>2. Within(channels[p[1]][p[2]])
    BY <1>1, <2>1 DEF Live1
  <2>3. QED
    BY <2>2 DEF Within, ChannelAt
<1>4. QED
  BY <1>2, <1>3, Zenon DEF WindowsAgree

\* The streams of a channel that is open at both ends.
LEMMA JoinedWhole ==
  ASSUME TypeOK, NEW n \in 1..MaxOpens, ~stream[n].cut, Joined(n), NEW e \in End
  PROVE  LET s == stream[n].from[e]
         IN  s.owed >= 0 /\ (s.ended => s.eof /\ s.owed = 0)
<1> DEFINE f == Other(e)
<1>1. PICK g \in [End -> Chan] : \A b \in End : Side(b, n, g)
  BY DEF Joined
<1> DEFINE c == g[e]
<1> DEFINE d == g[f]
<1> DEFINE q == Of(net[e], n)
<1> DEFINE s == stream[n].from[e]
<1>2. c \in Chan /\ d \in Chan /\ q \in Seq(Pkt)
  BY OtherEnd, TypeIs
<1>3. Carried(c, d, q, s) /\ Ends(c, d, q)
  BY <1>1 DEF Side, Sides
<1> HIDE DEF c, d, q, s, f
<1>4. Data(q) \in Nat /\ c.socksbuf \in Nat /\ c.outbuffer \in Nat
  BY <1>2, DataSums DEF Chan
<1>5. s.owed >= 0
  BY <1>3, <1>4 DEF Carried
<1>6. ASSUME s.ended
      PROVE  s.eof /\ s.owed = 0
  <2>1. "RCVD_EOF" \in d.closes
    BY <1>3, <1>6 DEF Carried
  <2>2. "SENT_EOF" \in c.closes /\ ~Has(q, {"DATA", "EOF"})
    BY <1>3, <2>1 DEF Ends
  <2>3. ~Has(q, {"DATA"})
    BY <2>2 DEF Has
  <2>4. Data(q) = 0
    BY <1>2, <2>3, DataNone
  <2>5. QED
    BY <1>3, <2>2, <2>4 DEF Carried
<1>7. QED
  BY <1>5, <1>6, Zenon DEF s

LEMMA InvStreamsWhole == IInv => StreamsWhole
<1> SUFFICES ASSUME IInv, NEW n \in 1..MaxOpens, NEW e \in End
             PROVE  LET s == stream[n].from[e]
                    IN  s.owed >= 0 /\ (s.ended => s.eof /\ s.owed = 0)
  BY DEF StreamsWhole
<1>1. TypeOK /\ Live1 /\ CutFrom /\ Conn(n)
  BY DEF IInv
<1>2. CASE stream[n].cut
  <2>1. stream[n].from = NewStream.from
    BY <1>1, <1>2 DEF CutFrom
  <2>2. QED
    BY <2>1, NewStreamIs
<1>3. CASE Closed(n)
  BY <1>3 DEF Closed, Whole
<1>4. CASE ~stream[n].cut /\ \E b \in End : Asking(b, n)
  <2>1. PICK b \in End : Asking(b, n)
    BY <1>4
  <2>2. PICK id \in Id :
          /\ channels[b][id] # NoChannel /\ stream[n].from[Other(b)] = NoStream
          /\ stream[n].from[b].owed = channels[b][id].socksbuf /\ ~stream[n].from[b].ended
    BY <1>4, <2>1, Zenon DEF Asking
  <2>3. channels[b][id].socksbuf \in Nat
    <3>1. channels[b][id] \in Chan
      BY <1>1, <2>2 DEF TypeOK
    <3>2. QED
      BY <3>1 DEF Chan
  <2>4. CASE e = b
    BY <2>2, <2>3, <2>4
  <2>5. CASE e # b
    <3>1. stream[n].from[e] = NoStream
      BY <2>2, <2>5, OtherEnd
    <3>2. NoStream.owed = 0 /\ NoStream.ended = FALSE
      BY DEF NoStream
    <3>3. QED
      BY <3>1, <3>2
  <2>6. QED
    BY <2>4, <2>5
<1>5. CASE ~stream[n].cut /\ Joined(n)
  BY <1>1, <1>5, JoinedWhole
<1>6. QED
  BY <1>1, <1>2, <1>3, <1>4, <1>5 DEF Conn

\* However often the channel numbers are used again, each packet comes to the channel it was
\* sent to, while that is there and ready for it; each FAILURE answers the request at the head
\* of chanreqs; and no assertion of connection2.c fails.
\* Code: ssh2_connection_filter_queue.
THEOREM NoProtocolErrorHolds == Spec => []NoProtocolError
BY InvariantHolds, InvNoProtocolError, PTL

\* remwindow, the data and the WINDOW_ADJUSTs on their way always make up the other end's
\* locwindow, remlocwin never falls below what the adjustments that are acknowledged come to,
\* and a channel that keeps to its window leaves the connection unthrottled.
\* Code: ssh2_try_send, ssh2_set_window, ssh2_channel_unthrottle.
THEOREM WindowsAgreeHolds == Spec => []WindowsAgree
BY InvariantHolds, InvWindowsAgree, PTL

\* chan_send_eof is called at one end only when the socket there has been given all that the
\* peer of the other end wrote before it closed, as long as neither socket fails.
\* Code: ssh2_channel_try_eof, and the handling of CHANNEL_EOF and CHANNEL_CLOSE.
THEOREM StreamsWholeHolds == Spec => []StreamsWhole
BY InvariantHolds, InvStreamsWhole, PTL
=============================================================================
