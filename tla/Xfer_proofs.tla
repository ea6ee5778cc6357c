----------------------------- MODULE Xfer_proofs -----------------------------
(***************************************************************************)
(* That every reply finds its request, and that a transfer without an      *)
(* error is whole, for files, blocks and pipelines of any size, for        *)
(* servers that answer in any order or fail, and files that grow.          *)
(***************************************************************************)
EXTENDS Xfer, FiniteSetTheorems, WellFoundedInduction, TLAPS

(* The inductive invariant *)

Req == [offset : Nat, len : Nat, retlen : Nat, complete : -1 .. 1]
XferRec == [offset : Nat, furthestdata : Nat, filesize : Nat, totalsize : Int,
            eof : BOOLEAN, err : BOOLEAN, queue : Seq(Req)]
Sent == [id : Nat, offset : Nat, len : Nat]
Reply == [id : Nat, status : {"DATA", "EOF", "FAILURE", "OK"}, len : Nat]
File == [len : Nat, inorder : BOOLEAN, stored : SUBSET Nat]

TypeOK ==
  /\ client \in {"get", "put", "pscp", "send"}
  /\ size \in 0..MaxSize /\ statsize \in 0..size /\ (client \in Growing \/ statsize = size)
  /\ xfer \in XferRec
  /\ table \subseteq [id : Nat, rr : Nat] /\ IsFiniteSet(Ids(table))
  /\ asked \in Seq(Sent) /\ replies \in Seq(Reply) /\ dest \in File
  /\ toret \in BOOLEAN /\ stage \in {"copying", "done", "lost", "died"}
  /\ basis \in {"nothing", "prefix", "gap"}
  /\ client \in {"pscp", "send"} => basis = "nothing"

\* The queue is in the order of the file, and no two requests are for the same data.
Ordered(q, top) ==
  /\ \A i \in DOMAIN q : q[i].len > 0 /\ q[i].offset + q[i].len <= top
  /\ \A i, j \in DOMAIN q : i < j => q[i].offset + q[i].len <= q[j].offset

\* Ids, requests on their way, replies on theirs and requests that wait are matched
\* one by one.
Entry(req) == [id |-> req.id, rr |-> req.offset]
Distinct(s) == \A i, j \in DOMAIN s : s[i].id = s[j].id => i = j
Book(q, tab, ask, reps) ==
  /\ \A t, u \in tab : t.id = u.id \/ t.rr = u.rr => t = u
  /\ \A i \in DOMAIN ask : Entry(ask[i]) \in tab
  /\ \A i \in DOMAIN reps : reps[i].id \in Ids(tab)
  /\ Distinct(ask) /\ Distinct(reps)
  /\ \A i \in DOMAIN ask, j \in DOMAIN reps : ask[i].id # reps[j].id
  /\ \A t \in tab : (\E i \in DOMAIN ask : ask[i].id = t.id) \/ (\E i \in DOMAIN reps : reps[i].id = t.id)
  /\ \A t \in tab : \E k \in DOMAIN q : q[k].offset = t.rr /\ q[k].complete = 0
  /\ \A i \in DOMAIN ask, k \in DOMAIN q : q[k].offset = ask[i].offset => q[k].len = ask[i].len

\* No request waits in vain.
Waiting(q, tab) == \A k \in DOMAIN q : q[k].complete = 0 => \E t \in tab : t.rr = q[k].offset

\* What a reply can say.
AnswerOk(rep, rr) ==
  IF Uploading THEN rep.status \in {"OK", "FAILURE"}
  ELSE /\ rep.status \in {"DATA", "EOF", "FAILURE"}
       /\ rep.status # "DATA" => rep.len = 0
       /\ rep.status # "FAILURE" =>
            /\ rep.len <= rr.len
            /\ rep.len > 0 => rr.offset + rep.len <= size
            /\ rep.len < rr.len => statsize <= rr.offset + rep.len
Answers(q, tab, reps) ==
  \A i \in DOMAIN reps :
    /\ reps[i].status = "FAILURE" => client \in Failing
    /\ \A t \in tab, k \in DOMAIN q : reps[i].id = t.id /\ q[k].offset = t.rr => AnswerOk(reps[i], q[k])

\* A download's queue: block after block, and what has been received of it.
Blocks(x) ==
  \A k \in DOMAIN x.queue :
    /\ x.queue[k].len = Block
    /\ x.queue[k].offset + Block = IF k = Len(x.queue) THEN x.offset ELSE x.queue[k + 1].offset
Received(q) ==
  \A k \in DOMAIN q : q[k].complete = 1 =>
    /\ q[k].retlen <= Block
    /\ q[k].retlen > 0 => q[k].offset + q[k].retlen <= size
    /\ q[k].retlen < Block => statsize <= q[k].offset + q[k].retlen
NoneReceived(q) == \A k \in DOMAIN q : q[k].complete = 0

\* The copy ends where the queue begins, or where the file ends.
HeadAt(x) == IF x.queue = <<>> THEN x.offset ELSE x.queue[1].offset
Placed(d, o, filesize) ==
  d.len = o \/ (d.len < o /\ statsize <= d.len /\ filesize <= d.len)

\* A download in which no error has been seen.
Told(x) ==
  \A k \in DOMAIN x.queue :
    /\ x.queue[k].complete >= 0
    /\ x.queue[k].complete = 1 /\ x.queue[k].retlen > 0 => x.queue[k].offset <= x.furthestdata
    /\ x.queue[k].complete = 1 /\ x.queue[k].retlen < Block =>
         x.filesize <= x.queue[k].offset + x.queue[k].retlen
EofSeen(x, d) ==
  x.eof => statsize <= d.len \/ \E k \in DOMAIN x.queue : x.queue[k].complete = 1 /\ x.queue[k].retlen < Block
InStep(x, d) ==
  /\ Told(x) /\ x.furthestdata <= x.filesize
  /\ Placed(d, HeadAt(x), x.filesize) /\ EofSeen(x, d)
Sound(x, d) == InStep(x, d) /\ (client = "get" => ~x.err)

\* pscp's queue when replies come in order: each is for the head of it.
InOrder(q, tab, ask, reps) ==
  /\ Len(q) = Len(reps) + Len(ask)
  /\ \A i \in DOMAIN reps : [id |-> reps[i].id, rr |-> q[i].offset] \in tab
  /\ \A i \in DOMAIN ask : ask[i].offset = q[Len(reps) + i].offset

\* An upload's data: stored, or on its way, or an error is.
Accounted(top, d, ask, reps) ==
  /\ d.stored \subseteq 0..(top - 1)
  /\ \A u \in 0..(top - 1) :
       \/ u \in d.stored
       \/ \E i \in DOMAIN ask : ask[i].offset <= u /\ u < ask[i].offset + ask[i].len
       \/ \E i \in DOMAIN reps : reps[i].status = "FAILURE"

Steady == client = "pscp" /\ client \notin AnyOrder \cup Failing \cup Growing
Good == stage = "copying" /\ toret /\ basis # "gap"

Bookkeeping ==
  /\ Ordered(xfer.queue, xfer.offset) /\ Book(xfer.queue, table, asked, replies)
  /\ stage # "lost" => Waiting(xfer.queue, table)
  /\ stage = "lost" => asked = <<>> /\ table = {}
  /\ Answers(xfer.queue, table, replies)
  /\ stage = "done" /\ (toret \/ client \in {"get", "put"}) => xfer.queue = <<>>
  /\ faults = {} \/ client \in Growing

Download ==
  /\ Blocks(xfer) /\ Received(xfer.queue)
  /\ xfer.furthestdata <= size /\ statsize <= xfer.filesize
  /\ dest.inorder => dest.len <= size
  /\ Good => dest.inorder
  /\ Good /\ (client = "get" \/ dest.len < statsize) => Sound(xfer, dest)
  /\ client = "pscp" /\ stage = "copying" /\ dest.len < statsize =>
       toret /\ (Steady => NoneReceived(xfer.queue) /\ InOrder(xfer.queue, table, asked, replies))

Upload ==
  /\ NoneReceived(xfer.queue) /\ dest.inorder
  /\ dest.stored \subseteq 0..(size - 1) /\ xfer.offset <= size
  /\ Good => Accounted(xfer.offset, dest, asked, replies)

IInv ==
  /\ TypeOK /\ Bookkeeping /\ CopiesWhole
  /\ ~Uploading => Download
  /\ Uploading => Upload
-----------------------------------------------------------------------------
(* Numbers and sequences *)

LEMMA SeqDomain ==
  \A S : \A sq \in Seq(S) : /\ DOMAIN sq = 1..Len(sq) /\ Len(sq) \in Nat /\ DOMAIN sq \subseteq Nat \ {0}
                            /\ \A k \in DOMAIN sq : sq[k] \in S /\ k <= Len(sq)
                            /\ sq = <<>> <=> Len(sq) = 0
OBVIOUS

LEMMA Least ==
  ASSUME NEW T, T \subseteq Nat, T # {}
  PROVE  \E m \in T : \A n \in T : m <= n
<1>1. PICK x \in T : \A y \in T : <<y, x>> \notin OpToRel(<, Nat)
  BY WFMin, NatLessThanWellFounded, Zenon
<1>2. \A y \in T : ~(y < x)
  BY <1>1, Zenon DEF OpToRel
<1>3. QED
  BY <1>2

LEMMA MinOf ==
  ASSUME NEW a \in Int, NEW b \in Int
  PROVE  Min({a, b}) = IF a <= b THEN a ELSE b
<1> DEFINE m == IF a <= b THEN a ELSE b
<1>1. m \in {a, b} /\ \A y \in {a, b} : m =< y
  OBVIOUS
<1>2. \A x \in {a, b} : (\A y \in {a, b} : x =< y) => x = m
  OBVIOUS
<1> HIDE DEF m
<1>3. QED
  BY <1>1, <1>2, Zenon DEF Min, m

LEMMA MaxOf ==
  ASSUME NEW a \in Int, NEW b \in Int
  PROVE  Max({a, b}) = IF a >= b THEN a ELSE b
<1> DEFINE m == IF a >= b THEN a ELSE b
<1>1. m \in {a, b} /\ \A y \in {a, b} : m >= y
  OBVIOUS
<1>2. \A x \in {a, b} : (\A y \in {a, b} : x >= y) => x = m
  OBVIOUS
<1> HIDE DEF m
<1>3. QED
  BY <1>1, <1>2, Zenon DEF Max, m

LEMMA MaxUpTo ==
  ASSUME NEW n \in Nat, NEW S, S \subseteq 0..n, S # {}
  PROVE  Max(S) \in S /\ \A y \in S : Max(S) >= y
<1> DEFINE T == {n - x : x \in S}
<1>0. \A x \in S : n - x \in Nat
  OBVIOUS
<1>1. T \subseteq Nat /\ T # {}
  BY <1>0
<1>2. PICK m \in T : \A y \in T : m <= y
  BY <1>1, Least
<1>3. PICK x \in S : m = n - x
  OBVIOUS
<1>4. \A y \in S : x >= y
  BY <1>2, <1>3
<1>5. QED
  BY <1>4, Zenon DEF Max

LEMMA Mult ==
  ASSUME NEW a \in Nat, NEW b \in Nat, NEW c \in Nat, a <= b
  PROVE  a * c \in Nat /\ b * c \in Nat /\ a * c <= b * c /\ (a + 1) * c = a * c + c
<1>1. PICK d \in Nat : b = a + d
  <2>1. b - a \in Nat /\ b = a + (b - a)
    OBVIOUS
  <2>2. QED
    BY <2>1
<1>2. d * c \in Nat /\ a * c \in Nat
  OBVIOUS
<1>3. b * c = a * c + d * c
  BY <1>1
<1>4. (a + 1) * c = a * c + c
  OBVIOUS
<1>5. QED
  BY <1>2, <1>3, <1>4

\* The ids that sftp_alloc_request gives: they are not in use, and are not given twice.
LEMMA FreeIds ==
  ASSUME NEW tab, IsFiniteSet(Ids(tab)), NEW k \in Nat, k > 0
  PROVE  /\ FreeId(tab, k) \in Nat /\ FreeId(tab, k) <= Cardinality(Ids(tab)) + k - 1
         /\ FreeId(tab, k) \notin Ids(tab)
         /\ Cardinality((0..FreeId(tab, k)) \ Ids(tab)) = k
<1> DEFINE S == Ids(tab)
<1> DEFINE N == Cardinality(S) + k - 1
<1> DEFINE g(i) == Cardinality((0..i) \ S)
<1>1. Cardinality(S) \in Nat /\ N \in Nat
  BY FS_CardinalityType
<1> HIDE DEF N
<1>2. \A i \in Nat : IsFiniteSet((0..i) \ S) /\ g(i) \in Nat
  <2>1. TAKE i \in Nat
  <2>2. IsFiniteSet(0..i)
    BY FS_Interval
  <2>3. IsFiniteSet((0..i) \ S)
    BY <2>2, FS_Difference
  <2>4. QED
    BY <2>3, FS_CardinalityType
<1>3. g(N) >= k
  <2>1. IsFiniteSet(0..N) /\ Cardinality(0..N) = N + 1
    BY <1>1, FS_Interval
  <2> DEFINE u == Cardinality((0..N) \ S)
  <2> DEFINE v == Cardinality(0..N)
  <2> DEFINE w == Cardinality((0..N) \cap S)
  <2>2. u = v - w
    BY <2>1, FS_Difference, Zenon
  <2>3. (0..N) \cap S \in SUBSET S
    OBVIOUS
  <2>4. w <= Cardinality(S) /\ IsFiniteSet((0..N) \cap S)
    BY <2>3, FS_Subset
  <2>5. w \in Nat
    BY <2>4, FS_CardinalityType
  <2>6. v = N + 1 /\ N = Cardinality(S) + k - 1
    BY <2>1 DEF N
  <2> HIDE DEF u, v, w
  <2>7. u >= k
    BY <1>1, <2>2, <2>4, <2>5, <2>6
  <2>8. QED
    BY <2>7, Zenon DEF u
<1> DEFINE T == {i \in Nat : g(i) >= k}
<1>4. T \subseteq Nat /\ T # {}
  BY <1>1, <1>3
<1>5. PICK i \in T : \A n \in T : i <= n
  BY <1>4, Least
<1>6. i \in 0..N
  BY <1>1, <1>3, <1>5
<1>7. i \notin S /\ g(i) = k
  <2>1. CASE i = 0
    <3>1. CASE 0 \in S
      <4>1. (0..i) \ S = {}
        BY <2>1, <3>1
      <4>2. g(i) = 0
        BY <4>1, FS_EmptySet
      <4>3. QED
        BY <1>5, <4>2
    <3>2. CASE 0 \notin S
      <4>1. (0..i) \ S = {0}
        BY <2>1, <3>2
      <4>2. g(i) = 1
        BY <4>1, FS_Singleton
      <4>3. QED
        BY <1>5, <2>1, <3>2, <4>2
    <3>3. QED
      BY <3>1, <3>2
  <2>2. CASE i > 0
    <3>1. i - 1 \in Nat /\ i - 1 \notin T
      BY <1>5, <2>2
    <3>2. g(i - 1) \in Nat /\ g(i - 1) < k
      <4>1. g(i - 1) \in Nat /\ ~(g(i - 1) >= k)
        BY <1>2, <3>1, Zenon
      <4>2. QED
        BY <4>1
    <3>3. CASE i \in S
      <4>1. (0..i) \ S = (0..(i - 1)) \ S
        BY <2>2, <3>3
      <4>2. g(i) >= k
        BY <1>5
      <4>3. g(i) = g(i - 1)
        BY <4>1, Zenon
      <4> HIDE DEF g
      <4>4. QED
        BY <3>2, <4>2, <4>3
    <3>4. CASE i \notin S
      <4>1. (0..i) \ S = ((0..(i - 1)) \ S) \cup {i}
        BY <2>2, <3>4
      <4>2. i \notin (0..(i - 1)) \ S
        BY <2>2
      <4>3. g(i) = g(i - 1) + 1
        BY <1>2, <3>1, <4>1, <4>2, FS_AddElement
      <4>4. g(i) >= k
        BY <1>5
      <4>5. QED
        BY <3>2, <3>4, <4>3, <4>4
    <3>5. QED
      BY <3>3, <3>4
  <2>3. QED
    BY <1>5, <2>1, <2>2
<1>8. \E j \in 0..N : j \notin S /\ g(j) = k
  BY <1>6, <1>7
<1>9. FreeId(tab, k) \in 0..N /\ FreeId(tab, k) \notin S /\ g(FreeId(tab, k)) = k
  BY <1>8, Zenon DEF FreeId, N
<1>10. QED
  BY <1>1, <1>9 DEF N

(* What is appended to the local file *)

IsFile(f, d, q, n) == f = [k \in 0..n |-> IF k = 0 THEN d ELSE AppendOne(f[k - 1], q[k])]

LEMMA FileExtends ==
  ASSUME NEW d, NEW q, NEW n \in Nat, NEW f, IsFile(f, d, q, n)
  PROVE  \E g : IsFile(g, d, q, n + 1)
<1> DEFINE g == [k \in 0..(n + 1) |-> IF k = n + 1 THEN AppendOne(f[n], q[k]) ELSE f[k]]
<1>1. \A k \in 0..n : f[k] = IF k = 0 THEN d ELSE AppendOne(f[k - 1], q[k])
  BY DEF IsFile
<1>2. \A k \in 0..n : g[k] = f[k]
  OBVIOUS
<1>3. \A k \in 0..(n + 1) : g[k] = IF k = 0 THEN d ELSE AppendOne(g[k - 1], q[k])
  <2>1. TAKE k \in 0..(n + 1)
  <2>2. CASE k = n + 1
    <3>1. k # 0 /\ k - 1 = n /\ n \in 0..n
      BY <2>2
    <3>2. g[k] = AppendOne(f[n], q[k])
      BY <2>2
    <3>3. QED
      BY <1>2, <3>1, <3>2
  <2>3. CASE k # n + 1
    <3>1. k \in 0..n /\ (k # 0 => k - 1 \in 0..n)
      BY <2>3
    <3>2. QED
      BY <1>1, <1>2, <3>1
  <2>4. QED
    BY <2>2, <2>3
<1> DEFINE h == [k \in 0..(n + 1) |-> IF k = 0 THEN d ELSE AppendOne(g[k - 1], q[k])]
<1>4. g = h
  <2>1. DOMAIN g = 0..(n + 1) /\ DOMAIN h = 0..(n + 1)
    OBVIOUS
  <2>2. \A k \in 0..(n + 1) : h[k] = IF k = 0 THEN d ELSE AppendOne(g[k - 1], q[k])
    BY Zenon
  <2>3. \A k \in 0..(n + 1) : g[k] = h[k]
    BY <1>3, <2>2
  <2>4. g = [k \in DOMAIN g |-> g[k]] /\ h = [k \in DOMAIN h |-> h[k]]
    OBVIOUS
  <2> HIDE DEF g, h
  <2>5. QED
    BY <2>1, <2>3, <2>4
<1> HIDE DEF g
<1>5. QED
  BY <1>4 DEF IsFile

LEMMA FileExists ==
  ASSUME NEW d, NEW q, NEW n \in Nat
  PROVE  \E f : IsFile(f, d, q, n)
<1> DEFINE T == {m \in Nat : ~\E f : IsFile(f, d, q, m)}
<1>1. SUFFICES ASSUME T # {} PROVE FALSE
  OBVIOUS
<1>2. PICK m \in T : \A k \in T : m <= k
  BY <1>1, Least
<1>3. m # 0
  <2>1. SUFFICES \E f : IsFile(f, d, q, 0)
    BY <1>2
  <2> DEFINE f == [k \in 0..0 |-> d]
  <2>2. f = [k \in 0..0 |-> IF k = 0 THEN d ELSE AppendOne(f[k - 1], q[k])]
    OBVIOUS
  <2> HIDE DEF f
  <2>3. QED
    BY <2>2 DEF IsFile
<1>4. m - 1 \in Nat /\ m - 1 \notin T
  BY <1>2, <1>3
<1>5. PICK f : IsFile(f, d, q, m - 1)
  BY <1>4
<1>6. \E g : IsFile(g, d, q, m - 1 + 1)
  BY <1>4, <1>5, FileExtends
<1>7. m - 1 + 1 = m
  BY <1>2
<1>8. QED
  BY <1>2, <1>6, <1>7

LEMMA FileUnique ==
  ASSUME NEW d, NEW q, NEW n \in Nat, NEW f, IsFile(f, d, q, n),
         NEW m \in Nat, NEW g, IsFile(g, d, q, m), n <= m
  PROVE  f[n] = g[n]
<1> DEFINE T == {k \in Nat : k <= n /\ f[k] # g[k]}
<1>1. SUFFICES ASSUME T # {} PROVE FALSE
  OBVIOUS
<1>2. PICK k \in T : \A j \in T : k <= j
  BY <1>1, Least
<1>3. k \in 0..n /\ k \in 0..m
  BY <1>2
<1>4. f[k] = IF k = 0 THEN d ELSE AppendOne(f[k - 1], q[k])
  BY <1>3 DEF IsFile
<1>5. g[k] = IF k = 0 THEN d ELSE AppendOne(g[k - 1], q[k])
  BY <1>3 DEF IsFile
<1>6. k # 0
  BY <1>2, <1>4, <1>5
<1>7. k - 1 \in Nat /\ k - 1 <= n /\ k - 1 \notin T
  BY <1>2, <1>3, <1>6
<1>8. f[k - 1] = g[k - 1]
  BY <1>7
<1>9. QED
  BY <1>2, <1>4, <1>5, <1>6, <1>8

LEMMA AppendedIs ==
  ASSUME NEW d, NEW q, NEW n \in Nat
  PROVE  \E f : IsFile(f, d, q, n) /\ Appended(d, q, n) = f[n]
<1> DEFINE f == CHOOSE f : IsFile(f, d, q, n)
<1>1. IsFile(f, d, q, n)
  BY FileExists, Zenon
<1>2. Appended(d, q, n) = f[n]
  BY Zenon DEF Appended, IsFile
<1>3. QED
  BY <1>1, <1>2

\* Writing what n + 1 requests have brought is writing what n have brought, and then that
\* of the last.
LEMMA AppendedStep ==
  ASSUME NEW d, NEW q, NEW n \in Nat
  PROVE  Appended(d, q, 0) = d /\ Appended(d, q, n + 1) = AppendOne(Appended(d, q, n), q[n + 1])
<1>1. Appended(d, q, 0) = d
  <2>1. PICK f : IsFile(f, d, q, 0) /\ Appended(d, q, 0) = f[0]
    BY AppendedIs
  <2>2. f[0] = d
    BY <2>1 DEF IsFile
  <2>3. QED
    BY <2>1, <2>2
<1>2. Appended(d, q, n + 1) = AppendOne(Appended(d, q, n), q[n + 1])
  <2>1. PICK f : IsFile(f, d, q, n) /\ Appended(d, q, n) = f[n]
    BY AppendedIs
  <2>2. PICK g : IsFile(g, d, q, n + 1) /\ Appended(d, q, n + 1) = g[n + 1]
    BY AppendedIs
  <2>3. f[n] = g[n]
    BY <2>1, <2>2, FileUnique
  <2>4. n + 1 \in 0..(n + 1) /\ n + 1 # 0 /\ n + 1 - 1 = n
    OBVIOUS
  <2>5. g[n + 1] = AppendOne(g[n], q[n + 1])
    BY <2>2, <2>4 DEF IsFile
  <2>6. QED
    BY <2>1, <2>2, <2>3, <2>5
<1>3. QED
  BY <1>1, <1>2
-----------------------------------------------------------------------------
(* Requests are queued *)

IsConcat(S, a, b, c) ==
  /\ c \in Seq(S) /\ Len(c) = Len(a) + Len(b)
  /\ \A k \in 1..Len(a) : c[k] = a[k]
  /\ \A k \in 1..Len(b) : c[Len(a) + k] = b[k]

LEMMA Concat == \A S : \A a, b \in Seq(S) : IsConcat(S, a, b, a \o b)
<1>1. TAKE S
<1>2. TAKE a, b \in Seq(S)
<1>3. /\ a \o b \in Seq(S) /\ Len(a \o b) = Len(a) + Len(b)
      /\ \A k \in 1..Len(a) : (a \o b)[k] = a[k]
      /\ \A k \in 1..Len(b) : (a \o b)[Len(a) + k] = b[k]
  OBVIOUS
<1>4. QED
  BY <1>3, Zenon DEF IsConcat

Queue(s) == s.x.queue
At(base, len, k) == base + (k - 1) * len
NewReq(o, len) == [offset |-> o, len |-> len, retlen |-> 0, complete |-> 0]
NewEntry(s, len, k) == [id |-> FreeId(s.table, k), rr |-> At(s.x.offset, len, k)]
State == [x : XferRec, table : SUBSET [id : Nat, rr : Nat], asked : Seq(Sent)]

LEMMA AtOne ==
  ASSUME NEW base \in Nat, NEW len \in Nat, NEW n \in Nat, NEW k \in 1..n
  PROVE  /\ At(base, len, k) \in Nat /\ base <= At(base, len, k)
         /\ At(base, len, k) + len <= base + n * len /\ base + n * len \in Nat
         /\ At(base, len, k) + len = IF k = n THEN base + n * len ELSE At(base, len, k + 1)
         /\ k = 1 => At(base, len, k) = base
<1>1. k \in Nat /\ k - 1 \in Nat /\ k - 1 <= n /\ k <= n /\ k - 1 + 1 = k
  OBVIOUS
<1>2. (k - 1) * len \in Nat /\ n * len \in Nat /\ k * len \in Nat /\ k * len = (k - 1) * len + len
  BY <1>1, Mult
<1>3. k * len <= n * len
  BY <1>1, Mult
<1>4. At(base, len, k) = base + (k - 1) * len
  BY DEF At
<1>5. At(base, len, k + 1) = base + k * len
  <2>1. k + 1 - 1 = k
    OBVIOUS
  <2>2. QED
    BY <2>1 DEF At
<1>6. k = 1 => (k - 1) * len = 0
  OBVIOUS
<1> DEFINE a == (k - 1) * len
<1> DEFINE b == k * len
<1> DEFINE c == n * len
<1>7. a \in Nat /\ b \in Nat /\ c \in Nat /\ b = a + len /\ b <= c /\ (k = n => b = c) /\ (k = 1 => a = 0)
  BY <1>2, <1>3, <1>6
<1>8. At(base, len, k) = base + a /\ At(base, len, k + 1) = base + b
  BY <1>4, <1>5
<1> HIDE DEF a, b
<1>9. /\ At(base, len, k) \in Nat /\ base <= At(base, len, k)
      /\ At(base, len, k) + len <= base + c /\ base + c \in Nat
      /\ At(base, len, k) + len = IF k = n THEN base + c ELSE At(base, len, k + 1)
      /\ k = 1 => At(base, len, k) = base
  <2> HIDE DEF c
  <2>1. QED
    BY <1>7, <1>8
<1>10. QED
  BY <1>9

LEMMA AtFirst ==
  ASSUME NEW base \in Nat, NEW len \in Nat
  PROVE  At(base, len, 1) = base
<1>1. (1 - 1) * len = 0
  OBVIOUS
<1>2. At(base, len, 1) = base + (1 - 1) * len
  BY Zenon DEF At
<1>3. QED
  BY <1>1, <1>2

LEMMA AtTwo ==
  ASSUME NEW base \in Nat, NEW len \in Nat, NEW n \in Nat, NEW i \in 1..n, NEW j \in 1..n, i < j
  PROVE  At(base, len, i) + len <= At(base, len, j)
<1>1. i \in Nat /\ j - 1 \in Nat /\ i <= j - 1 /\ i - 1 \in Nat /\ i - 1 <= j - 1 /\ i - 1 + 1 = i
  OBVIOUS
<1>2. i * len <= (j - 1) * len /\ i * len \in Nat /\ (j - 1) * len \in Nat
  BY <1>1, Mult
<1>3. i * len = (i - 1) * len + len /\ (i - 1) * len \in Nat
  BY <1>1, Mult
<1> DEFINE a == (i - 1) * len
<1> DEFINE b == i * len
<1> DEFINE c == (j - 1) * len
<1>4. b <= c /\ b \in Nat /\ c \in Nat /\ b = a + len /\ a \in Nat
  BY <1>2, <1>3
<1>5. At(base, len, i) = base + a /\ At(base, len, j) = base + c
  BY DEF At
<1> HIDE DEF a, b, c
<1>6. QED
  BY <1>4, <1>5

\* What Queued changes.
Grown(s, t, len, n) ==
  /\ t.x = [s.x EXCEPT !.queue = t.x.queue, !.offset = s.x.offset + n * len,
                       !.totalsize = s.x.totalsize + n * len]
  /\ t.x.queue = s.x.queue \o [k \in 1..n |-> NewReq(At(s.x.offset, len, k), len)]
  /\ t.table = s.table \cup {NewEntry(s, len, k) : k \in 1..n}
  /\ t.asked = s.asked \o [k \in 1..n |-> [id |-> FreeId(s.table, k), offset |-> At(s.x.offset, len, k), len |-> len]]

LEMMA QueuedGrows ==
  ASSUME NEW s \in State, NEW len \in Nat, NEW n \in Nat
  PROVE  Grown(s, Queued(s, len, n), len, n)
<1> DEFINE t == Queued(s, len, n)
<1> DEFINE q == s.x.queue \o [k \in 1..n |-> NewReq(At(s.x.offset, len, k), len)]
<1>1. /\ t.x = [s.x EXCEPT !.queue = q, !.offset = @ + n * len, !.totalsize = @ + n * len]
      /\ t.table = s.table \cup {NewEntry(s, len, k) : k \in 1..n}
      /\ t.asked = s.asked \o [k \in 1..n |-> [id |-> FreeId(s.table, k), offset |-> At(s.x.offset, len, k), len |-> len]]
  BY DEF Queued, NewReq, NewEntry, At
<1>2. s.x \in XferRec
  BY DEF State
<1> HIDE DEF t, q
<1>3. t.x.queue = q
  BY <1>1, <1>2 DEF XferRec
<1>4. t.x = [s.x EXCEPT !.queue = t.x.queue, !.offset = s.x.offset + n * len, !.totalsize = s.x.totalsize + n * len]
  BY <1>1, <1>3, Zenon
<1>5. Grown(s, t, len, n)
  BY <1>1, <1>3, <1>4, Zenon DEF Grown, q
<1>6. QED
  BY <1>5 DEF t

\* The same, element by element.
GrownSeqs(s, t, len, n) ==
  /\ t.x \in XferRec /\ t.x.offset = s.x.offset + n * len
  /\ t.x.furthestdata = s.x.furthestdata /\ t.x.filesize = s.x.filesize
  /\ t.x.eof = s.x.eof /\ t.x.err = s.x.err
  /\ t.asked \in Seq(Sent)
  /\ Len(t.x.queue) = Len(s.x.queue) + n
  /\ \A k \in 1..Len(s.x.queue) : t.x.queue[k] = s.x.queue[k]
  /\ \A k \in 1..n : t.x.queue[Len(s.x.queue) + k] = NewReq(At(s.x.offset, len, k), len)
  /\ Len(t.asked) = Len(s.asked) + n
  /\ \A k \in 1..Len(s.asked) : t.asked[k] = s.asked[k]
  /\ \A k \in 1..n : t.asked[Len(s.asked) + k] =
       [id |-> FreeId(s.table, k), offset |-> At(s.x.offset, len, k), len |-> len]

LEMMA GrownParts ==
  ASSUME NEW s \in State, NEW len \in Nat, NEW n \in Nat, NEW t, Grown(s, t, len, n),
         IsFiniteSet(Ids(s.table))
  PROVE  GrownSeqs(s, t, len, n)
<1> DEFINE more == [k \in 1..n |-> NewReq(At(s.x.offset, len, k), len)]
<1> DEFINE asks == [k \in 1..n |-> [id |-> FreeId(s.table, k), offset |-> At(s.x.offset, len, k), len |-> len]]
<1>0. s.x \in XferRec /\ s.asked \in Seq(Sent) /\ s.x.queue \in Seq(Req) /\ s.x.offset \in Nat /\ s.x.totalsize \in Int
  BY DEF State, XferRec
<1>1. \A k \in 1..n : NewReq(At(s.x.offset, len, k), len) \in Req
  <2>1. TAKE k \in 1..n
  <2>2. At(s.x.offset, len, k) \in Nat
    BY <1>0, AtOne
  <2>3. QED
    BY <2>2 DEF NewReq, Req
<1>2. more \in Seq(Req) /\ Len(more) = n /\ \A k \in 1..n : more[k] = NewReq(At(s.x.offset, len, k), len)
  BY <1>1
<1>3. \A k \in 1..n : [id |-> FreeId(s.table, k), offset |-> At(s.x.offset, len, k), len |-> len] \in Sent
  <2>1. TAKE k \in 1..n
  <2>2. At(s.x.offset, len, k) \in Nat
    BY <1>0, AtOne
  <2>3. k \in Nat /\ k > 0
    OBVIOUS
  <2>4. FreeId(s.table, k) \in Nat
    BY <2>3, FreeIds
  <2>5. QED
    BY <2>2, <2>4 DEF Sent
<1>4. asks \in Seq(Sent) /\ Len(asks) = n
      /\ \A k \in 1..n : asks[k] = [id |-> FreeId(s.table, k), offset |-> At(s.x.offset, len, k), len |-> len]
  BY <1>3
<1>5. t.x.queue = s.x.queue \o more /\ t.asked = s.asked \o asks
  BY DEF Grown
<1> HIDE DEF more, asks
<1>6. /\ t.x.queue \in Seq(Req) /\ Len(t.x.queue) = Len(s.x.queue) + n
      /\ \A k \in 1..Len(s.x.queue) : t.x.queue[k] = s.x.queue[k]
      /\ \A k \in 1..n : t.x.queue[Len(s.x.queue) + k] = more[k]
  <2>1. /\ s.x.queue \o more \in Seq(Req) /\ Len(s.x.queue \o more) = Len(s.x.queue) + Len(more)
        /\ \A k \in 1..Len(s.x.queue) : (s.x.queue \o more)[k] = s.x.queue[k]
        /\ \A k \in 1..Len(more) : (s.x.queue \o more)[Len(s.x.queue) + k] = more[k]
    <3>1. s.x.queue \in Seq(Req) /\ more \in Seq(Req)
      BY <1>0, <1>2
    <3>2. IsConcat(Req, s.x.queue, more, s.x.queue \o more)
      BY <3>1, Concat, Zenon
    <3>3. QED
      BY <3>2, Zenon DEF IsConcat
  <2>2. QED
    BY <2>1, <1>2, <1>5, Zenon
<1>7. /\ t.asked \in Seq(Sent) /\ Len(t.asked) = Len(s.asked) + n
      /\ \A k \in 1..Len(s.asked) : t.asked[k] = s.asked[k]
      /\ \A k \in 1..n : t.asked[Len(s.asked) + k] = asks[k]
  <2>1. /\ s.asked \o asks \in Seq(Sent) /\ Len(s.asked \o asks) = Len(s.asked) + Len(asks)
        /\ \A k \in 1..Len(s.asked) : (s.asked \o asks)[k] = s.asked[k]
        /\ \A k \in 1..Len(asks) : (s.asked \o asks)[Len(s.asked) + k] = asks[k]
    <3>1. s.asked \in Seq(Sent) /\ asks \in Seq(Sent)
      BY <1>0, <1>4
    <3>2. IsConcat(Sent, s.asked, asks, s.asked \o asks)
      BY <3>1, Concat, Zenon
    <3>3. QED
      BY <3>2, Zenon DEF IsConcat
  <2>2. QED
    BY <2>1, <1>4, <1>5, Zenon
<1>8. n * len \in Nat
  BY Mult
<1> DEFINE q == t.x.queue
<1> DEFINE o == s.x.offset + n * len
<1> DEFINE z == s.x.totalsize + n * len
<1>9. q \in Seq(Req) /\ o \in Nat /\ z \in Int
  <2> DEFINE p == n * len
  <2>1. p \in Nat /\ s.x.offset \in Nat /\ s.x.totalsize \in Int
    BY <1>0, <1>8
  <2>2. o = s.x.offset + p /\ z = s.x.totalsize + p
    OBVIOUS
  <2> HIDE DEF p, o, z
  <2>3. o \in Nat /\ z \in Int
    BY <2>1, <2>2
  <2>4. QED
    BY <1>6, <2>3
<1>10. t.x = [s.x EXCEPT !.queue = q, !.offset = o, !.totalsize = z]
  BY Zenon DEF Grown
<1> HIDE DEF q, o, z
<1>11. t.x \in XferRec
  BY <1>0, <1>9, <1>10 DEF XferRec
<1>12. t.x.offset = o /\ t.x.furthestdata = s.x.furthestdata /\ t.x.filesize = s.x.filesize
       /\ t.x.eof = s.x.eof /\ t.x.err = s.x.err
  BY <1>0, <1>10 DEF XferRec
<1>13. QED
  BY <1>2, <1>4, <1>6, <1>7, <1>11, <1>12 DEF GrownSeqs, o

Kept(q, top, tab, ask, reps) ==
  Ordered(q, top) /\ Book(q, tab, ask, reps) /\ Waiting(q, tab) /\ Answers(q, tab, reps)

\* An element of t's queue, of its requests on their way and of its table is an old one,
\* or the j-th of the new ones.
NewAt(s, len, j, r) == r.offset = At(s.x.offset, len, j) /\ r.len = len /\ r.complete = 0 /\ r.retlen = 0

LEMMA Beyond ==
  ASSUME NEW a \in Nat, NEW n \in Nat, NEW k \in 1..(a + n), ~(k <= a)
  PROVE  \E j \in 1..n : k = a + j
<1>1. k - a \in 1..n /\ k = a + (k - a)
  OBVIOUS
<1>2. QED
  BY <1>1

LEMMA GrownQueue ==
  ASSUME NEW s \in State, NEW len \in Nat, NEW n \in Nat, NEW t, GrownSeqs(s, t, len, n),
         NEW k \in DOMAIN t.x.queue
  PROVE  \/ k \in DOMAIN s.x.queue /\ t.x.queue[k] = s.x.queue[k]
         \/ \E j \in 1..n : k = Len(s.x.queue) + j /\ NewAt(s, len, j, t.x.queue[k])
<1>1. s.x.queue \in Seq(Req) /\ t.x.queue \in Seq(Req)
  BY DEF State, XferRec, GrownSeqs
<1>2. Len(s.x.queue) \in Nat /\ DOMAIN s.x.queue = 1..Len(s.x.queue)
      /\ DOMAIN t.x.queue = 1..(Len(s.x.queue) + n)
  BY <1>1 DEF GrownSeqs
<1>3. CASE k <= Len(s.x.queue)
  <2>1. k \in 1..Len(s.x.queue)
    BY <1>2, <1>3
  <2>2. QED
    BY <1>2, <2>1 DEF GrownSeqs
<1>4. CASE ~(k <= Len(s.x.queue))
  <2>1. PICK j \in 1..n : k = Len(s.x.queue) + j
    <3>1. k \in 1..(Len(s.x.queue) + n)
      BY <1>2
    <3>2. QED
      BY <1>2, <1>4, <3>1, Beyond
  <2>2. t.x.queue[k] = NewReq(At(s.x.offset, len, j), len)
    BY <2>1 DEF GrownSeqs
  <2>3. NewAt(s, len, j, t.x.queue[k])
    BY <2>2 DEF NewAt, NewReq
  <2>4. QED
    BY <2>1, <2>3
<1>5. QED
  BY <1>3, <1>4

LEMMA GrownAsked ==
  ASSUME NEW s \in State, NEW len \in Nat, NEW n \in Nat, NEW t, GrownSeqs(s, t, len, n),
         NEW k \in DOMAIN t.asked
  PROVE  \/ k \in DOMAIN s.asked /\ t.asked[k] = s.asked[k]
         \/ \E j \in 1..n : /\ k = Len(s.asked) + j /\ t.asked[k].id = FreeId(s.table, j)
                            /\ t.asked[k].offset = At(s.x.offset, len, j) /\ t.asked[k].len = len
<1>1. s.asked \in Seq(Sent) /\ t.asked \in Seq(Sent)
  BY DEF State, GrownSeqs
<1>2. Len(s.asked) \in Nat /\ DOMAIN s.asked = 1..Len(s.asked)
      /\ DOMAIN t.asked = 1..(Len(s.asked) + n)
  BY <1>1 DEF GrownSeqs
<1>3. CASE k <= Len(s.asked)
  <2>1. k \in 1..Len(s.asked)
    BY <1>2, <1>3
  <2>2. QED
    BY <1>2, <2>1 DEF GrownSeqs
<1>4. CASE ~(k <= Len(s.asked))
  <2>1. PICK j \in 1..n : k = Len(s.asked) + j
    <3>1. k \in 1..(Len(s.asked) + n)
      BY <1>2
    <3>2. QED
      BY <1>2, <1>4, <3>1, Beyond
  <2>2. t.asked[k] = [id |-> FreeId(s.table, j), offset |-> At(s.x.offset, len, j), len |-> len]
    BY <2>1 DEF GrownSeqs
  <2>3. QED
    BY <2>1, <2>2
<1>5. QED
  BY <1>3, <1>4

LEMMA GrownDomains ==
  ASSUME NEW s \in State, NEW len \in Nat, NEW n \in Nat, NEW t, GrownSeqs(s, t, len, n)
  PROVE  /\ \A k \in DOMAIN s.x.queue : k \in DOMAIN t.x.queue /\ t.x.queue[k] = s.x.queue[k]
         /\ \A j \in 1..n : /\ Len(s.x.queue) + j \in DOMAIN t.x.queue
                            /\ NewAt(s, len, j, t.x.queue[Len(s.x.queue) + j])
         /\ \A k \in DOMAIN s.asked : k \in DOMAIN t.asked /\ t.asked[k] = s.asked[k]
         /\ \A j \in 1..n : /\ Len(s.asked) + j \in DOMAIN t.asked
                            /\ t.asked[Len(s.asked) + j].id = FreeId(s.table, j)
                            /\ t.asked[Len(s.asked) + j].offset = At(s.x.offset, len, j)
<1>1. s.x.queue \in Seq(Req) /\ t.x.queue \in Seq(Req) /\ s.asked \in Seq(Sent) /\ t.asked \in Seq(Sent)
  BY DEF State, XferRec, GrownSeqs
<1>2. Len(s.x.queue) \in Nat /\ DOMAIN s.x.queue = 1..Len(s.x.queue)
      /\ DOMAIN t.x.queue = 1..(Len(s.x.queue) + n)
      /\ Len(s.asked) \in Nat /\ DOMAIN s.asked = 1..Len(s.asked)
      /\ DOMAIN t.asked = 1..(Len(s.asked) + n)
  BY <1>1 DEF GrownSeqs
<1>3. \A k \in DOMAIN s.x.queue : k \in DOMAIN t.x.queue /\ t.x.queue[k] = s.x.queue[k]
  <2>1. \A k \in 1..Len(s.x.queue) : t.x.queue[k] = s.x.queue[k]
    BY Zenon DEF GrownSeqs
  <2> DEFINE a == Len(s.x.queue)
  <2>2. a \in Nat /\ DOMAIN s.x.queue = 1..a /\ DOMAIN t.x.queue = 1..(a + n)
    BY <1>2
  <2> HIDE DEF a
  <2>3. DOMAIN s.x.queue \subseteq DOMAIN t.x.queue
    BY <2>2
  <2>4. QED
    BY <1>2, <2>1, <2>3, Zenon
<1>4. \A k \in DOMAIN s.asked : k \in DOMAIN t.asked /\ t.asked[k] = s.asked[k]
  <2>1. \A k \in 1..Len(s.asked) : t.asked[k] = s.asked[k]
    BY Zenon DEF GrownSeqs
  <2> DEFINE a == Len(s.asked)
  <2>2. a \in Nat /\ DOMAIN s.asked = 1..a /\ DOMAIN t.asked = 1..(a + n)
    BY <1>2
  <2> HIDE DEF a
  <2>3. DOMAIN s.asked \subseteq DOMAIN t.asked
    BY <2>2
  <2>4. QED
    BY <1>2, <2>1, <2>3, Zenon
<1>5. \A j \in 1..n : Len(s.x.queue) + j \in DOMAIN t.x.queue /\ Len(s.asked) + j \in DOMAIN t.asked
  BY <1>2
<1>6. ASSUME NEW j \in 1..n
      PROVE  /\ NewAt(s, len, j, t.x.queue[Len(s.x.queue) + j])
             /\ t.asked[Len(s.asked) + j].id = FreeId(s.table, j)
             /\ t.asked[Len(s.asked) + j].offset = At(s.x.offset, len, j)
  <2>1. t.x.queue[Len(s.x.queue) + j] = NewReq(At(s.x.offset, len, j), len)
    BY DEF GrownSeqs
  <2>2. t.asked[Len(s.asked) + j] = [id |-> FreeId(s.table, j), offset |-> At(s.x.offset, len, j), len |-> len]
    BY DEF GrownSeqs
  <2>3. QED
    BY <2>1, <2>2 DEF NewAt, NewReq
<1>7. QED
  BY <1>3, <1>4, <1>5, <1>6

LEMMA GrownTable ==
  ASSUME NEW s \in State, NEW len \in Nat, NEW n \in Nat, NEW t, Grown(s, t, len, n),
         IsFiniteSet(Ids(s.table))
  PROVE  /\ t.table \subseteq [id : Nat, rr : Nat] /\ IsFiniteSet(Ids(t.table))
         /\ s.table \subseteq t.table
         /\ \A u \in t.table : u \in s.table \/ \E j \in 1..n : u = NewEntry(s, len, j)
         /\ \A j \in 1..n : NewEntry(s, len, j) \in t.table /\ FreeId(s.table, j) \in Nat \ Ids(s.table)
         /\ \A i, j \in 1..n : FreeId(s.table, i) = FreeId(s.table, j) => i = j
<1>1. t.table = s.table \cup {NewEntry(s, len, k) : k \in 1..n}
  BY DEF Grown
<1>2. s.table \subseteq [id : Nat, rr : Nat] /\ s.x.offset \in Nat
  BY DEF State, XferRec
<1> DEFINE c == Cardinality(Ids(s.table))
<1>3. c \in Nat
  BY FS_CardinalityType
<1>4. ASSUME NEW j \in 1..n
      PROVE  /\ FreeId(s.table, j) \in 0..(c + n) /\ FreeId(s.table, j) \notin Ids(s.table)
             /\ NewEntry(s, len, j) \in [id : Nat, rr : Nat]
             /\ Cardinality((0..FreeId(s.table, j)) \ Ids(s.table)) = j
  <2>1. j \in Nat /\ j > 0 /\ j <= n
    OBVIOUS
  <2>2. /\ FreeId(s.table, j) \in Nat /\ FreeId(s.table, j) <= c + j - 1 /\ FreeId(s.table, j) \notin Ids(s.table)
        /\ Cardinality((0..FreeId(s.table, j)) \ Ids(s.table)) = j
    BY <2>1, FreeIds
  <2>3. At(s.x.offset, len, j) \in Nat
    BY <1>2, AtOne
  <2> HIDE DEF c
  <2>4. QED
    BY <1>3, <2>1, <2>2, <2>3 DEF NewEntry
<1> HIDE DEF c
<1>5. \A i, j \in 1..n : FreeId(s.table, i) = FreeId(s.table, j) => i = j
  <2>1. TAKE i, j \in 1..n
  <2>2. HAVE FreeId(s.table, i) = FreeId(s.table, j)
  <2>3. Cardinality((0..FreeId(s.table, i)) \ Ids(s.table)) = i /\ Cardinality((0..FreeId(s.table, j)) \ Ids(s.table)) = j
    BY <1>4
  <2>4. QED
    BY <2>2, <2>3, Zenon
<1>6. Ids(t.table) \subseteq Ids(s.table) \cup 0..(c + n)
  <2>1. SUFFICES ASSUME NEW u \in t.table PROVE u.id \in Ids(s.table) \cup 0..(c + n)
    BY DEF Ids
  <2>2. CASE u \in s.table
    BY <2>2 DEF Ids
  <2>3. CASE \E j \in 1..n : u = NewEntry(s, len, j)
    <3>1. PICK j \in 1..n : u = NewEntry(s, len, j)
      BY <2>3
    <3>2. u.id = FreeId(s.table, j)
      BY <3>1 DEF NewEntry
    <3>3. QED
      BY <1>4, <3>2
  <2>4. QED
    BY <1>1, <2>2, <2>3
<1>7. IsFiniteSet(Ids(s.table) \cup 0..(c + n))
  <2>1. IsFiniteSet(0..(c + n))
    BY <1>3, FS_Interval
  <2>2. QED
    BY <2>1, FS_Union
<1>8. IsFiniteSet(Ids(t.table))
  BY <1>6, <1>7, FS_Subset
<1>9. t.table \subseteq [id : Nat, rr : Nat]
  BY <1>1, <1>2, <1>4
<1>10. \A u \in t.table : u \in s.table \/ \E j \in 1..n : u = NewEntry(s, len, j)
  BY <1>1, Zenon
<1>11. \A j \in 1..n : NewEntry(s, len, j) \in t.table /\ FreeId(s.table, j) \in Nat \ Ids(s.table)
  <2>1. TAKE j \in 1..n
  <2>2. NewEntry(s, len, j) \in t.table
    BY <1>1, Zenon
  <2>3. FreeId(s.table, j) \in Nat
    <3>1. \A f \in 0..(c + n) : f \in Nat
      BY <1>3
    <3>2. QED
      BY <1>4, <3>1, Zenon
  <2>4. QED
    BY <1>4, <2>2, <2>3
<1>12. s.table \subseteq t.table
  BY <1>1
<1>13. QED
  BY <1>5, <1>8, <1>9, <1>10, <1>11, <1>12

\* Putting requests on the queue keeps the books.
LEMMA GrownKept ==
  ASSUME NEW s \in State, NEW len \in Nat, len > 0, NEW n \in Nat, NEW t,
         Grown(s, t, len, n), GrownSeqs(s, t, len, n),
         IsFiniteSet(Ids(s.table)), NEW reps \in Seq(Reply),
         Kept(s.x.queue, s.x.offset, s.table, s.asked, reps)
  PROVE  Kept(t.x.queue, t.x.offset, t.table, t.asked, reps)
<1> DEFINE q == s.x.queue
<1> DEFINE r == t.x.queue
<1> DEFINE base == s.x.offset
<1>1. /\ q \in Seq(Req) /\ r \in Seq(Req) /\ base \in Nat /\ s.asked \in Seq(Sent) /\ t.asked \in Seq(Sent)
      /\ s.table \subseteq [id : Nat, rr : Nat] /\ t.table \subseteq [id : Nat, rr : Nat]
      /\ t.x.offset = base + n * len
  BY GrownTable DEF State, XferRec, GrownSeqs
<1>2. \A i \in DOMAIN q : q[i] \in Req /\ q[i].len > 0 /\ q[i].offset + q[i].len <= base
  BY <1>1 DEF Kept, Ordered
<1>3. \A i \in DOMAIN q : q[i].offset \in Nat /\ q[i].len \in Nat /\ q[i].offset < base
  <2>1. TAKE i \in DOMAIN q
  <2>2. q[i].offset \in Nat /\ q[i].len \in Nat
    BY <1>2 DEF Req
  <2>3. q[i].len > 0 /\ q[i].offset + q[i].len <= base /\ base \in Nat
    BY <1>1, <1>2
  <2> DEFINE o == q[i].offset
  <2> DEFINE l == q[i].len
  <2>4. o \in Nat /\ l \in Nat /\ l > 0 /\ o + l <= base /\ base \in Nat
    BY <2>2, <2>3
  <2> HIDE DEF o, l, base
  <2>5. o < base
    BY <2>4
  <2>6. QED
    BY <2>2, <2>5 DEF o
<1>4. \A u \in s.table : u.rr < base /\ u.rr \in Nat /\ u.id \in Ids(s.table)
  <2>1. TAKE u \in s.table
  <2>2. PICK k \in DOMAIN q : q[k].offset = u.rr
    BY DEF Kept, Book
  <2>3. QED
    BY <1>3, <2>2 DEF Ids
<1>5. \A j \in 1..n : /\ At(base, len, j) \in Nat /\ base <= At(base, len, j)
                      /\ At(base, len, j) + len <= t.x.offset /\ t.x.offset \in Nat
  <2>1. TAKE j \in 1..n
  <2> DEFINE a == At(base, len, j)
  <2> DEFINE c == base + n * len
  <2>2. a \in Nat /\ base <= a /\ a + len <= c /\ c \in Nat
    BY <1>1, AtOne
  <2>3. c = t.x.offset
    BY <1>1
  <2> HIDE DEF a, c
  <2>4. QED
    BY <2>2, <2>3 DEF a
<1>51. base \in Nat /\ t.x.offset \in Nat /\ base <= t.x.offset
  <2> DEFINE c == n * len
  <2>1. c \in Nat
    BY Mult
  <2>2. base \in Nat /\ t.x.offset = base + c
    BY <1>1
  <2> HIDE DEF c, base
  <2>3. QED
    BY <2>1, <2>2
<1>6. \A i, j \in 1..n : i < j => At(base, len, i) + len <= At(base, len, j)
  BY <1>1, AtTwo
<1>7. \A k \in DOMAIN r : \/ k \in DOMAIN q /\ r[k] = q[k]
                          \/ \E j \in 1..n : k = Len(q) + j /\ NewAt(s, len, j, r[k])
  BY GrownQueue
<1>8. \A k \in DOMAIN t.asked :
        \/ k \in DOMAIN s.asked /\ t.asked[k] = s.asked[k]
        \/ \E j \in 1..n : /\ k = Len(s.asked) + j /\ t.asked[k].id = FreeId(s.table, j)
                           /\ t.asked[k].offset = At(base, len, j) /\ t.asked[k].len = len
  BY GrownAsked
<1>9. /\ \A k \in DOMAIN q : k \in DOMAIN r /\ r[k] = q[k]
      /\ \A j \in 1..n : Len(q) + j \in DOMAIN r /\ NewAt(s, len, j, r[Len(q) + j])
      /\ \A k \in DOMAIN s.asked : k \in DOMAIN t.asked /\ t.asked[k] = s.asked[k]
      /\ \A j \in 1..n : /\ Len(s.asked) + j \in DOMAIN t.asked
                         /\ t.asked[Len(s.asked) + j].id = FreeId(s.table, j)
                         /\ t.asked[Len(s.asked) + j].offset = At(base, len, j)
  BY GrownDomains
<1>10. /\ \A u \in t.table : u \in s.table \/ \E j \in 1..n : u = NewEntry(s, len, j)
       /\ \A j \in 1..n : NewEntry(s, len, j) \in t.table /\ FreeId(s.table, j) \in Nat \ Ids(s.table)
       /\ \A i, j \in 1..n : FreeId(s.table, i) = FreeId(s.table, j) => i = j
       /\ s.table \subseteq t.table
  BY GrownTable
<1>11. DOMAIN q = 1..Len(q) /\ Len(q) \in Nat /\ DOMAIN s.asked = 1..Len(s.asked) /\ Len(s.asked) \in Nat
       /\ DOMAIN r \subseteq Nat /\ DOMAIN t.asked \subseteq Nat
  <2>1. \A S : \A sq \in Seq(S) : DOMAIN sq = 1..Len(sq) /\ Len(sq) \in Nat /\ DOMAIN sq \subseteq Nat
    OBVIOUS
  <2>2. QED
    BY <1>1, <2>1, Zenon
<1>12. \A j \in 1..n : NewEntry(s, len, j).id = FreeId(s.table, j) /\ NewEntry(s, len, j).rr = At(base, len, j)
  BY DEF NewEntry
<1> HIDE DEF q, r, base
<1>20. Ordered(r, t.x.offset)
  <2>1. ASSUME NEW i \in DOMAIN r PROVE r[i].len > 0 /\ r[i].offset + r[i].len <= t.x.offset
    <3>1. CASE i \in DOMAIN q /\ r[i] = q[i]
      BY <1>51, <1>2, <1>3, <3>1
    <3>2. CASE \E j \in 1..n : i = Len(q) + j /\ NewAt(s, len, j, r[i])
      BY <1>5, <3>2 DEF NewAt, base
    <3>3. QED
      BY <1>7, <3>1, <3>2
  <2>2. ASSUME NEW i \in DOMAIN r, NEW j \in DOMAIN r, i < j
        PROVE  r[i].offset + r[i].len <= r[j].offset
    <3>1. CASE j \in DOMAIN q /\ r[j] = q[j]
      <4>1. i \in DOMAIN q
        <5>1. i \in Nat /\ i <= Len(q) /\ (i \in DOMAIN r => i # 0)
          <6>1. \A l \in DOMAIN r : l \in Nat /\ l # 0
            <7>1. r \in Seq(Req)
              BY <1>1 DEF r
            <7>2. DOMAIN r \subseteq Nat \ {0}
              BY <7>1, SeqDomain, Zenon
            <7>3. QED
              BY <7>2
          <6>2. QED
            BY <1>11, <2>2, <3>1, <6>1
        <5>2. QED
          BY <1>11, <5>1
      <4>2. r[i] = q[i]
        BY <1>9, <4>1
      <4>3. q[i].offset + q[i].len <= q[j].offset
        BY <2>2, <3>1, <4>1 DEF Kept, Ordered, q
      <4>4. QED
        BY <3>1, <4>2, <4>3
    <3>2. CASE \E m \in 1..n : j = Len(q) + m /\ NewAt(s, len, m, r[j])
      <4>1. PICK m \in 1..n : j = Len(q) + m /\ NewAt(s, len, m, r[j])
        BY <3>2
      <4>2. r[j].offset = At(base, len, m)
        BY <4>1 DEF NewAt, base
      <4>3. CASE i \in DOMAIN q /\ r[i] = q[i]
        BY <1>51, <1>2, <1>3, <1>5, <4>2, <4>3
      <4>4. CASE \E l \in 1..n : i = Len(q) + l /\ NewAt(s, len, l, r[i])
        <5>1. PICK l \in 1..n : i = Len(q) + l /\ NewAt(s, len, l, r[i])
          BY <4>4
        <5>2. l < m
          BY <1>11, <2>2, <4>1, <5>1
        <5>3. r[i].offset = At(base, len, l) /\ r[i].len = len
          BY <5>1 DEF NewAt, base
        <5>4. QED
          BY <1>6, <4>2, <5>2, <5>3
      <4>5. QED
        BY <1>7, <4>3, <4>4
    <3>3. QED
      BY <1>7, <3>1, <3>2
  <2>3. QED
    BY <2>1, <2>2 DEF Ordered
<1>21. \A t1, u \in t.table : t1.id = u.id \/ t1.rr = u.rr => t1 = u
  <2>1. TAKE t1, u \in t.table
  <2>2. HAVE t1.id = u.id \/ t1.rr = u.rr
  <2>3. CASE t1 \in s.table /\ u \in s.table
    BY <2>2, <2>3 DEF Kept, Book
  <2>4. CASE t1 \in s.table /\ \E j \in 1..n : u = NewEntry(s, len, j)
    <3>1. PICK j \in 1..n : u = NewEntry(s, len, j)
      BY <2>4
    <3>2. t1.id \in Ids(s.table) /\ t1.rr < base /\ t1.rr \in Nat
      BY <1>4, <2>4
    <3>3. u.id \notin Ids(s.table) /\ ~(u.rr < base)
      <4>1. u.id = FreeId(s.table, j) /\ u.rr = At(base, len, j)
        BY <1>12, <3>1
      <4>2. FreeId(s.table, j) \notin Ids(s.table)
        BY <1>10
      <4>3. u.rr \in Nat /\ base <= u.rr
        BY <1>5, <4>1
      <4>4. QED
        BY <1>51, <4>1, <4>2, <4>3
    <3>4. QED
      BY <2>2, <3>2, <3>3
  <2>5. CASE u \in s.table /\ \E j \in 1..n : t1 = NewEntry(s, len, j)
    <3>1. PICK j \in 1..n : t1 = NewEntry(s, len, j)
      BY <2>5
    <3>2. u.id \in Ids(s.table) /\ u.rr < base /\ u.rr \in Nat
      BY <1>4, <2>5
    <3>3. t1.id \notin Ids(s.table) /\ ~(t1.rr < base)
      <4>1. t1.id = FreeId(s.table, j) /\ t1.rr = At(base, len, j)
        BY <1>12, <3>1
      <4>2. FreeId(s.table, j) \notin Ids(s.table)
        BY <1>10
      <4>3. t1.rr \in Nat /\ base <= t1.rr
        BY <1>5, <4>1
      <4>4. QED
        BY <1>51, <4>1, <4>2, <4>3
    <3>4. QED
      BY <2>2, <3>2, <3>3
  <2>6. CASE (\E j \in 1..n : t1 = NewEntry(s, len, j)) /\ (\E j \in 1..n : u = NewEntry(s, len, j))
    <3>1. PICK i \in 1..n : t1 = NewEntry(s, len, i)
      BY <2>6
    <3>2. PICK j \in 1..n : u = NewEntry(s, len, j)
      BY <2>6
    <3>3. i < j => At(base, len, i) < At(base, len, j)
      BY <1>5, <1>6
    <3>4. j < i => At(base, len, j) < At(base, len, i)
      BY <1>5, <1>6
    <3>5. At(base, len, i) = At(base, len, j) => i = j
      BY <1>5, <3>3, <3>4
    <3>6. i = j
      BY <1>10, <1>12, <2>2, <3>1, <3>2, <3>5
    <3>7. QED
      BY <3>1, <3>2, <3>6
  <2>7. QED
    BY <1>10, <2>3, <2>4, <2>5, <2>6
<1>22. \A i \in DOMAIN t.asked : Entry(t.asked[i]) \in t.table
  <2>1. TAKE i \in DOMAIN t.asked
  <2>2. CASE i \in DOMAIN s.asked /\ t.asked[i] = s.asked[i]
    BY <1>10, <2>2 DEF Kept, Book
  <2>3. CASE \E j \in 1..n : /\ i = Len(s.asked) + j /\ t.asked[i].id = FreeId(s.table, j)
                             /\ t.asked[i].offset = At(base, len, j) /\ t.asked[i].len = len
    <3>1. PICK j \in 1..n : t.asked[i].id = FreeId(s.table, j) /\ t.asked[i].offset = At(base, len, j)
      BY <2>3
    <3>2. Entry(t.asked[i]) = NewEntry(s, len, j)
      BY <3>1 DEF Entry, NewEntry, base
    <3>3. QED
      BY <1>10, <3>2
  <2>4. QED
    BY <1>8, <2>2, <2>3
<1>23. \A i \in DOMAIN reps : reps[i].id \in Ids(t.table) /\ reps[i].id \in Ids(s.table)
  BY <1>10 DEF Kept, Book, Ids
<1>24. \A i \in DOMAIN s.asked : s.asked[i].id \in Ids(s.table)
  <2>1. TAKE i \in DOMAIN s.asked
  <2>2. Entry(s.asked[i]) \in s.table /\ Entry(s.asked[i]).id = s.asked[i].id
    BY DEF Kept, Book, Entry
  <2>3. QED
    BY <2>2 DEF Ids
<1>25. Distinct(t.asked)
  <2>1. SUFFICES ASSUME NEW i \in DOMAIN t.asked, NEW j \in DOMAIN t.asked, t.asked[i].id = t.asked[j].id
                 PROVE  i = j
    BY DEF Distinct
  <2>2. CASE i \in DOMAIN s.asked /\ j \in DOMAIN s.asked
    <3>1. t.asked[i] = s.asked[i] /\ t.asked[j] = s.asked[j]
      BY <1>9, <2>2
    <3>2. QED
      BY <2>1, <2>2, <3>1 DEF Kept, Book, Distinct
  <2>3. CASE i \in DOMAIN s.asked /\ j \notin DOMAIN s.asked
    <3>1. t.asked[i].id \in Ids(s.table)
      BY <1>9, <1>24, <2>3
    <3>2. t.asked[j].id \notin Ids(s.table)
      BY <1>8, <1>10, <2>3
    <3>3. QED
      BY <2>1, <3>1, <3>2
  <2>4. CASE i \notin DOMAIN s.asked /\ j \in DOMAIN s.asked
    <3>1. t.asked[j].id \in Ids(s.table)
      BY <1>9, <1>24, <2>4
    <3>2. t.asked[i].id \notin Ids(s.table)
      BY <1>8, <1>10, <2>4
    <3>3. QED
      BY <2>1, <3>1, <3>2
  <2>5. CASE i \notin DOMAIN s.asked /\ j \notin DOMAIN s.asked
    <3>1. PICK l \in 1..n : i = Len(s.asked) + l /\ t.asked[i].id = FreeId(s.table, l)
      BY <1>8, <2>5
    <3>2. PICK m \in 1..n : j = Len(s.asked) + m /\ t.asked[j].id = FreeId(s.table, m)
      BY <1>8, <2>5
    <3>3. QED
      BY <1>10, <2>1, <3>1, <3>2
  <2>6. QED
    BY <2>2, <2>3, <2>4, <2>5
<1>26. \A i \in DOMAIN t.asked, j \in DOMAIN reps : t.asked[i].id # reps[j].id
  <2>1. TAKE i \in DOMAIN t.asked, j \in DOMAIN reps
  <2>2. CASE i \in DOMAIN s.asked /\ t.asked[i] = s.asked[i]
    BY <2>2 DEF Kept, Book
  <2>3. CASE \E l \in 1..n : t.asked[i].id = FreeId(s.table, l)
    BY <1>10, <1>23, <2>3
  <2>4. QED
    BY <1>8, <2>2, <2>3
<1>27. \A u \in t.table : (\E i \in DOMAIN t.asked : t.asked[i].id = u.id) \/ (\E i \in DOMAIN reps : reps[i].id = u.id)
  <2>1. TAKE u \in t.table
  <2>2. CASE u \in s.table
    <3>1. CASE \E i \in DOMAIN s.asked : s.asked[i].id = u.id
      BY <1>9, <3>1
    <3>2. CASE \E i \in DOMAIN reps : reps[i].id = u.id
      BY <3>2
    <3>3. QED
      BY <2>2, <3>1, <3>2 DEF Kept, Book
  <2>3. CASE \E j \in 1..n : u = NewEntry(s, len, j)
    BY <1>9, <1>12, <2>3
  <2>4. QED
    BY <1>10, <2>2, <2>3
<1>28. \A u \in t.table : \E k \in DOMAIN r : r[k].offset = u.rr /\ r[k].complete = 0
  <2>1. TAKE u \in t.table
  <2>2. CASE u \in s.table
    <3>1. PICK k \in DOMAIN q : q[k].offset = u.rr /\ q[k].complete = 0
      BY <2>2 DEF Kept, Book, q
    <3>2. QED
      BY <1>9, <3>1
  <2>3. CASE \E j \in 1..n : u = NewEntry(s, len, j)
    <3>1. PICK j \in 1..n : u = NewEntry(s, len, j)
      BY <2>3
    <3>2. r[Len(q) + j].offset = At(base, len, j) /\ r[Len(q) + j].complete = 0 /\ Len(q) + j \in DOMAIN r
      BY <1>9 DEF NewAt, base
    <3>3. QED
      BY <1>12, <3>1, <3>2
  <2>4. QED
    BY <1>10, <2>2, <2>3
<1>29. \A i \in DOMAIN t.asked, k \in DOMAIN r : r[k].offset = t.asked[i].offset => r[k].len = t.asked[i].len
  <2>1. TAKE i \in DOMAIN t.asked, k \in DOMAIN r
  <2>2. HAVE r[k].offset = t.asked[i].offset
  <2>3. CASE i \in DOMAIN s.asked /\ t.asked[i] = s.asked[i]
    <3>1. t.asked[i].offset < base
      <4>1. Entry(s.asked[i]) \in s.table /\ Entry(s.asked[i]).rr = s.asked[i].offset
        BY <2>3 DEF Kept, Book, Entry
      <4>2. QED
        BY <1>4, <2>3, <4>1
    <3>2. CASE k \in DOMAIN q /\ r[k] = q[k]
      BY <2>2, <2>3, <3>2 DEF Kept, Book, q
    <3>3. CASE \E j \in 1..n : k = Len(q) + j /\ NewAt(s, len, j, r[k])
      <4>1. PICK j \in 1..n : r[k].offset = At(base, len, j)
        BY <3>3 DEF NewAt, base
      <4>2. QED
        BY <1>1, <1>5, <2>2, <3>1, <4>1
    <3>4. QED
      BY <1>7, <3>2, <3>3
  <2>4. CASE \E j \in 1..n : /\ i = Len(s.asked) + j /\ t.asked[i].id = FreeId(s.table, j)
                             /\ t.asked[i].offset = At(base, len, j) /\ t.asked[i].len = len
    <3>1. PICK j \in 1..n : t.asked[i].offset = At(base, len, j) /\ t.asked[i].len = len
      BY <2>4
    <3>2. ~(r[k].offset < base)
      BY <1>51, <1>5, <2>2, <3>1
    <3>3. ~(k \in DOMAIN q /\ r[k] = q[k])
      BY <1>3, <3>2
    <3>4. QED
      BY <1>7, <3>1, <3>3 DEF NewAt
  <2>5. QED
    BY <1>8, <2>3, <2>4
<1>30. Waiting(r, t.table)
  <2>1. SUFFICES ASSUME NEW k \in DOMAIN r, r[k].complete = 0 PROVE \E u \in t.table : u.rr = r[k].offset
    BY DEF Waiting
  <2>2. CASE k \in DOMAIN q /\ r[k] = q[k]
    <3>1. PICK u \in s.table : u.rr = q[k].offset
      BY <2>1, <2>2 DEF Kept, Waiting, q
    <3>2. QED
      BY <1>10, <2>2, <3>1
  <2>3. CASE \E j \in 1..n : k = Len(q) + j /\ NewAt(s, len, j, r[k])
    <3>1. PICK j \in 1..n : r[k].offset = At(base, len, j)
      BY <2>3 DEF NewAt, base
    <3>2. QED
      BY <1>10, <1>12, <3>1
  <2>4. QED
    BY <1>7, <2>2, <2>3
<1>31. Answers(r, t.table, reps)
  <2>1. SUFFICES ASSUME NEW i \in DOMAIN reps
                 PROVE  /\ reps[i].status = "FAILURE" => client \in Failing
                        /\ \A u \in t.table, k \in DOMAIN r :
                             reps[i].id = u.id /\ r[k].offset = u.rr => AnswerOk(reps[i], r[k])
    BY DEF Answers
  <2>2. reps[i].status = "FAILURE" => client \in Failing
    BY DEF Kept, Answers
  <2>3. ASSUME NEW u \in t.table, NEW k \in DOMAIN r, reps[i].id = u.id, r[k].offset = u.rr
        PROVE  AnswerOk(reps[i], r[k])
    <3>1. u \in s.table
      <4>1. ASSUME NEW j \in 1..n, u = NewEntry(s, len, j) PROVE FALSE
        BY <1>10, <1>12, <1>23, <2>3, <4>1
      <4>2. QED
        BY <1>10, <4>1
    <3>2. k \in DOMAIN q /\ r[k] = q[k]
      <4>1. ASSUME NEW j \in 1..n, NewAt(s, len, j, r[k]) PROVE FALSE
        <5>1. r[k].offset = At(base, len, j)
          BY <4>1 DEF NewAt, base
        <5>2. QED
          <6>1. u.rr < base /\ u.rr \in Nat /\ u.rr = At(base, len, j)
            BY <1>4, <2>3, <3>1, <5>1
          <6>2. base <= At(base, len, j) /\ At(base, len, j) \in Nat
            BY <1>5
          <6>3. QED
            BY <1>51, <6>1, <6>2
      <4>2. QED
        BY <1>7, <4>1
    <3>3. QED
      BY <2>3, <3>1, <3>2 DEF Kept, Answers, q
  <2>4. QED
    BY <2>2, <2>3
<1>32. Distinct(reps)
  BY DEF Kept, Book
<1>33. Book(r, t.table, t.asked, reps)
  BY <1>21, <1>22, <1>23, <1>25, <1>26, <1>27, <1>28, <1>29, <1>32, Zenon DEF Book
<1>34. QED
  BY <1>20, <1>30, <1>31, <1>33 DEF Kept, r
-----------------------------------------------------------------------------
(* A download's queue, as requests are put on it *)

LEMMA GrownBlocks ==
  ASSUME NEW s \in State, NEW n \in Nat, NEW t, Block \in Nat, GrownSeqs(s, t, Block, n), Blocks(s.x)
  PROVE  Blocks(t.x)
<1> DEFINE q == s.x.queue
<1> DEFINE r == t.x.queue
<1> DEFINE base == s.x.offset
<1>1. q \in Seq(Req) /\ r \in Seq(Req) /\ base \in Nat
  BY DEF State, XferRec, GrownSeqs
<1>2. /\ DOMAIN q = 1..Len(q) /\ Len(q) \in Nat
      /\ DOMAIN r = 1..Len(r) /\ Len(r) \in Nat
  BY <1>1, SeqDomain, Zenon
<1>3. Len(r) = Len(q) + n
  BY DEF GrownSeqs
<1>30. t.x.offset = base + n * Block
  BY DEF GrownSeqs
<1>4. \A k \in DOMAIN r : \/ k \in DOMAIN q /\ r[k] = q[k]
                          \/ \E j \in 1..n : k = Len(q) + j /\ NewAt(s, Block, j, r[k])
  BY GrownQueue
<1>5. /\ \A k \in DOMAIN q : r[k] = q[k]
      /\ \A j \in 1..n : NewAt(s, Block, j, r[Len(q) + j])
  BY GrownDomains
<1>6. \A k \in DOMAIN q : q[k].len = Block /\ q[k].offset + Block = IF k = Len(q) THEN base ELSE q[k + 1].offset
  BY DEF Blocks
<1>7. n = 0 => t.x.offset = base
  BY <1>1, <1>30
<1>70. \A j \in 1..n : At(base, Block, j) + Block = IF j = n THEN t.x.offset ELSE At(base, Block, j + 1)
  <2>1. TAKE j \in 1..n
  <2>1a. base \in Nat
    BY <1>1
  <2>1b. t.x.offset = base + n * Block
    BY <1>30
  <2> HIDE DEF base
  <2>2. At(base, Block, j) + Block = IF j = n THEN base + n * Block ELSE At(base, Block, j + 1)
    <3>1. Block \in Nat /\ n \in Nat /\ j \in 1..n
      OBVIOUS
    <3>2. QED
      <4>1. \A b \in Nat : At(b, Block, j) + Block = IF j = n THEN b + n * Block ELSE At(b, Block, j + 1)
        <5>1. TAKE b \in Nat
        <5>2. At(b, Block, j) + Block = IF j = n THEN b + n * Block ELSE At(b, Block, j + 1)
          BY <3>1, AtOne
        <5>3. QED
          BY <5>2
      <4>2. QED
        BY <2>1a, <4>1, Zenon
  <2>4. QED
    BY <2>1b, <2>2, Zenon
<1>71. At(base, Block, 1) = base
  BY <1>1, AtFirst
<1> HIDE DEF q, r, base
<1>8. ASSUME NEW k \in DOMAIN r
      PROVE  r[k].len = Block /\ r[k].offset + Block = IF k = Len(r) THEN t.x.offset ELSE r[k + 1].offset
  <2>1. CASE k \in DOMAIN q /\ r[k] = q[k]
    <3>1. CASE k = Len(q)
      <4>1. CASE n = 0
        BY <1>3, <1>2, <1>6, <1>7, <2>1, <3>1, <4>1
      <4>2. CASE n # 0
        <5>1. 1 \in 1..n /\ k # Len(r)
          <6> DEFINE a == Len(q)
          <6> DEFINE b == Len(r)
          <6>1. a \in Nat /\ b = a + n /\ k = a
            BY <1>2, <1>3, <3>1
          <6> HIDE DEF a, b
          <6>2. 1 \in 1..n /\ k # b
            BY <4>2, <6>1
          <6>3. QED
            BY <6>2 DEF b
        <5>2. NewAt(s, Block, 1, r[k + 1])
          BY <1>5, <3>1, <5>1
        <5>3. r[k + 1].offset = base
          BY <1>71, <4>2, <5>2 DEF NewAt, base
        <5>4. QED
          BY <1>6, <2>1, <3>1, <5>1, <5>3
      <4>3. QED
        BY <4>1, <4>2
    <3>2. CASE k # Len(q)
      <4>1. k + 1 \in DOMAIN q /\ k # Len(r)
        BY <1>2, <1>3, <2>1, <3>2
      <4>2. r[k + 1] = q[k + 1]
        BY <1>5, <4>1
      <4>3. QED
        BY <1>6, <2>1, <3>2, <4>1, <4>2
    <3>3. QED
      BY <3>1, <3>2
  <2>2. CASE \E j \in 1..n : k = Len(q) + j /\ NewAt(s, Block, j, r[k])
    <3>1. PICK j \in 1..n : k = Len(q) + j /\ NewAt(s, Block, j, r[k])
      BY <2>2
    <3>2. r[k].len = Block /\ r[k].offset = At(base, Block, j)
      BY <3>1 DEF NewAt, base
    <3>3. At(base, Block, j) + Block = IF j = n THEN t.x.offset ELSE At(base, Block, j + 1)
      BY <1>70
    <3>4. j = n <=> k = Len(r)
      BY <1>2, <1>3, <3>1
    <3>5. ASSUME j # n PROVE r[k + 1].offset = At(base, Block, j + 1)
      <4>1. j + 1 \in 1..n /\ k + 1 = Len(q) + (j + 1)
        BY <1>2, <3>1, <3>5
      <4>2. NewAt(s, Block, j + 1, r[Len(q) + (j + 1)])
        BY <1>5, <4>1
      <4>3. QED
        BY <4>1, <4>2 DEF NewAt, base
    <3>6. QED
      BY <3>2, <3>3, <3>4, <3>5
  <2>3. QED
    BY <1>4, <2>1, <2>2
<1>9. QED
  BY <1>8 DEF Blocks, r

LEMMA GrownDownload ==
  ASSUME NEW s \in State, NEW n \in Nat, NEW t, Block \in Nat, GrownSeqs(s, t, Block, n),
         NEW reps \in Seq(Reply), \A j \in 1..n : NewEntry(s, Block, j) \in t.table, s.table \subseteq t.table
  PROVE  /\ Received(s.x.queue) => Received(t.x.queue)
         /\ NoneReceived(s.x.queue) => NoneReceived(t.x.queue)
         /\ Told(s.x) => Told(t.x)
         /\ \A d : EofSeen(s.x, d) => EofSeen(t.x, d)
         /\ InOrder(s.x.queue, s.table, s.asked, reps) => InOrder(t.x.queue, t.table, t.asked, reps)
<1> DEFINE q == s.x.queue
<1> DEFINE r == t.x.queue
<1>1. q \in Seq(Req) /\ r \in Seq(Req) /\ s.asked \in Seq(Sent) /\ t.asked \in Seq(Sent)
  BY DEF State, XferRec, GrownSeqs
<1>2. /\ DOMAIN q = 1..Len(q) /\ Len(q) \in Nat /\ DOMAIN r = 1..Len(r) /\ Len(r) \in Nat
      /\ DOMAIN s.asked = 1..Len(s.asked) /\ Len(s.asked) \in Nat
      /\ DOMAIN t.asked = 1..Len(t.asked) /\ Len(t.asked) \in Nat
      /\ DOMAIN reps = 1..Len(reps) /\ Len(reps) \in Nat
  <2>1. reps \in Seq(Reply)
    OBVIOUS
  <2>2. DOMAIN reps = 1..Len(reps) /\ Len(reps) \in Nat
    BY <2>1, SeqDomain, Zenon
  <2>3. DOMAIN q = 1..Len(q) /\ Len(q) \in Nat
    <3> HIDE DEF q
    <3>1. q \in Seq(Req)
      BY <1>1
    <3>2. QED
      BY <3>1, SeqDomain, Zenon
  <2>31. DOMAIN r = 1..Len(r) /\ Len(r) \in Nat
    <3> HIDE DEF r
    <3>1. r \in Seq(Req)
      BY <1>1
    <3>2. QED
      BY <3>1, SeqDomain, Zenon
  <2>4. DOMAIN s.asked = 1..Len(s.asked) /\ Len(s.asked) \in Nat
    BY <1>1, SeqDomain, Zenon
  <2>41. DOMAIN t.asked = 1..Len(t.asked) /\ Len(t.asked) \in Nat
    BY <1>1, SeqDomain, Zenon
  <2>5. QED
    BY <2>2, <2>3, <2>31, <2>4, <2>41, Zenon
<1>3. Len(r) = Len(q) + n /\ Len(t.asked) = Len(s.asked) + n
      /\ t.x.furthestdata = s.x.furthestdata /\ t.x.filesize = s.x.filesize /\ t.x.eof = s.x.eof
  BY DEF GrownSeqs
<1>4. \A k \in DOMAIN r : \/ k \in DOMAIN q /\ r[k] = q[k]
                          \/ r[k].complete = 0
  <2>1. TAKE k \in DOMAIN r
  <2>2. \/ k \in DOMAIN q /\ r[k] = q[k]
        \/ \E j \in 1..n : k = Len(q) + j /\ NewAt(s, Block, j, r[k])
    BY GrownQueue
  <2>3. QED
    BY <2>2 DEF NewAt
<1>5. /\ \A k \in DOMAIN q : k \in DOMAIN r /\ r[k] = q[k]
      /\ \A j \in 1..n : NewAt(s, Block, j, r[Len(q) + j])
      /\ \A k \in DOMAIN s.asked : k \in DOMAIN t.asked /\ t.asked[k] = s.asked[k]
      /\ \A j \in 1..n : t.asked[Len(s.asked) + j].offset = At(s.x.offset, Block, j)
  BY GrownDomains
<1> HIDE DEF q, r
<1>6. Received(q) => Received(r)
  BY <1>4 DEF Received
<1>7. NoneReceived(q) => NoneReceived(r)
  BY <1>4 DEF NoneReceived
<1>8. ASSUME Told(s.x) PROVE Told(t.x)
  <2>1. \A k \in DOMAIN q :
          /\ q[k].complete >= 0
          /\ q[k].complete = 1 /\ q[k].retlen > 0 => q[k].offset <= s.x.furthestdata
          /\ q[k].complete = 1 /\ q[k].retlen < Block => s.x.filesize <= q[k].offset + q[k].retlen
    BY <1>8, Zenon DEF Told, q
  <2>2. \A k \in DOMAIN r :
          /\ r[k].complete >= 0
          /\ r[k].complete = 1 /\ r[k].retlen > 0 => r[k].offset <= t.x.furthestdata
          /\ r[k].complete = 1 /\ r[k].retlen < Block => t.x.filesize <= r[k].offset + r[k].retlen
    <3>1. TAKE k \in DOMAIN r
    <3>2. CASE r[k].complete = 0
      BY <3>2
    <3>3. CASE k \in DOMAIN q /\ r[k] = q[k]
      BY <1>3, <2>1, <3>3, Zenon
    <3>4. QED
      BY <1>4, <3>2, <3>3
  <2>3. QED
    BY <2>2, Zenon DEF Told, r
<1>9. ASSUME NEW d, EofSeen(s.x, d) PROVE EofSeen(t.x, d)
  BY <1>3, <1>5, <1>9 DEF EofSeen, q, r
<1>10. ASSUME InOrder(q, s.table, s.asked, reps) PROVE InOrder(r, t.table, t.asked, reps)
  <2>1. Len(q) = Len(reps) + Len(s.asked)
    BY <1>10 DEF InOrder
  <2>2. Len(r) = Len(reps) + Len(t.asked)
    BY <1>2, <1>3, <2>1
  <2>3. ASSUME NEW i \in DOMAIN reps PROVE [id |-> reps[i].id, rr |-> r[i].offset] \in t.table
    <3>1. i \in DOMAIN q
      BY <1>2, <2>1
    <3>2. [id |-> reps[i].id, rr |-> q[i].offset] \in s.table
      BY <1>10 DEF InOrder
    <3>3. QED
      BY <1>5, <3>1, <3>2
  <2>4. ASSUME NEW i \in DOMAIN t.asked PROVE t.asked[i].offset = r[Len(reps) + i].offset
    <3>1. CASE i \in DOMAIN s.asked
      <4>1. Len(reps) + i \in DOMAIN q
        BY <1>2, <2>1, <3>1
      <4>2. s.asked[i].offset = q[Len(reps) + i].offset
        BY <1>10, <3>1 DEF InOrder
      <4>3. QED
        BY <1>5, <3>1, <4>1, <4>2
    <3>2. CASE i \notin DOMAIN s.asked
      <4>1. PICK j \in 1..n : i = Len(s.asked) + j
        <5>1. i \in 1..(Len(s.asked) + n) /\ ~(i <= Len(s.asked))
          BY <1>2, <1>3, <3>2
        <5>2. QED
          BY <1>2, <5>1, Beyond
      <4>2. Len(reps) + i = Len(q) + j
        BY <1>2, <2>1, <4>1
      <4>3. t.asked[i].offset = At(s.x.offset, Block, j)
        BY <1>5, <4>1
      <4>4. r[Len(q) + j].offset = At(s.x.offset, Block, j)
        BY <1>5 DEF NewAt
      <4>5. QED
        BY <4>2, <4>3, <4>4
    <3>3. QED
      BY <3>1, <3>2
  <2>5. QED
    BY <2>2, <2>3, <2>4 DEF InOrder
<1>11. QED
  BY <1>6, <1>7, <1>8, <1>9, <1>10 DEF q, r

\* Where the queue begins does not change.
LEMMA GrownHead ==
  ASSUME NEW s \in State, NEW n \in Nat, NEW t, Block \in Nat, GrownSeqs(s, t, Block, n)
  PROVE  HeadAt(t.x) = HeadAt(s.x)
<1> DEFINE q == s.x.queue
<1> DEFINE r == t.x.queue
<1>1. q \in Seq(Req) /\ r \in Seq(Req) /\ s.x.offset \in Nat
  BY DEF State, XferRec, GrownSeqs
<1>2. /\ DOMAIN q = 1..Len(q) /\ Len(q) \in Nat /\ Len(r) \in Nat
      /\ (q = <<>> <=> Len(q) = 0) /\ (r = <<>> <=> Len(r) = 0)
  BY <1>1, SeqDomain, Zenon
<1>3. Len(r) = Len(q) + n /\ t.x.offset = s.x.offset + n * Block
  BY DEF GrownSeqs
<1>4. /\ \A k \in DOMAIN q : r[k] = q[k]
      /\ \A j \in 1..n : NewAt(s, Block, j, r[Len(q) + j])
  BY GrownDomains
<1> HIDE DEF q, r
<1>5. CASE q # <<>>
  <2>1. 1 \in DOMAIN q /\ r # <<>>
    BY <1>2, <1>3, <1>5
  <2>2. r[1] = q[1]
    BY <1>4, <2>1
  <2>3. QED
    BY <1>5, <2>1, <2>2 DEF HeadAt, q, r
<1>6. CASE q = <<>> /\ n = 0
  <2>1. r = <<>>
    BY <1>2, <1>3, <1>6
  <2>2. t.x.offset = s.x.offset
    BY <1>1, <1>3, <1>6
  <2>3. QED
    BY <1>6, <2>1, <2>2 DEF HeadAt, q, r
<1>7. CASE q = <<>> /\ n # 0
  <2>1. 1 \in 1..n /\ r # <<>> /\ Len(q) + 1 = 1
    BY <1>2, <1>3, <1>7
  <2>2. NewAt(s, Block, 1, r[1])
    BY <1>4, <2>1
  <2>3. r[1].offset = s.x.offset
    <3>1. At(s.x.offset, Block, 1) = s.x.offset
      <4>1. s.x.offset \in Nat /\ 1 \in 1..n
        BY <1>1, <2>1
      <4> DEFINE o == s.x.offset
      <4>2. o \in Nat
        BY <4>1
      <4> HIDE DEF o
      <4>3. At(o, Block, 1) = o
        BY <4>1, <4>2, AtOne
      <4>4. QED
        BY <4>3 DEF o
    <3>2. QED
      BY <2>2, <3>1 DEF NewAt
  <2>4. QED
    BY <1>7, <2>1, <2>3 DEF HeadAt, q, r
<1>8. QED
  BY <1>5, <1>6, <1>7

\* xfer_download_queue sends some number of blocks, none after the end of the file or an error.
LEMMA DownloadQueues ==
  ASSUME NEW s \in State, Block \in Nat \ {0}, MaxTotal \in Nat
  PROVE  \E n \in Nat : DownloadQueue(s) = Queued(s, Block, n) /\ (s.x.eof \/ s.x.err => n = 0)
<1>1. s.x.totalsize \in Int
  BY DEF State, XferRec
<1> DEFINE a == MaxTotal - s.x.totalsize + Block - 1
<1> DEFINE m == a \div Block
<1> DEFINE n == IF s.x.eof \/ s.x.err \/ m < 0 THEN 0 ELSE m
<1>2. a \in Int
  BY <1>1
<1> HIDE DEF a
<1>3. m \in Int
  BY <1>2
<1> HIDE DEF m
<1>4. n \in Nat /\ (s.x.eof \/ s.x.err => n = 0)
  BY <1>3
<1>5. DownloadQueue(s) = Queued(s, Block, n)
  BY Zenon DEF DownloadQueue, n, m, a
<1> HIDE DEF n
<1>6. QED
  BY <1>4, <1>5
-----------------------------------------------------------------------------
(* A reply is read *)

LEMMA OffsetsDiffer ==
  ASSUME NEW q \in Seq(Req), NEW top, Ordered(q, top), NEW i \in DOMAIN q, NEW j \in DOMAIN q,
         q[i].offset = q[j].offset
  PROVE  i = j
<1>1. /\ q[i].offset \in Nat /\ q[j].offset \in Nat /\ q[i].len \in Nat /\ q[j].len \in Nat
      /\ q[i].len > 0 /\ q[j].len > 0
  <2>1. q[i] \in Req /\ q[j] \in Req
    BY SeqDomain
  <2>2. q[i].offset \in Nat /\ q[j].offset \in Nat /\ q[i].len \in Nat /\ q[j].len \in Nat
    BY <2>1 DEF Req
  <2>3. q[i].len > 0 /\ q[j].len > 0
    BY DEF Ordered
  <2>4. QED
    BY <2>2, <2>3
<1>2. i \in Nat /\ j \in Nat
  OBVIOUS
<1>3. (i < j => q[i].offset + q[i].len <= q[j].offset) /\ (j < i => q[j].offset + q[j].len <= q[i].offset)
  BY DEF Ordered
<1> DEFINE a == q[i].offset
<1> DEFINE b == q[j].offset
<1> DEFINE c == q[i].len
<1> DEFINE d == q[j].len
<1>4. /\ a \in Nat /\ b \in Nat /\ c \in Nat /\ d \in Nat /\ c > 0 /\ d > 0 /\ a = b
      /\ (i < j => a + c <= b) /\ (j < i => b + d <= a)
  BY <1>1, <1>3
<1> HIDE DEF a, b, c, d
<1>5. QED
  BY <1>2, <1>4

LEMMA TailAt ==
  ASSUME NEW S, NEW s \in Seq(S), s # <<>>
  PROVE  /\ Tail(s) \in Seq(S) /\ Head(s) = s[1] /\ 1 \in DOMAIN s /\ Head(s) \in S
         /\ \A i \in DOMAIN Tail(s) : i + 1 \in DOMAIN s /\ Tail(s)[i] = s[i + 1] /\ i + 1 # 1
         /\ \A i \in DOMAIN s : i = 1 \/ \E j \in DOMAIN Tail(s) : i = j + 1
         /\ Len(s) = Len(Tail(s)) + 1
<1>1. /\ Tail(s) \in Seq(S) /\ Head(s) = s[1] /\ 1 \in DOMAIN s /\ Head(s) \in S
      /\ \A i \in DOMAIN Tail(s) : i + 1 \in DOMAIN s /\ Tail(s)[i] = s[i + 1] /\ i + 1 # 1
      /\ Len(s) = Len(Tail(s)) + 1
  OBVIOUS
<1>2. ASSUME NEW i \in DOMAIN s, i # 1 PROVE \E j \in DOMAIN Tail(s) : i = j + 1
  <2>1. i - 1 \in DOMAIN Tail(s) /\ i = (i - 1) + 1
    BY <1>2
  <2>2. QED
    BY <2>1
<1>3. QED
  BY <1>1, <1>2

\* The request that the reply is for.
LEMMA Finds ==
  ASSUME TypeOK, Ordered(xfer.queue, xfer.offset), Book(xfer.queue, table, asked, replies),
         Answers(xfer.queue, table, replies), replies # <<>>, NEW rep, rep = Head(replies),
         NEW k, k = IndexOf(xfer, Replied(rep))
  PROVE  /\ rep \in Reply /\ k \in DOMAIN xfer.queue /\ xfer.queue[k].complete = 0
         /\ AnswerOk(rep, xfer.queue[k])
         /\ rep.status = "FAILURE" => client \in Failing
         /\ \E t \in table : t.id = rep.id /\ xfer.queue[k].offset = t.rr
<1> DEFINE q == xfer.queue
<1> DEFINE t == CHOOSE u \in table : u.id = rep.id
<1>1. replies \in Seq(Reply) /\ q \in Seq(Req)
  BY DEF TypeOK, XferRec
<1>2. rep = replies[1] /\ 1 \in DOMAIN replies /\ rep \in Reply
  BY <1>1, TailAt
<1>3. \E u \in table : u.id = rep.id
  <2>1. rep.id \in Ids(table)
    BY <1>2 DEF Book
  <2>2. QED
    BY <2>1 DEF Ids
<1>4. t \in table /\ t.id = rep.id
  BY <1>3
<1>5. Replied(rep) = t.rr
  BY DEF Replied
<1> HIDE DEF t
<1>6. PICK j \in DOMAIN q : q[j].offset = t.rr /\ q[j].complete = 0
  BY <1>4 DEF Book
<1>7. k = CHOOSE i \in DOMAIN q : q[i].offset = t.rr
  BY <1>5 DEF IndexOf
<1>8. k \in DOMAIN q /\ q[k].offset = t.rr
  BY <1>6, <1>7
<1>9. k = j
  BY <1>1, <1>6, <1>8, OffsetsDiffer
<1>10. AnswerOk(rep, q[k]) /\ (rep.status = "FAILURE" => client \in Failing)
  BY <1>2, <1>4, <1>8 DEF Answers
<1>11. QED
  BY <1>2, <1>4, <1>6, <1>8, <1>9, <1>10

\* r is the queue q after a reply for its k-th element, and without some of the elements
\* that do not wait; g tells where the elements come from.
TakenUp(q, k, r, g) ==
  /\ r \in Seq(Req) /\ g \in [DOMAIN r -> DOMAIN q]
  /\ \A i, j \in DOMAIN r : i < j => g[i] < g[j]
  /\ \A i \in DOMAIN r :
       /\ r[i].offset = q[g[i]].offset /\ r[i].len = q[g[i]].len
       /\ IF g[i] = k THEN r[i].complete # 0 ELSE r[i] = q[g[i]]
  /\ \A j \in DOMAIN q : q[j].complete = 0 /\ j # k => \E i \in DOMAIN r : g[i] = j

LEMMA TakenBook ==
  ASSUME NEW q \in Seq(Req), NEW r, NEW g, NEW k \in DOMAIN q, TakenUp(q, k, r, g),
         NEW top, Ordered(q, top), NEW tab, NEW ask, NEW reps \in Seq(Reply), reps # <<>>,
         Book(q, tab, ask, reps), NEW tt \in tab, tt.id = Head(reps).id, tt.rr = q[k].offset
  PROVE  Book(r, {t \in tab : t.id # Head(reps).id}, ask, Tail(reps))
<1> DEFINE new == {t \in tab : t.id # Head(reps).id}
<1> DEFINE rest == Tail(reps)
<1>1. /\ Head(reps) = reps[1] /\ 1 \in DOMAIN reps
      /\ \A i \in DOMAIN rest : i + 1 \in DOMAIN reps /\ rest[i] = reps[i + 1] /\ i + 1 # 1
      /\ \A i \in DOMAIN reps : i = 1 \/ \E j \in DOMAIN rest : i = j + 1
      /\ DOMAIN rest \subseteq Nat
  <2>1. rest \in Seq(Reply)
    BY TailAt
  <2>2. DOMAIN rest \subseteq Nat
    BY <2>1
  <2> HIDE DEF rest
  <2>3. QED
    BY <2>2, TailAt DEF rest
<1> HIDE DEF rest
<1>2. \A t \in new : t \in tab /\ t.id # reps[1].id
  BY <1>1
<1>3. \A t \in tab : t.id # reps[1].id => t \in new
  BY <1>1
<1> HIDE DEF new
<1>4. \A t, u \in tab : t.id = u.id \/ t.rr = u.rr => t = u
  BY DEF Book
<1>5. \A i \in DOMAIN rest : rest[i].id # reps[1].id
  <2>1. TAKE i \in DOMAIN rest
  <2>2. \A j, l \in DOMAIN reps : reps[j].id = reps[l].id => j = l
    BY DEF Book, Distinct
  <2>3. QED
    BY <1>1, <2>2
<1>6. \A i \in DOMAIN ask : Entry(ask[i]) \in new
  <2>1. TAKE i \in DOMAIN ask
  <2>2. Entry(ask[i]) \in tab /\ ask[i].id # reps[1].id /\ Entry(ask[i]).id = ask[i].id
    BY <1>1 DEF Book, Entry
  <2>3. QED
    BY <1>3, <2>2
<1>7. \A i \in DOMAIN rest : rest[i].id \in Ids(new)
  <2>1. TAKE i \in DOMAIN rest
  <2>2. reps[i + 1].id \in Ids(tab)
    BY <1>1 DEF Book
  <2>3. PICK t \in tab : t.id = rest[i].id
    BY <1>1, <2>2 DEF Ids
  <2>4. t \in new
    BY <1>3, <1>5, <2>3
  <2>5. QED
    BY <2>3, <2>4 DEF Ids
<1>8. Distinct(ask)
  BY DEF Book
<1>9. Distinct(rest)
  <2>1. SUFFICES ASSUME NEW i \in DOMAIN rest, NEW j \in DOMAIN rest, rest[i].id = rest[j].id PROVE i = j
    BY DEF Distinct
  <2>2. i + 1 = j + 1
    <3>1. \A l, m \in DOMAIN reps : reps[l].id = reps[m].id => l = m
      BY Zenon DEF Book, Distinct
    <3>2. i + 1 \in DOMAIN reps /\ j + 1 \in DOMAIN reps /\ reps[i + 1].id = reps[j + 1].id
      BY <1>1, <2>1
    <3>3. QED
      BY <3>1, <3>2, Zenon
  <2>3. QED
    BY <1>1, <2>2
<1>10. \A i \in DOMAIN ask, j \in DOMAIN rest : ask[i].id # rest[j].id
  BY <1>1 DEF Book
<1>11. \A t \in new : (\E i \in DOMAIN ask : ask[i].id = t.id) \/ (\E i \in DOMAIN rest : rest[i].id = t.id)
  <2>1. TAKE t \in new
  <2>2. ASSUME NEW i \in DOMAIN reps, reps[i].id = t.id PROVE \E j \in DOMAIN rest : rest[j].id = t.id
    <3>1. i # 1
      BY <1>2, <2>2
    <3>2. PICK j \in DOMAIN rest : i = j + 1
      BY <1>1, <3>1
    <3>3. QED
      BY <1>1, <2>2, <3>2
  <2>3. QED
    BY <1>2, <2>2 DEF Book
<1>12. \A t \in new : \E i \in DOMAIN r : r[i].offset = t.rr /\ r[i].complete = 0
  <2>1. TAKE t \in new
  <2>2. PICK j \in DOMAIN q : q[j].offset = t.rr /\ q[j].complete = 0
    BY <1>2 DEF Book
  <2>3. j # k
    BY <1>1, <1>2, <1>4, <2>2
  <2>4. PICK i \in DOMAIN r : g[i] = j
    BY <2>2, <2>3 DEF TakenUp
  <2>5. r[i] = q[j]
    BY <2>3, <2>4 DEF TakenUp
  <2>6. QED
    BY <2>2, <2>5
<1>13. \A i \in DOMAIN ask, j \in DOMAIN r : r[j].offset = ask[i].offset => r[j].len = ask[i].len
  <2>1. TAKE i \in DOMAIN ask, j \in DOMAIN r
  <2>2. g[j] \in DOMAIN q /\ r[j].offset = q[g[j]].offset /\ r[j].len = q[g[j]].len
    BY DEF TakenUp
  <2>3. \A l \in DOMAIN q : q[l].offset = ask[i].offset => q[l].len = ask[i].len
    BY Zenon DEF Book
  <2>4. QED
    BY <2>2, <2>3, Zenon
<1>14. \A t, u \in new : t.id = u.id \/ t.rr = u.rr => t = u
  BY <1>2, <1>4
<1>15. Book(r, new, ask, rest)
  BY <1>6, <1>7, <1>8, <1>9, <1>10, <1>11, <1>12, <1>13, <1>14, Zenon DEF Book
<1>16. QED
  BY <1>15 DEF new, rest

LEMMA TakenKept ==
  ASSUME NEW q \in Seq(Req), NEW r, NEW g, NEW k \in DOMAIN q, TakenUp(q, k, r, g),
         NEW top, NEW tab, NEW ask, NEW reps \in Seq(Reply), reps # <<>>,
         Kept(q, top, tab, ask, reps), NEW tt \in tab, tt.id = Head(reps).id, tt.rr = q[k].offset
  PROVE  Kept(r, top, {t \in tab : t.id # Head(reps).id}, ask, Tail(reps))
<1> DEFINE new == {t \in tab : t.id # Head(reps).id}
<1> DEFINE rest == Tail(reps)
<1>1. Book(r, new, ask, rest)
  BY TakenBook DEF Kept
<1>2. /\ Head(reps) = reps[1] /\ 1 \in DOMAIN reps
      /\ \A i \in DOMAIN rest : i + 1 \in DOMAIN reps /\ rest[i] = reps[i + 1]
  BY TailAt
<1>3. /\ \A t \in new : t \in tab /\ t.id # tt.id
      /\ \A t \in tab : t # tt => t \in new
  <2>1. \A t \in tab : t.id = tt.id => t = tt
    BY DEF Kept, Book
  <2>2. QED
    BY <2>1
<1> HIDE DEF new, rest
<1>4. /\ \A i \in DOMAIN r : /\ g[i] \in DOMAIN q /\ r[i].offset = q[g[i]].offset /\ r[i].len = q[g[i]].len
                             /\ IF g[i] = k THEN r[i].complete # 0 ELSE r[i] = q[g[i]]
      /\ \A i, j \in DOMAIN r : i < j => g[i] < g[j]
  BY DEF TakenUp
<1>5. Ordered(r, top)
  <2>1. \A i \in DOMAIN r : r[i].len > 0 /\ r[i].offset + r[i].len <= top
    BY <1>4 DEF Kept, Ordered
  <2>2. ASSUME NEW i \in DOMAIN r, NEW j \in DOMAIN r, i < j
        PROVE  r[i].offset + r[i].len <= r[j].offset
    <3>1. g[i] \in DOMAIN q /\ g[j] \in DOMAIN q /\ g[i] < g[j]
      BY <1>4, <2>2
    <3>2. q[g[i]].offset + q[g[i]].len <= q[g[j]].offset
      BY <3>1 DEF Kept, Ordered
    <3>3. QED
      BY <1>4, <3>2
  <2>3. QED
    BY <2>1, <2>2 DEF Ordered
<1>6. Waiting(r, new)
  <2>1. SUFFICES ASSUME NEW i \in DOMAIN r, r[i].complete = 0 PROVE \E t \in new : t.rr = r[i].offset
    BY DEF Waiting
  <2>2. g[i] # k /\ g[i] \in DOMAIN q /\ r[i] = q[g[i]]
    BY <1>4, <2>1
  <2>3. PICK t \in tab : t.rr = q[g[i]].offset
    BY <2>1, <2>2 DEF Kept, Waiting
  <2>4. t # tt
    <3>1. q[g[i]].offset # q[k].offset
      BY <2>2, OffsetsDiffer DEF Kept
    <3>2. QED
      BY <2>3, <3>1
  <2>5. QED
    BY <1>3, <2>2, <2>3, <2>4
<1>7. Answers(r, new, rest)
  <2>1. SUFFICES ASSUME NEW i \in DOMAIN rest
                 PROVE  /\ rest[i].status = "FAILURE" => client \in Failing
                        /\ \A t \in new, j \in DOMAIN r :
                             rest[i].id = t.id /\ r[j].offset = t.rr => AnswerOk(rest[i], r[j])
    BY DEF Answers
  <2>2. i + 1 \in DOMAIN reps /\ rest[i] = reps[i + 1]
    BY <1>2
  <2>3. rest[i].status = "FAILURE" => client \in Failing
    BY <2>2 DEF Kept, Answers
  <2>4. ASSUME NEW t \in new, NEW j \in DOMAIN r, rest[i].id = t.id, r[j].offset = t.rr
        PROVE  AnswerOk(rest[i], r[j])
    <3>1. AnswerOk(rest[i], q[g[j]])
      BY <1>3, <1>4, <2>2, <2>4 DEF Kept, Answers
    <3>2. r[j].offset = q[g[j]].offset /\ r[j].len = q[g[j]].len
      BY <1>4
    <3>3. QED
      BY <3>1, <3>2 DEF AnswerOk
  <2>5. QED
    BY <2>3, <2>4
<1>8. QED
  BY <1>1, <1>5, <1>6, <1>7 DEF Kept, new, rest
-----------------------------------------------------------------------------
(* What xfer_download_gotpkt makes of a reply *)

Furthest(x, rep, k) == IF rep.len > 0 /\ x.furthestdata < x.queue[k].offset THEN x.queue[k].offset ELSE x.furthestdata
Filesize(x, rep, k) ==
  IF rep.len < x.queue[k].len /\ x.queue[k].offset + rep.len < x.filesize
  THEN x.queue[k].offset + rep.len ELSE x.filesize

IsGot(x, rep, k, y) ==
  /\ y \in XferRec /\ y.offset = x.offset /\ y.totalsize = x.totalsize
  /\ DOMAIN y.queue = DOMAIN x.queue /\ Len(y.queue) = Len(x.queue)
  /\ \A i \in DOMAIN x.queue : i # k => y.queue[i] = x.queue[i]
  /\ y.queue[k].offset = x.queue[k].offset /\ y.queue[k].len = x.queue[k].len
  /\ y.queue[k].complete # 0
  /\ rep.status = "FAILURE" => /\ y.queue[k].complete = -1 /\ y.eof = x.eof
                               /\ y.furthestdata = x.furthestdata /\ y.filesize = x.filesize
  /\ rep.status # "FAILURE" => /\ y.queue[k].complete = 1 /\ y.queue[k].retlen = rep.len
                               /\ y.eof = (x.eof \/ rep.status = "EOF")
                               /\ y.furthestdata = Furthest(x, rep, k) /\ y.filesize = Filesize(x, rep, k)
  /\ y.err = (x.err \/ GotError(x, rep))

LEMMA GotQueue ==
  ASSUME NEW q \in Seq(Req), NEW k \in DOMAIN q, NEW rr \in Req, NEW r, r = [q EXCEPT ![k] = rr]
  PROVE  /\ r \in Seq(Req) /\ DOMAIN r = DOMAIN q /\ Len(r) = Len(q)
         /\ \A i \in DOMAIN q : i # k => r[i] = q[i]
         /\ r[k] = rr
OBVIOUS

LEMMA GotIs ==
  ASSUME NEW x \in XferRec, NEW rep \in Reply, NEW k, k = IndexOf(x, Replied(rep)), k \in DOMAIN x.queue
  PROVE  IsGot(x, rep, k, DownloadGotpkt(x, rep))
<1> DEFINE y == DownloadGotpkt(x, rep)
<1> DEFINE q == x.queue
<1> DEFINE f == Furthest(x, rep, k)
<1> DEFINE s == Filesize(x, rep, k)
<1>1. /\ q \in Seq(Req) /\ q[k] \in Req /\ x.offset \in Nat /\ x.furthestdata \in Nat /\ x.filesize \in Nat
      /\ x.totalsize \in Int /\ x.eof \in BOOLEAN /\ x.err \in BOOLEAN
      /\ rep.len \in Nat /\ q[k].offset \in Nat /\ q[k].len \in Nat
  <2>1. q \in Seq(Req) /\ x.offset \in Nat /\ x.furthestdata \in Nat /\ x.filesize \in Nat
        /\ x.totalsize \in Int /\ x.eof \in BOOLEAN /\ x.err \in BOOLEAN
    BY DEF XferRec
  <2>2. q[k] \in Req
    BY <2>1, SeqDomain
  <2>3. rep.len \in Nat /\ q[k].offset \in Nat /\ q[k].len \in Nat
    BY <2>2 DEF Req, Reply
  <2>4. QED
    BY <2>1, <2>2, <2>3
<1>2. f \in Nat /\ s \in Nat
  BY <1>1 DEF Furthest, Filesize
<1>3. (IF rep.len > 0 THEN Max({x.furthestdata, q[k].offset}) ELSE x.furthestdata) = f
  <2> DEFINE a == x.furthestdata
  <2> DEFINE c == q[k].offset
  <2>1. a \in Int /\ c \in Int
    BY <1>1
  <2> HIDE DEF a, c
  <2>2. Max({a, c}) = IF a >= c THEN a ELSE c
    BY <2>1, MaxOf
  <2>3. QED
    BY <1>1, <2>2 DEF Furthest, a, c
<1>4. (IF rep.len < q[k].len THEN Min({x.filesize, q[k].offset + rep.len}) ELSE x.filesize) = s
  <2> DEFINE c == q[k].offset + rep.len
  <2>1. c \in Int /\ x.filesize \in Int
    BY <1>1
  <2> HIDE DEF c
  <2>2. Min({x.filesize, c}) = IF x.filesize <= c THEN x.filesize ELSE c
    BY <2>1, MinOf
  <2>3. QED
    BY <1>1, <2>2 DEF Filesize, c
<1> DEFINE rf == [q[k] EXCEPT !.complete = -1]
<1> DEFINE rd == [q[k] EXCEPT !.complete = 1, !.retlen = rep.len]
<1> DEFINE qf == [q EXCEPT ![k] = rf]
<1> DEFINE qd == [q EXCEPT ![k] = rd]
<1>5. /\ rf \in Req /\ rf.offset = q[k].offset /\ rf.len = q[k].len /\ rf.complete = -1
      /\ rd \in Req /\ rd.offset = q[k].offset /\ rd.len = q[k].len /\ rd.complete = 1 /\ rd.retlen = rep.len
  <2> DEFINE c == q[k]
  <2> DEFINE l == rep.len
  <2>1. c \in Req /\ l \in Nat
    BY <1>1
  <2>2. ASSUME NEW d \in Req, NEW m \in Nat
        PROVE  /\ [d EXCEPT !.complete = -1] \in Req /\ [d EXCEPT !.complete = -1].offset = d.offset
               /\ [d EXCEPT !.complete = -1].len = d.len /\ [d EXCEPT !.complete = -1].complete = -1
               /\ [d EXCEPT !.complete = 1, !.retlen = m] \in Req
               /\ [d EXCEPT !.complete = 1, !.retlen = m].offset = d.offset
               /\ [d EXCEPT !.complete = 1, !.retlen = m].len = d.len
               /\ [d EXCEPT !.complete = 1, !.retlen = m].complete = 1
               /\ [d EXCEPT !.complete = 1, !.retlen = m].retlen = m
    <3>1. d = [offset |-> d.offset, len |-> d.len, retlen |-> d.retlen, complete |-> d.complete]
          /\ d.offset \in Nat /\ d.len \in Nat /\ d.retlen \in Nat
      BY DEF Req
    <3> DEFINE u == [d EXCEPT !.complete = -1]
    <3> DEFINE v == [d EXCEPT !.complete = 1, !.retlen = m]
    <3>2. u = [offset |-> d.offset, len |-> d.len, retlen |-> d.retlen, complete |-> -1]
      BY <3>1
    <3>3. v \in Req /\ v.offset = d.offset /\ v.len = d.len /\ v.complete = 1 /\ v.retlen = m
      <4> DEFINE w == [d EXCEPT !.retlen = m]
      <4>1. w \in Req /\ w.offset = d.offset /\ w.len = d.len /\ w.retlen = m
        BY DEF Req
      <4>2. v = [w EXCEPT !.complete = 1]
        BY DEF Req
      <4> HIDE DEF v, w
      <4>3. v \in Req /\ v.offset = w.offset /\ v.len = w.len /\ v.complete = 1 /\ v.retlen = w.retlen
        BY <4>1, <4>2 DEF Req
      <4>4. QED
        BY <4>1, <4>3
    <3> HIDE DEF u, v
    <3>4. -1 \in -1..1 /\ 1 \in -1..1
      OBVIOUS
    <3>5. u \in Req /\ u.offset = d.offset /\ u.len = d.len /\ u.complete = -1
      BY <3>1, <3>2, <3>4 DEF Req
    <3>7. QED
      BY <3>3, <3>5, Zenon DEF u, v
  <2> HIDE DEF c, l
  <2>3. /\ [c EXCEPT !.complete = -1] \in Req /\ [c EXCEPT !.complete = -1].offset = c.offset
        /\ [c EXCEPT !.complete = -1].len = c.len /\ [c EXCEPT !.complete = -1].complete = -1
        /\ [c EXCEPT !.complete = 1, !.retlen = l] \in Req
        /\ [c EXCEPT !.complete = 1, !.retlen = l].offset = c.offset
        /\ [c EXCEPT !.complete = 1, !.retlen = l].len = c.len
        /\ [c EXCEPT !.complete = 1, !.retlen = l].complete = 1
        /\ [c EXCEPT !.complete = 1, !.retlen = l].retlen = l
    BY <2>1, <2>2
  <2>4. QED
    BY <2>3, Zenon DEF c, l
<1>6. ASSUME rep.status = "FAILURE" PROVE y = [x EXCEPT !.queue = qf, !.err = TRUE]
  BY <1>6, Zenon DEF DownloadGotpkt
<1>7. ASSUME rep.status # "FAILURE"
      PROVE  y = [x EXCEPT !.queue = qd, !.eof = x.eof \/ rep.status = "EOF",
                           !.furthestdata = f, !.filesize = s, !.err = x.err \/ f > s]
  <2> DEFINE f1 == IF rep.len > 0 THEN Max({x.furthestdata, q[k].offset}) ELSE x.furthestdata
  <2> DEFINE s1 == IF rep.len < q[k].len THEN Min({x.filesize, q[k].offset + rep.len}) ELSE x.filesize
  <2>1. y = [x EXCEPT !.queue = qd, !.eof = x.eof \/ rep.status = "EOF",
                      !.furthestdata = f1, !.filesize = s1, !.err = x.err \/ f1 > s1]
    BY <1>7, Zenon DEF DownloadGotpkt
  <2>2. f1 = f /\ s1 = s
    BY <1>3, <1>4
  <2> HIDE DEF f, s, f1, s1, y, qd
  <2>3. QED
    BY <2>1, <2>2, Zenon
<1> HIDE DEF y, rf, rd, f, s
<1>8. /\ qf \in Seq(Req) /\ DOMAIN qf = DOMAIN q /\ Len(qf) = Len(q)
      /\ \A i \in DOMAIN q : i # k => qf[i] = q[i]
      /\ qf[k] = rf
  BY <1>1, <1>5, GotQueue
<1>9. /\ qd \in Seq(Req) /\ DOMAIN qd = DOMAIN q /\ Len(qd) = Len(q)
      /\ \A i \in DOMAIN q : i # k => qd[i] = q[i]
      /\ qd[k] = rd
  BY <1>1, <1>5, GotQueue
<1> HIDE DEF qf, qd
<1>10. CASE rep.status = "FAILURE"
  <2>1. /\ y \in XferRec /\ y.offset = x.offset /\ y.totalsize = x.totalsize /\ y.queue = qf /\ y.err = TRUE
        /\ y.eof = x.eof /\ y.furthestdata = x.furthestdata /\ y.filesize = x.filesize
    BY <1>1, <1>6, <1>8, <1>10 DEF XferRec
  <2>2. y.err = (x.err \/ GotError(x, rep))
    BY <1>10, <2>1 DEF GotError
  <2> HIDE DEF q
  <2>3. QED
    BY <1>5, <1>8, <1>10, <2>1, <2>2 DEF IsGot, q, y
<1>11. CASE rep.status # "FAILURE"
  <2>1. (x.err \/ f > s) \in BOOLEAN /\ (x.eof \/ rep.status = "EOF") \in BOOLEAN
    OBVIOUS
  <2>2. /\ y \in XferRec /\ y.offset = x.offset /\ y.totalsize = x.totalsize /\ y.queue = qd
        /\ y.err = (x.err \/ f > s)
        /\ y.eof = (x.eof \/ rep.status = "EOF") /\ y.furthestdata = f /\ y.filesize = s
    BY <1>1, <1>2, <1>7, <1>9, <1>11, <2>1 DEF XferRec
  <2>3. y.err = (x.err \/ GotError(x, rep))
    BY <1>11, <2>2 DEF GotError, y
  <2>4. QED
    BY <1>5, <1>9, <1>11, <2>2, <2>3 DEF IsGot, q, y, f, s
<1>12. QED
  BY <1>10, <1>11

\* What has been received of a download, when a reply has come.
LEMMA GotDownload ==
  ASSUME NEW x \in XferRec, NEW rep \in Reply, NEW k \in DOMAIN x.queue, NEW y, IsGot(x, rep, k, y),
         Block \in Nat \ {0}, size \in Nat, statsize \in Nat, ~Uploading, AnswerOk(rep, x.queue[k]),
         x.queue[k].complete = 0, Blocks(x), Received(x.queue), x.furthestdata <= size, statsize <= x.filesize
  PROVE  /\ Blocks(y) /\ Received(y.queue)
         /\ y.furthestdata <= size /\ statsize <= y.filesize /\ y.filesize <= x.filesize
         /\ HeadAt(y) = HeadAt(x)
         /\ Told(x) /\ rep.status # "FAILURE" => Told(y)
         /\ \A d : EofSeen(x, d) => EofSeen(y, d)
<1> DEFINE q == x.queue
<1> DEFINE r == y.queue
<1>1. /\ q \in Seq(Req) /\ r \in Seq(Req) /\ DOMAIN r = DOMAIN q /\ Len(r) = Len(q)
      /\ x.furthestdata \in Nat /\ x.filesize \in Nat /\ y.furthestdata \in Nat /\ y.filesize \in Nat
      /\ y.offset = x.offset
  BY DEF IsGot, XferRec
<1>2. DOMAIN q = 1..Len(q) /\ Len(q) \in Nat /\ (q = <<>> <=> Len(q) = 0) /\ (r = <<>> <=> Len(r) = 0)
  BY <1>1, SeqDomain, Zenon
<1>3. \A i \in DOMAIN q : q[i] \in Req /\ r[i] \in Req /\ q[i].offset \in Nat /\ q[i].len = Block /\ q[i].retlen \in Nat
  <2>1. TAKE i \in DOMAIN q
  <2>2. q[i] \in Req /\ r[i] \in Req
    BY <1>1, SeqDomain, Zenon
  <2>3. QED
    BY <2>2 DEF Req, Blocks
<1>4. /\ \A i \in DOMAIN q : r[i].offset = q[i].offset /\ r[i].len = q[i].len /\ (i # k => r[i] = q[i])
      /\ r[k].complete # 0
      /\ rep.status = "FAILURE" => /\ r[k].complete = -1 /\ y.eof = x.eof
                                   /\ y.furthestdata = x.furthestdata /\ y.filesize = x.filesize
      /\ rep.status # "FAILURE" => /\ r[k].complete = 1 /\ r[k].retlen = rep.len
                                   /\ y.eof = (x.eof \/ rep.status = "EOF")
                                   /\ y.furthestdata = Furthest(x, rep, k) /\ y.filesize = Filesize(x, rep, k)
  BY DEF IsGot
<1> DEFINE o == q[k].offset
<1> DEFINE l == rep.len
<1>5. o \in Nat /\ l \in Nat /\ k \in DOMAIN q /\ q[k].len = Block /\ q[k].complete = 0
  BY <1>3 DEF Reply
<1>6. /\ rep.status # "FAILURE" => /\ l <= Block
                                   /\ l > 0 => o + l <= size
                                   /\ l < Block => statsize <= o + l
      /\ rep.status = "EOF" => l = 0
  BY <1>5 DEF AnswerOk
<1> DEFINE fd == x.furthestdata
<1> DEFINE gd == y.furthestdata
<1> DEFINE fs == x.filesize
<1> DEFINE gs == y.filesize
<1>7. /\ rep.status = "FAILURE" => gd = fd /\ gs = fs
      /\ rep.status # "FAILURE" => /\ gd = (IF l > 0 /\ fd < o THEN o ELSE fd)
                                   /\ gs = (IF l < Block /\ o + l < fs THEN o + l ELSE fs)
  BY <1>4, <1>5 DEF Furthest, Filesize
<1>8. fd \in Nat /\ fs \in Nat /\ fd <= size /\ statsize <= fs /\ gd \in Nat /\ gs \in Nat
  BY <1>1
<1>9. Blocks(y)
  <2>1. ASSUME NEW i \in DOMAIN r
        PROVE  r[i].len = Block /\ r[i].offset + Block = IF i = Len(r) THEN y.offset ELSE r[i + 1].offset
    <3>1. q[i].len = Block /\ q[i].offset + Block = IF i = Len(q) THEN x.offset ELSE q[i + 1].offset
      BY <1>1 DEF Blocks
    <3>2. i # Len(q) => i + 1 \in DOMAIN q
      BY <1>1, <1>2
    <3> HIDE DEF q, r
    <3>3. QED
      BY <1>1, <1>4, <3>1, <3>2
  <2>2. QED
    BY <2>1, Zenon DEF Blocks
<1>10. HeadAt(y) = HeadAt(x)
  <2>1. q # <<>> => 1 \in DOMAIN q
    BY <1>2
  <2>2. QED
    BY <1>1, <1>2, <1>4, <2>1 DEF HeadAt
<1> HIDE DEF q, r
<1>11. Received(r)
  <2>1. SUFFICES ASSUME NEW i \in DOMAIN r, r[i].complete = 1
                 PROVE  /\ r[i].retlen <= Block
                        /\ r[i].retlen > 0 => r[i].offset + r[i].retlen <= size
                        /\ r[i].retlen < Block => statsize <= r[i].offset + r[i].retlen
    BY DEF Received
  <2>2. CASE i # k
    BY <1>1, <1>4, <2>1, <2>2 DEF Received, q
  <2>3. CASE i = k
    <3>1. rep.status # "FAILURE" /\ r[i].retlen = l /\ r[i].offset = o
      BY <1>4, <1>5, <2>1, <2>3
    <3>2. QED
      BY <1>6, <3>1
  <2>4. QED
    BY <2>2, <2>3
<1>12. gd <= size /\ statsize <= gs /\ gs <= fs /\ fd <= gd
  <2> HIDE DEF o, l, fd, gd, fs, gs
  <2>1. CASE rep.status = "FAILURE"
    BY <1>7, <1>8, <2>1
  <2>2. CASE rep.status # "FAILURE"
    BY <1>5, <1>6, <1>7, <1>8, <2>2
  <2>3. QED
    BY <2>1, <2>2
<1>13. ASSUME Told(x), rep.status # "FAILURE" PROVE Told(y)
  <2>1. SUFFICES ASSUME NEW i \in DOMAIN r
                 PROVE  /\ r[i].complete >= 0
                        /\ r[i].complete = 1 /\ r[i].retlen > 0 => r[i].offset <= gd
                        /\ r[i].complete = 1 /\ r[i].retlen < Block => gs <= r[i].offset + r[i].retlen
    BY DEF Told, r
  <2>2. CASE i = k
    <3>1. r[i].complete = 1 /\ r[i].retlen = l /\ r[i].offset = o
      BY <1>4, <1>5, <1>13, <2>2
    <3> HIDE DEF o, l, fd, gd, fs, gs
    <3>2. (l > 0 => o <= gd) /\ (l < Block => gs <= o + l)
      BY <1>5, <1>7, <1>8, <1>13
    <3>3. QED
      BY <3>1, <3>2
  <2>3. CASE i # k
    <3>1. r[i] = q[i] /\ i \in DOMAIN q /\ q[i].offset \in Nat /\ q[i].retlen \in Nat
      BY <1>1, <1>3, <1>4, <2>3
    <3>2. /\ q[i].complete >= 0
          /\ q[i].complete = 1 /\ q[i].retlen > 0 => q[i].offset <= fd
          /\ q[i].complete = 1 /\ q[i].retlen < Block => fs <= q[i].offset + q[i].retlen
      BY <1>13, <3>1 DEF Told, q
    <3> HIDE DEF o, l, fd, gd, fs, gs
    <3>3. QED
      BY <1>8, <1>12, <3>1, <3>2
  <2>4. QED
    BY <2>2, <2>3
<1>14. ASSUME NEW d, EofSeen(x, d) PROVE EofSeen(y, d)
  <2>1. SUFFICES ASSUME y.eof
                 PROVE  statsize <= d.len \/ \E i \in DOMAIN r : r[i].complete = 1 /\ r[i].retlen < Block
    BY DEF EofSeen, r
  <2>2. CASE x.eof
    <3>1. statsize <= d.len \/ \E i \in DOMAIN q : q[i].complete = 1 /\ q[i].retlen < Block
      BY <1>14, <2>2 DEF EofSeen, q
    <3>2. ASSUME NEW i \in DOMAIN q, q[i].complete = 1, q[i].retlen < Block
          PROVE  \E j \in DOMAIN r : r[j].complete = 1 /\ r[j].retlen < Block
      <4>1. i # k
        BY <1>5, <3>2
      <4>2. QED
        BY <1>1, <1>4, <3>2, <4>1
    <3>3. QED
      BY <3>1, <3>2
  <2>3. CASE ~x.eof
    <3>1. rep.status = "EOF"
      BY <1>4, <2>1, <2>3
    <3>2. r[k].complete = 1 /\ r[k].retlen = 0
      BY <1>4, <1>6, <3>1
    <3>3. QED
      BY <1>1, <1>5, <3>2
  <2>4. QED
    BY <2>2, <2>3
<1>15. QED
  BY <1>9, <1>10, <1>11, <1>12, <1>13, <1>14 DEF r
-----------------------------------------------------------------------------
(* xfer_download_data *)

Upto(q, n) == n \in 0..Len(q) /\ \A j \in 1..n : q[j].complete # 0

LEMMA CompletedUpto ==
  ASSUME NEW q \in Seq(Req)
  PROVE  Upto(q, Max({0} \cup Completed(q)))
<1> DEFINE T == {0} \cup Completed(q)
<1>1. DOMAIN q = 1..Len(q) /\ Len(q) \in Nat
  BY SeqDomain, Zenon
<1>2. \A n \in T : n \in 0..Len(q) /\ \A j \in 1..n : q[j].complete # 0
  BY <1>1 DEF Completed
<1>3. Max(T) \in T
  <2>1. T \subseteq 0..Len(q) /\ T # {}
    BY <1>2
  <2> HIDE DEF T
  <2>2. QED
    BY <1>1, <2>1, MaxUpTo
<1> HIDE DEF T
<1>4. Upto(q, Max(T))
  BY <1>2, <1>3 DEF Upto
<1>5. QED
  BY <1>4 DEF T

\* One call takes off what fails and one block.
LEMMA FirstDataUpto ==
  ASSUME NEW q \in Seq(Req), NEW n, n = Max({0} \cup FirstData(q))
  PROVE  /\ Upto(q, n)
         /\ \A j \in 1..(n - 1) : q[j].complete < 0
         /\ 1 \in DOMAIN q /\ q[1].complete # 0 => n # 0
<1> DEFINE T == {0} \cup FirstData(q)
<1>1. DOMAIN q = 1..Len(q) /\ Len(q) \in Nat
  BY SeqDomain, Zenon
<1>2. \A m \in T : m \in 0..Len(q) /\ (\A j \in 1..m : q[j].complete # 0) /\ (\A j \in 1..(m - 1) : q[j].complete < 0)
  BY <1>1 DEF Completed, FirstData
<1>3. Max(T) \in T /\ \A m \in T : Max(T) >= m
  <2>1. T \subseteq 0..Len(q) /\ T # {}
    BY <1>2
  <2> HIDE DEF T
  <2>2. QED
    BY <1>1, <2>1, MaxUpTo
<1>4. 1 \in DOMAIN q /\ q[1].complete # 0 => 1 \in T
  BY DEF FirstData, Completed
<1>5. n = Max(T)
  OBVIOUS
<1> HIDE DEF T
<1>6. Upto(q, n) /\ \A j \in 1..(n - 1) : q[j].complete < 0
  BY <1>2, <1>3, <1>5 DEF Upto
<1>7. 1 \in DOMAIN q /\ q[1].complete # 0 => n # 0
  BY <1>3, <1>4, <1>5
<1>8. QED
  BY <1>6, <1>7

\* z is x without the first n requests, and with some err.
IsShort(x, n, z) ==
  /\ z \in XferRec /\ z.offset = x.offset /\ z.eof = x.eof
  /\ z.furthestdata = x.furthestdata /\ z.filesize = x.filesize
  /\ Len(z.queue) = Len(x.queue) - n
  /\ \A i \in DOMAIN z.queue : i + n \in DOMAIN x.queue /\ z.queue[i] = x.queue[i + n]

LEMMA SubSeqAt ==
  ASSUME NEW q \in Seq(Req), NEW n \in 0..Len(q)
  PROVE  /\ SubSeq(q, n + 1, Len(q)) \in Seq(Req) /\ Len(SubSeq(q, n + 1, Len(q))) = Len(q) - n
         /\ \A i \in DOMAIN SubSeq(q, n + 1, Len(q)) :
              i + n \in DOMAIN q /\ SubSeq(q, n + 1, Len(q))[i] = q[i + n]
OBVIOUS

LEMMA DequeueIs ==
  ASSUME NEW x \in XferRec, NEW n, n \in 0..Len(x.queue), Block \in Nat
  PROVE  IsShort(x, n, Dequeue(x, n)) /\ Dequeue(x, n).err = x.err
<1> DEFINE z == Dequeue(x, n)
<1> DEFINE q == SubSeq(x.queue, n + 1, Len(x.queue))
<1> DEFINE m == x.totalsize - n * Block
<1>1. x.queue \in Seq(Req) /\ x.totalsize \in Int
  BY DEF XferRec
<1>2. /\ q \in Seq(Req) /\ Len(q) = Len(x.queue) - n
      /\ \A i \in DOMAIN q : i + n \in DOMAIN x.queue /\ q[i] = x.queue[i + n]
  BY <1>1, SubSeqAt
<1>3. m \in Int
  <2>1. n \in Nat
    BY <1>1
  <2>2. n * Block \in Nat
    BY <2>1, Mult
  <2>3. QED
    BY <1>1, <2>2
<1>4. z = [x EXCEPT !.queue = q, !.totalsize = m]
  BY Zenon DEF Dequeue
<1> HIDE DEF z, q, m
<1>5. /\ z \in XferRec /\ z.offset = x.offset /\ z.eof = x.eof /\ z.err = x.err
      /\ z.furthestdata = x.furthestdata /\ z.filesize = x.filesize /\ z.queue = q
  BY <1>2, <1>3, <1>4 DEF XferRec
<1>6. QED
  BY <1>2, <1>5 DEF IsShort, z

LEMMA ErrIs ==
  ASSUME NEW x, NEW n, NEW y, IsShort(x, n, y), NEW e \in BOOLEAN
  PROVE  IsShort(x, n, [y EXCEPT !.err = e]) /\ [y EXCEPT !.err = e].err = e
<1> DEFINE z == [y EXCEPT !.err = e]
<1>1. y \in XferRec
  BY DEF IsShort
<1>2. /\ z \in XferRec /\ z.offset = y.offset /\ z.eof = y.eof /\ z.err = e
      /\ z.furthestdata = y.furthestdata /\ z.filesize = y.filesize /\ z.queue = y.queue
  BY <1>1 DEF XferRec
<1> HIDE DEF z
<1>3. IsShort(x, n, z)
  BY <1>2 DEF IsShort
<1>4. QED
  BY <1>2, <1>3 DEF z

LEMMA ShortTaken ==
  ASSUME NEW x \in XferRec, NEW rep, NEW k \in DOMAIN x.queue, NEW y, IsGot(x, rep, k, y),
         NEW n, Upto(y.queue, n), NEW z, IsShort(y, n, z)
  PROVE  \E g : TakenUp(x.queue, k, z.queue, g)
<1> DEFINE q == x.queue
<1> DEFINE p == y.queue
<1> DEFINE r == z.queue
<1>1. /\ q \in Seq(Req) /\ r \in Seq(Req) /\ p \in Seq(Req)
      /\ DOMAIN p = DOMAIN q /\ Len(p) = Len(q) /\ Len(r) = Len(p) - n
  BY DEF IsGot, IsShort, XferRec
<1>2. DOMAIN p = 1..Len(p) /\ DOMAIN r = 1..Len(r) /\ Len(p) \in Nat /\ Len(r) \in Nat
  BY <1>1, SeqDomain, Zenon
<1>3. n \in 0..Len(p) /\ \A j \in 1..n : p[j].complete # 0
  BY DEF Upto
<1>4. \A i \in DOMAIN r : i + n \in DOMAIN q /\ r[i] = p[i + n]
  BY <1>1 DEF IsShort
<1>5. /\ \A i \in DOMAIN q : p[i].offset = q[i].offset /\ p[i].len = q[i].len /\ (i # k => p[i] = q[i])
      /\ p[k].complete # 0
  BY DEF IsGot
<1> HIDE DEF q, p, r
<1> DEFINE g == [i \in DOMAIN r |-> i + n]
<1>6. g \in [DOMAIN r -> DOMAIN q]
  BY <1>4
<1>7. \A i \in DOMAIN r : g[i] = i + n
  OBVIOUS
<1> HIDE DEF g
<1>8. \A i, j \in DOMAIN r : i < j => g[i] < g[j]
  BY <1>2, <1>3, <1>7
<1>9. \A i \in DOMAIN r : /\ r[i].offset = q[g[i]].offset /\ r[i].len = q[g[i]].len
                          /\ IF g[i] = k THEN r[i].complete # 0 ELSE r[i] = q[g[i]]
  <2>1. TAKE i \in DOMAIN r
  <2>2. g[i] \in DOMAIN q /\ r[i] = p[g[i]]
    BY <1>4, <1>7
  <2>3. QED
    BY <1>5, <2>2
<1>10. ASSUME NEW j \in DOMAIN q, q[j].complete = 0, j # k PROVE \E i \in DOMAIN r : g[i] = j
  <2>1. p[j].complete = 0
    BY <1>5, <1>10
  <2>2. j \in 1..Len(p) /\ j \notin 1..n
    BY <1>1, <1>2, <1>3, <2>1
  <2>3. j - n \in 1..Len(r) /\ (j - n) + n = j
    BY <1>1, <1>2, <1>3, <2>2
  <2>4. j - n \in DOMAIN r /\ g[j - n] = j
    BY <1>2, <1>7, <2>3
  <2>5. QED
    BY <2>4
<1>11. TakenUp(q, k, r, g)
  BY <1>1, <1>6, <1>8, <1>9, <1>10 DEF TakenUp
<1>12. QED
  BY <1>11 DEF q, r

AfterAt(x, n) == IF n = Len(x.queue) THEN x.offset ELSE x.queue[n + 1].offset

LEMMA ShortDownload ==
  ASSUME NEW x \in XferRec, NEW n, n \in 0..Len(x.queue), NEW z, IsShort(x, n, z), Block \in Nat
  PROVE  /\ Blocks(x) => Blocks(z)
         /\ Received(x.queue) => Received(z.queue)
         /\ Told(x) => Told(z)
         /\ HeadAt(z) = AfterAt(x, n)
<1> DEFINE q == x.queue
<1> DEFINE r == z.queue
<1>1. q \in Seq(Req) /\ r \in Seq(Req) /\ Len(r) = Len(q) - n
  BY DEF IsShort, XferRec
<1>2. /\ DOMAIN q = 1..Len(q) /\ DOMAIN r = 1..Len(r) /\ Len(q) \in Nat /\ Len(r) \in Nat
      /\ (r = <<>> <=> Len(r) = 0)
  BY <1>1, SeqDomain, Zenon
<1>3. n \in Nat /\ n <= Len(q)
  BY <1>2
<1>4. /\ \A i \in DOMAIN r : i + n \in DOMAIN q /\ r[i] = q[i + n]
      /\ z.offset = x.offset /\ z.furthestdata = x.furthestdata /\ z.filesize = x.filesize
  BY DEF IsShort
<1> HIDE DEF q, r
<1>5. ASSUME Blocks(x) PROVE Blocks(z)
  <2>1. ASSUME NEW i \in DOMAIN r
        PROVE  r[i].len = Block /\ r[i].offset + Block = IF i = Len(r) THEN z.offset ELSE r[i + 1].offset
    <3>1. i + n \in DOMAIN q /\ r[i] = q[i + n]
      BY <1>4
    <3>2. q[i + n].len = Block /\ q[i + n].offset + Block = IF i + n = Len(q) THEN x.offset ELSE q[i + n + 1].offset
      BY <1>5, <3>1 DEF Blocks, q
    <3>3. i = Len(r) <=> i + n = Len(q)
      BY <1>1, <1>2, <1>3
    <3>4. i # Len(r) => i + 1 \in DOMAIN r /\ i + 1 + n = i + n + 1
      BY <1>2, <1>3
    <3>5. i # Len(r) => r[i + 1] = q[i + n + 1]
      BY <1>4, <3>4
    <3>6. QED
      BY <1>4, <3>1, <3>2, <3>3, <3>5
  <2>2. QED
    BY <2>1, Zenon DEF Blocks, r
<1>6. Received(q) => Received(r)
  BY <1>4 DEF Received
<1>7. ASSUME Told(x) PROVE Told(z)
  <2>1. \A k \in DOMAIN q :
          /\ q[k].complete >= 0
          /\ q[k].complete = 1 /\ q[k].retlen > 0 => q[k].offset <= x.furthestdata
          /\ q[k].complete = 1 /\ q[k].retlen < Block => x.filesize <= q[k].offset + q[k].retlen
    BY <1>7, Zenon DEF Told, q
  <2>2. \A k \in DOMAIN r :
          /\ r[k].complete >= 0
          /\ r[k].complete = 1 /\ r[k].retlen > 0 => r[k].offset <= z.furthestdata
          /\ r[k].complete = 1 /\ r[k].retlen < Block => z.filesize <= r[k].offset + r[k].retlen
    BY <1>4, <2>1, Zenon
  <2>3. QED
    BY <2>2, Zenon DEF Told, r
<1>8. HeadAt(z) = AfterAt(x, n)
  <2>1. r = <<>> <=> n = Len(q)
    BY <1>1, <1>2, <1>3
  <2>2. ASSUME r # <<>> PROVE r[1] = q[n + 1]
    <3>1. 1 \in DOMAIN r /\ 1 + n = n + 1
      BY <1>2, <1>3, <2>2
    <3>2. QED
      BY <1>4, <3>1
  <2>3. QED
    BY <1>4, <2>1, <2>2 DEF HeadAt, AfterAt, q, r
<1>9. QED
  BY <1>5, <1>6, <1>7, <1>8 DEF q, r
-----------------------------------------------------------------------------
(* The copy *)

LEMMA AppendOneIs ==
  ASSUME NEW d \in File, NEW rr \in Req
  PROVE  /\ AppendOne(d, rr) \in File /\ AppendOne(d, rr).stored = d.stored
         /\ rr.complete < 0 => AppendOne(d, rr) = d
         /\ rr.complete >= 0 => /\ AppendOne(d, rr).len = d.len + rr.retlen
                                /\ AppendOne(d, rr).inorder = (d.inorder /\ (rr.retlen > 0 => rr.offset = d.len))
         /\ d.len <= AppendOne(d, rr).len
<1>1. d.len \in Nat /\ rr.retlen \in Nat /\ rr.complete \in Int /\ d.inorder \in BOOLEAN
  BY DEF File, Req
<1>2. CASE rr.complete < 0
  BY <1>1, <1>2 DEF AppendOne
<1>3. CASE rr.complete >= 0
  <2> DEFINE l == d.len + rr.retlen
  <2> DEFINE b == d.inorder /\ (rr.retlen > 0 => rr.offset = d.len)
  <2> DEFINE e == AppendOne(d, rr)
  <2>1. l \in Nat /\ b \in BOOLEAN /\ d.len <= l /\ ~(rr.complete < 0)
    BY <1>1, <1>3
  <2>2. e = [d EXCEPT !.len = l, !.inorder = b]
    BY <2>1 DEF AppendOne
  <2> HIDE DEF l, b, e
  <2>3. e \in File /\ e.stored = d.stored /\ e.len = l /\ e.inorder = b
    BY <2>1, <2>2 DEF File
  <2>4. QED
    BY <2>1, <2>3 DEF l, b, e
<1>4. QED
  BY <1>1, <1>2, <1>3

\* The facts of the first m elements.
Copied(d, q, m) ==
  LET e == Appended(d, q, m)
  IN  /\ e \in File /\ e.stored = d.stored /\ d.len <= e.len
      /\ (d.inorder => d.len <= size) => (e.inorder => e.len <= size)

LEMMA AppendedCopies ==
  ASSUME NEW d \in File, NEW q \in Seq(Req), NEW n, Upto(q, n), Received(q), Block \in Nat, size \in Nat
  PROVE  Copied(d, q, n)
<1>1. DOMAIN q = 1..Len(q) /\ Len(q) \in Nat
  BY SeqDomain, Zenon
<1>2. n \in Nat /\ n <= Len(q) /\ \A j \in 1..n : q[j].complete # 0
  BY <1>1 DEF Upto
<1> DEFINE T == {m \in Nat : m <= n /\ ~Copied(d, q, m)}
<1>3. SUFFICES ASSUME T # {} PROVE FALSE
  BY <1>2
<1>4. PICK m \in T : \A j \in T : m <= j
  <2>1. T \subseteq Nat
    OBVIOUS
  <2> HIDE DEF T
  <2>2. QED
    BY <1>3, <2>1, Least
<1>5. m \in Nat /\ m <= n /\ ~Copied(d, q, m)
  BY <1>4
<1>6. m # 0
  <2>1. Appended(d, q, 0) = d
    BY AppendedStep
  <2>2. d.len \in Nat
    BY DEF File
  <2>3. Copied(d, q, 0)
    BY <2>1, <2>2 DEF Copied
  <2>4. QED
    BY <1>5, <2>3
<1>7. m - 1 \in Nat /\ m - 1 \notin T /\ m - 1 <= n /\ m - 1 + 1 = m /\ m \in DOMAIN q /\ m \in 1..n
  BY <1>1, <1>2, <1>4, <1>5, <1>6
<1>8. Copied(d, q, m - 1)
  BY <1>7
<1> DEFINE e == Appended(d, q, m - 1)
<1> DEFINE f == Appended(d, q, m)
<1>9. f = AppendOne(e, q[m])
  <2>1. Appended(d, q, m - 1 + 1) = AppendOne(Appended(d, q, m - 1), q[m - 1 + 1])
    BY <1>7, AppendedStep
  <2>2. QED
    BY <1>7, <2>1
<1>10. /\ e \in File /\ e.stored = d.stored /\ d.len <= e.len
       /\ (d.inorder => d.len <= size) => (e.inorder => e.len <= size)
  BY <1>8 DEF Copied
<1> HIDE DEF e, f, T
<1>11. q[m] \in Req
  BY <1>7, SeqDomain
<1>12. /\ f \in File /\ f.stored = e.stored
       /\ q[m].complete < 0 => f = e
       /\ q[m].complete >= 0 => /\ f.len = e.len + q[m].retlen
                                /\ f.inorder = (e.inorder /\ (q[m].retlen > 0 => q[m].offset = e.len))
       /\ e.len <= f.len
  BY <1>9, <1>10, <1>11, AppendOneIs
<1>13. d.len \in Nat /\ e.len \in Nat /\ f.len \in Nat
  BY <1>10, <1>12 DEF File
<1>14. d.len <= f.len
  BY <1>10, <1>12, <1>13
<1>15. ASSUME e.inorder => e.len <= size, f.inorder PROVE f.len <= size
  <2>1. CASE q[m].complete < 0
    BY <1>12, <1>15, <2>1
  <2>2. CASE q[m].complete >= 0
    <3>1. q[m].complete = 1
      <4>1. q[m].complete \in -1..1 /\ q[m].complete # 0
        BY <1>2, <1>7, <1>11 DEF Req
      <4>2. QED
        BY <2>2, <4>1
    <3>2. q[m].retlen > 0 => q[m].offset + q[m].retlen <= size
      BY <1>7, <3>1 DEF Received
    <3>3. f.len = e.len + q[m].retlen /\ e.inorder /\ (q[m].retlen > 0 => q[m].offset = e.len)
      BY <1>12, <1>15, <2>2
    <3>4. q[m].retlen \in Nat /\ q[m].offset \in Nat
      BY <1>11 DEF Req
    <3>5. e.len <= size
      BY <1>15, <3>3
    <3> DEFINE a == q[m].retlen
    <3> DEFINE b == q[m].offset
    <3> DEFINE u == e.len
    <3> DEFINE v == f.len
    <3>6. a \in Nat /\ b \in Nat /\ u \in Nat /\ v = u + a /\ (a > 0 => b = u) /\ (a > 0 => b + a <= size) /\ u <= size
      BY <1>13, <3>2, <3>3, <3>4, <3>5
    <3> HIDE DEF a, b, u, v
    <3>7. v <= size
      BY <3>6
    <3>8. QED
      BY <3>7 DEF v
  <2>3. q[m].complete \in Int
    BY <1>11 DEF Req
  <2>4. QED
    BY <2>1, <2>2, <2>3
<1>16. Copied(d, q, m)
  BY <1>10, <1>12, <1>14, <1>15, Zenon DEF Copied, f
<1>17. QED
  BY <1>5, <1>16

\* As long as there is no error, the copy stays at the place of the next request, or at the
\* end of the file.
PlacedAfter(d, x, m) ==
  LET e == Appended(d, x.queue, m)
  IN  /\ e.inorder /\ Placed(e, AfterAt(x, m), x.filesize)
      /\ \A k \in 1..m : x.queue[k].retlen < Block => statsize <= e.len

\* One more request, in numbers: u is where the copy ends, o and l the request's place and
\* what it brought, f and s the sizes that are known.
LEMMA PlacedNumbers ==
  ASSUME NEW u \in Nat, NEW o \in Nat, NEW l \in Nat, NEW f \in Nat, NEW s \in Nat,
         Block \in Nat, statsize \in Nat, f <= s, l <= Block,
         l > 0 => o <= f, l < Block => s <= o + l, l < Block => statsize <= o + l,
         u = o \/ (u < o /\ statsize <= u /\ s <= u)
  PROVE  /\ l > 0 => o = u
         /\ u + l = o + Block \/ (u + l < o + Block /\ statsize <= u + l /\ s <= u + l)
         /\ l < Block => statsize <= u + l
OBVIOUS

LEMMA AppendedPlaced ==
  ASSUME NEW d \in File, NEW x \in XferRec, NEW n, Upto(x.queue, n), Received(x.queue), Blocks(x), Told(x),
         Block \in Nat \ {0}, size \in Nat, statsize \in Nat, x.furthestdata <= x.filesize,
         Placed(d, HeadAt(x), x.filesize), d.inorder
  PROVE  PlacedAfter(d, x, n)
<1> DEFINE q == x.queue
<1>0. q \in Seq(Req)
  BY DEF XferRec
<1>1. DOMAIN q = 1..Len(q) /\ Len(q) \in Nat /\ (q = <<>> <=> Len(q) = 0)
  BY <1>0, SeqDomain, Zenon
<1>2. n \in Nat /\ n <= Len(q) /\ \A j \in 1..n : q[j].complete # 0
  BY <1>1 DEF Upto
<1> DEFINE T == {m \in Nat : m <= n /\ ~PlacedAfter(d, x, m)}
<1>3. SUFFICES ASSUME T # {} PROVE FALSE
  BY <1>2
<1>4. PICK m \in T : \A j \in T : m <= j
  <2>1. T \subseteq Nat
    OBVIOUS
  <2> HIDE DEF T
  <2>2. QED
    BY <1>3, <2>1, Least
<1>5. m \in Nat /\ m <= n /\ ~PlacedAfter(d, x, m)
  BY <1>4
<1>6. m # 0
  <2>1. Appended(d, q, 0) = d
    BY AppendedStep
  <2>2. HeadAt(x) = AfterAt(x, 0)
    BY <1>1 DEF HeadAt, AfterAt
  <2>3. PlacedAfter(d, x, 0)
    BY <2>1, <2>2 DEF PlacedAfter
  <2>4. QED
    BY <1>5, <2>3
<1>7. m - 1 \in Nat /\ m - 1 \notin T /\ m - 1 <= n /\ m - 1 + 1 = m /\ m \in DOMAIN q /\ m \in 1..n /\ m - 1 # Len(q)
  BY <1>1, <1>2, <1>4, <1>5, <1>6
<1>8. PlacedAfter(d, x, m - 1)
  BY <1>7
<1> DEFINE e == Appended(d, q, m - 1)
<1> DEFINE f == Appended(d, q, m)
<1>9. f = AppendOne(e, q[m])
  <2>1. Appended(d, q, m - 1 + 1) = AppendOne(Appended(d, q, m - 1), q[m - 1 + 1])
    BY <1>7, AppendedStep
  <2>2. QED
    BY <1>7, <2>1
<1>10. /\ e.inorder /\ Placed(e, AfterAt(x, m - 1), x.filesize)
       /\ \A k \in 1..(m - 1) : q[k].retlen < Block => statsize <= e.len
  BY <1>8 DEF PlacedAfter
<1>11. AfterAt(x, m - 1) = q[m].offset
  BY <1>7 DEF AfterAt
<1>12. q[m].offset + Block = AfterAt(x, m) /\ q[m].len = Block
  BY <1>7 DEF Blocks, AfterAt
<1>13. e \in File
  <2>1. Upto(q, m - 1)
    BY <1>1, <1>2, <1>7 DEF Upto
  <2>2. Copied(d, q, m - 1)
    BY <1>0, <2>1, AppendedCopies
  <2>3. QED
    BY <2>2 DEF Copied
<1> HIDE DEF e, f, T
<1>14. q[m] \in Req
  BY <1>0, <1>7, SeqDomain
<1>15. /\ q[m].complete = 1
       /\ q[m].retlen > 0 => q[m].offset <= x.furthestdata
       /\ q[m].retlen < Block => x.filesize <= q[m].offset + q[m].retlen
       /\ q[m].retlen <= Block
       /\ q[m].retlen < Block => statsize <= q[m].offset + q[m].retlen
  <2>1. q[m].complete \in -1..1 /\ q[m].complete # 0 /\ q[m].complete >= 0
    BY <1>2, <1>7, <1>14 DEF Req, Told
  <2>2. q[m].complete = 1
    BY <2>1
  <2>3. QED
    BY <1>7, <2>2 DEF Told, Received
<1>16. /\ f.len = e.len + q[m].retlen
       /\ f.inorder = (e.inorder /\ (q[m].retlen > 0 => q[m].offset = e.len))
  BY <1>9, <1>13, <1>14, <1>15, AppendOneIs
<1> DEFINE u == e.len
<1> DEFINE o == q[m].offset
<1> DEFINE l == q[m].retlen
<1> DEFINE fd == x.furthestdata
<1> DEFINE fs == x.filesize
<1>17. u \in Nat /\ o \in Nat /\ l \in Nat /\ fd \in Nat /\ fs \in Nat
  BY <1>13, <1>14 DEF File, Req, XferRec
<1>18. /\ l > 0 => o = u
       /\ u + l = o + Block \/ (u + l < o + Block /\ statsize <= u + l /\ fs <= u + l)
       /\ l < Block => statsize <= u + l
  <2>1. /\ fd <= fs /\ l <= Block
        /\ l > 0 => o <= fd
        /\ l < Block => fs <= o + l
        /\ l < Block => statsize <= o + l
    BY <1>15
  <2>2. u = o \/ (u < o /\ statsize <= u /\ fs <= u)
    BY <1>10, <1>11 DEF Placed
  <2> HIDE DEF u, o, l, fd, fs
  <2>3. QED
    BY <1>17, <2>1, <2>2, PlacedNumbers
<1>19. f.inorder /\ Placed(f, AfterAt(x, m), x.filesize)
  BY <1>10, <1>12, <1>16, <1>18 DEF Placed
<1>20. ASSUME NEW k \in 1..m, q[k].retlen < Block PROVE statsize <= f.len
  <2>1. CASE k = m
    BY <1>16, <1>18, <1>20, <2>1
  <2>2. CASE k # m
    <3>1. k \in 1..(m - 1)
      BY <1>5, <2>2
    <3>2. statsize <= u /\ f.len = u + l
      BY <1>10, <1>16, <1>20, <3>1
    <3> HIDE DEF u, l
    <3>3. statsize <= u + l
      BY <1>17, <3>2
    <3>4. QED
      BY <3>2, <3>3
  <2>3. QED
    BY <2>1, <2>2
<1>21. PlacedAfter(d, x, m)
  BY <1>19, <1>20, Zenon DEF PlacedAfter, f, q
<1>22. QED
  BY <1>5, <1>21
-----------------------------------------------------------------------------
(* One turn of a download's loop *)

\* What xfer_download_queue, or its omission, keeps.
Onward(s, t, reps) ==
  /\ t \in State /\ IsFiniteSet(Ids(t.table))
  /\ Kept(t.x.queue, t.x.offset, t.table, t.asked, reps)
  /\ Blocks(t.x) /\ Received(t.x.queue)
  /\ t.x.furthestdata = s.x.furthestdata /\ t.x.filesize = s.x.filesize
  /\ t.x.eof = s.x.eof /\ t.x.err = s.x.err
  /\ NoneReceived(s.x.queue) => NoneReceived(t.x.queue)
  /\ InOrder(s.x.queue, s.table, s.asked, reps) => InOrder(t.x.queue, t.table, t.asked, reps)
  /\ \A d : InStep(s.x, d) => InStep(t.x, d)
  /\ XferDone(s.x) => t = s

LEMMA GoesOn ==
  ASSUME NEW s \in State, IsFiniteSet(Ids(s.table)), NEW reps \in Seq(Reply),
         Kept(s.x.queue, s.x.offset, s.table, s.asked, reps), Blocks(s.x), Received(s.x.queue),
         Block \in Nat \ {0}, MaxTotal \in Nat,
         NEW t, t = IF XferDone(s.x) THEN s ELSE DownloadQueue(s)
  PROVE  Onward(s, t, reps)
<1>1. CASE XferDone(s.x)
  <2>1. t = s
    BY <1>1
  <2>2. QED
    BY <2>1 DEF Onward
<1>2. CASE ~XferDone(s.x)
  <2>1. PICK n \in Nat : t = Queued(s, Block, n)
    BY <1>2, DownloadQueues
  <2>2. Block \in Nat /\ Block > 0
    OBVIOUS
  <2>3. Grown(s, t, Block, n)
    BY <2>1, <2>2, QueuedGrows
  <2>4. GrownSeqs(s, t, Block, n)
    BY <2>2, <2>3, GrownParts
  <2>5. /\ t.table \subseteq [id : Nat, rr : Nat] /\ IsFiniteSet(Ids(t.table)) /\ s.table \subseteq t.table
        /\ \A j \in 1..n : NewEntry(s, Block, j) \in t.table
    BY <2>2, <2>3, GrownTable
  <2>6. Kept(t.x.queue, t.x.offset, t.table, t.asked, reps)
    BY <2>2, <2>3, <2>4, GrownKept
  <2>7. Blocks(t.x)
    BY <2>2, <2>4, GrownBlocks
  <2>8. /\ Received(t.x.queue)
        /\ NoneReceived(s.x.queue) => NoneReceived(t.x.queue)
        /\ Told(s.x) => Told(t.x)
        /\ \A d : EofSeen(s.x, d) => EofSeen(t.x, d)
        /\ InOrder(s.x.queue, s.table, s.asked, reps) => InOrder(t.x.queue, t.table, t.asked, reps)
    BY <2>2, <2>4, <2>5, GrownDownload
  <2>9. HeadAt(t.x) = HeadAt(s.x)
    BY <2>2, <2>4, GrownHead
  <2>10. /\ t.x.furthestdata = s.x.furthestdata /\ t.x.filesize = s.x.filesize
         /\ t.x.eof = s.x.eof /\ t.x.err = s.x.err /\ t.x \in XferRec /\ t.asked \in Seq(Sent)
    BY <2>4 DEF GrownSeqs
  <2>11. t \in State
    <3>1. t = [x |-> t.x, table |-> t.table, asked |-> t.asked]
      BY <2>1, Zenon DEF Queued
    <3>2. QED
      BY <2>5, <2>10, <3>1 DEF State
  <2>12. \A d : InStep(s.x, d) => InStep(t.x, d)
    BY <2>8, <2>9, <2>10, Zenon DEF InStep
  <2>13. QED
    BY <1>2, <2>5, <2>6, <2>7, <2>8, <2>10, <2>11, <2>12, Zenon DEF Onward
<1>3. QED
  BY <1>1, <1>2

\* What holds while a transfer goes on, whatever has failed.
Going ==
  /\ TypeOK /\ Kept(xfer.queue, xfer.offset, table, asked, replies) /\ ~Uploading
  /\ Blocks(xfer) /\ Received(xfer.queue)
  /\ xfer.furthestdata <= size /\ statsize <= xfer.filesize

LEMMA Reads ==
  ASSUME Going, XferAssumption, replies # <<>>, NEW rep, rep = Head(replies),
         NEW k, k = IndexOf(xfer, Replied(rep)), NEW x, x = DownloadGotpkt(xfer, rep)
  PROVE  /\ rep \in Reply /\ k \in DOMAIN xfer.queue /\ xfer.queue[k].complete = 0
         /\ AnswerOk(rep, xfer.queue[k]) /\ (rep.status = "FAILURE" => client \in Failing)
         /\ \E t \in table : t.id = rep.id /\ xfer.queue[k].offset = t.rr
         /\ IsGot(xfer, rep, k, x) /\ x \in XferRec
         /\ Blocks(x) /\ Received(x.queue)
         /\ x.furthestdata <= size /\ statsize <= x.filesize /\ x.filesize <= xfer.filesize
         /\ HeadAt(x) = HeadAt(xfer)
         /\ Told(xfer) /\ rep.status # "FAILURE" => Told(x)
         /\ \A d : EofSeen(xfer, d) => EofSeen(x, d)
<1>1. /\ rep \in Reply /\ k \in DOMAIN xfer.queue /\ xfer.queue[k].complete = 0
      /\ AnswerOk(rep, xfer.queue[k]) /\ (rep.status = "FAILURE" => client \in Failing)
      /\ \E t \in table : t.id = rep.id /\ xfer.queue[k].offset = t.rr
  BY Finds DEF Going, Kept
<1>2. xfer \in XferRec /\ Block \in Nat \ {0} /\ size \in Nat /\ statsize \in Nat
  BY DEF Going, TypeOK, XferAssumption
<1>3. IsGot(xfer, rep, k, x) /\ x \in XferRec
  BY <1>1, <1>2, GotIs DEF IsGot
<1>4. /\ Blocks(x) /\ Received(x.queue)
      /\ x.furthestdata <= size /\ statsize <= x.filesize /\ x.filesize <= xfer.filesize
      /\ HeadAt(x) = HeadAt(xfer)
      /\ Told(xfer) /\ rep.status # "FAILURE" => Told(x)
      /\ \A d : EofSeen(xfer, d) => EofSeen(x, d)
  BY <1>1, <1>2, <1>3, GotDownload DEF Going
<1>5. QED
  BY <1>1, <1>3, <1>4

LEMMA Turns ==
  ASSUME Going, XferAssumption, replies # <<>>, NEW rep, rep = Head(replies),
         NEW x, x = DownloadGotpkt(xfer, rep),
         NEW n, Upto(x.queue, n), NEW z, IsShort(x, n, z),
         NEW s, s = [x |-> z, table |-> {t \in table : t.id # rep.id}, asked |-> asked],
         NEW t, t = IF XferDone(z) THEN s ELSE DownloadQueue(s)
  PROVE  /\ s.x = z /\ Onward(s, t, Tail(replies)) /\ Tail(replies) \in Seq(Reply)
         /\ z.furthestdata <= size /\ statsize <= z.filesize
<1> DEFINE k == IndexOf(xfer, Replied(rep))
<1>1. /\ k \in DOMAIN xfer.queue /\ IsGot(xfer, rep, k, x) /\ x \in XferRec /\ Blocks(x) /\ Received(x.queue)
      /\ x.furthestdata <= size /\ statsize <= x.filesize
  BY Reads
<1>2. PICK tt \in table : tt.id = rep.id /\ xfer.queue[k].offset = tt.rr
  BY Reads
<1> HIDE DEF k
<1>3. xfer \in XferRec /\ xfer.queue \in Seq(Req) /\ replies \in Seq(Reply) /\ asked \in Seq(Sent)
      /\ Block \in Nat \ {0} /\ Block \in Nat /\ MaxTotal \in Nat
      /\ table \subseteq [id : Nat, rr : Nat] /\ IsFiniteSet(Ids(table))
  BY DEF Going, TypeOK, XferAssumption, XferRec
<1>4. PICK g : TakenUp(xfer.queue, k, z.queue, g)
  BY <1>1, <1>3, ShortTaken
<1>5. Kept(z.queue, xfer.offset, {u \in table : u.id # Head(replies).id}, asked, Tail(replies))
  BY <1>1, <1>2, <1>3, <1>4, TakenKept DEF Going
<1>6. n \in 0..Len(x.queue)
  BY DEF Upto
<1>7. Blocks(z) /\ Received(z.queue)
  BY <1>1, <1>3, <1>6, ShortDownload
<1>8. z \in XferRec /\ z.offset = xfer.offset /\ z.furthestdata = x.furthestdata /\ z.filesize = x.filesize
  BY <1>1 DEF IsShort, IsGot
<1>9. s.x = z /\ s.table = {u \in table : u.id # rep.id} /\ s.asked = asked
  OBVIOUS
<1>10. s \in State
  <2>1. s.table \subseteq [id : Nat, rr : Nat]
    BY <1>3
  <2>2. QED
    BY <1>3, <1>8, <2>1 DEF State
<1>11. IsFiniteSet(Ids(s.table))
  <2>1. Ids(s.table) \subseteq Ids(table)
    BY DEF Ids
  <2>2. QED
    BY <1>3, <2>1, FS_Subset
<1>12. Tail(replies) \in Seq(Reply)
  BY <1>3, TailAt
<1>13. Kept(s.x.queue, s.x.offset, s.table, s.asked, Tail(replies))
  BY <1>5, <1>8, <1>9
<1>14. Blocks(s.x) /\ Received(s.x.queue) /\ t = IF XferDone(s.x) THEN s ELSE DownloadQueue(s)
  BY <1>7, <1>9
<1>15. Onward(s, t, Tail(replies))
  BY <1>3, <1>10, <1>11, <1>12, <1>13, <1>14, GoesOn
<1>16. QED
  BY <1>1, <1>8, <1>9, <1>12, <1>15

\* ... and without an error the copy goes on in step.
LEMMA TurnsInStep ==
  ASSUME Going, XferAssumption, replies # <<>>, NEW rep, rep = Head(replies),
         NEW x, x = DownloadGotpkt(xfer, rep), ~GotError(xfer, rep),
         NEW n, Upto(x.queue, n), NEW z, IsShort(x, n, z),
         InStep(xfer, dest), dest.inorder
  PROVE  Appended(dest, x.queue, n).inorder /\ InStep(z, Appended(dest, x.queue, n))
<1> DEFINE k == IndexOf(xfer, Replied(rep))
<1> DEFINE e == Appended(dest, x.queue, n)
<1>1. /\ IsGot(xfer, rep, k, x) /\ x \in XferRec /\ Blocks(x) /\ Received(x.queue)
      /\ HeadAt(x) = HeadAt(xfer) /\ x.filesize <= xfer.filesize
      /\ Told(xfer) /\ rep.status # "FAILURE" => Told(x)
      /\ \A d : EofSeen(xfer, d) => EofSeen(x, d)
  BY Reads
<1>2. rep.status # "FAILURE" /\ ~(x.furthestdata > x.filesize)
  BY DEF GotError
<1>3. /\ xfer \in XferRec /\ x.queue \in Seq(Req) /\ dest \in File
      /\ Block \in Nat \ {0} /\ Block \in Nat /\ size \in Nat /\ statsize \in Nat
      /\ x.furthestdata \in Nat /\ x.filesize \in Nat /\ xfer.filesize \in Nat
  <2>1. xfer \in XferRec /\ dest \in File /\ size \in Nat /\ statsize \in Nat
    BY DEF Going, TypeOK
  <2>2. Block \in Nat \ {0} /\ Block \in Nat
    BY DEF XferAssumption
  <2>3. x.queue \in Seq(Req) /\ x.furthestdata \in Nat /\ x.filesize \in Nat /\ xfer.filesize \in Nat
    BY <1>1, <2>1 DEF XferRec
  <2>4. QED
    BY <2>1, <2>2, <2>3
<1>4. Told(x) /\ x.furthestdata <= x.filesize /\ EofSeen(x, dest)
  BY <1>1, <1>2, <1>3 DEF InStep
<1>5. Placed(dest, HeadAt(x), x.filesize)
  <2>1. Placed(dest, HeadAt(x), xfer.filesize)
    BY <1>1 DEF InStep
  <2>2. dest.len \in Nat
    BY <1>3 DEF File
  <2>3. QED
    BY <1>1, <1>3, <2>1, <2>2 DEF Placed
<1> HIDE DEF k
<1>6. PlacedAfter(dest, x, n)
  BY <1>1, <1>3, <1>4, <1>5, AppendedPlaced
<1>7. e.inorder /\ Placed(e, AfterAt(x, n), x.filesize) /\ \A j \in 1..n : x.queue[j].retlen < Block => statsize <= e.len
  BY <1>6 DEF PlacedAfter
<1>8. e \in File /\ dest.len <= e.len
  BY <1>1, <1>3, AppendedCopies DEF Copied
<1> HIDE DEF e
<1>9. n \in 0..Len(x.queue)
  BY DEF Upto
<1>10. Told(z) /\ HeadAt(z) = AfterAt(x, n)
  BY <1>1, <1>3, <1>4, <1>9, ShortDownload
<1>11. z.furthestdata = x.furthestdata /\ z.filesize = x.filesize /\ z.eof = x.eof /\ Len(z.queue) = Len(x.queue) - n
       /\ z.queue \in Seq(Req) /\ \A i \in DOMAIN z.queue : z.queue[i] = x.queue[i + n]
  BY DEF IsShort, XferRec
<1>12. EofSeen(z, e)
  <2>1. SUFFICES ASSUME z.eof
                 PROVE  statsize <= e.len \/ \E j \in DOMAIN z.queue : z.queue[j].complete = 1 /\ z.queue[j].retlen < Block
    BY DEF EofSeen
  <2>2. statsize <= dest.len \/ \E j \in DOMAIN x.queue : x.queue[j].complete = 1 /\ x.queue[j].retlen < Block
    BY <1>4, <1>11, <2>1 DEF EofSeen
  <2>3. CASE statsize <= dest.len
    <3>1. dest.len \in Nat /\ e.len \in Nat
      BY <1>3, <1>8 DEF File
    <3>2. QED
      BY <1>3, <1>8, <2>3, <3>1
  <2>4. ASSUME NEW j \in DOMAIN x.queue, x.queue[j].complete = 1, x.queue[j].retlen < Block
        PROVE  statsize <= e.len \/ \E i \in DOMAIN z.queue : z.queue[i].complete = 1 /\ z.queue[i].retlen < Block
    <3>0. z.queue \in Seq(Req) /\ x.queue \in Seq(Req) /\ Len(z.queue) = Len(x.queue) - n
      BY <1>3, <1>11
    <3>1. DOMAIN x.queue = 1..Len(x.queue) /\ DOMAIN z.queue = 1..Len(z.queue) /\ Len(x.queue) \in Nat
      BY <3>0, SeqDomain, Zenon
    <3>2. CASE j \in 1..n
      BY <1>7, <2>4, <3>2
    <3>3. CASE j \notin 1..n
      <4>1. j - n \in DOMAIN z.queue /\ (j - n) + n = j
        <5> DEFINE a == Len(x.queue)
        <5> DEFINE b == Len(z.queue)
        <5>1. n \in 0..a /\ b = a - n /\ a \in Nat /\ j \in 1..a
          BY <1>9, <3>0, <3>1
        <5> HIDE DEF a, b
        <5>2. j - n \in 1..b /\ (j - n) + n = j
          BY <3>3, <5>1
        <5>3. QED
          BY <3>1, <5>2 DEF b
      <4>2. z.queue[j - n] = x.queue[j]
        BY <1>11, <4>1
      <4>3. QED
        BY <2>4, <4>1, <4>2
    <3>4. QED
      BY <3>2, <3>3
  <2>5. QED
    BY <2>2, <2>3, <2>4
<1>13. InStep(z, e)
  BY <1>4, <1>7, <1>10, <1>11, <1>12 DEF InStep
<1>14. QED
  BY <1>7, <1>13 DEF e
-----------------------------------------------------------------------------
(* The steps of a download *)

LEMMA KeptPrime ==
  ASSUME UNCHANGED <<client, size, statsize>>, Kept(xfer'.queue, xfer'.offset, table', asked', replies')
  PROVE  Kept(xfer.queue, xfer.offset, table, asked, replies)'
<1>1. client' = client /\ size' = size /\ statsize' = statsize
  OBVIOUS
<1>2. Answers(xfer.queue, table, replies)'
  BY <1>1 DEF Kept, Answers, AnswerOk, Uploading
<1>3. Ordered(xfer.queue, xfer.offset)' /\ Book(xfer.queue, table, asked, replies)' /\ Waiting(xfer.queue, table)'
  BY Zenon DEF Kept, Ordered, Book, Waiting, Distinct, Entry, Ids
<1>4. QED
  BY <1>2, <1>3 DEF Kept

\* What the loops have in common.
Turned(z) ==
  /\ xfer' \in XferRec /\ table' \subseteq [id : Nat, rr : Nat] /\ IsFiniteSet(Ids(table'))
  /\ asked' \in Seq(Sent) /\ replies' \in Seq(Reply)
  /\ Kept(xfer.queue, xfer.offset, table, asked, replies)'
  /\ Blocks(xfer') /\ Received(xfer.queue)' /\ xfer'.furthestdata <= size' /\ statsize' <= xfer'.filesize
  /\ xfer'.eof = z.eof /\ xfer'.err = z.err
  /\ NoneReceived(z.queue) => NoneReceived(xfer'.queue)
  /\ InOrder(z.queue, {t \in table : t.id # Head(replies).id}, asked, Tail(replies)) =>
       InOrder(xfer'.queue, table', asked', replies')
  /\ \A d : InStep(z, d) => InStep(xfer', d)
  /\ XferDone(z) => xfer' = z

LEMMA IsGoing ==
  ASSUME IInv, ~Uploading, stage # "lost"
  PROVE  Going
BY DEF IInv, Bookkeeping, Download, Going, Kept

LEMMA TurnedIs ==
  ASSUME Going, XferAssumption, NEW rep, Read(rep), NEW x, x = DownloadGotpkt(xfer, rep),
         NEW n, Upto(x.queue, n), NEW z, IsShort(x, n, z), GoOn(z)
  PROVE  Turned(z)
<1> DEFINE s == [x |-> z, table |-> {u \in table : u.id # Head(replies).id}, asked |-> asked]
<1> DEFINE t == IF XferDone(z) THEN s ELSE DownloadQueue(s)
<1>1. /\ replies # <<>> /\ rep = Head(replies) /\ replies' = Tail(replies)
      /\ client' = client /\ size' = size /\ statsize' = statsize
  BY DEF Read
<1>2. xfer' = t.x /\ table' = t.table /\ asked' = t.asked
  BY Zenon DEF GoOn
<1>3. /\ s.x = z /\ Onward(s, t, Tail(replies)) /\ Tail(replies) \in Seq(Reply)
      /\ z.furthestdata <= size /\ statsize <= z.filesize
  BY <1>1, Turns
<1>4. s.table = {u \in table : u.id # Head(replies).id} /\ s.asked = asked
  OBVIOUS
<1> HIDE DEF s, t
<1>5. t.x \in XferRec /\ t.table \subseteq [id : Nat, rr : Nat] /\ IsFiniteSet(Ids(t.table)) /\ t.asked \in Seq(Sent)
  BY <1>3 DEF Onward, State
<1>6. Kept(t.x.queue, t.x.offset, t.table, t.asked, Tail(replies))
  BY <1>3 DEF Onward
<1>7. Kept(xfer.queue, xfer.offset, table, asked, replies)'
  BY <1>1, <1>2, <1>6, KeptPrime
<1>8. Blocks(xfer') /\ Received(xfer'.queue) /\ xfer'.furthestdata = z.furthestdata /\ xfer'.filesize = z.filesize
      /\ xfer'.eof = z.eof /\ xfer'.err = z.err
  BY <1>2, <1>3 DEF Onward
<1>9. Received(xfer.queue)'
  BY <1>1, <1>8 DEF Received
<1>10. /\ NoneReceived(z.queue) => NoneReceived(xfer'.queue)
       /\ InOrder(z.queue, {u \in table : u.id # Head(replies).id}, asked, Tail(replies)) =>
            InOrder(xfer'.queue, table', asked', replies')
       /\ \A d : InStep(z, d) => InStep(xfer', d)
       /\ XferDone(z) => xfer' = z
  BY <1>1, <1>2, <1>3, <1>4 DEF Onward
<1>11. QED
  BY <1>1, <1>2, <1>3, <1>5, <1>7, <1>8, <1>9, <1>10 DEF Turned

LEMMA InStepPrime ==
  ASSUME statsize' = statsize, InStep(xfer', dest')
  PROVE  InStep(xfer, dest)'
BY DEF InStep, Told, Placed, HeadAt, EofSeen

LEMMA GetKeeps ==
  ASSUME IInv, XferAssumption, Get
  PROVE  IInv'
<1>1. PICK rep \in Range(replies), written \in BOOLEAN :
        LET x == DownloadGotpkt(xfer, rep)
            n == Max({0} \cup Completed(x.queue))
            y == Dequeue(x, n)
            z == [y EXCEPT !.err = @ \/ ~written]
        IN  /\ client = "get" /\ stage = "copying" /\ Read(rep)
            /\ written \/ (client \in Failing /\ n > 0)
            /\ dest' = IF written THEN Appended(dest, x.queue, n) ELSE [dest EXCEPT !.inorder = FALSE]
            /\ toret' = (toret /\ written /\ ~GotError(xfer, rep))
            /\ GoOn(z) /\ stage' = IF XferDone(z) THEN "done" ELSE stage
            /\ UNCHANGED faults
  BY Zenon DEF Get
<1> DEFINE x == DownloadGotpkt(xfer, rep)
<1> DEFINE n == Max({0} \cup Completed(x.queue))
<1> DEFINE y == Dequeue(x, n)
<1> DEFINE z == [y EXCEPT !.err = @ \/ ~written]
<1> DEFINE e == Appended(dest, x.queue, n)
<1>2. /\ client = "get" /\ stage = "copying" /\ Read(rep)
      /\ dest' = IF written THEN e ELSE [dest EXCEPT !.inorder = FALSE]
      /\ toret' = (toret /\ written /\ ~GotError(xfer, rep))
      /\ GoOn(z) /\ stage' = IF XferDone(z) THEN "done" ELSE stage
      /\ faults' = faults
  BY <1>1, Zenon
<1>3. replies # <<>> /\ rep = Head(replies) /\ client' = client /\ size' = size /\ statsize' = statsize /\ basis' = basis
  BY <1>2 DEF Read
<1>4. ~Uploading /\ Going
  BY <1>2, IsGoing DEF Uploading
<1>5. /\ x \in XferRec /\ Received(x.queue) /\ IsGot(xfer, rep, IndexOf(xfer, Replied(rep)), x)
  BY <1>3, <1>4, Reads
<1>6. x.queue \in Seq(Req) /\ x.err \in BOOLEAN /\ Block \in Nat /\ size \in Nat /\ statsize \in Nat /\ dest \in File
  BY <1>4, <1>5 DEF Going, TypeOK, XferRec, XferAssumption
<1>7. Upto(x.queue, n)
  BY <1>6, CompletedUpto
<1>8. IsShort(x, n, y) /\ y.err = x.err
  <2>1. n \in 0..Len(x.queue)
    BY <1>7 DEF Upto
  <2> HIDE DEF x, n
  <2>2. QED
    BY <1>5, <1>6, <2>1, DequeueIs DEF x
<1>9. IsShort(x, n, z) /\ z.err = (x.err \/ ~written)
  <2> DEFINE b == y.err \/ ~written
  <2>1. b \in BOOLEAN
    OBVIOUS
  <2>2. z = [y EXCEPT !.err = b]
    BY Zenon
  <2> HIDE DEF b, x, n, y, z
  <2>3. IsShort(x, n, z) /\ z.err = b
    BY <1>8, <2>1, <2>2, ErrIs
  <2>4. QED
    BY <1>8, <2>3 DEF b
<1>10. x.err = (xfer.err \/ GotError(xfer, rep))
  BY <1>5 DEF IsGot
<1> HIDE DEF z, y, n
<1>11. Turned(z)
  BY <1>2, <1>4, <1>7, <1>9, TurnedIs
<1>12. Copied(dest, x.queue, n)
  BY <1>5, <1>6, <1>7, AppendedCopies
<1>13. ASSUME ~GotError(xfer, rep), InStep(xfer, dest), dest.inorder PROVE e.inorder /\ InStep(z, e)
  BY <1>3, <1>4, <1>7, <1>9, <1>13, TurnsInStep
<1>14. e \in File /\ ((dest.inorder => dest.len <= size) => (e.inorder => e.len <= size))
  BY <1>12 DEF Copied
<1> HIDE DEF e, x
<1>15. dest' \in File /\ (~written => ~dest'.inorder) /\ (written => dest' = e)
  BY <1>2, <1>6, <1>14 DEF File
<1>16. TypeOK'
  BY <1>2, <1>3, <1>4, <1>11, <1>15 DEF Going, TypeOK, Turned
<1>17. stage' = "done" => xfer' = z /\ XferDone(z) /\ xfer'.queue = <<>>
  BY <1>2, <1>11 DEF Turned, XferDone
<1>18. Bookkeeping'
  <2>1. stage' # "lost"
    BY <1>2
  <2>2. faults' = {} \/ client' \in Growing
    BY <1>2, <1>3 DEF IInv, Bookkeeping
  <2>3. QED
    BY <1>11, <1>17, <2>1, <2>2 DEF Turned, Bookkeeping, Kept
<1>19. ASSUME toret', basis' # "gap"
       PROVE  toret /\ written /\ ~GotError(xfer, rep) /\ e.inorder /\ InStep(z, e) /\ ~z.err /\ dest' = e
  <2>1. toret /\ written /\ ~GotError(xfer, rep) /\ basis # "gap"
    BY <1>2, <1>3, <1>19
  <2>2. dest.inorder /\ InStep(xfer, dest) /\ ~xfer.err
    BY <1>2, <1>4, <2>1 DEF IInv, Download, Good, Sound
  <2>3. ~z.err
    BY <1>9, <1>10, <2>1, <2>2
  <2>4. QED
    BY <1>13, <1>15, <2>1, <2>2, <2>3
<1>20. dest'.inorder => dest'.len <= size
  <2>1. dest.inorder => dest.len <= size
    BY <1>4 DEF IInv, Download
  <2>2. QED
    BY <1>14, <1>15, <2>1
<1>21. Download'
  <2>1. Good' => dest'.inorder
    BY <1>19 DEF Good
  <2>2. Good' => Sound(xfer, dest)'
    <3>1. SUFFICES ASSUME Good' PROVE Sound(xfer, dest)'
      OBVIOUS
    <3>2. InStep(xfer', dest') /\ ~xfer'.err
      BY <1>11, <1>19, <3>1 DEF Good, Turned
    <3>3. InStep(xfer, dest)'
      BY <1>3, <3>2, InStepPrime
    <3>4. QED
      BY <3>2, <3>3 DEF Sound
  <2>3. client' # "pscp"
    BY <1>2, <1>3
  <2>4. QED
    BY <1>3, <1>11, <1>20, <2>1, <2>2, <2>3 DEF Download, Turned
<1>22. CopiesWhole'
  <2>1. ASSUME stage' = "done", toret', basis' # "gap"
        PROVE  dest'.inorder /\ dest'.len \in statsize'..size'
    <3>1. e.inorder /\ InStep(z, e) /\ ~z.err /\ dest' = e
      BY <1>19, <2>1
    <3>2. z.eof /\ z.queue = <<>>
      BY <1>17, <2>1, <3>1 DEF XferDone
    <3>3. statsize <= e.len
      <4>1. DOMAIN z.queue = {}
        BY <3>2
      <4>2. QED
        BY <3>1, <3>2, <4>1 DEF InStep, EofSeen
    <3>4. e.len \in Nat
      BY <1>14 DEF File
    <3>5. QED
      BY <1>3, <1>6, <1>20, <3>1, <3>3, <3>4
  <2>2. stage' # "lost" /\ stage' # "died" /\ ~Uploading'
    BY <1>2, <1>3 DEF Uploading
  <2>3. QED
    BY <2>1, <2>2 DEF CopiesWhole
<1>23. ~Uploading'
  BY <1>2, <1>3 DEF Uploading
<1>24. QED
  BY <1>16, <1>18, <1>21, <1>22, <1>23 DEF IInv

\* pscp's replies in order: each is for the first request.
LEMMA InOrderFirst ==
  ASSUME NEW q \in Seq(Req), NEW tab, NEW ask \in Seq(Sent), NEW reps \in Seq(Reply), reps # <<>>, NEW top,
         Ordered(q, top), Book(q, tab, ask, reps), InOrder(q, tab, ask, reps),
         NEW tt \in tab, tt.id = Head(reps).id, NEW k \in DOMAIN q, q[k].offset = tt.rr
  PROVE  k = 1
<1>1. Head(reps) = reps[1] /\ 1 \in DOMAIN reps
  BY TailAt
<1>2. [id |-> reps[1].id, rr |-> q[1].offset] \in tab
  BY <1>1 DEF InOrder
<1>3. [id |-> reps[1].id, rr |-> q[1].offset] = tt
  <2> DEFINE u == [id |-> reps[1].id, rr |-> q[1].offset]
  <2>1. u \in tab /\ u.id = tt.id
    BY <1>1, <1>2
  <2> HIDE DEF u
  <2>2. u = tt
    BY <2>1 DEF Book
  <2>3. QED
    BY <2>2 DEF u
<1>4. q[1].offset = q[k].offset
  BY <1>3
<1>5. 1 \in DOMAIN q
  <2>1. /\ DOMAIN q = 1..Len(q) /\ Len(q) \in Nat /\ Len(ask) \in Nat /\ DOMAIN reps = 1..Len(reps) /\ Len(reps) \in Nat
    BY SeqDomain, Zenon
  <2>2. Len(q) = Len(reps) + Len(ask)
    BY DEF InOrder
  <2>3. QED
    BY <1>1, <2>1, <2>2
<1>6. QED
  BY <1>4, <1>5, OffsetsDiffer

LEMMA InOrderOn ==
  ASSUME NEW q \in Seq(Req), NEW tab, NEW ask \in Seq(Sent), NEW reps \in Seq(Reply), reps # <<>>,
         Distinct(reps), InOrder(q, tab, ask, reps), NEW r \in Seq(Req), Len(r) = Len(q) - 1,
         \A i \in DOMAIN r : r[i].offset = q[i + 1].offset
  PROVE  InOrder(r, {t \in tab : t.id # Head(reps).id}, ask, Tail(reps))
<1> DEFINE rest == Tail(reps)
<1> DEFINE new == {t \in tab : t.id # Head(reps).id}
<1>1. /\ rest \in Seq(Reply) /\ Head(reps) = reps[1] /\ 1 \in DOMAIN reps
      /\ \A i \in DOMAIN rest : i + 1 \in DOMAIN reps /\ rest[i] = reps[i + 1] /\ i + 1 # 1
      /\ Len(reps) = Len(rest) + 1
  BY TailAt
<1> HIDE DEF rest
<1>2. /\ DOMAIN r = 1..Len(r) /\ Len(q) \in Nat /\ Len(r) \in Nat
      /\ DOMAIN ask = 1..Len(ask) /\ Len(ask) \in Nat
      /\ DOMAIN rest = 1..Len(rest) /\ Len(rest) \in Nat
  <2>1. rest \in Seq(Reply)
    BY <1>1
  <2>2. DOMAIN rest = 1..Len(rest) /\ Len(rest) \in Nat
    BY <2>1, SeqDomain, Zenon
  <2>3. DOMAIN r = 1..Len(r) /\ Len(q) \in Nat /\ Len(r) \in Nat
    BY SeqDomain, Zenon
  <2>4. DOMAIN ask = 1..Len(ask) /\ Len(ask) \in Nat
    BY SeqDomain, Zenon
  <2>5. QED
    BY <2>2, <2>3, <2>4
<1>3. Len(q) = Len(reps) + Len(ask)
  BY DEF InOrder
<1>4. Len(r) = Len(rest) + Len(ask)
  BY <1>1, <1>2, <1>3
<1>5. ASSUME NEW i \in DOMAIN rest PROVE [id |-> rest[i].id, rr |-> r[i].offset] \in new
  <2>1. i \in DOMAIN r
    BY <1>2, <1>4
  <2>2. [id |-> reps[i + 1].id, rr |-> q[i + 1].offset] \in tab
    BY <1>1 DEF InOrder
  <2>3. reps[i + 1].id # reps[1].id
    BY <1>1 DEF Distinct
  <2>4. rest[i].id = reps[i + 1].id /\ r[i].offset = q[i + 1].offset
    BY <1>1, <2>1
  <2>5. QED
    BY <1>1, <2>2, <2>3, <2>4
<1>6. ASSUME NEW i \in DOMAIN ask PROVE ask[i].offset = r[Len(rest) + i].offset
  <2>1. ask[i].offset = q[Len(reps) + i].offset
    BY DEF InOrder
  <2>2. Len(rest) + i \in DOMAIN r /\ Len(reps) + i = Len(rest) + i + 1
    <3> DEFINE a == Len(rest)
    <3> DEFINE b == Len(reps)
    <3> DEFINE c == Len(r)
    <3> DEFINE d == Len(ask)
    <3>1. a \in Nat /\ b = a + 1 /\ d \in Nat /\ c = a + d /\ i \in 1..d
      BY <1>1, <1>2, <1>4
    <3> HIDE DEF a, b, c, d
    <3>2. a + i \in 1..c /\ b + i = a + i + 1
      BY <3>1
    <3>3. QED
      BY <1>2, <3>2 DEF a, b, c
  <2>3. QED
    BY <2>1, <2>2
<1>7. QED
  BY <1>4, <1>5, <1>6 DEF InOrder, rest, new

\* What one call of xfer_download_data takes, when there has been no error.
LEMMA OneBlock ==
  ASSUME NEW x \in XferRec, Told(x), NEW n, n = Max({0} \cup FirstData(x.queue))
  PROVE  /\ n = 0 \/ (n = 1 /\ 1 \in DOMAIN x.queue /\ x.queue[1].complete = 1)
         /\ 1 \in DOMAIN x.queue /\ x.queue[1].complete # 0 => n = 1
<1> DEFINE q == x.queue
<1>1. q \in Seq(Req)
  BY DEF XferRec
<1>2. /\ Upto(q, n) /\ \A j \in 1..(n - 1) : q[j].complete < 0
      /\ 1 \in DOMAIN q /\ q[1].complete # 0 => n # 0
  BY <1>1, FirstDataUpto
<1>3. DOMAIN q = 1..Len(q) /\ Len(q) \in Nat
  BY <1>1, SeqDomain, Zenon
<1> HIDE DEF q
<1>4. n \in 0..Len(q) /\ \A j \in 1..n : q[j].complete # 0
  BY <1>2 DEF Upto
<1>5. n <= 1
  <2>1. SUFFICES ASSUME n > 1 PROVE FALSE
    BY <1>3, <1>4
  <2>2. 1 \in 1..(n - 1) /\ 1 \in DOMAIN q
    BY <1>3, <1>4, <2>1
  <2>3. q[1].complete < 0 /\ q[1].complete >= 0
    BY <1>2, <2>2 DEF Told, q
  <2>4. q[1].complete \in Int
    <3>1. q[1] \in Req
      BY <1>1, <2>2, SeqDomain
    <3>2. QED
      BY <3>1 DEF Req
  <2>5. QED
    BY <2>3, <2>4
<1>6. ASSUME n # 0 PROVE n = 1 /\ 1 \in DOMAIN q /\ q[1].complete = 1
  <2>1. n = 1 /\ 1 \in DOMAIN q /\ q[1].complete # 0
    <3>1. n = 1 /\ 1 \in 1..Len(q)
      <4> DEFINE a == Len(q)
      <4>1. a \in Nat /\ n \in 0..a /\ n <= 1
        BY <1>3, <1>4, <1>5
      <4> HIDE DEF a
      <4>2. n = 1 /\ 1 \in 1..a
        BY <1>6, <4>1
      <4>3. QED
        BY <4>2 DEF a
    <3>2. 1 \in 1..n
      BY <3>1
    <3>3. QED
      BY <1>3, <1>4, <3>1, <3>2
  <2>2. q[1] \in Req
    BY <1>1, <2>1, SeqDomain
  <2>3. q[1].complete >= 0
    BY <2>1 DEF Told, q
  <2>4. q[1].complete \in -1..1
    BY <2>2 DEF Req
  <2>5. QED
    BY <2>1, <2>3, <2>4
<1>7. QED
  BY <1>2, <1>6 DEF q

\* pscp's turn, while it wants more of the file.
LEMMA PscpGetKeeps ==
  ASSUME IInv, XferAssumption, PscpGet
  PROVE  IInv'
<1>1. PICK rep \in Range(replies) :
        LET x == DownloadGotpkt(xfer, rep)
            data == FirstData(x.queue)
            n == IF GotError(xfer, rep) THEN 0 ELSE Max({0} \cup data)
            len == IF n = 0 \/ x.queue[n].complete < 0 THEN 0 ELSE x.queue[n].retlen
            room == Min({Block, statsize - dest.len})
            y == Dequeue(x, n)
            received == dest.len + len
        IN  /\ client = "pscp" /\ stage = "copying" /\ dest.len < statsize /\ Read(rep)
            /\ dest' = IF len > 0 THEN Appended(dest, x.queue, n) ELSE dest
            /\ faults' = IF len <= room THEN faults ELSE faults \cup {"actuallen <= len"}
            /\ toret' = (toret /\ ~GotError(xfer, rep) /\ len > 0)
            /\ stage' = IF GotError(xfer, rep) \/ len = 0 THEN "died" ELSE stage
            /\ GoOn(IF received < statsize THEN y ELSE [y EXCEPT !.err = TRUE])
  BY Zenon DEF PscpGet
<1> DEFINE x == DownloadGotpkt(xfer, rep)
<1> DEFINE n == IF GotError(xfer, rep) THEN 0 ELSE Max({0} \cup FirstData(x.queue))
<1> DEFINE len == IF n = 0 \/ x.queue[n].complete < 0 THEN 0 ELSE x.queue[n].retlen
<1> DEFINE room == Min({Block, statsize - dest.len})
<1> DEFINE y == Dequeue(x, n)
<1> DEFINE z == IF dest.len + len < statsize THEN y ELSE [y EXCEPT !.err = TRUE]
<1> DEFINE e == Appended(dest, x.queue, n)
<1> DEFINE k == IndexOf(xfer, Replied(rep))
<1>2. /\ client = "pscp" /\ stage = "copying" /\ dest.len < statsize /\ Read(rep)
      /\ dest' = IF len > 0 THEN e ELSE dest
      /\ faults' = IF len <= room THEN faults ELSE faults \cup {"actuallen <= len"}
      /\ toret' = (toret /\ ~GotError(xfer, rep) /\ len > 0)
      /\ stage' = IF GotError(xfer, rep) \/ len = 0 THEN "died" ELSE stage
      /\ GoOn(z)
  BY <1>1, Zenon
<1>3. replies # <<>> /\ rep = Head(replies) /\ client' = client /\ size' = size /\ statsize' = statsize /\ basis' = basis
  BY <1>2 DEF Read
<1>4. ~Uploading /\ Going /\ Download
  BY <1>2, IsGoing DEF Uploading, IInv
<1>5. /\ x \in XferRec /\ Received(x.queue) /\ IsGot(xfer, rep, k, x) /\ HeadAt(x) = HeadAt(xfer)
      /\ rep \in Reply /\ k \in DOMAIN xfer.queue /\ AnswerOk(rep, xfer.queue[k])
      /\ x.furthestdata <= size /\ statsize <= x.filesize
      /\ rep.status = "FAILURE" => client \in Failing
      /\ Told(xfer) /\ rep.status # "FAILURE" => Told(x)
  BY <1>3, <1>4, Reads
<1>6. /\ x.queue \in Seq(Req) /\ xfer.queue \in Seq(Req) /\ Block \in Nat \ {0} /\ Block \in Nat /\ dest \in File
      /\ asked \in Seq(Sent) /\ replies \in Seq(Reply) /\ dest.len \in Nat
      /\ size \in Nat /\ statsize \in Nat /\ (client \in Growing \/ statsize = size)
  BY <1>4, <1>5 DEF Going, TypeOK, XferRec, XferAssumption, File
<1>7. /\ toret /\ Good /\ dest.inorder /\ InStep(xfer, dest)
      /\ Steady => NoneReceived(xfer.queue) /\ InOrder(xfer.queue, table, asked, replies)
  <2>1. basis = "nothing"
    BY <1>2, <1>4 DEF Going, TypeOK
  <2>2. toret /\ (Steady => NoneReceived(xfer.queue) /\ InOrder(xfer.queue, table, asked, replies))
    BY <1>2, <1>4 DEF Download
  <2>3. Good
    BY <1>2, <2>1, <2>2 DEF Good
  <2>4. QED
    BY <1>2, <1>4, <2>2, <2>3 DEF Download, Sound
<1>8. Upto(x.queue, n)
  <2>1. CASE GotError(xfer, rep)
    <3>1. n = 0
      BY <2>1
    <3>2. 0 \in 0..Len(x.queue)
      BY <1>6, SeqDomain
    <3> HIDE DEF n, x
    <3>3. QED
      BY <3>1, <3>2 DEF Upto
  <2>2. CASE ~GotError(xfer, rep)
    <3>1. n = Max({0} \cup FirstData(x.queue))
      BY <2>2
    <3> HIDE DEF n, x
    <3>2. QED
      BY <1>6, <3>1, FirstDataUpto DEF x
  <2>3. QED
    BY <2>1, <2>2
<1>9. IsShort(x, n, y) /\ y.err = x.err
  <2>1. n \in 0..Len(x.queue)
    BY <1>8 DEF Upto
  <2> HIDE DEF x, n
  <2>2. QED
    BY <1>5, <1>6, <2>1, DequeueIs DEF x
<1>10. IsShort(x, n, z)
  <2> HIDE DEF x, n, len, y
  <2>1. IsShort(x, n, [y EXCEPT !.err = TRUE])
    BY <1>9, ErrIs
  <2>2. QED
    BY <1>9, <2>1
<1>11. ~GotError(xfer, rep) => Told(x)
  BY <1>5, <1>7 DEF GotError, InStep
<1>12. ASSUME ~GotError(xfer, rep)
       PROVE  /\ n = 0 \/ (n = 1 /\ 1 \in DOMAIN x.queue /\ x.queue[1].complete = 1)
              /\ 1 \in DOMAIN x.queue /\ x.queue[1].complete # 0 => n = 1
  <2>1. n = Max({0} \cup FirstData(x.queue)) /\ Told(x)
    BY <1>11, <1>12
  <2> HIDE DEF n, x
  <2>2. QED
    BY <1>5, <2>1, OneBlock DEF x
<1>13. len \in Nat /\ (len > 0 => n = 1 /\ ~GotError(xfer, rep) /\ 1 \in DOMAIN x.queue /\ x.queue[1].complete = 1 /\ len = x.queue[1].retlen)
  <2>1. CASE GotError(xfer, rep)
    BY <2>1
  <2>2. CASE ~GotError(xfer, rep) /\ n = 0
    BY <2>2
  <2>3. CASE ~GotError(xfer, rep) /\ n # 0
    <3>1. n = 1 /\ 1 \in DOMAIN x.queue /\ x.queue[1].complete = 1
      BY <1>12, <2>3
    <3>2. x.queue[1].retlen \in Nat
      <4>1. x.queue[1] \in Req
        BY <1>6, <3>1, SeqDomain
      <4>2. QED
        BY <4>1 DEF Req
    <3> HIDE DEF n, x
    <3>3. len = x.queue[1].retlen
      BY <3>1
    <3>4. QED
      BY <2>3, <3>1, <3>2, <3>3
  <2>4. QED
    BY <2>1, <2>2, <2>3
<1> HIDE DEF z, y, n, len
<1>14. Turned(z)
  BY <1>2, <1>4, <1>8, <1>10, TurnedIs
<1>15. Copied(dest, x.queue, n)
  BY <1>5, <1>6, <1>8, AppendedCopies
<1>16. ASSUME ~GotError(xfer, rep) PROVE e.inorder /\ InStep(z, e)
  BY <1>3, <1>4, <1>7, <1>8, <1>10, <1>16, TurnsInStep
<1>17. e \in File /\ ((dest.inorder => dest.len <= size) => (e.inorder => e.len <= size))
  BY <1>15 DEF Copied
\* The copy ends where the first request begins.
<1>18. HeadAt(xfer) = dest.len
  <2>1. Placed(dest, HeadAt(xfer), xfer.filesize)
    BY <1>7 DEF InStep
  <2>2. dest.len < statsize /\ dest.len \in Nat /\ statsize \in Nat
    BY <1>2, <1>6
  <2>3. ~(statsize <= dest.len)
    BY <2>2
  <2>4. QED
    BY <2>1, <2>3 DEF Placed
<1>19. 1 \in DOMAIN x.queue => x.queue[1].offset = dest.len
  <2>1. HAVE 1 \in DOMAIN x.queue
  <2>2. x.queue # <<>>
    <3> DEFINE q == x.queue
    <3>1. q \in Seq(Req) /\ 1 \in DOMAIN q
      BY <1>6, <2>1
    <3> HIDE DEF q
    <3>2. q # <<>>
      BY <3>1
    <3>3. QED
      BY <3>2 DEF q
  <2> HIDE DEF x
  <2>3. QED
    BY <1>5, <1>18, <2>2 DEF HeadAt, x
<1>20. faults' = {} \/ client' \in Growing
  <2>1. SUFFICES ASSUME client \notin Growing PROVE faults' = {}
    BY <1>3
  <2>2. faults = {}
    BY <2>1 DEF IInv, Bookkeeping
  <2>3. len <= Block /\ len <= statsize - dest.len
    <3>1. CASE len > 0
      <4>1. x.queue[1].retlen <= Block /\ (x.queue[1].retlen > 0 => x.queue[1].offset + x.queue[1].retlen <= size)
        BY <1>5, <1>13, <3>1 DEF Received
      <4>2. len <= Block /\ dest.len + len <= statsize
        BY <1>6, <1>13, <1>19, <2>1, <3>1, <4>1
      <4> DEFINE u == dest.len
      <4>3. u \in Nat /\ u + len <= statsize
        BY <1>6, <4>2
      <4> HIDE DEF u
      <4>4. len <= statsize - u
        BY <1>6, <1>13, <4>3
      <4>5. QED
        BY <4>2, <4>4 DEF u
    <3>2. CASE len = 0
      <4> DEFINE u == dest.len
      <4>1. u \in Nat /\ u < statsize
        BY <1>2, <1>6
      <4> HIDE DEF u
      <4>2. 0 <= Block /\ 0 <= statsize - u
        BY <1>6, <4>1
      <4>3. QED
        BY <3>2, <4>2 DEF u
    <3>3. QED
      BY <1>13, <3>1, <3>2
  <2>4. room = IF Block <= statsize - dest.len THEN Block ELSE statsize - dest.len
    <3>1. Block \in Int /\ statsize - dest.len \in Int
      BY <1>6
    <3>2. QED
      BY <3>1, MinOf
  <2>5. len <= room
    BY <2>3, <2>4
  <2> HIDE DEF room
  <2>6. QED
    BY <1>2, <2>2, <2>5
<1> HIDE DEF e, room
<1>21. dest' \in File /\ (dest'.inorder => dest'.len <= size)
  <2>1. dest.inorder => dest.len <= size
    BY <1>4 DEF Download
  <2>2. dest' = e \/ dest' = dest
    BY <1>2
  <2>3. QED
    BY <1>6, <1>17, <2>1, <2>2
<1>22. stage' \in {"copying", "died"} /\ toret' \in BOOLEAN
  BY <1>2
<1>23. TypeOK'
  BY <1>2, <1>3, <1>4, <1>14, <1>21, <1>22 DEF Going, TypeOK, Turned
<1>24. Bookkeeping'
  BY <1>14, <1>20, <1>22 DEF Turned, Bookkeeping, Kept
<1>25. ASSUME Steady PROVE k = 1 /\ ~GotError(xfer, rep) /\ len > 0
  <2>1. client \notin AnyOrder /\ client \notin Failing /\ size = statsize
    BY <1>6, <1>25 DEF Steady
  <2>2. rep.status # "FAILURE"
    BY <1>5, <2>1
  <2>3. ~GotError(xfer, rep)
    <3>1. x.furthestdata \in Nat /\ x.filesize \in Nat
      BY <1>5 DEF XferRec
    <3>2. ~(x.furthestdata > x.filesize)
      BY <1>5, <1>6, <2>1, <3>1
    <3>3. QED
      BY <2>2, <3>2 DEF GotError, x
  <2>4. k = 1
    <3>1. PICK tt \in table : tt.id = rep.id /\ xfer.queue[k].offset = tt.rr
      BY <1>3, <1>4, Reads
    <3>2. InOrder(xfer.queue, table, asked, replies)
      BY <1>7, <1>25
    <3>3. Ordered(xfer.queue, xfer.offset) /\ Book(xfer.queue, table, asked, replies)
      BY <1>4 DEF Going, Kept
    <3> HIDE DEF k, x
    <3>4. QED
      BY <1>3, <1>5, <1>6, <3>1, <3>2, <3>3, InOrderFirst
  <2>5. DOMAIN x.queue = DOMAIN xfer.queue /\ x.queue[k].complete # 0 /\ x.queue[k].offset = xfer.queue[k].offset
        /\ x.queue[k].retlen = rep.len
    BY <1>5, <2>2 DEF IsGot
  <2> HIDE DEF x, k
  <2>6. 1 \in DOMAIN x.queue /\ x.queue[1].complete # 0 /\ x.queue[1].retlen = rep.len
    BY <1>5, <2>4, <2>5
  <2>7. n = 1 /\ x.queue[1].complete = 1
    BY <1>12, <2>3, <2>6
  <2>8. len = rep.len
    BY <2>6, <2>7 DEF len
  <2>9. xfer.queue[k].offset = dest.len /\ xfer.queue[k].len = Block
    BY <1>4, <1>5, <1>19, <2>4, <2>5, <2>6 DEF Going, Blocks
  <2>10. rep.len < Block => statsize <= dest.len + rep.len
    BY <1>4, <1>5, <2>2, <2>9 DEF AnswerOk
  <2>11. rep.len > 0
    <3> DEFINE u == dest.len
    <3> DEFINE l == rep.len
    <3>1. u \in Nat /\ l \in Nat /\ (l < Block => statsize <= u + l) /\ u < statsize
      BY <1>2, <1>5, <1>6, <2>10 DEF Reply
    <3> HIDE DEF u, l
    <3>2. l > 0
      BY <1>6, <3>1
    <3>3. QED
      BY <3>2 DEF l
  <2>12. QED
    BY <2>3, <2>4, <2>8, <2>11
<1>26. ASSUME stage' = "copying" PROVE toret' /\ ~GotError(xfer, rep) /\ n = 1 /\ dest' = e /\ len > 0
  <2>1. ~GotError(xfer, rep) /\ len # 0
    BY <1>2, <1>26
  <2>2. len > 0
    BY <1>13, <2>1
  <2>3. QED
    BY <1>2, <1>7, <1>13, <2>1, <2>2
<1>27. ASSUME stage' = "copying", Steady
       PROVE  NoneReceived(xfer'.queue) /\ InOrder(xfer'.queue, table', asked', replies')
  <2>1. n = 1 /\ k = 1
    BY <1>25, <1>26, <1>27
  <2>2. NoneReceived(xfer.queue) /\ InOrder(xfer.queue, table, asked, replies)
    BY <1>7, <1>27
  <2>3. z.queue \in Seq(Req) /\ Len(z.queue) = Len(x.queue) - 1
        /\ \A i \in DOMAIN z.queue : i + 1 \in DOMAIN x.queue /\ z.queue[i] = x.queue[i + 1]
    BY <1>10, <2>1 DEF IsShort, XferRec
  <2>4. Len(x.queue) = Len(xfer.queue) /\ DOMAIN x.queue = DOMAIN xfer.queue
        /\ \A i \in DOMAIN xfer.queue : i # 1 => x.queue[i] = xfer.queue[i]
    BY <1>5, <2>1 DEF IsGot
  <2> HIDE DEF x, k
  <2>5. \A i \in DOMAIN z.queue : i + 1 \in DOMAIN xfer.queue /\ z.queue[i] = xfer.queue[i + 1]
    <3>1. TAKE i \in DOMAIN z.queue
    <3>2. i \in Nat \ {0}
      BY <2>3, SeqDomain
    <3>3. i + 1 # 1
      BY <3>2
    <3>4. QED
      BY <2>3, <2>4, <3>3
  <2>6. NoneReceived(z.queue)
    BY <2>2, <2>5 DEF NoneReceived
  <2>7. Distinct(replies)
    BY <1>4 DEF Going, Kept, Book
  <2>8. InOrder(z.queue, {t \in table : t.id # Head(replies).id}, asked, Tail(replies))
    <3>1. Len(z.queue) = Len(xfer.queue) - 1 /\ z.queue \in Seq(Req)
      BY <2>3, <2>4
    <3>2. \A i \in DOMAIN z.queue : z.queue[i].offset = xfer.queue[i + 1].offset
      BY <2>5
    <3>3. QED
      BY <1>3, <1>6, <2>2, <2>7, <3>1, <3>2, InOrderOn
  <2>9. QED
    BY <1>14, <2>6, <2>8 DEF Turned
<1>28. Download'
  <2>1. Good' => dest'.inorder
    BY <1>16, <1>26 DEF Good
  <2>2. Good' => Sound(xfer, dest)'
    <3>1. SUFFICES ASSUME Good' PROVE Sound(xfer, dest)'
      OBVIOUS
    <3>2. InStep(xfer', dest')
      BY <1>14, <1>16, <1>26, <3>1 DEF Good, Turned
    <3>3. InStep(xfer, dest)'
      BY <1>3, <3>2, InStepPrime
    <3>4. QED
      BY <1>2, <1>3, <3>3 DEF Sound
  <2>3. stage' = "copying" => toret' /\ (Steady' => NoneReceived(xfer'.queue) /\ InOrder(xfer'.queue, table', asked', replies'))
    BY <1>3, <1>26, <1>27 DEF Steady
  <2>4. (NoneReceived(xfer.queue)' <=> NoneReceived(xfer'.queue))
        /\ (InOrder(xfer.queue, table, asked, replies)' <=> InOrder(xfer'.queue, table', asked', replies'))
    OBVIOUS
  <2>5. QED
    BY <1>3, <1>14, <1>21, <2>1, <2>2, <2>3, <2>4 DEF Download, Turned
<1>29. CopiesWhole'
  <2>1. stage' = "died" => client' \in Failing \/ (client' = "pscp" /\ client' \in AnyOrder \cup Growing)
    <3>1. SUFFICES ASSUME stage' = "died", Steady PROVE FALSE
      BY <1>2, <1>3 DEF Steady
    <3>2. ~GotError(xfer, rep) /\ len > 0
      BY <1>25, <3>1
    <3>3. len # 0
      BY <3>2
    <3>4. stage' = "copying"
      BY <1>2, <3>2, <3>3
    <3>5. QED
      BY <3>1, <3>4
  <2>2. stage' # "done" /\ stage' # "lost"
    BY <1>22
  <2>3. QED
    BY <2>1, <2>2 DEF CopiesWhole
<1>30. ~Uploading'
  BY <1>2, <1>3 DEF Uploading
<1>31. QED
  BY <1>23, <1>24, <1>28, <1>29, <1>30 DEF IInv

LEMMA ShortNone ==
  ASSUME NEW x \in XferRec
  PROVE  IsShort(x, 0, x) /\ Upto(x.queue, 0)
<1>1. x.queue \in Seq(Req)
  BY DEF XferRec
<1>2. DOMAIN x.queue \subseteq Nat /\ Len(x.queue) \in Nat
  BY <1>1, SeqDomain, Zenon
<1> DEFINE q == x.queue
<1>3. \A i \in DOMAIN q : i + 0 = i
  BY <1>2
<1>4. Len(q) = Len(q) - 0 /\ 0 \in 0..Len(q) /\ 1..0 = {}
  BY <1>2
<1> HIDE DEF q
<1>5. /\ Len(q) = Len(q) - 0
      /\ \A i \in DOMAIN q : i + 0 \in DOMAIN q /\ q[i] = q[i + 0]
  BY <1>3, <1>4
<1>6. Upto(q, 0)
  BY <1>4 DEF Upto
<1>7. QED
  BY <1>5, <1>6 DEF IsShort, q

LEMMA PscpFinishKeeps ==
  ASSUME IInv, XferAssumption, PscpFinish
  PROVE  IInv'
<1>1. PICK rep \in Range(replies) :
        LET x == DownloadGotpkt(xfer, rep)
            y == IF GotError(xfer, rep) THEN x ELSE Dequeue(x, Max({0} \cup FirstData(x.queue)))
        IN  /\ client = "pscp" /\ stage = "copying" /\ dest.len >= statsize /\ Read(rep)
            /\ toret' = (toret /\ ~GotError(xfer, rep))
            /\ stage' = IF GotError(xfer, rep) THEN "done" ELSE stage
            /\ GoOn([y EXCEPT !.err = TRUE])
            /\ UNCHANGED <<dest, faults>>
  BY Zenon DEF PscpFinish
<1> DEFINE x == DownloadGotpkt(xfer, rep)
<1> DEFINE m == Max({0} \cup FirstData(x.queue))
<1> DEFINE n == IF GotError(xfer, rep) THEN 0 ELSE m
<1> DEFINE y == IF GotError(xfer, rep) THEN x ELSE Dequeue(x, m)
<1> DEFINE z == [y EXCEPT !.err = TRUE]
<1>2. /\ client = "pscp" /\ stage = "copying" /\ dest.len >= statsize /\ Read(rep)
      /\ toret' = (toret /\ ~GotError(xfer, rep))
      /\ stage' = IF GotError(xfer, rep) THEN "done" ELSE stage
      /\ GoOn(z) /\ dest' = dest /\ faults' = faults
  BY <1>1, Zenon
<1>3. replies # <<>> /\ rep = Head(replies) /\ client' = client /\ size' = size /\ statsize' = statsize /\ basis' = basis
  BY <1>2 DEF Read
<1>4. ~Uploading /\ Going /\ Download
  BY <1>2, IsGoing DEF Uploading, IInv
<1>5. x \in XferRec
  BY <1>3, <1>4, Reads
<1>6. x.queue \in Seq(Req) /\ Block \in Nat /\ dest \in File /\ dest.len \in Nat /\ statsize \in Nat
  BY <1>4, <1>5 DEF Going, TypeOK, XferRec, XferAssumption, File
<1>7. Upto(x.queue, n) /\ IsShort(x, n, y)
  <2>1. CASE GotError(xfer, rep)
    <3>1. n = 0 /\ y = x
      BY <2>1
    <3> HIDE DEF n, x, y
    <3>2. QED
      BY <1>5, <3>1, ShortNone DEF x
  <2>2. CASE ~GotError(xfer, rep)
    <3>1. n = m /\ y = Dequeue(x, m)
      BY <2>2
    <3>2. Upto(x.queue, m)
      <4> HIDE DEF x
      <4>1. QED
        BY <1>6, FirstDataUpto
    <3>3. m \in 0..Len(x.queue)
      BY <3>2 DEF Upto
    <3> HIDE DEF n, x, y, m
    <3>4. QED
      BY <1>5, <1>6, <3>1, <3>2, <3>3, DequeueIs DEF x
  <2>3. QED
    BY <2>1, <2>2
<1>8. IsShort(x, n, z)
  <2> HIDE DEF n, x, y
  <2>1. QED
    BY <1>7, ErrIs
<1> HIDE DEF n, y, z, m
<1>9. Turned(z)
  BY <1>2, <1>4, <1>7, <1>8, TurnedIs
<1>10. stage' \in {"copying", "done"} /\ toret' \in BOOLEAN /\ (toret' => toret) /\ (stage' = "done" => ~toret')
  BY <1>2, <1>4 DEF Going, TypeOK
<1>11. TypeOK'
  BY <1>2, <1>3, <1>4, <1>9, <1>10 DEF Going, TypeOK, Turned
<1>12. faults' = {} \/ client' \in Growing
  BY <1>2, <1>3 DEF IInv, Bookkeeping
<1>13. Bookkeeping'
  BY <1>2, <1>3, <1>9, <1>10, <1>12 DEF Turned, Bookkeeping, Kept
<1>14. Download'
  <2>1. Good' => Good
    BY <1>2, <1>3, <1>10 DEF Good
  <2>2. ~(dest'.len < statsize')
    BY <1>2, <1>3, <1>6
  <2>3. QED
    BY <1>2, <1>3, <1>4, <1>9, <2>1, <2>2 DEF Download, Turned
<1>15. CopiesWhole'
  BY <1>10 DEF CopiesWhole
<1>16. ~Uploading'
  BY <1>2, <1>3 DEF Uploading
<1>17. QED
  BY <1>11, <1>13, <1>14, <1>15, <1>16 DEF IInv

\* The same requests, the same books.
LEMMA BooksUnchanged ==
  ASSUME UNCHANGED <<client, size, statsize, xfer, table, asked, replies>>
  PROVE  /\ Kept(xfer.queue, xfer.offset, table, asked, replies) => Kept(xfer.queue, xfer.offset, table, asked, replies)'
         /\ Blocks(xfer) => Blocks(xfer)'
         /\ Received(xfer.queue) => Received(xfer.queue)'
         /\ NoneReceived(xfer.queue) => NoneReceived(xfer.queue)'
         /\ Uploading' = Uploading
<1>1. client' = client /\ size' = size /\ statsize' = statsize /\ xfer' = xfer /\ table' = table
      /\ asked' = asked /\ replies' = replies
  OBVIOUS
<1>2. Kept(xfer.queue, xfer.offset, table, asked, replies) => Kept(xfer.queue, xfer.offset, table, asked, replies)'
  <2>1. HAVE Kept(xfer.queue, xfer.offset, table, asked, replies)
  <2>2. Kept(xfer'.queue, xfer'.offset, table', asked', replies')
    BY <1>1, <2>1
  <2>3. QED
    BY <2>2, KeptPrime
<1>3. Received(xfer.queue) => Received(xfer.queue)'
  BY <1>1 DEF Received
<1>4. Blocks(xfer) => Blocks(xfer)'
  BY <1>1 DEF Blocks
<1>5. NoneReceived(xfer.queue) => NoneReceived(xfer.queue)'
  BY <1>1 DEF NoneReceived
<1>6. Uploading' = Uploading
  BY <1>1, Zenon DEF Uploading
<1>7. QED
  BY <1>2, <1>3, <1>4, <1>5, <1>6

LEMMA IsKept ==
  ASSUME IInv, stage # "lost"
  PROVE  Kept(xfer.queue, xfer.offset, table, asked, replies)
BY DEF IInv, Bookkeeping, Kept

LEMMA PscpEndsKeeps ==
  ASSUME IInv, XferAssumption, PscpEnds
  PROVE  IInv'
<1>1. /\ client = "pscp" /\ stage = "copying" /\ dest.len >= statsize /\ stage' = "done"
      /\ UNCHANGED <<client, size, statsize, xfer, table, asked, replies, dest, toret, basis, faults>>
      /\ XferDone([xfer EXCEPT !.err = TRUE])
  BY DEF PscpEnds
<1>2. /\ client' = client /\ size' = size /\ statsize' = statsize /\ xfer' = xfer /\ table' = table
      /\ asked' = asked /\ replies' = replies /\ dest' = dest /\ toret' = toret /\ basis' = basis /\ faults' = faults
  BY <1>1
<1>3. ~Uploading /\ Download /\ TypeOK /\ Kept(xfer.queue, xfer.offset, table, asked, replies)
  BY <1>1, IsKept DEF Uploading, IInv
<1>4. xfer.queue = <<>>
  <2>1. [xfer EXCEPT !.err = TRUE].queue = xfer.queue
    BY <1>3 DEF TypeOK, XferRec
  <2>2. QED
    BY <1>1, <2>1 DEF XferDone
<1>5. /\ Kept(xfer.queue, xfer.offset, table, asked, replies)' /\ Blocks(xfer)' /\ Received(xfer.queue)' /\ ~Uploading'
  <2>1. Blocks(xfer) /\ Received(xfer.queue)
    BY <1>3 DEF Download
  <2>2. UNCHANGED <<client, size, statsize, xfer, table, asked, replies>>
    BY <1>2
  <2>3. QED
    BY <1>3, <2>1, <2>2, BooksUnchanged
<1>6. TypeOK'
  BY <1>1, <1>2, <1>3 DEF TypeOK
<1>7. Bookkeeping'
  <2>1. faults' = {} \/ client' \in Growing
    BY <1>2 DEF IInv, Bookkeeping
  <2>2. QED
    BY <1>1, <1>2, <1>4, <1>5, <2>1 DEF Bookkeeping, Kept
<1>8. Download'
  <2>1. ~Good'
    BY <1>1 DEF Good
  <2>2. dest'.inorder => dest'.len <= size'
    BY <1>2, <1>3 DEF Download
  <2>3. xfer'.furthestdata <= size' /\ statsize' <= xfer'.filesize
    BY <1>2, <1>3 DEF Download
  <2>4. QED
    BY <1>1, <1>5, <2>1, <2>2, <2>3 DEF Download
<1>9. CopiesWhole'
  <2>1. ASSUME toret', basis' # "gap" PROVE dest'.inorder /\ dest'.len \in statsize'..size'
    <3>1. Good
      BY <1>1, <1>2, <2>1 DEF Good
    <3>2. dest.inorder /\ dest.len <= size
      BY <1>3, <3>1 DEF Download
    <3>3. dest.len \in Nat /\ size \in Nat /\ statsize \in Nat
      BY <1>3 DEF TypeOK, File
    <3>4. QED
      BY <1>1, <1>2, <3>2, <3>3
  <2>2. QED
    BY <1>1, <1>5, <2>1 DEF CopiesWhole
<1>10. QED
  BY <1>5, <1>6, <1>7, <1>8, <1>9 DEF IInv

LEMMA GrowKeeps ==
  ASSUME IInv, XferAssumption, Grow
  PROVE  IInv'
<1>1. /\ client \in Growing /\ size < MaxSize /\ size' = size + 1
      /\ client' = client /\ statsize' = statsize /\ xfer' = xfer /\ table' = table
      /\ asked' = asked /\ replies' = replies /\ dest' = dest /\ toret' = toret /\ stage' = stage
      /\ basis' = basis /\ faults' = faults
  BY DEF Grow
<1>2. TypeOK /\ size \in Nat /\ statsize \in Nat /\ statsize <= size /\ MaxSize \in Nat
  BY DEF IInv, TypeOK, XferAssumption
<1>3. size' \in 0..MaxSize /\ statsize' \in 0..size' /\ size <= size' /\ size' \in Nat
  BY <1>1, <1>2
<1>4. TypeOK'
  BY <1>1, <1>2, <1>3 DEF TypeOK
<1>5. ASSUME NEW rep \in Reply, NEW rr \in Req, AnswerOk(rep, rr) PROVE AnswerOk(rep, rr)'
  <2>1. rep.len \in Nat /\ rr.offset \in Nat
    BY DEF Reply, Req
  <2>2. Uploading' = Uploading
    BY <1>1 DEF Uploading
  <2> DEFINE u == rr.offset + rep.len
  <2>3. u \in Nat /\ (u <= size => u <= size')
    BY <1>2, <1>3, <2>1
  <2> HIDE DEF u
  <2>4. QED
    BY <1>1, <1>5, <2>2, <2>3 DEF AnswerOk, u
<1>6. replies \in Seq(Reply) /\ xfer.queue \in Seq(Req) /\ dest.len \in Nat
  BY <1>2 DEF TypeOK, XferRec, File
<1>7. Answers(xfer.queue, table, replies)'
  <2>1. Answers(xfer.queue, table, replies)
    BY DEF IInv, Bookkeeping
  <2>2. \A i \in DOMAIN replies : replies[i] \in Reply
    BY <1>6, SeqDomain
  <2>3. \A k \in DOMAIN xfer.queue : xfer.queue[k] \in Req
    BY <1>6, SeqDomain
  <2>4. \A i \in DOMAIN replies : replies[i].status = "FAILURE" => client' \in Failing
    BY <1>1, <2>1 DEF Answers
  <2>5. ASSUME NEW i \in DOMAIN replies, NEW t \in table, NEW k \in DOMAIN xfer.queue,
               replies[i].id = t.id /\ xfer.queue[k].offset = t.rr
        PROVE  AnswerOk(replies[i], xfer.queue[k])'
    <3>1. AnswerOk(replies[i], xfer.queue[k])
      BY <2>1, <2>5 DEF Answers
    <3> DEFINE a == replies[i]
    <3> DEFINE b == xfer.queue[k]
    <3>2. \A c \in Reply, d \in Req : AnswerOk(c, d) => (AnswerOk(c, d))'
      BY <1>5
    <3>3. a \in Reply /\ b \in Req
      BY <2>2, <2>3
    <3>4. QED
      BY <1>1, <3>1, <3>2, <3>3 DEF AnswerOk, Uploading
  <2>6. QED
    BY <1>1, <2>4, <2>5 DEF Answers
<1>8. Bookkeeping'
  BY <1>1, <1>7 DEF IInv, Bookkeeping, Ordered, Book, Waiting, Distinct, Entry, Ids
<1>9. Uploading' = Uploading
  BY <1>1 DEF Uploading
<1>10. ASSUME Download PROVE Download'
  <2>1. Received(xfer.queue)'
    <3>1. SUFFICES ASSUME NEW k \in DOMAIN xfer.queue, xfer.queue[k].complete = 1
                   PROVE  /\ xfer.queue[k].retlen <= Block
                          /\ xfer.queue[k].retlen > 0 => xfer.queue[k].offset + xfer.queue[k].retlen <= size'
                          /\ xfer.queue[k].retlen < Block => statsize <= xfer.queue[k].offset + xfer.queue[k].retlen
      BY <1>1 DEF Received
    <3>2. xfer.queue[k] \in Req
      BY <1>6, SeqDomain
    <3>3. xfer.queue[k].retlen \in Nat /\ xfer.queue[k].offset \in Nat
      BY <3>2 DEF Req
    <3> DEFINE a == xfer.queue[k].offset
    <3> DEFINE b == xfer.queue[k].retlen
    <3>4. b <= Block /\ (b > 0 => a + b <= size) /\ (b < Block => statsize <= a + b) /\ a \in Nat /\ b \in Nat
      BY <1>10, <3>1, <3>3 DEF Download, Received
    <3> HIDE DEF a, b
    <3>5. b > 0 => a + b <= size'
      BY <1>2, <1>3, <3>4
    <3>6. QED
      BY <3>4, <3>5 DEF a, b
  <2>2. dest'.inorder => dest'.len <= size'
    BY <1>1, <1>2, <1>3, <1>6, <1>10 DEF Download
  <2>3. xfer'.furthestdata <= size'
    <3>1. xfer.furthestdata \in Nat /\ xfer.furthestdata <= size
      BY <1>2, <1>10 DEF TypeOK, XferRec, Download
    <3>2. QED
      BY <1>1, <1>2, <1>3, <3>1
  <2>4. ~Steady'
    BY <1>1 DEF Steady
  <2>5. Blocks(xfer)' /\ (Good' => Good) /\ (Sound(xfer, dest) => Sound(xfer, dest)')
    BY <1>1, <1>10 DEF Blocks, Download, Good, Sound, InStep, Told, Placed, HeadAt, EofSeen
  <2>6. QED
    BY <1>1, <1>10, <2>1, <2>2, <2>3, <2>4, <2>5 DEF Download
<1>11. ASSUME Upload PROVE Upload'
  <2>1. 0..(size - 1) \subseteq 0..(size' - 1)
    BY <1>1, <1>2, <1>3
  <2>2. xfer.offset <= size'
    <3>1. xfer.offset \in Nat /\ xfer.offset <= size
      BY <1>2, <1>11 DEF TypeOK, XferRec, Upload
    <3>2. QED
      BY <1>2, <1>3, <3>1
  <2>3. NoneReceived(xfer.queue)' /\ (Good' => Good) /\ (Accounted(xfer.offset, dest, asked, replies) => Accounted(xfer.offset, dest, asked, replies)')
    BY <1>1, <1>11 DEF NoneReceived, Upload, Good, Accounted
  <2>4. QED
    BY <1>1, <1>11, <2>1, <2>2, <2>3 DEF Upload
<1>12. CopiesWhole'
  <2>1. statsize..size \subseteq statsize'..size'
    BY <1>1, <1>2, <1>3
  <2>2. CopiesWhole
    BY DEF IInv
  <2>3. ASSUME stage' = "done", toret', basis' # "gap"
        PROVE  IF Uploading' THEN \E n \in statsize'..size' : dest'.stored = 0..(n - 1)
                             ELSE dest'.inorder /\ dest'.len \in statsize'..size'
    BY <1>1, <1>9, <2>1, <2>2, <2>3 DEF CopiesWhole
  <2>4. QED
    BY <1>1, <2>2, <2>3 DEF CopiesWhole
<1>13. QED
  BY <1>4, <1>8, <1>9, <1>10, <1>11, <1>12 DEF IInv
-----------------------------------------------------------------------------
(* The server *)

Skip(k, i) == IF i < k THEN i ELSE i + 1

LEMMA RemoveAtIs ==
  ASSUME NEW S, NEW s \in Seq(S), NEW k \in DOMAIN s
  PROVE  /\ RemoveAt(s, k) \in Seq(S) /\ Len(RemoveAt(s, k)) = Len(s) - 1
         /\ \A i \in DOMAIN RemoveAt(s, k) : Skip(k, i) \in DOMAIN s \ {k} /\ RemoveAt(s, k)[i] = s[Skip(k, i)]
         /\ \A j \in DOMAIN s \ {k} : \E i \in DOMAIN RemoveAt(s, k) : Skip(k, i) = j
         /\ \A i, j \in DOMAIN RemoveAt(s, k) : i < j => Skip(k, i) < Skip(k, j)
<1> DEFINE a == SubSeq(s, 1, k - 1)
<1> DEFINE b == SubSeq(s, k + 1, Len(s))
<1> DEFINE r == RemoveAt(s, k)
<1>1. r = a \o b
  BY DEF RemoveAt
<1>2. k \in Nat /\ k >= 1 /\ k <= Len(s) /\ Len(s) \in Nat /\ DOMAIN s = 1..Len(s)
  OBVIOUS
<1>3. a \in Seq(S) /\ Len(a) = k - 1 /\ \A i \in 1..(k - 1) : a[i] = s[i]
  BY <1>2
<1>4. b \in Seq(S) /\ Len(b) = Len(s) - k /\ \A i \in 1..(Len(s) - k) : b[i] = s[k + i]
  BY <1>2
<1> HIDE DEF a, b
<1>5. /\ a \o b \in Seq(S) /\ Len(a \o b) = Len(a) + Len(b)
      /\ \A i \in 1..Len(a) : (a \o b)[i] = a[i]
      /\ \A i \in 1..Len(b) : (a \o b)[Len(a) + i] = b[i]
  <2>1. a \in Seq(S) /\ b \in Seq(S)
    BY <1>3, <1>4
  <2>2. IsConcat(S, a, b, a \o b)
    BY <2>1, Concat, Zenon
  <2>3. QED
    BY <2>2, Zenon DEF IsConcat
<1> HIDE DEF r
<1> DEFINE n == Len(s)
<1>6. r \in Seq(S) /\ Len(r) = n - 1 /\ n \in Nat /\ k \in 1..n
  <2>1. Len(r) = Len(a) + Len(b) /\ Len(a) = k - 1 /\ Len(b) = n - k /\ r \in Seq(S)
    BY <1>1, <1>3, <1>4, <1>5
  <2> DEFINE u == Len(a)
  <2> DEFINE v == Len(b)
  <2> DEFINE w == Len(r)
  <2>2. w = u + v /\ u = k - 1 /\ v = n - k /\ n \in Nat /\ k \in Nat /\ k >= 1 /\ k <= n
    BY <1>2, <2>1
  <2> HIDE DEF u, v, w, n
  <2>3. w = n - 1 /\ k \in 1..n
    BY <2>2
  <2>4. QED
    BY <2>1, <2>2, <2>3 DEF w
<1>7. DOMAIN r = 1..(n - 1)
  <2>1. DOMAIN r = 1..Len(r)
    BY <1>6, SeqDomain, Zenon
  <2>2. QED
    BY <1>6, <2>1
<1>8. \A i \in 1..(n - 1) : r[i] = s[Skip(k, i)]
  <2>1. TAKE i \in 1..(n - 1)
  <2>2. CASE i < k
    <3>1. i \in 1..(k - 1)
      BY <1>2, <2>2
    <3>2. r[i] = s[i]
      BY <1>1, <1>3, <1>5, <3>1
    <3>3. QED
      BY <2>2, <3>2 DEF Skip
  <2>3. CASE ~(i < k)
    <3>1. i - (k - 1) \in 1..(n - k) /\ (k - 1) + (i - (k - 1)) = i /\ k + (i - (k - 1)) = i + 1
      <4> HIDE DEF n
      <4>1. QED
        BY <1>6, <2>3
    <3> DEFINE j == i - (k - 1)
    <3>2. j \in 1..(n - k) /\ (k - 1) + j = i /\ k + j = i + 1
      BY <3>1
    <3> HIDE DEF j
    <3>3. (a \o b)[Len(a) + j] = b[j]
      BY <1>4, <1>5, <3>2
    <3>4. r[i] = b[j] /\ b[j] = s[k + j]
      BY <1>1, <1>3, <1>4, <3>2, <3>3
    <3>5. r[i] = s[i + 1]
      BY <3>2, <3>4
    <3>6. QED
      BY <2>3, <3>5 DEF Skip
  <2>4. QED
    BY <2>2, <2>3
<1>9. DOMAIN s = 1..n
  BY <1>2
<1> HIDE DEF n
<1>10. \A i \in 1..(n - 1) : Skip(k, i) \in (1..n) \ {k}
  BY <1>6 DEF Skip
<1>11. ASSUME NEW j \in (1..n) \ {k} PROVE \E i \in 1..(n - 1) : Skip(k, i) = j
  <2>1. CASE j < k
    <3>1. j \in 1..(n - 1) /\ Skip(k, j) = j
      BY <1>6, <2>1 DEF Skip
    <3>2. QED
      BY <3>1
  <2>2. CASE ~(j < k)
    <3>1. j - 1 \in 1..(n - 1) /\ ~(j - 1 < k) /\ j - 1 + 1 = j
      BY <1>6, <2>2
    <3>2. Skip(k, j - 1) = j
      BY <3>1 DEF Skip
    <3>3. QED
      BY <3>1, <3>2
  <2>3. QED
    BY <2>1, <2>2
<1>12. \A i, j \in 1..(n - 1) : i < j => Skip(k, i) < Skip(k, j)
  BY <1>6 DEF Skip
<1>13. QED
  BY <1>6, <1>7, <1>8, <1>9, <1>10, <1>11, <1>12 DEF r, n

LEMMA AppendIs ==
  ASSUME NEW S, NEW s \in Seq(S), NEW e \in S
  PROVE  /\ Append(s, e) \in Seq(S) /\ Len(Append(s, e)) = Len(s) + 1
         /\ Len(s) + 1 \in DOMAIN Append(s, e) /\ Append(s, e)[Len(s) + 1] = e
         /\ \A i \in DOMAIN s : i \in DOMAIN Append(s, e) /\ Append(s, e)[i] = s[i]
         /\ \A i \in DOMAIN Append(s, e) : i \in DOMAIN s \/ i = Len(s) + 1
OBVIOUS

\* The answer to the k-th request on its way.
LEMMA AnswerKept ==
  ASSUME NEW q \in Seq(Req), NEW top, NEW tab, NEW ask \in Seq(Sent), NEW reps \in Seq(Reply),
         Kept(q, top, tab, ask, reps), NEW k \in DOMAIN ask, NEW rep \in Reply, rep.id = ask[k].id,
         rep.status = "FAILURE" => client \in Failing,
         \A rr \in Req : rr.offset = ask[k].offset /\ rr.len = ask[k].len /\ rr.len > 0 => AnswerOk(rep, rr)
  PROVE  Kept(q, top, tab, RemoveAt(ask, k), Append(reps, rep))
<1> DEFINE ask1 == RemoveAt(ask, k)
<1> DEFINE reps1 == Append(reps, rep)
<1> DEFINE last == Len(reps) + 1
<1>1. /\ \A i \in DOMAIN ask1 : Skip(k, i) \in DOMAIN ask \ {k} /\ ask1[i] = ask[Skip(k, i)]
      /\ \A j \in DOMAIN ask \ {k} : \E i \in DOMAIN ask1 : Skip(k, i) = j
      /\ \A i, j \in DOMAIN ask1 : i < j => Skip(k, i) < Skip(k, j)
      /\ ask1 \in Seq(Sent)
  BY RemoveAtIs
<1>2. /\ reps1 \in Seq(Reply) /\ last \in DOMAIN reps1 /\ reps1[last] = rep
      /\ \A i \in DOMAIN reps : i \in DOMAIN reps1 /\ reps1[i] = reps[i]
      /\ \A i \in DOMAIN reps1 : i \in DOMAIN reps \/ i = last
  BY AppendIs
<1>3. DOMAIN ask1 \subseteq Nat
  BY <1>1, SeqDomain, Zenon
<1> HIDE DEF ask1, reps1, last
<1>4. Ordered(q, top) /\ Book(q, tab, ask, reps) /\ Waiting(q, tab) /\ Answers(q, tab, reps)
  BY DEF Kept
<1>5. /\ \A t, u \in tab : t.id = u.id \/ t.rr = u.rr => t = u
      /\ \A i \in DOMAIN ask : Entry(ask[i]) \in tab
      /\ \A i \in DOMAIN reps : reps[i].id \in Ids(tab)
      /\ \A i, j \in DOMAIN ask : ask[i].id = ask[j].id => i = j
      /\ \A i, j \in DOMAIN reps : reps[i].id = reps[j].id => i = j
      /\ \A i \in DOMAIN ask, j \in DOMAIN reps : ask[i].id # reps[j].id
      /\ \A t \in tab : (\E i \in DOMAIN ask : ask[i].id = t.id) \/ (\E i \in DOMAIN reps : reps[i].id = t.id)
      /\ \A t \in tab : \E j \in DOMAIN q : q[j].offset = t.rr /\ q[j].complete = 0
      /\ \A i \in DOMAIN ask, j \in DOMAIN q : q[j].offset = ask[i].offset => q[j].len = ask[i].len
  BY <1>4, Zenon DEF Book, Distinct
<1>6. Entry(ask[k]) \in tab /\ Entry(ask[k]).id = rep.id /\ Entry(ask[k]).rr = ask[k].offset
  BY <1>5 DEF Entry
<1>7. \A i \in DOMAIN ask1 : Entry(ask1[i]) \in tab
  BY <1>1, <1>5
<1>8. \A i \in DOMAIN reps1 : reps1[i].id \in Ids(tab)
  <2>1. rep.id \in Ids(tab)
    BY <1>6 DEF Ids
  <2>2. QED
    BY <1>2, <1>5, <2>1
<1>9. Distinct(ask1)
  <2>1. SUFFICES ASSUME NEW i \in DOMAIN ask1, NEW j \in DOMAIN ask1, ask1[i].id = ask1[j].id PROVE i = j
    BY DEF Distinct
  <2>2. Skip(k, i) = Skip(k, j)
    BY <1>1, <1>5, <2>1
  <2>3. i \in Nat /\ j \in Nat /\ (i < j => Skip(k, i) < Skip(k, j)) /\ (j < i => Skip(k, j) < Skip(k, i))
    BY <1>1, <1>3
  <2>4. k \in Nat
    BY SeqDomain
  <2>5. Skip(k, i) \in Nat /\ Skip(k, j) \in Nat
    BY <2>3, <2>4 DEF Skip
  <2>6. QED
    BY <2>2, <2>3, <2>5
<1>10. \A i \in DOMAIN ask : i # k => ask[i].id # rep.id
  BY <1>5
<1>11. Distinct(reps1)
  <2>1. SUFFICES ASSUME NEW i \in DOMAIN reps1, NEW j \in DOMAIN reps1, reps1[i].id = reps1[j].id PROVE i = j
    BY DEF Distinct
  <2>2. \A l \in DOMAIN reps : reps[l].id # rep.id
    BY <1>5
  <2>3. QED
    BY <1>2, <1>5, <2>1, <2>2
<1>12. \A i \in DOMAIN ask1, j \in DOMAIN reps1 : ask1[i].id # reps1[j].id
  <2>1. TAKE i \in DOMAIN ask1, j \in DOMAIN reps1
  <2>2. Skip(k, i) \in DOMAIN ask /\ Skip(k, i) # k /\ ask1[i] = ask[Skip(k, i)]
    BY <1>1
  <2>3. CASE j \in DOMAIN reps
    <3>1. ask[Skip(k, i)].id # reps[j].id
      BY <1>5, <2>2, <2>3
    <3>2. QED
      BY <1>2, <2>2, <2>3, <3>1
  <2>4. CASE j = last
    BY <1>2, <1>10, <2>2, <2>4
  <2>5. QED
    BY <1>2, <2>3, <2>4
<1>13. \A t \in tab : (\E i \in DOMAIN ask1 : ask1[i].id = t.id) \/ (\E i \in DOMAIN reps1 : reps1[i].id = t.id)
  <2>1. TAKE t \in tab
  <2>2. ASSUME NEW i \in DOMAIN ask, ask[i].id = t.id
        PROVE  (\E j \in DOMAIN ask1 : ask1[j].id = t.id) \/ (\E j \in DOMAIN reps1 : reps1[j].id = t.id)
    <3>1. CASE i = k
      BY <1>2, <2>2, <3>1
    <3>2. CASE i # k
      BY <1>1, <2>2, <3>2
    <3>3. QED
      BY <3>1, <3>2
  <2>3. ASSUME NEW i \in DOMAIN reps, reps[i].id = t.id PROVE \E j \in DOMAIN reps1 : reps1[j].id = t.id
    BY <1>2, <2>3
  <2>4. QED
    BY <1>5, <2>2, <2>3
<1>14. \A i \in DOMAIN ask1, j \in DOMAIN q : q[j].offset = ask1[i].offset => q[j].len = ask1[i].len
  <2>1. TAKE i \in DOMAIN ask1, j \in DOMAIN q
  <2>2. Skip(k, i) \in DOMAIN ask /\ ask1[i] = ask[Skip(k, i)]
    BY <1>1
  <2>3. \A l \in DOMAIN ask : q[j].offset = ask[l].offset => q[j].len = ask[l].len
    BY <1>5, Zenon
  <2>4. QED
    BY <2>2, <2>3
<1>15. Book(q, tab, ask1, reps1)
  BY <1>5, <1>7, <1>8, <1>9, <1>11, <1>12, <1>13, <1>14, Zenon DEF Book
<1>16. Answers(q, tab, reps1)
  <2>1. SUFFICES ASSUME NEW i \in DOMAIN reps1
                 PROVE  /\ reps1[i].status = "FAILURE" => client \in Failing
                        /\ \A t \in tab, j \in DOMAIN q : reps1[i].id = t.id /\ q[j].offset = t.rr => AnswerOk(reps1[i], q[j])
    BY DEF Answers
  <2>2. CASE i \in DOMAIN reps
    BY <1>2, <1>4, <2>2 DEF Answers
  <2>3. CASE i = last
    <3>1. reps1[i] = rep
      BY <1>2, <2>3
    <3>2. ASSUME NEW t \in tab, NEW j \in DOMAIN q, rep.id = t.id, q[j].offset = t.rr
          PROVE  AnswerOk(rep, q[j])
      <4>1. t = Entry(ask[k])
        BY <1>5, <1>6, <3>2
      <4>2. q[j].offset = ask[k].offset
        BY <1>6, <3>2, <4>1
      <4>3. q[j].len = ask[k].len /\ q[j].len > 0
        BY <1>4, <1>5, <4>2 DEF Ordered
      <4>4. q[j] \in Req
        BY SeqDomain
      <4>5. QED
        BY <4>2, <4>3, <4>4
    <3>3. QED
      BY <3>1, <3>2
  <2>4. QED
    BY <1>2, <2>2, <2>3
<1>17. QED
  BY <1>4, <1>15, <1>16 DEF Kept, ask1, reps1

LEMMA AnswerInOrder ==
  ASSUME NEW q \in Seq(Req), NEW tab, NEW ask \in Seq(Sent), NEW reps \in Seq(Reply), NEW rep \in Reply,
         1 \in DOMAIN ask, Entry(ask[1]) \in tab, rep.id = ask[1].id, InOrder(q, tab, ask, reps)
  PROVE  InOrder(q, tab, RemoveAt(ask, 1), Append(reps, rep))
<1> DEFINE ask1 == RemoveAt(ask, 1)
<1> DEFINE reps1 == Append(reps, rep)
<1>1. /\ ask1 \in Seq(Sent) /\ Len(ask1) = Len(ask) - 1
      /\ \A i \in DOMAIN ask1 : Skip(1, i) \in DOMAIN ask \ {1} /\ ask1[i] = ask[Skip(1, i)]
  BY RemoveAtIs
<1>2. /\ Len(reps1) = Len(reps) + 1 /\ reps1[Len(reps) + 1] = rep
      /\ \A i \in DOMAIN reps : reps1[i] = reps[i]
      /\ \A i \in DOMAIN reps1 : i \in DOMAIN reps \/ i = Len(reps) + 1
  BY AppendIs
<1>3. DOMAIN ask1 = 1..Len(ask1)
  BY <1>1, SeqDomain, Zenon
<1> HIDE DEF ask1, reps1
<1>4. Len(reps) \in Nat /\ Len(ask) \in Nat /\ Len(q) \in Nat
  BY SeqDomain, Zenon
<1>5. /\ Len(q) = Len(reps) + Len(ask)
      /\ \A i \in DOMAIN reps : [id |-> reps[i].id, rr |-> q[i].offset] \in tab
      /\ \A i \in DOMAIN ask : ask[i].offset = q[Len(reps) + i].offset
  BY DEF InOrder
<1>6. Len(q) = Len(reps1) + Len(ask1)
  BY <1>1, <1>2, <1>4, <1>5
<1>7. ASSUME NEW i \in DOMAIN reps1 PROVE [id |-> reps1[i].id, rr |-> q[i].offset] \in tab
  <2>1. CASE i \in DOMAIN reps
    BY <1>2, <1>5, <2>1
  <2>2. CASE i = Len(reps) + 1
    <3>1. ask[1].offset = q[Len(reps) + 1].offset
      BY <1>5
    <3>2. [id |-> reps1[i].id, rr |-> q[i].offset] = Entry(ask[1])
      BY <1>2, <2>2, <3>1 DEF Entry
    <3>3. QED
      BY <3>2
  <2>3. QED
    BY <1>2, <2>1, <2>2
<1>8. ASSUME NEW i \in DOMAIN ask1 PROVE ask1[i].offset = q[Len(reps1) + i].offset
  <2>1. i \in Nat /\ i >= 1
    BY <1>1, <1>3
  <2>2. Skip(1, i) = i + 1
    BY <2>1 DEF Skip
  <2>3. i + 1 \in DOMAIN ask /\ ask1[i] = ask[i + 1]
    BY <1>1, <2>2
  <2>4. ask[i + 1].offset = q[Len(reps) + (i + 1)].offset
    BY <1>5, <2>3
  <2>5. Len(reps) + (i + 1) = Len(reps1) + i
    BY <1>2, <1>4, <2>1
  <2>6. QED
    BY <2>3, <2>4, <2>5
<1>9. QED
  BY <1>6, <1>7, <1>8 DEF InOrder, ask1, reps1

\* What is asked for in an upload, and the data that is there.
Span(req) == req.offset .. req.offset + req.len - 1

LEMMA AnswerAccounted ==
  ASSUME NEW top, NEW d \in File, NEW d1 \in File, NEW ask \in Seq(Sent), NEW reps \in Seq(Reply),
         NEW k \in DOMAIN ask, NEW rep \in Reply, Accounted(top, d, ask, reps),
         d.stored \subseteq d1.stored, d1.stored \subseteq 0..(top - 1), top \in Nat,
         rep.status = "FAILURE" \/ Span(ask[k]) \subseteq d1.stored
  PROVE  Accounted(top, d1, RemoveAt(ask, k), Append(reps, rep))
<1> DEFINE ask1 == RemoveAt(ask, k)
<1> DEFINE reps1 == Append(reps, rep)
<1> DEFINE last == Len(reps) + 1
<1>1. /\ \A i \in DOMAIN ask1 : ask1[i] = ask[Skip(k, i)]
      /\ \A j \in DOMAIN ask \ {k} : \E i \in DOMAIN ask1 : Skip(k, i) = j
  BY RemoveAtIs
<1>2. /\ last \in DOMAIN reps1 /\ reps1[last] = rep
      /\ \A i \in DOMAIN reps : i \in DOMAIN reps1 /\ reps1[i] = reps[i]
  BY AppendIs
<1> HIDE DEF ask1, reps1, last
<1>3. ASSUME NEW u \in 0..(top - 1)
      PROVE  \/ u \in d1.stored
             \/ \E i \in DOMAIN ask1 : ask1[i].offset <= u /\ u < ask1[i].offset + ask1[i].len
             \/ \E i \in DOMAIN reps1 : reps1[i].status = "FAILURE"
  <2>1. CASE u \in d.stored
    BY <2>1
  <2>2. ASSUME NEW j \in DOMAIN ask, ask[j].offset <= u, u < ask[j].offset + ask[j].len
        PROVE  \/ u \in d1.stored
               \/ \E i \in DOMAIN ask1 : ask1[i].offset <= u /\ u < ask1[i].offset + ask1[i].len
               \/ \E i \in DOMAIN reps1 : reps1[i].status = "FAILURE"
    <3>1. CASE j = k
      <4>1. ask[k] \in Sent
        BY SeqDomain
      <4>2. ask[k].offset \in Nat /\ ask[k].len \in Nat
        BY <4>1 DEF Sent
      <4>3. u \in Span(ask[k])
        BY <2>2, <3>1, <4>2 DEF Span
      <4>4. QED
        BY <1>2, <4>3
    <3>2. CASE j # k
      <4>1. PICK i \in DOMAIN ask1 : Skip(k, i) = j
        BY <1>1, <3>2
      <4>2. ask1[i] = ask[j]
        BY <1>1, <4>1
      <4>3. QED
        BY <2>2, <4>2
    <3>3. QED
      BY <3>1, <3>2
  <2>3. ASSUME NEW i \in DOMAIN reps, reps[i].status = "FAILURE"
        PROVE  \E j \in DOMAIN reps1 : reps1[j].status = "FAILURE"
    BY <1>2, <2>3
  <2>4. QED
    BY <2>1, <2>2, <2>3 DEF Accounted
<1>4. QED
  BY <1>3 DEF Accounted, ask1, reps1

\* What the server has done with a request.
Answered(k, rep) ==
  /\ rep \in Reply /\ rep.id = asked[k].id /\ replies' = Append(replies, rep)
  /\ rep.status = "FAILURE" => client \in Failing
  /\ \A rr \in Req : rr.offset = asked[k].offset /\ rr.len = asked[k].len /\ rr.len > 0 => AnswerOk(rep, rr)
  /\ dest' \in File
  /\ IF Uploading THEN /\ dest'.inorder = dest.inorder
                       /\ dest'.stored \in {dest.stored, dest.stored \cup Span(asked[k])}
                       /\ rep.status = "FAILURE" \/ Span(asked[k]) \subseteq dest'.stored
     ELSE dest' = dest

LEMMA FoundOk ==
  ASSUME TypeOK, ~Uploading, NEW req \in Sent, NEW rr \in Req,
         rr.offset = req.offset, rr.len = req.len, rr.len > 0
  PROVE  Found(req) \in Reply /\ Found(req).id = req.id /\ Found(req).status # "FAILURE" /\ AnswerOk(Found(req), rr)
<1>1. req.offset \in Nat /\ req.len \in Nat /\ req.id \in Nat /\ size \in Nat /\ statsize \in Nat /\ statsize <= size
  BY DEF TypeOK, Sent
<1>2. CASE req.offset >= size
  <2>1. Found(req) = [id |-> req.id, status |-> "EOF", len |-> 0]
    BY <1>2 DEF Found
  <2>2. QED
    BY <1>1, <1>2, <2>1 DEF AnswerOk, Reply
<1>3. CASE ~(req.offset >= size)
  <2> DEFINE n == Min({req.len, size - req.offset})
  <2>1. n = IF req.len <= size - req.offset THEN req.len ELSE size - req.offset
    BY <1>1, MinOf
  <2>2. Found(req) = [id |-> req.id, status |-> "DATA", len |-> n]
    BY <1>3, Zenon DEF Found
  <2> HIDE DEF n
  <2>3. n \in Nat /\ n > 0 /\ n <= req.len /\ req.offset + n <= size /\ (n < req.len => req.offset + n = size)
    BY <1>1, <1>3, <2>1
  <2>4. QED
    BY <1>1, <2>2, <2>3 DEF AnswerOk, Reply
<1>4. QED
  BY <1>2, <1>3

LEMMA AnswerIs ==
  ASSUME TypeOK, NEW k \in DOMAIN asked, Answer(k)
  PROVE  \E rep : Answered(k, rep)
<1> DEFINE req == asked[k]
<1> DEFINE failed == [id |-> req.id, status |-> "FAILURE", len |-> 0]
<1> DEFINE stored == [id |-> req.id, status |-> "OK", len |-> 0]
<1>1. \/ /\ ~Uploading /\ replies' = Append(replies, Found(req)) /\ dest' = dest
      \/ /\ Uploading /\ replies' = Append(replies, stored)
         /\ dest' = [dest EXCEPT !.stored = @ \cup Span(req)]
      \/ /\ client \in Failing /\ replies' = Append(replies, failed) /\ dest' = dest
  BY Zenon DEF Answer, Span
<1>2. req \in Sent /\ dest \in File
  BY SeqDomain DEF TypeOK
<1>3. failed \in Reply /\ stored \in Reply /\ req.offset \in Nat /\ req.len \in Nat
  BY <1>2 DEF Sent, Reply
<1>4. Span(req) \subseteq Nat
  BY <1>3 DEF Span
<1>5. CASE ~Uploading /\ replies' = Append(replies, Found(req)) /\ dest' = dest
  <2> DEFINE rep == Found(req)
  <2>1. rep \in Reply /\ rep.id = req.id /\ rep.status # "FAILURE"
    <3>1. req.id \in Nat /\ size \in Nat
      BY <1>2 DEF Sent, TypeOK
    <3> DEFINE n == Min({req.len, size - req.offset})
    <3>2. n = IF req.len <= size - req.offset THEN req.len ELSE size - req.offset
      BY <1>3, <3>1, MinOf
    <3>3. rep = IF req.offset >= size THEN [id |-> req.id, status |-> "EOF", len |-> 0]
                ELSE [id |-> req.id, status |-> "DATA", len |-> n]
      BY Zenon DEF Found
    <3> HIDE DEF n, rep, req
    <3>4. ~(req.offset >= size) => n \in Nat
      BY <1>3, <3>1, <3>2
    <3>5. QED
      BY <3>1, <3>3, <3>4 DEF Reply
  <2>2. \A rr \in Req : rr.offset = req.offset /\ rr.len = req.len /\ rr.len > 0 => AnswerOk(rep, rr)
    BY <1>2, <1>5, FoundOk
  <2> HIDE DEF rep
  <2>3. Answered(k, rep)
    BY <1>2, <1>5, <2>1, <2>2 DEF Answered, rep
  <2>4. QED
    BY <2>3
<1>6. CASE Uploading /\ replies' = Append(replies, stored) /\ dest' = [dest EXCEPT !.stored = @ \cup Span(req)]
  <2>1. stored.id = req.id /\ stored.status = "OK"
    OBVIOUS
  <2>2. dest' \in File /\ dest'.inorder = dest.inorder /\ dest'.stored = dest.stored \cup Span(req)
    BY <1>2, <1>4, <1>6 DEF File
  <2> HIDE DEF stored, req
  <2>3. Answered(k, stored)
    BY <1>3, <1>6, <2>1, <2>2 DEF Answered, AnswerOk, req
  <2>4. QED
    BY <2>3
<1>7. CASE client \in Failing /\ replies' = Append(replies, failed) /\ dest' = dest
  <2>1. failed.id = req.id /\ failed.status = "FAILURE" /\ failed.len = 0
    OBVIOUS
  <2> HIDE DEF failed, req
  <2>2. Answered(k, failed)
    BY <1>2, <1>3, <1>7, <2>1 DEF Answered, AnswerOk, req
  <2>3. QED
    BY <2>2
<1>8. QED
  BY <1>1, <1>5, <1>6, <1>7

LEMMA AnswerKeeps ==
  ASSUME IInv, XferAssumption, NEW k \in DOMAIN asked, Answer(k)
  PROVE  IInv'
<1>1. /\ client \in AnyOrder \/ k = 1
      /\ asked' = RemoveAt(asked, k)
      /\ client' = client /\ size' = size /\ statsize' = statsize /\ xfer' = xfer /\ table' = table
      /\ toret' = toret /\ stage' = stage /\ basis' = basis /\ faults' = faults
  BY DEF Answer
<1>2. TypeOK /\ Bookkeeping /\ CopiesWhole
  BY DEF IInv
<1>3. PICK rep : Answered(k, rep)
  BY <1>2, AnswerIs
<1>4. asked \in Seq(Sent) /\ replies \in Seq(Reply) /\ xfer.queue \in Seq(Req) /\ dest \in File /\ xfer.offset \in Nat
      /\ size \in Nat /\ rep \in Reply /\ replies' = Append(replies, rep)
  BY <1>2, <1>3 DEF TypeOK, XferRec, Answered
<1>5. stage # "lost"
  <2>1. asked # <<>>
    OBVIOUS
  <2>2. QED
    BY <1>2, <2>1 DEF Bookkeeping
<1>6. Kept(xfer.queue, xfer.offset, table, asked, replies)
  BY <1>5, IsKept
<1>7. Entry(asked[k]) \in table
  BY <1>6 DEF Kept, Book
<1>8. PICK j \in DOMAIN xfer.queue : xfer.queue[j].offset = asked[k].offset /\ xfer.queue[j].len = asked[k].len
  <2>1. Entry(asked[k]).rr = asked[k].offset
    BY DEF Entry
  <2>2. PICK j \in DOMAIN xfer.queue : xfer.queue[j].offset = asked[k].offset
    BY <1>6, <1>7, <2>1 DEF Kept, Book
  <2>3. \A i \in DOMAIN asked, l \in DOMAIN xfer.queue : xfer.queue[l].offset = asked[i].offset => xfer.queue[l].len = asked[i].len
    BY <1>6, Zenon DEF Kept, Book
  <2>4. QED
    BY <2>2, <2>3
<1>9. ~(stage = "done" /\ (toret \/ client \in {"get", "put"}))
  <2>1. xfer.queue # <<>>
    BY <1>8
  <2>2. QED
    BY <1>2, <2>1 DEF Bookkeeping
<1>10. Kept(xfer.queue, xfer.offset, table, asked', replies')
  <2>1. /\ rep.id = asked[k].id /\ (rep.status = "FAILURE" => client \in Failing)
        /\ \A rr \in Req : rr.offset = asked[k].offset /\ rr.len = asked[k].len /\ rr.len > 0 => AnswerOk(rep, rr)
    BY <1>3 DEF Answered
  <2>2. Kept(xfer.queue, xfer.offset, table, RemoveAt(asked, k), Append(replies, rep))
    BY <1>4, <1>6, <2>1, AnswerKept
  <2>3. QED
    BY <1>1, <1>4, <2>2
<1>11. Kept(xfer.queue, xfer.offset, table, asked, replies)'
  BY <1>1, <1>10, KeptPrime
<1>12. asked' \in Seq(Sent) /\ replies' \in Seq(Reply) /\ dest' \in File
  <2>1. RemoveAt(asked, k) \in Seq(Sent)
    BY <1>4, RemoveAtIs
  <2>2. Append(replies, rep) \in Seq(Reply)
    BY <1>4
  <2>3. QED
    BY <1>1, <1>3, <1>4, <2>1, <2>2 DEF Answered
<1>13. TypeOK'
  BY <1>1, <1>2, <1>12 DEF TypeOK
<1>14. Bookkeeping'
  <2>1. ~(stage' = "lost") /\ ~(stage' = "done" /\ (toret' \/ client' \in {"get", "put"}))
    BY <1>1, <1>5, <1>9
  <2>2. faults' = {} \/ client' \in Growing
    BY <1>1, <1>2 DEF Bookkeeping
  <2>3. QED
    BY <1>11, <2>1, <2>2 DEF Bookkeeping, Kept
<1>15. CopiesWhole'
  BY <1>1, <1>2, <1>5, <1>9 DEF CopiesWhole
<1>16. Uploading' = Uploading
  BY <1>1 DEF Uploading
<1>17. ASSUME ~Uploading PROVE Download'
  <2>1. Download /\ dest' = dest
    BY <1>3, <1>17 DEF IInv, Answered
  <2>2. ASSUME Steady, InOrder(xfer.queue, table, asked, replies)
        PROVE  InOrder(xfer.queue, table, asked', replies')
    <3>1. k = 1
      BY <1>1, <2>2 DEF Steady
    <3>2. rep.id = asked[1].id /\ Entry(asked[1]) \in table
      BY <1>3, <1>7, <3>1 DEF Answered
    <3>3. InOrder(xfer.queue, table, RemoveAt(asked, 1), Append(replies, rep))
      BY <1>4, <2>2, <3>1, <3>2, AnswerInOrder
    <3>4. QED
      BY <1>1, <1>4, <3>1, <3>3
  <2>3. /\ Blocks(xfer)' /\ Received(xfer.queue)' /\ xfer'.furthestdata <= size' /\ statsize' <= xfer'.filesize
        /\ dest'.inorder => dest'.len <= size'
        /\ Good' => dest'.inorder
    BY <1>1, <2>1 DEF Download, Blocks, Received, Good
  <2>4. Good' /\ (client' = "get" \/ dest'.len < statsize') => Sound(xfer, dest)'
    <3>1. Sound(xfer, dest)' = Sound(xfer, dest)
      BY <1>1, <2>1 DEF Sound, InStep, Told, Placed, HeadAt, EofSeen
    <3>2. QED
      BY <1>1, <2>1, <3>1 DEF Download, Good
  <2>5. client' = "pscp" /\ stage' = "copying" /\ dest'.len < statsize' =>
          toret' /\ (Steady' => NoneReceived(xfer.queue)' /\ InOrder(xfer.queue, table, asked, replies)')
    <3>1. HAVE client' = "pscp" /\ stage' = "copying" /\ dest'.len < statsize'
    <3>2. toret /\ (Steady => NoneReceived(xfer.queue) /\ InOrder(xfer.queue, table, asked, replies))
      BY <1>1, <2>1, <3>1 DEF Download
    <3>3. Steady' = Steady /\ NoneReceived(xfer.queue)' = NoneReceived(xfer.queue)
      BY <1>1 DEF Steady, NoneReceived
    <3>4. InOrder(xfer.queue, table, asked', replies') => InOrder(xfer.queue, table, asked, replies)'
      BY <1>1 DEF InOrder
    <3>5. QED
      BY <1>1, <2>2, <3>2, <3>3, <3>4
  <2>6. QED
    BY <2>3, <2>4, <2>5 DEF Download
<1>18. ASSUME Uploading PROVE Upload'
  <2>1. Upload
    BY <1>18 DEF IInv
  <2>2. /\ dest'.inorder = dest.inorder
        /\ dest'.stored \in {dest.stored, dest.stored \cup Span(asked[k])}
        /\ rep.status = "FAILURE" \/ Span(asked[k]) \subseteq dest'.stored
    BY <1>3, <1>18 DEF Answered
  <2>3. Span(asked[k]) \subseteq 0..(xfer.offset - 1)
    <3>1. asked[k] \in Sent
      BY <1>4, SeqDomain
    <3>2. asked[k].offset \in Nat /\ asked[k].len \in Nat
      BY <3>1 DEF Sent
    <3>3. asked[k].offset + asked[k].len <= xfer.offset
      BY <1>6, <1>8 DEF Kept, Ordered
    <3> DEFINE a == asked[k].offset
    <3> DEFINE b == asked[k].len
    <3> DEFINE c == xfer.offset
    <3>4. a \in Nat /\ b \in Nat /\ c \in Nat /\ a + b <= c
      BY <1>4, <3>2, <3>3
    <3>5. Span(asked[k]) = a .. a + b - 1
      BY DEF Span
    <3> HIDE DEF a, b, c
    <3>6. a .. a + b - 1 \subseteq 0..(c - 1)
      BY <3>4
    <3>7. QED
      BY <3>5, <3>6 DEF c
  <2>4. 0..(xfer.offset - 1) \subseteq 0..(size - 1) /\ xfer.offset <= size
    BY <1>4, <2>1 DEF Upload
  <2>5. dest'.stored \subseteq 0..(size' - 1) /\ xfer'.offset <= size' /\ dest'.inorder /\ NoneReceived(xfer.queue)'
    BY <1>1, <2>1, <2>2, <2>3, <2>4 DEF Upload, NoneReceived
  <2>6. Good' => Accounted(xfer.offset, dest, asked, replies)'
    <3>1. HAVE Good'
    <3>2. Accounted(xfer.offset, dest, asked, replies)
      BY <1>1, <2>1, <3>1 DEF Good, Upload
    <3>3. dest.stored \subseteq dest'.stored /\ dest'.stored \subseteq 0..(xfer.offset - 1)
      BY <2>2, <2>3, <3>2 DEF Accounted
    <3>4. Accounted(xfer.offset, dest', RemoveAt(asked, k), Append(replies, rep))
      BY <1>4, <1>12, <2>2, <3>2, <3>3, AnswerAccounted
    <3>5. QED
      BY <1>1, <1>4, <3>4 DEF Accounted
  <2>7. QED
    BY <2>5, <2>6 DEF Upload
<1>19. QED
  BY <1>13, <1>14, <1>15, <1>16, <1>17, <1>18 DEF IInv
-----------------------------------------------------------------------------
(* Uploads *)

LEMMA RemovedTaken ==
  ASSUME NEW q \in Seq(Req), NEW k \in DOMAIN q
  PROVE  TakenUp(q, k, RemoveAt(q, k), [i \in DOMAIN RemoveAt(q, k) |-> Skip(k, i)])
<1> DEFINE r == RemoveAt(q, k)
<1> DEFINE g == [i \in DOMAIN r |-> Skip(k, i)]
<1>1. /\ r \in Seq(Req)
      /\ \A i \in DOMAIN r : Skip(k, i) \in DOMAIN q \ {k} /\ r[i] = q[Skip(k, i)]
      /\ \A j \in DOMAIN q \ {k} : \E i \in DOMAIN r : Skip(k, i) = j
      /\ \A i, j \in DOMAIN r : i < j => Skip(k, i) < Skip(k, j)
  BY RemoveAtIs
<1>2. \A i \in DOMAIN r : g[i] = Skip(k, i)
  OBVIOUS
<1>3. g \in [DOMAIN r -> DOMAIN q]
  BY <1>1
<1> HIDE DEF r, g
<1>4. \A i, j \in DOMAIN r : i < j => g[i] < g[j]
  BY <1>1, <1>2
<1>5. \A i \in DOMAIN r : g[i] # k /\ r[i] = q[g[i]]
  BY <1>1, <1>2
<1>6. \A j \in DOMAIN q : q[j].complete = 0 /\ j # k => \E i \in DOMAIN r : g[i] = j
  BY <1>1, <1>2
<1>7. TakenUp(q, k, r, g)
  BY <1>1, <1>3, <1>4, <1>5, <1>6 DEF TakenUp
<1>8. QED
  BY <1>7 DEF r, g

\* What a reply changes, in both of the loops that upload.
LEMMA UploadReads ==
  ASSUME IInv, XferAssumption, NEW rep, UploadGotpkt(rep),
         stage' = stage \/ (client = "send" /\ ~UploadOk(rep) /\ stage' \in {"died", "done"})
  PROVE  IInv'
<1> DEFINE k == IndexOf(xfer, Replied(rep))
<1> DEFINE q == xfer.queue
<1> DEFINE r == RemoveAt(q, k)
<1>1. /\ Uploading /\ stage = "copying" /\ Read(rep)
      /\ xfer' = [xfer EXCEPT !.queue = r, !.totalsize = @ - q[k].len]
      /\ table' = {t \in table : t.id # rep.id}
      /\ toret' = (toret /\ UploadOk(rep))
      /\ asked' = asked /\ dest' = dest /\ faults' = faults
  BY Zenon DEF UploadGotpkt
<1>2. /\ replies # <<>> /\ rep = Head(replies) /\ replies' = Tail(replies)
      /\ client' = client /\ size' = size /\ statsize' = statsize /\ basis' = basis
  BY <1>1 DEF Read
<1>3. TypeOK /\ Bookkeeping /\ Upload /\ Kept(q, xfer.offset, table, asked, replies)
  BY <1>1, IsKept DEF IInv
<1>4. /\ rep \in Reply /\ k \in DOMAIN q /\ q[k].complete = 0 /\ AnswerOk(rep, q[k])
      /\ rep.status = "FAILURE" => client \in Failing
      /\ \E t \in table : t.id = rep.id /\ q[k].offset = t.rr
  BY <1>2, <1>3, Finds DEF Bookkeeping
<1>5. rep.status \in {"OK", "FAILURE"}
  BY <1>1, <1>4 DEF AnswerOk
<1>6. q \in Seq(Req) /\ replies \in Seq(Reply) /\ xfer \in XferRec /\ dest \in File
  BY <1>3 DEF TypeOK, XferRec
<1> HIDE DEF k
<1>7. TakenUp(q, k, r, [i \in DOMAIN r |-> Skip(k, i)])
  BY <1>4, <1>6, RemovedTaken
<1>8. /\ r \in Seq(Req)
      /\ \A i \in DOMAIN r : Skip(k, i) \in DOMAIN q \ {k} /\ r[i] = q[Skip(k, i)]
  BY <1>4, <1>6, RemoveAtIs
<1> DEFINE g == [i \in DOMAIN r |-> Skip(k, i)]
<1> HIDE DEF r, g
<1>9. Kept(r, xfer.offset, {t \in table : t.id # Head(replies).id}, asked, Tail(replies))
  <2>1. PICK t \in table : t.id = Head(replies).id /\ t.rr = q[k].offset
    BY <1>2, <1>4
  <2>2. TakenUp(q, k, r, g)
    BY <1>7 DEF g
  <2>3. QED
    BY <1>2, <1>3, <1>4, <1>6, <2>1, <2>2, TakenKept
<1>10. q[k] \in Req
  BY <1>4, <1>6, SeqDomain
<1>11. xfer' \in XferRec /\ xfer'.queue = r /\ xfer'.offset = xfer.offset
  <2> HIDE DEF q
  <2>1. q[k].len \in Int /\ xfer.totalsize \in Int
    BY <1>6, <1>10 DEF Req, XferRec
  <2>2. xfer.totalsize - q[k].len \in Int
    BY <2>1
  <2>3. QED
    BY <1>1, <1>6, <1>8, <2>2 DEF XferRec
<1>12. Kept(xfer.queue, xfer.offset, table, asked, replies)'
  <2>1. Kept(xfer'.queue, xfer'.offset, table', asked', replies')
    BY <1>1, <1>2, <1>9, <1>11
  <2>2. QED
    BY <1>2, <2>1, KeptPrime
<1>13. TypeOK'
  <2>1. table' \subseteq table /\ Ids(table') \subseteq Ids(table)
    BY <1>1 DEF Ids
  <2>2. IsFiniteSet(Ids(table'))
    BY <1>3, <2>1, FS_Subset DEF TypeOK
  <2>3. replies' \in Seq(Reply)
    BY <1>2, <1>6, TailAt
  <2>4. stage' \in {"copying", "died", "done"} /\ toret' \in BOOLEAN
    BY <1>1, <1>3 DEF TypeOK, UploadOk
  <2>5. QED
    BY <1>1, <1>2, <1>3, <1>11, <2>1, <2>2, <2>3, <2>4 DEF TypeOK
<1>14. stage' # "lost" /\ (stage' = "done" => ~toret' /\ client = "send") /\ (stage' = "died" => client \in Failing)
  BY <1>1, <1>4, <1>5 DEF UploadOk
<1>15. Bookkeeping'
  <2>1. faults' = {} \/ client' \in Growing
    BY <1>1, <1>2, <1>3 DEF Bookkeeping
  <2>2. QED
    BY <1>2, <1>12, <1>14, <2>1 DEF Bookkeeping, Kept
<1>16. CopiesWhole'
  BY <1>2, <1>14 DEF CopiesWhole
<1>17. NoneReceived(xfer.queue)'
  BY <1>3, <1>8, <1>11 DEF Upload, NoneReceived
<1>18. Good' => Accounted(xfer.offset, dest, asked, replies)'
  <2>1. HAVE Good'
  <2>2. Good /\ rep.status = "OK"
    BY <1>1, <1>2, <2>1 DEF Good, UploadOk
  <2>3. Accounted(xfer.offset, dest, asked, replies)
    BY <1>3, <2>2 DEF Upload
  <2> DEFINE rest == Tail(replies)
  <2>4. /\ Head(replies) = replies[1]
        /\ \A i \in DOMAIN rest : i + 1 \in DOMAIN replies /\ rest[i] = replies[i + 1]
        /\ \A i \in DOMAIN replies : i = 1 \/ \E j \in DOMAIN rest : i = j + 1
    BY <1>2, <1>6, TailAt
  <2> HIDE DEF rest
  <2>5. ASSUME NEW i \in DOMAIN replies, replies[i].status = "FAILURE"
        PROVE  \E j \in DOMAIN rest : rest[j].status = "FAILURE"
    <3>1. i # 1
      BY <1>2, <2>2, <2>4, <2>5
    <3>2. PICK j \in DOMAIN rest : i = j + 1
      BY <2>4, <3>1
    <3>3. QED
      BY <2>4, <2>5, <3>2
  <2>6. Accounted(xfer.offset, dest, asked, rest)
    BY <2>3, <2>5 DEF Accounted
  <2>7. QED
    BY <1>1, <1>2, <1>11, <2>6 DEF rest, Accounted
<1>19. Upload'
  BY <1>1, <1>2, <1>3, <1>11, <1>17, <1>18 DEF Upload
<1>20. Uploading'
  BY <1>1, <1>2 DEF Uploading
<1>21. QED
  BY <1>13, <1>15, <1>16, <1>19, <1>20 DEF IInv

LEMMA RepliesKeep ==
  ASSUME IInv, XferAssumption, PutReply \/ SendReply
  PROVE  IInv'
<1>1. CASE PutReply
  <2>1. PICK rep \in Range(replies) : UploadGotpkt(rep) /\ stage' = stage
    BY <1>1 DEF PutReply
  <2>2. QED
    BY <2>1, UploadReads
<1>2. CASE SendReply
  <2>1. PICK rep \in Range(replies) :
          /\ client = "send" /\ UploadGotpkt(rep)
          /\ stage' = IF UploadOk(rep) THEN stage ELSE IF LocalLeft > 0 THEN "died" ELSE "done"
    BY <1>2 DEF SendReply
  <2>2. stage' = stage \/ (client = "send" /\ ~UploadOk(rep) /\ stage' \in {"died", "done"})
    BY <2>1
  <2>3. QED
    BY <2>1, <2>2, UploadReads
<1>3. QED
  BY <1>1, <1>2

LEMMA NothingLeft ==
  ASSUME NEW tab, NEW ask \in Seq(Sent), NEW reps \in Seq(Reply), Book(<<>>, tab, ask, reps)
  PROVE  tab = {} /\ ask = <<>> /\ reps = <<>>
<1>1. \A t \in tab : \E k \in DOMAIN <<>> : TRUE
  BY Zenon DEF Book
<1>2. tab = {}
  BY <1>1
<1>3. \A i \in DOMAIN ask : FALSE
  BY <1>2 DEF Book
<1>4. \A i \in DOMAIN reps : FALSE
  BY <1>2 DEF Book, Ids
<1>5. DOMAIN ask = 1..Len(ask) /\ Len(ask) \in Nat /\ (ask = <<>> <=> Len(ask) = 0)
  BY SeqDomain, Zenon
<1>6. DOMAIN reps = 1..Len(reps) /\ Len(reps) \in Nat /\ (reps = <<>> <=> Len(reps) = 0)
  BY SeqDomain, Zenon
<1>7. Len(ask) = 0 /\ Len(reps) = 0
  <2> DEFINE a == Len(ask)
  <2> DEFINE b == Len(reps)
  <2>1. a \in Nat /\ b \in Nat /\ (\A i \in 1..a : FALSE) /\ (\A i \in 1..b : FALSE)
    BY <1>3, <1>4, <1>5, <1>6, Zenon
  <2> HIDE DEF a, b
  <2>2. a = 0 /\ b = 0
    <3>1. a > 0 => 1 \in 1..a
      BY <2>1
    <3>2. b > 0 => 1 \in 1..b
      BY <2>1
    <3>3. QED
      BY <2>1, <3>1, <3>2
  <2>3. QED
    BY <2>2 DEF a, b
<1>8. QED
  BY <1>2, <1>5, <1>6, <1>7

LEMMA PutReadFailsKeeps ==
  ASSUME IInv, XferAssumption, PutReadFails
  PROVE  IInv'
<1>1. /\ Uploading /\ stage = "copying" /\ client \in Failing /\ toret' = FALSE
      /\ stage' \in {"copying", "died"}
      /\ client' = client /\ size' = size /\ statsize' = statsize /\ xfer' = xfer /\ table' = table
      /\ asked' = asked /\ replies' = replies /\ dest' = dest /\ basis' = basis /\ faults' = faults
  BY DEF PutReadFails
<1>2. TypeOK /\ Upload /\ Kept(xfer.queue, xfer.offset, table, asked, replies)
  BY <1>1, IsKept DEF IInv
<1>3. Kept(xfer.queue, xfer.offset, table, asked, replies)' /\ NoneReceived(xfer.queue)' /\ Uploading'
  <2>1. UNCHANGED <<client, size, statsize, xfer, table, asked, replies>> /\ NoneReceived(xfer.queue)
    BY <1>1, <1>2 DEF Upload
  <2>2. QED
    BY <1>1, <1>2, <2>1, BooksUnchanged
<1>4. TypeOK'
  BY <1>1, <1>2 DEF TypeOK
<1>5. Bookkeeping'
  <2>1. faults' = {} \/ client' \in Growing
    BY <1>1 DEF IInv, Bookkeeping
  <2>2. QED
    BY <1>1, <1>3, <2>1 DEF Bookkeeping, Kept
<1>6. Upload'
  BY <1>1, <1>2, <1>3 DEF Upload, Good
<1>7. CopiesWhole'
  BY <1>1 DEF CopiesWhole
<1>8. QED
  BY <1>3, <1>4, <1>5, <1>6, <1>7 DEF IInv

LEMMA PutEndsKeeps ==
  ASSUME IInv, XferAssumption, PutEnds
  PROVE  IInv'
<1>1. /\ Uploading /\ stage = "copying" /\ stage' = "done" /\ (~toret \/ LocalLeft = 0) /\ XferDone(xfer)
      /\ client' = client /\ size' = size /\ statsize' = statsize /\ xfer' = xfer /\ table' = table
      /\ asked' = asked /\ replies' = replies /\ dest' = dest /\ toret' = toret /\ basis' = basis /\ faults' = faults
  BY DEF PutEnds
<1>2. TypeOK /\ Upload /\ Kept(xfer.queue, xfer.offset, table, asked, replies)
  BY <1>1, IsKept DEF IInv
<1>3. Kept(xfer.queue, xfer.offset, table, asked, replies)' /\ NoneReceived(xfer.queue)' /\ Uploading'
  <2>1. UNCHANGED <<client, size, statsize, xfer, table, asked, replies>> /\ NoneReceived(xfer.queue)
    BY <1>1, <1>2 DEF Upload
  <2>2. QED
    BY <1>1, <1>2, <2>1, BooksUnchanged
<1>4. TypeOK'
  BY <1>1, <1>2 DEF TypeOK
<1>5. xfer.queue = <<>>
  BY <1>1 DEF XferDone
<1>6. Bookkeeping'
  <2>1. faults' = {} \/ client' \in Growing
    BY <1>1 DEF IInv, Bookkeeping
  <2>2. QED
    BY <1>1, <1>3, <1>5, <2>1 DEF Bookkeeping, Kept
<1>7. Upload'
  BY <1>1, <1>2, <1>3 DEF Upload, Good
<1>8. ASSUME toret, basis # "gap" PROVE dest.stored = 0..(size - 1) /\ size \in statsize..size
  <2>1. Accounted(xfer.offset, dest, asked, replies)
    BY <1>1, <1>2, <1>8 DEF Upload, Good
  <2>2. asked = <<>> /\ replies = <<>>
    <3>1. Book(<<>>, table, asked, replies) /\ asked \in Seq(Sent) /\ replies \in Seq(Reply)
      BY <1>2, <1>5 DEF Kept, TypeOK
    <3>2. QED
      BY <3>1, NothingLeft
  <2>3. size \in Nat /\ statsize \in Nat /\ statsize <= size /\ xfer.offset \in Nat
    BY <1>2 DEF TypeOK, XferRec
  <2>4. xfer.offset = size
    BY <1>1, <1>8, <2>3 DEF LocalLeft
  <2>5. \A u \in 0..(size - 1) : u \in dest.stored
    BY <2>1, <2>2, <2>4 DEF Accounted
  <2>6. dest.stored \subseteq 0..(size - 1)
    BY <1>2 DEF Upload
  <2>7. dest.stored = 0..(size - 1)
    BY <2>5, <2>6, Zenon
  <2>8. size \in statsize..size
    BY <2>3
  <2>9. QED
    BY <2>7, <2>8
<1>9. CopiesWhole'
  <2>1. ASSUME toret', basis' # "gap" PROVE \E n \in statsize'..size' : dest'.stored = 0..(n - 1)
    BY <1>1, <1>8, <2>1
  <2>2. QED
    BY <1>1, <1>3, <2>1 DEF CopiesWhole
<1>10. QED
  BY <1>3, <1>4, <1>6, <1>7, <1>9 DEF IInv

\* What a piece that is sent adds to what is accounted for.
LEMMA SentAccounted ==
  ASSUME NEW s \in State, NEW len \in Nat, NEW n \in Nat, n = 1, NEW t, GrownSeqs(s, t, len, n),
         NEW d \in File, NEW reps, Accounted(s.x.offset, d, s.asked, reps)
  PROVE  Accounted(s.x.offset + len, d, t.asked, reps)
<1> DEFINE o == s.x.offset
<1> DEFINE m == Len(s.asked) + 1
<1>1. o \in Nat
  BY DEF State, XferRec
<1>2. /\ \A i \in DOMAIN s.asked : i \in DOMAIN t.asked /\ t.asked[i] = s.asked[i]
      /\ \A j \in 1..n : Len(s.asked) + j \in DOMAIN t.asked
  BY GrownDomains
<1>3. 1 \in 1..n
  OBVIOUS
<1>4. m \in DOMAIN t.asked /\ t.asked[m] = [id |-> FreeId(s.table, 1), offset |-> At(o, len, 1), len |-> len]
  BY <1>2, <1>3 DEF GrownSeqs
<1>5. At(o, len, 1) = o
  BY <1>1, AtFirst
<1>6. t.asked[m].offset = o /\ t.asked[m].len = len
  BY <1>4, <1>5
<1> HIDE DEF m, o
<1>7. /\ d.stored \subseteq 0..(o - 1)
      /\ \A u \in 0..(o - 1) : \/ u \in d.stored
                               \/ \E i \in DOMAIN s.asked : s.asked[i].offset <= u /\ u < s.asked[i].offset + s.asked[i].len
                               \/ \E i \in DOMAIN reps : reps[i].status = "FAILURE"
  BY DEF Accounted, o
<1> DEFINE p == o + len
<1>8. p = o + len /\ p \in Nat
  BY <1>1
<1> HIDE DEF p
<1>9. d.stored \subseteq 0..(p - 1)
  BY <1>1, <1>7, <1>8
<1>10. ASSUME NEW u \in 0..(p - 1)
      PROVE  \/ u \in d.stored
             \/ \E i \in DOMAIN t.asked : t.asked[i].offset <= u /\ u < t.asked[i].offset + t.asked[i].len
             \/ \E i \in DOMAIN reps : reps[i].status = "FAILURE"
  <2>1. CASE u < o
    <3>1. u \in 0..(o - 1)
      BY <1>1, <2>1
    <3>2. ASSUME NEW i \in DOMAIN s.asked, s.asked[i].offset <= u, u < s.asked[i].offset + s.asked[i].len
          PROVE  \E j \in DOMAIN t.asked : t.asked[j].offset <= u /\ u < t.asked[j].offset + t.asked[j].len
      BY <1>2, <3>2
    <3>3. QED
      BY <1>7, <3>1, <3>2
  <2>2. CASE ~(u < o)
    <3>1. o <= u /\ u < o + len
      BY <1>1, <1>8, <2>2
    <3>2. QED
      BY <1>4, <1>6, <3>1
  <2>3. QED
    BY <2>1, <2>2
<1>11. Accounted(p, d, t.asked, reps)
  BY <1>9, <1>10, Zenon DEF Accounted
<1>12. QED
  BY <1>11 DEF o, p

LEMMA PutSendKeeps ==
  ASSUME IInv, XferAssumption, PutSend
  PROVE  IInv'
<1> DEFINE s == [x |-> xfer, table |-> table, asked |-> asked]
<1> DEFINE len == Min({Piece, LocalLeft})
<1> DEFINE t == Queued(s, len, 1)
<1>1. /\ Uploading /\ stage = "copying" /\ toret /\ LocalLeft > 0
      /\ xfer' = t.x /\ table' = t.table /\ asked' = t.asked
      /\ client' = client /\ size' = size /\ statsize' = statsize /\ replies' = replies /\ dest' = dest
      /\ toret' = toret /\ stage' = stage /\ basis' = basis /\ faults' = faults
  BY Zenon DEF PutSend
<1>2. TypeOK /\ Upload /\ Kept(xfer.queue, xfer.offset, table, asked, replies)
  BY <1>1, IsKept DEF IInv
<1>3. s.x = xfer /\ s.table = table /\ s.asked = asked /\ s \in State /\ IsFiniteSet(Ids(s.table))
  BY <1>2 DEF State, TypeOK
<1>4. xfer.offset \in Nat /\ size \in Nat /\ Piece \in Nat /\ Piece > 0 /\ dest \in File /\ replies \in Seq(Reply)
  BY <1>2 DEF TypeOK, XferRec, XferAssumption
<1>5. len \in Nat /\ len > 0 /\ xfer.offset + len <= size
  <2>1. LocalLeft \in Int /\ LocalLeft = size - xfer.offset
    BY <1>4 DEF LocalLeft
  <2>2. len = IF Piece <= LocalLeft THEN Piece ELSE LocalLeft
    BY <1>4, <2>1, MinOf
  <2> HIDE DEF len
  <2>3. QED
    BY <1>1, <1>4, <2>1, <2>2
<1> HIDE DEF s, len, t
<1>6. Grown(s, t, len, 1)
  <2>1. 1 \in Nat
    OBVIOUS
  <2>2. QED
    BY <1>3, <1>5, <2>1, QueuedGrows DEF t
<1>7. 1 \in Nat
  OBVIOUS
<1>8. GrownSeqs(s, t, len, 1)
  BY <1>3, <1>5, <1>6, <1>7, GrownParts
<1>9. t.table \subseteq [id : Nat, rr : Nat] /\ IsFiniteSet(Ids(t.table))
  BY <1>3, <1>5, <1>6, <1>7, GrownTable
<1>10. Kept(t.x.queue, t.x.offset, t.table, t.asked, replies)
  <2>1. Kept(s.x.queue, s.x.offset, s.table, s.asked, replies)
    BY <1>2, <1>3
  <2>2. QED
    BY <1>3, <1>4, <1>5, <1>6, <1>7, <1>8, <2>1, GrownKept
<1>11. Kept(xfer.queue, xfer.offset, table, asked, replies)'
  <2>1. Kept(xfer'.queue, xfer'.offset, table', asked', replies')
    BY <1>1, <1>10
  <2>2. QED
    BY <1>1, <2>1, KeptPrime
<1>12. t.x \in XferRec /\ t.asked \in Seq(Sent) /\ t.x.offset = xfer.offset + len
  <2>1. 1 * len = len
    BY <1>5
  <2>2. t.x \in XferRec /\ t.asked \in Seq(Sent) /\ t.x.offset = s.x.offset + 1 * len
    BY <1>8 DEF GrownSeqs
  <2>3. QED
    BY <1>3, <2>1, <2>2
<1>13. TypeOK'
  BY <1>1, <1>2, <1>9, <1>12 DEF TypeOK
<1>14. Bookkeeping'
  <2>1. faults' = {} \/ client' \in Growing
    BY <1>1 DEF IInv, Bookkeeping
  <2>2. QED
    BY <1>1, <1>11, <2>1 DEF Bookkeeping, Kept
<1>15. NoneReceived(t.x.queue)
  <2>1. SUFFICES ASSUME NEW k \in DOMAIN t.x.queue PROVE t.x.queue[k].complete = 0
    BY DEF NoneReceived
  <2>2. \/ k \in DOMAIN s.x.queue /\ t.x.queue[k] = s.x.queue[k]
        \/ \E j \in 1..1 : k = Len(s.x.queue) + j /\ NewAt(s, len, j, t.x.queue[k])
    BY <1>3, <1>5, <1>7, <1>8, GrownQueue
  <2>3. QED
    BY <1>2, <1>3, <2>2 DEF Upload, NoneReceived, NewAt
<1>16. Good' => Accounted(xfer.offset, dest, asked, replies)'
  <2>1. HAVE Good'
  <2>2. Accounted(s.x.offset, dest, s.asked, replies)
    BY <1>1, <1>2, <1>3, <2>1 DEF Good, Upload
  <2>3. Accounted(s.x.offset + len, dest, t.asked, replies)
    BY <1>3, <1>4, <1>5, <1>7, <1>8, <2>2, SentAccounted
  <2>4. QED
    BY <1>1, <1>3, <1>12, <2>3 DEF Accounted
<1>17. Upload'
  <2>1. NoneReceived(xfer.queue)'
    BY <1>1, <1>15 DEF NoneReceived
  <2>2. xfer'.offset <= size'
    BY <1>1, <1>5, <1>12
  <2>3. QED
    BY <1>1, <1>2, <1>16, <2>1, <2>2 DEF Upload
<1>18. CopiesWhole'
  BY <1>1 DEF CopiesWhole
<1>19. Uploading'
  BY <1>1 DEF Uploading
<1>20. QED
  BY <1>13, <1>14, <1>17, <1>18, <1>19 DEF IInv
-----------------------------------------------------------------------------
(* Interruption, and going on *)

LEMMA WrittenIs ==
  ASSUME IInv, XferAssumption, stage = "copying", NEW len \in Written
  PROVE  /\ len \in Nat
         /\ ~Uploading /\ dest.inorder => len <= size
<1> DEFINE x == DownloadGotpkt(xfer, Head(replies))
<1> DEFINE n == Max({0} \cup Completed(x.queue))
<1> DEFINE e == Appended(dest, x.queue, n)
<1>1. TypeOK /\ dest \in File /\ dest.len \in Nat /\ size \in Nat
  BY DEF IInv, TypeOK, File
<1>2. \/ len = dest.len
      \/ client = "get" /\ replies # <<>> /\ dest.inorder /\ e.inorder /\ len \in dest.len .. e.len
  BY Zenon DEF Written
<1>3. ~Uploading /\ dest.inorder => dest.len <= size
  BY DEF IInv, Download
<1>4. CASE len = dest.len
  BY <1>1, <1>3, <1>4
<1>5. CASE client = "get" /\ replies # <<>> /\ dest.inorder /\ e.inorder /\ len \in dest.len .. e.len
  <2>1. ~Uploading /\ Going
    BY <1>5, IsGoing DEF Uploading
  <2>2. x \in XferRec /\ Received(x.queue)
    BY <1>5, <2>1, Reads
  <2>3. x.queue \in Seq(Req) /\ Block \in Nat
    BY <2>2 DEF XferRec, XferAssumption
  <2>4. Upto(x.queue, n)
    BY <2>3, CompletedUpto
  <2> HIDE DEF n
  <2>5. Copied(dest, x.queue, n)
    BY <1>1, <2>2, <2>3, <2>4, AppendedCopies
  <2>6. e \in File /\ ((dest.inorder => dest.len <= size) => (e.inorder => e.len <= size))
    BY <2>5 DEF Copied
  <2> HIDE DEF e
  <2>7. e.len \in Nat /\ e.len <= size
    BY <1>3, <1>5, <2>1, <2>6 DEF File
  <2>8. QED
    BY <1>1, <1>5, <2>7
<1>6. QED
  BY <1>2, <1>4, <1>5

LEMMA InterruptKeeps ==
  ASSUME IInv, XferAssumption, Interrupt
  PROVE  IInv'
<1>1. PICK len \in Written : dest' = [dest EXCEPT !.len = len]
  BY DEF Interrupt
<1>2. /\ stage = "copying" /\ basis = "nothing" /\ stage' = "lost"
      /\ table' = {} /\ asked' = <<>> /\ replies' = <<>>
      /\ client' = client /\ size' = size /\ statsize' = statsize /\ xfer' = xfer
      /\ toret' = toret /\ basis' = basis /\ faults' = faults
  BY DEF Interrupt
<1>3. TypeOK /\ Bookkeeping /\ dest \in File
  BY DEF IInv, TypeOK
<1>4. len \in Nat /\ (~Uploading /\ dest.inorder => len <= size)
  BY <1>2, WrittenIs
<1>5. dest' \in File /\ dest'.len = len /\ dest'.inorder = dest.inorder /\ dest'.stored = dest.stored
  BY <1>1, <1>3, <1>4 DEF File
<1>6. IsFiniteSet(Ids(table'))
  <2>1. Ids(table') = {}
    BY <1>2 DEF Ids
  <2>2. QED
    BY <2>1, FS_EmptySet
<1>7. TypeOK'
  BY <1>2, <1>3, <1>5, <1>6 DEF TypeOK
<1>8. Bookkeeping'
  <2>1. Book(xfer.queue, table, asked, replies)'
    BY <1>2 DEF Book, Distinct
  <2>2. Ordered(xfer.queue, xfer.offset)' /\ Answers(xfer.queue, table, replies)'
    BY <1>2, <1>3 DEF Bookkeeping, Ordered, Answers
  <2>3. QED
    BY <1>2, <1>3, <2>1, <2>2 DEF Bookkeeping
<1>9. Uploading' = Uploading
  BY <1>2 DEF Uploading
<1>10. ASSUME ~Uploading PROVE Download'
  <2>1. Download
    BY <1>10 DEF IInv
  <2>2. Blocks(xfer)' /\ Received(xfer.queue)' /\ xfer'.furthestdata <= size' /\ statsize' <= xfer'.filesize
    BY <1>2, <2>1 DEF Download, Blocks, Received
  <2>3. QED
    BY <1>2, <1>4, <1>5, <1>10, <2>2 DEF Download, Good
<1>11. ASSUME Uploading PROVE Upload'
  <2>1. Upload
    BY <1>11 DEF IInv
  <2>2. QED
    BY <1>2, <1>5, <2>1 DEF Upload, NoneReceived, Good
<1>12. CopiesWhole'
  <2>1. toret => dest.inorder
    BY <1>2 DEF IInv, Download, Upload, Good
  <2>2. QED
    BY <1>2, <1>5, <2>1 DEF CopiesWhole
<1>13. QED
  BY <1>7, <1>8, <1>9, <1>10, <1>11, <1>12 DEF IInv

\* What every transfer begins with.
Fresh(offset) == [x |-> XferInit(offset), table |-> {}, asked |-> <<>>]

LEMMA FreshIs ==
  ASSUME XferAssumption, NEW offset \in Nat
  PROVE  /\ Fresh(offset) \in State /\ IsFiniteSet(Ids(Fresh(offset).table))
         /\ Fresh(offset).x.queue = <<>> /\ Fresh(offset).x.offset = offset
         /\ Fresh(offset).table = {} /\ Fresh(offset).asked = <<>>
         /\ Fresh(offset).x.furthestdata = 0 /\ Fresh(offset).x.filesize = Infinite /\ Infinite \in Nat
         /\ Fresh(offset).x.eof = Uploading /\ Fresh(offset).x.err = FALSE
<1>1. Infinite \in Nat
  BY DEF Infinite, XferAssumption
<1>2. <<>> \in Seq(Req) /\ <<>> \in Seq(Sent)
  OBVIOUS
<1>3. Uploading \in BOOLEAN
  BY DEF Uploading
<1> DEFINE x == XferInit(offset)
<1>4. x = [offset |-> offset, furthestdata |-> 0, filesize |-> Infinite,
           totalsize |-> 0, eof |-> Uploading, err |-> FALSE, queue |-> <<>>]
  BY DEF XferInit
<1> HIDE DEF x
<1>5. /\ x.queue = <<>> /\ x.offset = offset /\ x.furthestdata = 0 /\ x.filesize = Infinite
      /\ x.eof = Uploading /\ x.err = FALSE
  BY <1>4
<1>6. x \in XferRec
  BY <1>1, <1>2, <1>3, <1>4 DEF XferRec
<1>7. Fresh(offset) = [x |-> x, table |-> {}, asked |-> <<>>]
  BY DEF Fresh, x
<1>8. Fresh(offset) \in State
  BY <1>2, <1>6, <1>7 DEF State
<1>9. IsFiniteSet(Ids({}))
  <2>1. Ids({}) = {}
    BY DEF Ids
  <2>2. QED
    BY <2>1, FS_EmptySet
<1>10. QED
  BY <1>1, <1>5, <1>7, <1>8, <1>9

LEMMA NothingKept ==
  ASSUME NEW top
  PROVE  Kept(<<>>, top, {}, <<>>, <<>>)
<1>1. Ordered(<<>>, top) /\ Waiting(<<>>, {}) /\ Answers(<<>>, {}, <<>>)
  BY DEF Ordered, Waiting, Answers
<1>2. Book(<<>>, {}, <<>>, <<>>)
  BY DEF Book, Distinct
<1>3. QED
  BY <1>1, <1>2 DEF Kept

LEMMA StartedUpload ==
  ASSUME Uploading, NEW offset
  PROVE  Started(offset) = Fresh(offset)
BY Zenon DEF Started, Fresh

LEMMA StartedDownload ==
  ASSUME XferAssumption, ~Uploading, NEW offset \in Nat
  PROVE  Onward(Fresh(offset), Started(offset), <<>>)
<1> DEFINE s == Fresh(offset)
<1> DEFINE t == Started(offset)
<1>1. /\ s \in State /\ IsFiniteSet(Ids(s.table)) /\ s.x.queue = <<>> /\ s.x.offset = offset
      /\ s.table = {} /\ s.asked = <<>> /\ s.x.eof = Uploading /\ s.x.err = FALSE
  BY FreshIs
<1>2. t = DownloadQueue(s)
  BY Zenon DEF Started, Fresh
<1> HIDE DEF s, t
<1>3. ~XferDone(s.x)
  BY <1>1 DEF XferDone
<1>4. t = IF XferDone(s.x) THEN s ELSE DownloadQueue(s)
  BY <1>2, <1>3
<1>5. Kept(s.x.queue, s.x.offset, s.table, s.asked, <<>>)
  BY <1>1, NothingKept
<1>6. Blocks(s.x) /\ Received(s.x.queue)
  BY <1>1 DEF Blocks, Received
<1>7. Block \in Nat \ {0} /\ MaxTotal \in Nat
  BY DEF XferAssumption
<1>8. <<>> \in Seq(Reply)
  OBVIOUS
<1>9. Onward(s, t, <<>>)
  BY <1>1, <1>4, <1>5, <1>6, <1>7, <1>8, GoesOn
<1>10. QED
  BY <1>9 DEF s, t

LEMMA FreshInStep ==
  ASSUME XferAssumption, ~Uploading, NEW offset \in Nat, NEW d, d.len = offset
  PROVE  InStep(Fresh(offset).x, d)
<1> DEFINE x == Fresh(offset).x
<1>1. x.queue = <<>> /\ x.offset = offset /\ x.furthestdata = 0 /\ x.filesize = Infinite /\ Infinite \in Nat
      /\ x.eof = Uploading
  BY FreshIs
<1> HIDE DEF x
<1>2. HeadAt(x) = offset
  BY <1>1 DEF HeadAt
<1>3. InStep(x, d)
  BY <1>1, <1>2 DEF InStep, Told, Placed, EofSeen
<1>4. QED
  BY <1>3 DEF x

LEMMA RemoteSizeIs ==
  ASSUME size \in Nat, dest.stored \subseteq 0..(size - 1)
  PROVE  RemoteSize \in Nat /\ RemoteSize <= size /\ dest.stored \subseteq 0..(RemoteSize - 1)
<1> DEFINE T == {0} \cup {u + 1 : u \in dest.stored}
<1>1. T \subseteq 0..size /\ T # {}
  OBVIOUS
<1>2. \A u \in dest.stored : u \in Nat /\ u + 1 \in T
  OBVIOUS
<1>3. RemoteSize = Max(T)
  BY DEF RemoteSize
<1> HIDE DEF T
<1>4. RemoteSize \in T /\ \A y \in T : RemoteSize >= y
  BY <1>1, <1>3, MaxUpTo
<1>5. RemoteSize \in Nat /\ RemoteSize <= size
  BY <1>1, <1>4
<1>6. ASSUME NEW u \in dest.stored PROVE u \in 0..(RemoteSize - 1)
  BY <1>2, <1>4, <1>5
<1>7. QED
  BY <1>5, <1>6

\* A transfer begins, with as much of the file as offset says.
LEMMA StartKeeps ==
  ASSUME XferAssumption, NEW offset \in Nat, TypeOK', stage' = "copying",
         client' = client, size' = size, statsize' = statsize, statsize \in 0..size, size \in 0..MaxSize,
         xfer' = Started(offset).x, table' = Started(offset).table, asked' = Started(offset).asked, replies' = <<>>,
         faults' = {} \/ client \in Growing,
         ~Uploading => /\ client = "pscp" => toret' /\ NoneReceived(xfer'.queue)
                       /\ dest'.len = offset /\ (dest'.inorder => dest'.len <= size)
                       /\ Good' => dest'.inorder,
         Uploading => /\ dest'.inorder /\ dest'.stored \subseteq 0..(size - 1) /\ offset <= size
                      /\ Good' => dest'.stored = 0..(offset - 1)
  PROVE  IInv'
<1> DEFINE t == Started(offset)
<1> DEFINE s == Fresh(offset)
<1>1. /\ s.x.queue = <<>> /\ s.x.offset = offset /\ s.table = {} /\ s.asked = <<>>
      /\ s.x.furthestdata = 0 /\ s.x.filesize = Infinite /\ s.x.eof = Uploading /\ s.x.err = FALSE
  BY FreshIs
<1>2. xfer' = t.x /\ table' = t.table /\ asked' = t.asked
  OBVIOUS
<1>3. Uploading => t = s
  BY StartedUpload
<1>4. ~Uploading => Onward(s, t, <<>>)
  BY StartedDownload
<1>5. ~Uploading => InStep(s.x, dest')
  BY FreshInStep
<1> HIDE DEF s, t
<1>6. Kept(t.x.queue, t.x.offset, t.table, t.asked, <<>>)
  <2>1. CASE Uploading
    BY <1>1, <1>3, <2>1, NothingKept
  <2>2. CASE ~Uploading
    BY <1>4, <2>2 DEF Onward
  <2>3. QED
    BY <2>1, <2>2
<1>7. Kept(xfer.queue, xfer.offset, table, asked, replies)'
  <2>1. Kept(xfer'.queue, xfer'.offset, table', asked', replies')
    BY <1>2, <1>6
  <2>2. UNCHANGED <<client, size, statsize>>
    OBVIOUS
  <2>3. QED
    BY <2>1, <2>2, KeptPrime
<1>8. Bookkeeping'
  BY <1>7 DEF Bookkeeping, Kept
<1>9. CopiesWhole'
  BY DEF CopiesWhole
<1>10. Uploading' = Uploading
  BY DEF Uploading
<1>11. ASSUME ~Uploading PROVE Download'
  <2>1. /\ Blocks(t.x) /\ Received(t.x.queue)
        /\ t.x.furthestdata = 0 /\ t.x.filesize = Infinite /\ t.x.err = FALSE
        /\ InOrder(s.x.queue, s.table, s.asked, <<>>) => InOrder(t.x.queue, t.table, t.asked, <<>>)
        /\ InStep(t.x, dest')
    BY <1>1, <1>4, <1>5, <1>11 DEF Onward
  <2>2. InOrder(t.x.queue, t.table, t.asked, <<>>)
    <3>1. InOrder(<<>>, {}, <<>>, <<>>)
      BY DEF InOrder
    <3>2. QED
      BY <1>1, <2>1, <3>1
  <2>3. InOrder(xfer.queue, table, asked, replies)' /\ Received(xfer.queue)' /\ Blocks(xfer)'
    BY <1>2, <2>1, <2>2 DEF InOrder, Received, Blocks
  <2>4. xfer'.furthestdata <= size' /\ statsize' <= xfer'.filesize
    BY <1>2, <2>1 DEF Infinite, XferAssumption
  <2>5. Sound(xfer, dest)'
    <3>1. InStep(xfer', dest') /\ xfer'.err = FALSE
      BY <1>2, <2>1
    <3>2. InStep(xfer, dest)'
      BY <3>1, InStepPrime
    <3>3. QED
      BY <3>1, <3>2 DEF Sound
  <2>6. /\ dest'.inorder => dest'.len <= size'
        /\ Good' => dest'.inorder
        /\ client' = "pscp" => toret' /\ NoneReceived(xfer'.queue)
    BY <1>11
  <2>7. NoneReceived(xfer'.queue) => NoneReceived(xfer.queue)'
    BY DEF NoneReceived
  <2>8. QED
    BY <2>3, <2>4, <2>5, <2>6, <2>7 DEF Download
<1>12. ASSUME Uploading PROVE Upload'
  <2>1. xfer'.queue = <<>> /\ xfer'.offset = offset
    BY <1>1, <1>2, <1>3, <1>12
  <2>2. NoneReceived(xfer.queue)'
    BY <2>1 DEF NoneReceived
  <2>3. Good' => Accounted(xfer.offset, dest, asked, replies)'
    <3>1. HAVE Good'
    <3>2. dest'.stored = 0..(xfer'.offset - 1)
      BY <1>12, <2>1, <3>1
    <3>3. QED
      BY <3>2 DEF Accounted
  <2>4. QED
    BY <1>12, <2>1, <2>2, <2>3 DEF Upload
<1>13. QED
  BY <1>8, <1>9, <1>10, <1>11, <1>12 DEF IInv

LEMMA StartedTyped ==
  ASSUME XferAssumption, NEW offset \in Nat
  PROVE  /\ Started(offset) \in State /\ IsFiniteSet(Ids(Started(offset).table))
<1>1. CASE Uploading
  BY <1>1, StartedUpload, FreshIs
<1>2. CASE ~Uploading
  BY <1>2, StartedDownload DEF Onward
<1>3. QED
  BY <1>1, <1>2

LEMMA ResumeKeeps ==
  ASSUME IInv, XferAssumption, Resume
  PROVE  IInv'
<1> DEFINE prefix == IF client = "get" THEN dest.inorder ELSE dest.stored = 0..(Offset - 1)
<1>1. /\ client \in {"get", "put"} /\ basis = "nothing"
      /\ stage = "lost" \/ (stage = "done" /\ ~toret)
      /\ basis' = (IF prefix THEN "prefix" ELSE "gap")
      /\ stage' = "copying" /\ toret' = TRUE
      /\ xfer' = Started(Offset).x /\ table' = Started(Offset).table /\ asked' = Started(Offset).asked
      /\ client' = client /\ size' = size /\ statsize' = statsize /\ replies' = replies /\ dest' = dest /\ faults' = faults
  BY Zenon DEF Resume
<1>2. TypeOK /\ Bookkeeping /\ dest \in File /\ dest.len \in Nat /\ size \in Nat
  BY DEF IInv, TypeOK, File
<1>3. Book(xfer.queue, table, asked, replies) /\ asked \in Seq(Sent) /\ replies \in Seq(Reply)
  BY <1>2 DEF Bookkeeping, TypeOK
<1>4. replies = <<>>
  <2>1. CASE stage = "lost"
    <3>1. table = {}
      BY <1>2, <2>1 DEF Bookkeeping
    <3>2. \A i \in DOMAIN replies : FALSE
      BY <1>3, <3>1 DEF Book, Ids
    <3>3. DOMAIN replies = 1..Len(replies) /\ Len(replies) \in Nat /\ (replies = <<>> <=> Len(replies) = 0)
      BY <1>3, SeqDomain, Zenon
    <3> DEFINE a == Len(replies)
    <3>4. a \in Nat /\ \A i \in 1..a : FALSE
      BY <3>2, <3>3, Zenon
    <3> HIDE DEF a
    <3>5. a = 0
      <4>1. a > 0 => 1 \in 1..a
        BY <3>4
      <4>2. QED
        BY <3>4, <4>1
    <3>6. QED
      BY <3>3, <3>5 DEF a
  <2>2. CASE stage = "done"
    <3>1. xfer.queue = <<>>
      BY <1>1, <1>2, <2>2 DEF Bookkeeping
    <3>2. Book(<<>>, table, asked, replies)
      BY <1>3, <3>1
    <3>3. QED
      BY <1>3, <3>2, NothingLeft
  <2>3. QED
    BY <1>1, <2>1, <2>2
<1>5. ASSUME Uploading
      PROVE  /\ Offset \in Nat /\ Offset <= size /\ dest.inorder /\ dest.stored \subseteq 0..(size - 1)
             /\ basis' # "gap" => dest.stored = 0..(Offset - 1)
  <2>1. dest.inorder /\ dest.stored \subseteq 0..(size - 1)
    BY <1>5 DEF IInv, Upload
  <2>2. client # "get"
    BY <1>5 DEF Uploading
  <2>3. Offset = RemoteSize
    BY <2>2 DEF Offset
  <2>4. QED
    BY <1>1, <1>2, <2>1, <2>2, <2>3, RemoteSizeIs
<1>6. ASSUME ~Uploading
      PROVE  /\ Offset = dest.len /\ client = "get" /\ (dest.inorder => dest.len <= size)
             /\ basis' # "gap" => dest.inorder
  <2>1. client = "get" /\ Offset = dest.len
    BY <1>1, <1>6 DEF Uploading, Offset
  <2>2. dest.inorder => dest.len <= size
    BY <1>6 DEF IInv, Download
  <2>3. QED
    BY <1>1, <2>1, <2>2
<1>7. Offset \in Nat
  BY <1>2, <1>5, <1>6
<1> HIDE DEF prefix
<1>8. TypeOK'
  <2>1. Started(Offset) \in State /\ IsFiniteSet(Ids(Started(Offset).table))
    BY <1>7, StartedTyped
  <2>2. xfer' \in XferRec /\ table' \subseteq [id : Nat, rr : Nat] /\ asked' \in Seq(Sent) /\ IsFiniteSet(Ids(table'))
    BY <1>1, <2>1 DEF State
  <2>3. basis' \in {"prefix", "gap"} /\ client' \notin {"pscp", "send"}
    BY <1>1
  <2>4. QED
    BY <1>1, <1>2, <2>2, <2>3 DEF TypeOK
<1>9. faults' = {} \/ client \in Growing
  BY <1>1, <1>2 DEF Bookkeeping
<1>10. statsize \in 0..size /\ size \in 0..MaxSize
  BY <1>2 DEF TypeOK
<1>11. ~Uploading => /\ client = "pscp" => toret' /\ NoneReceived(xfer'.queue)
                     /\ dest'.len = Offset /\ (dest'.inorder => dest'.len <= size)
                     /\ Good' => dest'.inorder
  BY <1>1, <1>6 DEF Good
<1>12. Uploading => /\ dest'.inorder /\ dest'.stored \subseteq 0..(size - 1) /\ Offset <= size
                    /\ Good' => dest'.stored = 0..(Offset - 1)
  BY <1>1, <1>5 DEF Good
<1>13. replies' = <<>>
  BY <1>1, <1>4
<1>14. QED
  BY <1>1, <1>7, <1>8, <1>9, <1>10, <1>11, <1>12, <1>13, StartKeeps

LEMMA InitHolds ==
  ASSUME Init, XferAssumption
  PROVE  IInv
<1> DEFINE t == Started(0)
<1> DEFINE s == Fresh(0)
<1>1. /\ client \in Clients /\ size \in Sizes /\ statsize = size /\ basis = "nothing"
      /\ xfer = t.x /\ table = t.table /\ asked = t.asked
      /\ replies = <<>> /\ dest = [len |-> 0, inorder |-> TRUE, stored |-> {}]
      /\ toret = TRUE /\ stage = "copying" /\ faults = {}
  BY Zenon DEF Init
<1>2. client \in {"get", "put", "pscp", "send"} /\ size \in 0..MaxSize /\ MaxSize \in Nat /\ size \in Nat /\ statsize \in 0..size
  <2>1. client \in Clients /\ size \in Sizes /\ statsize = size
    BY <1>1, Zenon
  <2>2. Clients \subseteq {"get", "put", "pscp", "send"} /\ Sizes \subseteq 0..MaxSize /\ MaxSize \in Nat
    BY DEF XferAssumption
  <2>3. size \in 0..MaxSize
    BY <2>1, <2>2
  <2>4. size \in Nat /\ statsize \in 0..size
    BY <2>1, <2>2, <2>3
  <2>5. QED
    BY <2>1, <2>2, <2>3, <2>4
<1>3. 0 \in Nat
  OBVIOUS
<1>4. /\ s.x.queue = <<>> /\ s.x.offset = 0 /\ s.table = {} /\ s.asked = <<>>
      /\ s.x.furthestdata = 0 /\ s.x.filesize = Infinite /\ s.x.eof = Uploading /\ s.x.err = FALSE
  BY <1>3, FreshIs
<1>5. dest.len = 0 /\ dest.inorder /\ dest.stored = {} /\ dest \in File
  BY <1>1 DEF File
<1>6. Uploading => t = s
  BY StartedUpload
<1>7. ~Uploading => Onward(s, t, <<>>) /\ InStep(s.x, dest)
  BY <1>3, <1>5, StartedDownload, FreshInStep
<1>8. t \in State /\ IsFiniteSet(Ids(t.table))
  BY <1>3, StartedTyped
<1> HIDE DEF s, t
<1>9. Kept(t.x.queue, t.x.offset, t.table, t.asked, <<>>)
  <2>1. CASE Uploading
    BY <1>4, <1>6, <2>1, NothingKept
  <2>2. CASE ~Uploading
    BY <1>7, <2>2 DEF Onward
  <2>3. QED
    BY <2>1, <2>2
<1>10. TypeOK
  <2>1. xfer \in XferRec /\ table \subseteq [id : Nat, rr : Nat] /\ asked \in Seq(Sent) /\ IsFiniteSet(Ids(table))
    BY <1>1, <1>8 DEF State
  <2>2. replies \in Seq(Reply)
    BY <1>1
  <2>3. QED
    BY <1>1, <1>2, <1>5, <2>1, <2>2 DEF TypeOK
<1>11. Bookkeeping
  BY <1>1, <1>9 DEF Bookkeeping, Kept
<1>12. CopiesWhole
  BY <1>1 DEF CopiesWhole
<1>13. ASSUME ~Uploading PROVE Download
  <2>1. /\ Blocks(t.x) /\ Received(t.x.queue)
        /\ t.x.furthestdata = 0 /\ t.x.filesize = Infinite /\ t.x.err = FALSE
        /\ InOrder(s.x.queue, s.table, s.asked, <<>>) => InOrder(t.x.queue, t.table, t.asked, <<>>)
        /\ NoneReceived(s.x.queue) => NoneReceived(t.x.queue)
        /\ InStep(t.x, dest)
    BY <1>4, <1>7, <1>13 DEF Onward
  <2>2. InOrder(t.x.queue, t.table, t.asked, <<>>) /\ NoneReceived(t.x.queue)
    <3>1. InOrder(<<>>, {}, <<>>, <<>>) /\ NoneReceived(<<>>)
      BY DEF InOrder, NoneReceived
    <3>2. QED
      BY <1>4, <2>1, <3>1
  <2>3. xfer.furthestdata <= size /\ statsize <= xfer.filesize
    BY <1>1, <1>2, <2>1 DEF Infinite, XferAssumption
  <2>4. Sound(xfer, dest)
    BY <1>1, <2>1 DEF Sound
  <2>5. dest.len <= size
    BY <1>2, <1>5
  <2>6. QED
    BY <1>1, <1>5, <2>1, <2>2, <2>3, <2>4, <2>5 DEF Download
<1>14. ASSUME Uploading PROVE Upload
  <2>1. xfer.queue = <<>> /\ xfer.offset = 0
    BY <1>1, <1>4, <1>6, <1>14
  <2>2. Accounted(xfer.offset, dest, asked, replies)
    BY <1>5, <2>1 DEF Accounted
  <2>3. NoneReceived(xfer.queue)
    BY <2>1 DEF NoneReceived
  <2>4. QED
    BY <1>2, <1>5, <2>1, <2>2, <2>3 DEF Upload
<1>15. QED
  BY <1>10, <1>11, <1>12, <1>13, <1>14 DEF IInv
-----------------------------------------------------------------------------
(* The theorems *)

LEMMA StutterKeeps ==
  ASSUME IInv, UNCHANGED vars
  PROVE  IInv'
<1>1. /\ client' = client /\ size' = size /\ statsize' = statsize /\ xfer' = xfer /\ table' = table
      /\ asked' = asked /\ replies' = replies /\ dest' = dest /\ toret' = toret /\ stage' = stage
      /\ basis' = basis /\ faults' = faults
  BY DEF vars
<1>2. /\ Answers(xfer.queue, table, replies) => Answers(xfer.queue, table, replies)'
      /\ Received(xfer.queue) => Received(xfer.queue)'
      /\ Uploading' = Uploading /\ Good' = Good /\ Steady' = Steady
      /\ Sound(xfer, dest)' = Sound(xfer, dest)
  BY <1>1 DEF Answers, AnswerOk, Received, Uploading, Good, Steady, Sound, InStep, Told, Placed, HeadAt, EofSeen
<1>3. /\ Ordered(xfer.queue, xfer.offset)' = Ordered(xfer.queue, xfer.offset)
      /\ Book(xfer.queue, table, asked, replies)' = Book(xfer.queue, table, asked, replies)
      /\ Waiting(xfer.queue, table)' = Waiting(xfer.queue, table)
      /\ Blocks(xfer)' = Blocks(xfer) /\ NoneReceived(xfer.queue)' = NoneReceived(xfer.queue)
      /\ InOrder(xfer.queue, table, asked, replies)' = InOrder(xfer.queue, table, asked, replies)
      /\ Accounted(xfer.offset, dest, asked, replies)' = Accounted(xfer.offset, dest, asked, replies)
  BY <1>1 DEF Ordered, Book, Distinct, Entry, Ids, Waiting, Blocks, NoneReceived, InOrder, Accounted
<1>4. TypeOK'
  BY <1>1 DEF IInv, TypeOK
<1>5. Bookkeeping'
  BY <1>1, <1>2, <1>3 DEF IInv, Bookkeeping
<1>6. CopiesWhole'
  BY <1>1, <1>2 DEF IInv, CopiesWhole
<1>7. ~Uploading => Download'
  BY <1>1, <1>2, <1>3 DEF IInv, Download
<1>8. Uploading => Upload'
  BY <1>1, <1>2, <1>3 DEF IInv, Upload
<1>9. QED
  BY <1>2, <1>4, <1>5, <1>6, <1>7, <1>8 DEF IInv

LEMMA NextKeeps ==
  ASSUME IInv, XferAssumption, [Next]_vars
  PROVE  IInv'
<1>1. CASE ClientStep
  <2>1. CASE Get
    BY <2>1, GetKeeps
  <2>2. CASE PutSend
    BY <2>2, PutSendKeeps
  <2>3. CASE PutReadFails
    BY <2>3, PutReadFailsKeeps
  <2>4. CASE PutReply \/ SendReply
    BY <2>4, RepliesKeep
  <2>5. CASE PutEnds
    BY <2>5, PutEndsKeeps
  <2>6. CASE PscpGet
    BY <2>6, PscpGetKeeps
  <2>7. CASE PscpFinish
    BY <2>7, PscpFinishKeeps
  <2>8. CASE PscpEnds
    BY <2>8, PscpEndsKeeps
  <2>9. QED
    BY <1>1, <2>1, <2>2, <2>3, <2>4, <2>5, <2>6, <2>7, <2>8 DEF ClientStep
<1>2. CASE Interrupt
  BY <1>2, InterruptKeeps
<1>3. CASE Resume
  BY <1>3, ResumeKeeps
<1>4. CASE Grow
  BY <1>4, GrowKeeps
<1>5. CASE \E k \in DOMAIN asked : Answer(k)
  BY <1>5, AnswerKeeps
<1>6. CASE UNCHANGED vars
  BY <1>6, StutterKeeps
<1>7. QED
  BY <1>1, <1>2, <1>3, <1>4, <1>5, <1>6 DEF Next

\* The types of a transfer's state, and the invariant that carries the two theorems below:
\* every id stands for one request, which waits in the queue and is on its way, or its
\* reply is; and the copy, the queue and what a reply has said of the file agree.
\* Code: struct fxp_xfer and struct req of putty/ssh/sftp.c; the loops of psftp.c and pscp.c.
THEOREM XferInvariant == Spec => []IInv
<1>1. Init => IInv
  BY XferAssumption, InitHolds
<1>2. IInv /\ [Next]_vars => IInv'
  BY XferAssumption, NextKeeps
<1>3. QED
  BY <1>1, <1>2, PTL DEF Spec

\* A reply is always for a request in use, which waits in the queue; pscp's buffer is long
\* enough; and no reply is left over for the request that comes after a transfer.
\* Code: sftp_alloc_request, sftp_find_request, xfer_done; scp_recv_filedata's assertion.
THEOREM RepliesMatchHolds == Spec => []RepliesMatch
<1>1. IInv => RepliesMatch
  <2>1. SUFFICES ASSUME IInv PROVE RepliesMatch
    OBVIOUS
  <2>2. /\ Book(xfer.queue, table, asked, replies) /\ (faults = {} \/ client \in Growing)
        /\ asked \in Seq(Sent) /\ replies \in Seq(Reply)
    BY <2>1 DEF IInv, Bookkeeping, TypeOK
  <2>3. \A rep \in Range(replies) : rep.id \in Ids(table)
    <3>1. TAKE rep \in Range(replies)
    <3>2. PICK i \in DOMAIN replies : rep = replies[i]
      BY DEF Range
    <3>3. QED
      BY <2>2, <3>2 DEF Book
  <2>4. \A t \in table : \E rr \in Range(xfer.queue) : rr.offset = t.rr /\ rr.complete = 0
    <3>1. TAKE t \in table
    <3>2. PICK k \in DOMAIN xfer.queue : xfer.queue[k].offset = t.rr /\ xfer.queue[k].complete = 0
      BY <2>2 DEF Book
    <3>3. xfer.queue[k] \in Range(xfer.queue)
      BY DEF Range
    <3>4. QED
      BY <3>2, <3>3
  <2>5. ASSUME stage = "done", toret \/ client \in {"get", "put"}
        PROVE  table = {} /\ asked = <<>> /\ replies = <<>>
    <3>1. xfer.queue = <<>>
      BY <2>1, <2>5 DEF IInv, Bookkeeping
    <3>2. Book(<<>>, table, asked, replies)
      BY <2>2, <3>1
    <3>3. QED
      BY <2>2, <3>2, NothingLeft
  <2>6. QED
    BY <2>2, <2>3, <2>4, <2>5 DEF RepliesMatch
<1>2. QED
  BY <1>1, XferInvariant, PTL

\* A transfer that reports no error is whole, in whatever order its blocks came, whatever
\* failed, and though the file grew or the transfer was interrupted and gone on with.
\* Code: xfer_download_gotpkt, xfer_download_data, xfer_upload_gotpkt; sftp_get_file,
\* sftp_put_file and their restart branches; sink and source.
THEOREM CopiesWholeHolds == Spec => []CopiesWhole
<1>1. IInv => CopiesWhole
  BY DEF IInv
<1>2. QED
  BY <1>1, XferInvariant, PTL
=============================================================================
