---------------------------- MODULE McdValueProofs ----------------------------
(***************************************************************************)
(* The value path of the memcached server keeps answers together: for any  *)
(* lines of the memories, any filters, addresses, depths of FIFOs and      *)
(* requests of clients, a value never waits at remux without the metadata  *)
(* it belongs to (WaitingValuesBelong), and the merger sends whole answers *)
(* in the order of each store (AnswersLeaveWhole).                         *)
(*                                                                         *)
(* ValuesInv stands behind both.  What comes to a store (Words) are whole  *)
(* packets, one behind the other, in increasing order (WordsOk).  demux    *)
(* parts them: the metadata continues where the packet that remux sends    *)
(* ends, and where the words begin (MetadataOk).  The value of a get takes *)
(* another way, as long as that of the metadata is short: the gets that    *)
(* wait at getMd and disp2rec (Awaited) and the values on their way to      *)
(* remux belong, in order, to the gets whose metadata waits (GetsOk); none *)
(* of them comes before its metadata, as demux writes both in one step.    *)
(* Nothing is said of the filter or of the memory: whatever they do, they  *)
(* delay a value and cannot lose or move one.                              *)
(*                                                                         *)
(* AnswersInv goes on behind remux: the words it sent are whole answers up *)
(* to the one under way (SentOk), none of them is behind what still waits  *)
(* (InOrder), no packet gets lost on the way (AllComes), and the merger    *)
(* continues the answer with the word that comes next (NextOk).            *)
(*                                                                         *)
(* LongValues is a hypothesis and not a conclusion, as it needs what the   *)
(* parser computes from the bytes of a client, by recursion over them.  It *)
(* is stated of all states, so that it is about what the table sends and   *)
(* not about what the stores do.                                           *)
(***************************************************************************)
EXTENDS McdServer, WellFoundedInduction, TLAPS

Mine(h, s) == {p \in 1 .. Len(h) : h[p].store = s}

(* The words of a packet that come to a store, and those that leave it. *)
Comes(h, p) == IF h[p].op = "get" THEN 2 ELSE h[p].len
Leaves(h, p) == IF h[p].op = "get" THEN h[p].len ELSE 2

Packet == [op : {"set", "get", "pass"}, store : Stores, addr : Nat, len : Nat \ {0, 1}]
Word == [p : Nat, i : Nat]
Value == [p : Nat, i : Nat, v : Word]

Earlier(a, b) == a.p < b.p \/ (a.p = b.p /\ a.i < b.i)

(* The words of packets on their way through a store, up to demux. *)
WordsOk(h, s, w) ==
  /\ w \in Seq(Word)
  /\ \A k \in 1 .. Len(w) : w[k].p \in Mine(h, s) /\ w[k].i \in 1 .. Comes(h, w[k].p)
  /\ \A j, k \in 1 .. Len(w) : j < k => Earlier(w[j], w[k])
  /\ \A k \in 1 .. Len(w) - 1 :
       IF w[k].i < Comes(h, w[k].p) THEN w[k + 1].p = w[k].p /\ w[k + 1].i = w[k].i + 1 ELSE w[k + 1].i = 1
  /\ w # <<>> => w[Len(w)].i = Comes(h, w[Len(w)].p)

(* The metadata behind demux, m, with the packet that remux sends, r. *)
Current(r) == r # <<>>
Half(m, r) == IF m # <<>> THEN m[Len(m)][2] = 1 ELSE Current(r) /\ r[2] = 1

MetadataOk(h, s, w, m, r) ==
  /\ m \in Seq(Nat \X Nat)
  /\ Current(r) => r \in Nat \X Nat /\ r[1] \in Mine(h, s) /\ r[2] \in 1 .. Leaves(h, r[1]) - 1
  /\ \A k \in 1 .. Len(m) : m[k][1] \in Mine(h, s) /\ m[k][2] \in {1, 2}
  /\ \A j, k \in 1 .. Len(m) : j < k => m[j][1] < m[k][1] \/ (m[j][1] = m[k][1] /\ m[j][2] = 1 /\ m[k][2] = 2)
  /\ \A k \in 1 .. Len(m) - 1 : IF m[k][2] = 1 THEN m[k + 1] = <<m[k][1], 2>> ELSE m[k + 1][2] = 1
  /\ m # <<>> => IF Current(r) /\ r[2] = 1 THEN m[1] = <<r[1], 2>> ELSE m[1][2] = 1
  /\ Current(r) => \A k \in 1 .. Len(m) : r[1] < m[k][1] \/ (r[1] = m[k][1] /\ m[k][2] = 2)
  /\ w # <<>> => \A k \in 1 .. Len(m) : m[k][1] < w[1].p \/ (m[k][1] = w[1].p /\ m[k][2] < w[1].i)
  /\ w # <<>> /\ Current(r) => r[1] < w[1].p \/ (r[1] = w[1].p /\ 1 < w[1].i)
  /\ Half(m, r) <=> w # <<>> /\ w[1].i = 2
  /\ Half(m, r) => w[1].p = (IF m # <<>> THEN m[Len(m)][1] ELSE r[1])

(* The gets whose metadata remux has not sent off, or not with all values. *)
AtRemux(h, m, r) ==
  {p \in 1 .. Len(h) : h[p].op = "get" /\ ((Current(r) /\ r[1] = p) \/ \E k \in 1 .. Len(m) : m[k] = <<p, 1>>)}

(* The gets whose values are to be received, t; the values on their way to *)
(* remux, v; and the number of those received of the first of t. *)
GetsOk(h, m, r, t, v, pos) ==
  /\ t \in Seq(Nat) /\ v \in Seq(Value) /\ pos \in Nat
  /\ \A k \in 1 .. Len(t) : t[k] \in AtRemux(h, m, r)
  /\ \A j, k \in 1 .. Len(t) : j < k => t[j] < t[k]
  /\ \A k \in 1 .. Len(v) : v[k].p \in AtRemux(h, m, r) /\ v[k].i \in 1 .. h[v[k].p].len
  /\ \A j, k \in 1 .. Len(v) : j < k => Earlier(v[j], v[k])
  /\ \A k \in 1 .. Len(v) - 1 :
       IF v[k].i < h[v[k].p].len THEN v[k + 1].p = v[k].p /\ v[k + 1].i = v[k].i + 1 ELSE v[k + 1].i = 1
  /\ v # <<>> =>
       LET last == v[Len(v)] IN
       IF last.i < h[last.p].len THEN t # <<>> /\ t[1] = last.p /\ pos = last.i
       ELSE pos = 0 /\ \A k \in 1 .. Len(t) : last.p < t[k]
  /\ v # <<>> =>
       IF Current(r) /\ h[r[1]].op = "get" THEN v[1].p = r[1] /\ v[1].i = r[2] + 1 ELSE v[1].i = 1
  /\ v = <<>> =>
       IF Current(r) /\ h[r[1]].op = "get" THEN t # <<>> /\ t[1] = r[1] /\ pos = r[2] ELSE pos = 0
  /\ t # <<>> => pos < h[t[1]].len
  /\ \A p \in AtRemux(h, m, r) :
       (\E k \in 1 .. Len(t) : t[k] = p) \/ \E k \in 1 .. Len(v) : v[k].p = p /\ v[k].i = h[p].len

LEMMA TailIs ==
  ASSUME NEW T, NEW q \in Seq(T), q # <<>>
  PROVE  /\ Head(q) \in T /\ Head(q) = q[1] /\ Tail(q) \in Seq(T)
         /\ Len(q) \in Nat /\ Len(q) > 0 /\ Len(Tail(q)) = Len(q) - 1
         /\ \A k \in 1 .. Len(q) - 1 : Tail(q)[k] = q[k + 1]
OBVIOUS

LEMMA ElementIs ==
  ASSUME NEW T, NEW q \in Seq(T), NEW k \in 1 .. Len(q)
  PROVE  q[k] \in T
OBVIOUS

LEMMA AppendIs ==
  ASSUME NEW T, NEW q \in Seq(T), NEW e \in T
  PROVE  /\ Append(q, e) \in Seq(T) /\ Append(q, e) # <<>>
         /\ Len(q) \in Nat /\ Len(Append(q, e)) = Len(q) + 1
         /\ Append(q, e)[Len(q) + 1] = e
         /\ \A k \in 1 .. Len(q) : Append(q, e)[k] = q[k]
OBVIOUS

LEMMA ConcatIs ==
  ASSUME NEW T, NEW q \in Seq(T), NEW u \in Seq(T)
  PROVE  /\ q \o u \in Seq(T)
         /\ Len(q) \in Nat /\ Len(u) \in Nat /\ Len(q \o u) = Len(q) + Len(u)
         /\ \A k \in 1 .. Len(q) : (q \o u)[k] = q[k]
         /\ \A k \in 1 .. Len(u) : (q \o u)[Len(q) + k] = u[k]
OBVIOUS

(* The head of a queue passes to the one in front of it. *)
LEMMA Passed ==
  ASSUME NEW T, NEW q \in Seq(T), NEW u \in Seq(T), u # <<>>
  PROVE  Append(q, Head(u)) \o Tail(u) = q \o u
OBVIOUS

LEMMA PassedOn ==
  ASSUME NEW T, NEW q \in Seq(T), NEW u \in Seq(T), q # <<>>
  PROVE  Tail(q \o u) = Tail(q) \o u /\ Head(q \o u) = Head(q) /\ q \o u # <<>>
OBVIOUS

LEMMA PutIs ==
  ASSUME NEW T, NEW f \in [Stores -> Seq(T)], NEW s \in Stores, NEW x \in T
  PROVE  /\ Put(f, s, x) \in [Stores -> Seq(T)] /\ Put(f, s, x)[s] = Append(f[s], x)
         /\ \A t \in Stores : t # s => Put(f, s, x)[t] = f[t]
BY DEF Put

LEMMA DropIs ==
  ASSUME NEW T, NEW f \in [Stores -> Seq(T)], NEW s \in Stores, f[s] # <<>>
  PROVE  /\ Drop(f, s) \in [Stores -> Seq(T)] /\ Drop(f, s)[s] = Tail(f[s])
         /\ \A t \in Stores : t # s => Drop(f, s)[t] = f[t]
BY DEF Drop

LEMMA EmptyIs ==
  ASSUME NEW T, NEW q \in Seq(T)
  PROVE  Len(q) \in Nat /\ (q = <<>> <=> Len(q) = 0)
OBVIOUS

LEMMA NonEmpty ==
  ASSUME NEW T, NEW q \in Seq(T), q # <<>>
  PROVE  1 \in 1 .. Len(q) /\ Len(q) \in 1 .. Len(q) /\ Len(q) \in Nat
BY EmptyIs

Histories == Seq(Packet)

LEMMA HistoryGrows ==
  ASSUME NEW h \in Histories, NEW x \in Packet, NEW s \in Stores
  PROVE  /\ Append(h, x) \in Histories /\ Len(h) \in Nat /\ Len(Append(h, x)) = Len(h) + 1
         /\ Append(h, x)[Len(h) + 1] = x
         /\ \A p \in 1 .. Len(h) : Append(h, x)[p] = h[p] /\ Comes(Append(h, x), p) = Comes(h, p)
                                   /\ Leaves(Append(h, x), p) = Leaves(h, p)
         /\ Mine(h, s) \subseteq Mine(Append(h, x), s) /\ Mine(h, s) \subseteq 1 .. Len(h)
         /\ x.store = s => Len(h) + 1 \in Mine(Append(h, x), s)
<1>1. /\ Append(h, x) \in Histories /\ Len(h) \in Nat /\ Len(Append(h, x)) = Len(h) + 1
      /\ Append(h, x)[Len(h) + 1] = x
      /\ \A p \in 1 .. Len(h) : Append(h, x)[p] = h[p]
  BY AppendIs DEF Histories
<1> QED BY <1>1 DEF Comes, Leaves, Mine

LEMMA PacketIs ==
  ASSUME NEW h \in Histories, NEW p \in 1 .. Len(h)
  PROVE  /\ h[p].len \in Nat /\ h[p].len >= 2 /\ h[p].addr \in Nat /\ h[p].store \in Stores
         /\ h[p].op \in {"set", "get", "pass"}
         /\ Comes(h, p) \in Nat /\ Comes(h, p) >= 2 /\ Leaves(h, p) \in Nat /\ Leaves(h, p) >= 2
         /\ (h[p].op = "get" => Comes(h, p) = 2 /\ Leaves(h, p) = h[p].len)
         /\ (h[p].op # "get" => Comes(h, p) = h[p].len /\ Leaves(h, p) = 2)
<1>1. h[p] \in Packet BY ElementIs DEF Histories
<1> QED BY <1>1 DEF Packet, Comes, Leaves

LEMMA WordsGrow ==
  ASSUME NEW h \in Histories, NEW x \in Packet, NEW s \in Stores, NEW w, WordsOk(h, s, w)
  PROVE  WordsOk(Append(h, x), s, w)
<1> DEFINE g == Append(h, x)
<1>1. \A p \in 1 .. Len(h) : Comes(g, p) = Comes(h, p) BY HistoryGrows
<1>2. Mine(h, s) \subseteq Mine(g, s) /\ Mine(h, s) \subseteq 1 .. Len(h) BY HistoryGrows
<1> HIDE DEF g
<1>3. w \in Seq(Word) /\ \A k \in 1 .. Len(w) : w[k].p \in Mine(h, s) /\ w[k].i \in 1 .. Comes(h, w[k].p) BY DEF WordsOk
<1>4. \A k \in 1 .. Len(w) : w[k].p \in Mine(g, s) /\ Comes(g, w[k].p) = Comes(h, w[k].p) BY <1>1, <1>2, <1>3
<1>5. \A k \in 1 .. Len(w) : w[k].p \in Mine(g, s) /\ w[k].i \in 1 .. Comes(g, w[k].p) BY <1>3, <1>4
<1>6. w # <<>> => Len(w) \in 1 .. Len(w) BY <1>3
<1>7. w # <<>> => w[Len(w)].i = Comes(g, w[Len(w)].p) BY <1>4, <1>6 DEF WordsOk
<1>8. \A k \in 1 .. Len(w) - 1 : k \in 1 .. Len(w) BY <1>3
<1>9. \A k \in 1 .. Len(w) - 1 :
       IF w[k].i < Comes(g, w[k].p) THEN w[k + 1].p = w[k].p /\ w[k + 1].i = w[k].i + 1 ELSE w[k + 1].i = 1
  BY <1>4, <1>8 DEF WordsOk
<1>10. \A j, k \in 1 .. Len(w) : j < k => Earlier(w[j], w[k]) BY DEF WordsOk
<1> QED BY <1>3, <1>5, <1>7, <1>9, <1>10 DEF WordsOk, g

(* The words that Sends gives a packet. *)
WordsOf(p, n) == [i \in 1 .. n |-> [p |-> p, i |-> i]]

LEMMA WordsOfIs ==
  ASSUME NEW p \in Nat, NEW n \in Nat
  PROVE  /\ WordsOf(p, n) \in Seq(Word) /\ Len(WordsOf(p, n)) = n
         /\ \A i \in 1 .. n : WordsOf(p, n)[i].p = p /\ WordsOf(p, n)[i].i = i
<1>1. \A i \in 1 .. n : [p |-> p, i |-> i] \in Word BY DEF Word
<1> HIDE DEF Word
<1>2. WordsOf(p, n) \in [1 .. n -> Word] BY <1>1 DEF WordsOf
<1>3. WordsOf(p, n) \in Seq(Word) /\ Len(WordsOf(p, n)) = n BY <1>2
<1> QED BY <1>3 DEF WordsOf

LEMMA WordsJoin ==
  ASSUME NEW h \in Histories, NEW s \in Stores, NEW p \in 1 .. Len(h), h[p].store = s,
         NEW w, WordsOk(h, s, w), \A k \in 1 .. Len(w) : w[k].p < p
  PROVE  WordsOk(h, s, w \o WordsOf(p, Comes(h, p)))
<1> DEFINE n == Comes(h, p)
           u == WordsOf(p, n)
           z == w \o u
<1>1. p \in Nat /\ n \in Nat /\ n >= 2 /\ p \in Mine(h, s) BY PacketIs DEF Mine
<1>2. w \in Seq(Word) BY DEF WordsOk
<1> HIDE DEF n
<1>3. u \in Seq(Word) /\ Len(u) = n /\ \A i \in 1 .. n : u[i].p = p /\ u[i].i = i BY <1>1, WordsOfIs
<1> HIDE DEF u
<1>4. /\ z \in Seq(Word) /\ Len(w) \in Nat /\ Len(z) = Len(w) + n
      /\ \A k \in 1 .. Len(w) : z[k] = w[k]
      /\ \A k \in 1 .. n : z[Len(w) + k] = u[k]
  <2>1. /\ z \in Seq(Word) /\ Len(w) \in Nat /\ Len(z) = Len(w) + Len(u)
        /\ \A k \in 1 .. Len(w) : z[k] = w[k]
        /\ \A k \in 1 .. Len(u) : z[Len(w) + k] = u[k]
    <3>1. u \in Seq(Word) BY <1>3
    <3> QED BY <1>2, <3>1, ConcatIs DEF z
  <2> QED BY <2>1, <1>3
<1> HIDE DEF z
<1>5. \A k \in 1 .. Len(z) : k \in 1 .. Len(w) \/ (k - Len(w) \in 1 .. n /\ z[k].p = p /\ z[k].i = k - Len(w))
  <2> TAKE k \in 1 .. Len(z)
  <2> SUFFICES ASSUME k \notin 1 .. Len(w) PROVE k - Len(w) \in 1 .. n /\ z[k].p = p /\ z[k].i = k - Len(w) OBVIOUS
  <2>1. k - Len(w) \in 1 .. n /\ Len(w) + (k - Len(w)) = k BY <1>1, <1>4
  <2> QED BY <2>1, <1>3, <1>4
<1>6. \A k \in 1 .. Len(z) : z[k].p \in Mine(h, s) /\ z[k].i \in 1 .. Comes(h, z[k].p)
  <2> TAKE k \in 1 .. Len(z)
  <2>1. CASE k \in 1 .. Len(w) BY <2>1, <1>4 DEF WordsOk
  <2>2. CASE k \notin 1 .. Len(w) BY <2>2, <1>5, <1>1 DEF n
  <2> QED BY <2>1, <2>2
<1>7. \A j, k \in 1 .. Len(z) : j < k => Earlier(z[j], z[k])
  <2> TAKE j, k \in 1 .. Len(z)
  <2> HAVE j < k
  <2>1. CASE k \in 1 .. Len(w)
    <3>1. j \in 1 .. Len(w) BY <2>1, <1>4
    <3> QED BY <3>1, <2>1, <1>4 DEF WordsOk
  <2>2. CASE k \notin 1 .. Len(w) /\ j \in 1 .. Len(w)
    <3>1. z[j].p < p /\ z[k].p = p BY <2>2, <1>4, <1>5
    <3> QED BY <3>1 DEF Earlier
  <2>3. CASE k \notin 1 .. Len(w) /\ j \notin 1 .. Len(w)
    <3>1. z[j].p = p /\ z[k].p = p /\ z[j].i = j - Len(w) /\ z[k].i = k - Len(w) BY <2>3, <1>5
    <3>2. j - Len(w) < k - Len(w) BY <1>4
    <3> QED BY <3>1, <3>2 DEF Earlier
  <2> QED BY <2>1, <2>2, <2>3
<1>8. \A k \in 1 .. Len(z) - 1 :
       IF z[k].i < Comes(h, z[k].p) THEN z[k + 1].p = z[k].p /\ z[k + 1].i = z[k].i + 1 ELSE z[k + 1].i = 1
  <2> TAKE k \in 1 .. Len(z) - 1
  <2>0. k \in 1 .. Len(z) /\ k + 1 \in 1 .. Len(z) BY <1>4, <1>1
  <2>1. CASE k \in 1 .. Len(w) - 1
    <3>1. k \in 1 .. Len(w) /\ k + 1 \in 1 .. Len(w) BY <2>1, <1>4
    <3> QED BY <2>1, <3>1, <1>4 DEF WordsOk
  <2>2. CASE k = Len(w)
    <3>1. z[k] = w[k] /\ w # <<>> /\ k + 1 = Len(w) + 1 BY <2>2, <1>4, <2>0
    <3>2. k + 1 \notin 1 .. Len(w) /\ (k + 1) - Len(w) = 1 BY <2>2, <1>4
    <3>3. z[k + 1].i = 1 BY <3>2, <1>5, <2>0
    <3>4. w[k].i = Comes(h, w[k].p) BY <3>1, <2>2 DEF WordsOk
    <3>5. w[k].i \in Nat
      <4>1. w[k] \in Word BY <1>2, <1>4, <2>2, <2>0, ElementIs
      <4> QED BY <4>1 DEF Word
    <3>6. ~(z[k].i < Comes(h, z[k].p)) BY <3>1, <3>4, <3>5
    <3> QED BY <3>3, <3>6
  <2>3. CASE k \notin 1 .. Len(w)
    <3>1. k + 1 \notin 1 .. Len(w) /\ (k + 1) - Len(w) = (k - Len(w)) + 1 BY <2>3, <1>4
    <3>2. z[k].p = p /\ z[k + 1].p = p /\ z[k].i = k - Len(w) /\ z[k + 1].i = (k - Len(w)) + 1 BY <2>0, <2>3, <3>1, <1>5
    <3>3. k - Len(w) < n BY <1>4, <1>1
    <3> QED BY <3>2, <3>3 DEF n
  <2> QED BY <2>1, <2>2, <2>3, <1>4, <2>0
<1>9. z # <<>> => z[Len(z)].i = Comes(h, z[Len(z)].p)
  <2>1. Len(z) \in 1 .. Len(z) /\ Len(z) \notin 1 .. Len(w) /\ Len(z) - Len(w) = n BY <1>4, <1>1
  <2> QED BY <2>1, <1>5 DEF n
<1> QED BY <1>4, <1>6, <1>7, <1>8, <1>9 DEF WordsOk, z, u, n

LEMMA WordsTail ==
  ASSUME NEW h \in Histories, NEW s \in Stores, NEW w, WordsOk(h, s, w), w # <<>>
  PROVE  WordsOk(h, s, Tail(w))
<1> DEFINE z == Tail(w)
<1>1. /\ w \in Seq(Word) /\ z \in Seq(Word) /\ Len(w) \in Nat /\ Len(w) > 0 /\ Len(z) = Len(w) - 1
      /\ \A k \in 1 .. Len(w) - 1 : z[k] = w[k + 1]
  BY TailIs DEF WordsOk
<1> HIDE DEF z
<1>2. \A k \in 1 .. Len(z) : k + 1 \in 1 .. Len(w) /\ z[k] = w[k + 1] BY <1>1
<1>3. \A k \in 1 .. Len(z) : z[k].p \in Mine(h, s) /\ z[k].i \in 1 .. Comes(h, z[k].p) BY <1>2 DEF WordsOk
<1>4. \A j, k \in 1 .. Len(z) : j < k => Earlier(z[j], z[k])
  <2> TAKE j, k \in 1 .. Len(z)
  <2> HAVE j < k
  <2>1. j + 1 < k + 1 BY <1>1
  <2> QED BY <2>1, <1>2 DEF WordsOk
<1>5. \A k \in 1 .. Len(z) - 1 :
       IF z[k].i < Comes(h, z[k].p) THEN z[k + 1].p = z[k].p /\ z[k + 1].i = z[k].i + 1 ELSE z[k + 1].i = 1
  <2> TAKE k \in 1 .. Len(z) - 1
  <2>1. k \in 1 .. Len(z) /\ k + 1 \in 1 .. Len(z) /\ k + 1 \in 1 .. Len(w) - 1 BY <1>1
  <2> QED BY <2>1, <1>2 DEF WordsOk
<1>6. z # <<>> => z[Len(z)].i = Comes(h, z[Len(z)].p)
  <2> HAVE z # <<>>
  <2>1. Len(z) \in 1 .. Len(z) /\ Len(z) + 1 = Len(w) BY <1>1
  <2>2. z[Len(z)] = w[Len(w)] /\ w # <<>> BY <2>1, <1>2
  <2> QED BY <2>2 DEF WordsOk
<1> QED BY <1>1, <1>3, <1>4, <1>5, <1>6 DEF WordsOk, z

Before(x, y) == x[1] < y[1] \/ (x[1] = y[1] /\ x[2] = 1 /\ y[2] = 2)

LEMMA MetadataIs ==
  ASSUME NEW h \in Histories, NEW s \in Stores, NEW w, NEW m, NEW r, MetadataOk(h, s, w, m, r)
  PROVE  /\ m \in Seq(Nat \X Nat) /\ Len(m) \in Nat
         /\ \A k \in 1 .. Len(m) : m[k] \in Nat \X Nat /\ m[k] = <<m[k][1], m[k][2]>> /\ m[k][1] \in Nat /\ m[k][1] \in Mine(h, s)
                                   /\ m[k][2] \in {1, 2}
         /\ Current(r) => /\ r \in Nat \X Nat /\ r[1] \in Mine(h, s) /\ r[1] \in Nat /\ r[2] \in Nat /\ r[2] >= 1
                          /\ r[2] < Leaves(h, r[1]) /\ r[1] \in 1 .. Len(h)
<1>1. m \in Seq(Nat \X Nat) /\ Len(m) \in Nat BY DEF MetadataOk
<1>2. \A k \in 1 .. Len(m) : m[k] \in Nat \X Nat BY <1>1, ElementIs
<1>3. \A k \in 1 .. Len(m) : m[k][1] \in Mine(h, s) /\ m[k][2] \in {1, 2} BY DEF MetadataOk
<1>4. ASSUME Current(r)
      PROVE  /\ r \in Nat \X Nat /\ r[1] \in Mine(h, s) /\ r[1] \in Nat /\ r[2] \in Nat /\ r[2] >= 1
             /\ r[2] < Leaves(h, r[1]) /\ r[1] \in 1 .. Len(h)
  <2>1. r \in Nat \X Nat /\ r[1] \in Mine(h, s) /\ r[2] \in 1 .. Leaves(h, r[1]) - 1 BY <1>4 DEF MetadataOk
  <2>2. r[1] \in 1 .. Len(h) BY <2>1 DEF Mine
  <2>3. Leaves(h, r[1]) \in Nat BY <2>2, PacketIs
  <2>4. r[2] \in Nat /\ r[2] >= 1 /\ r[2] < Leaves(h, r[1]) BY ONLY <2>1, <2>3
  <2>5. r[1] \in Nat BY ONLY <2>1
  <2> QED BY <2>1, <2>2, <2>4, <2>5
<1>5. \A x \in Nat \X Nat : x = <<x[1], x[2]>> /\ x[1] \in Nat OBVIOUS
<1>6. \A k \in 1 .. Len(m) : m[k] = <<m[k][1], m[k][2]>> /\ m[k][1] \in Nat BY ONLY <1>2, <1>5
<1> QED BY ONLY <1>1, <1>2, <1>3, <1>4, <1>6

(* What comes to a store later disturbs nothing of the metadata. *)
LEMMA MetadataGrow ==
  ASSUME NEW h \in Histories, NEW x \in Packet, NEW s \in Stores, NEW w, NEW z, NEW m, NEW r, MetadataOk(h, s, w, m, r),
         w # <<>> => z # <<>> /\ z[1] = w[1],
         w = <<>> => z = <<>> \/ (z[1].p = Len(h) + 1 /\ z[1].i = 1)
  PROVE  MetadataOk(Append(h, x), s, z, m, r)
<1> DEFINE g == Append(h, x)
<1>1. /\ \A p \in 1 .. Len(h) : Leaves(g, p) = Leaves(h, p)
      /\ Mine(h, s) \subseteq Mine(g, s) /\ Mine(h, s) \subseteq 1 .. Len(h) /\ Len(h) \in Nat
  BY HistoryGrows
<1> HIDE DEF g
<1>2. /\ \A k \in 1 .. Len(m) : m[k][1] \in Nat /\ m[k][1] \in Mine(h, s) /\ m[k][2] \in {1, 2}
      /\ Current(r) => r \in Nat \X Nat /\ r[1] \in Mine(h, s) /\ r[1] \in Nat /\ r[2] \in Nat
  BY MetadataIs
<1>3. Current(r) => r \in Nat \X Nat /\ r[1] \in Mine(g, s) /\ r[2] \in 1 .. Leaves(g, r[1]) - 1 BY <1>1, <1>2 DEF MetadataOk
<1>4. \A k \in 1 .. Len(m) : m[k][1] \in Mine(g, s) /\ m[k][2] \in {1, 2} BY <1>1, <1>2
<1>5. (Half(m, r) <=> z # <<>> /\ z[1].i = 2) /\ (Half(m, r) => z[1].p = (IF m # <<>> THEN m[Len(m)][1] ELSE r[1]))
  BY DEF MetadataOk
<1>6. z # <<>> => \A k \in 1 .. Len(m) : m[k][1] < z[1].p \/ (m[k][1] = z[1].p /\ m[k][2] < z[1].i)
  <2>1. CASE w # <<>> BY <2>1 DEF MetadataOk
  <2>2. CASE w = <<>>
    <3>1. \A k \in 1 .. Len(m) : m[k][1] < Len(h) + 1 BY <1>1, <1>2
    <3> QED BY <2>2, <3>1
  <2> QED BY <2>1, <2>2
<1>7. z # <<>> /\ Current(r) => r[1] < z[1].p \/ (r[1] = z[1].p /\ 1 < z[1].i)
  <2>1. CASE w # <<>> BY <2>1 DEF MetadataOk
  <2>2. CASE w = <<>>
    <3>1. Current(r) => r[1] < Len(h) + 1 BY <1>1, <1>2
    <3> QED BY <2>2, <3>1
  <2> QED BY <2>1, <2>2
<1>8. /\ m \in Seq(Nat \X Nat)
      /\ \A j, k \in 1 .. Len(m) : j < k => m[j][1] < m[k][1] \/ (m[j][1] = m[k][1] /\ m[j][2] = 1 /\ m[k][2] = 2)
      /\ \A k \in 1 .. Len(m) - 1 : IF m[k][2] = 1 THEN m[k + 1] = <<m[k][1], 2>> ELSE m[k + 1][2] = 1
      /\ m # <<>> => IF Current(r) /\ r[2] = 1 THEN m[1] = <<r[1], 2>> ELSE m[1][2] = 1
      /\ Current(r) => \A k \in 1 .. Len(m) : r[1] < m[k][1] \/ (r[1] = m[k][1] /\ m[k][2] = 2)
  BY DEF MetadataOk
<1> QED BY <1>3, <1>4, <1>5, <1>6, <1>7, <1>8 DEF MetadataOk, g

(* The second word of those that come to a store. *)
LEMMA SecondWord ==
  ASSUME NEW h \in Histories, NEW s \in Stores, NEW w, WordsOk(h, s, w), w # <<>>
  PROVE  /\ w[1] \in Word /\ w[1].p \in Nat /\ w[1].i \in Nat /\ w[1].p \in Mine(h, s) /\ w[1].p \in 1 .. Len(h)
         /\ w[1].i >= 1 /\ w[1].i <= Comes(h, w[1].p) /\ Comes(h, w[1].p) \in Nat /\ Comes(h, w[1].p) >= 2
         /\ Tail(w) # <<>> => /\ Tail(w)[1] = w[2] /\ w[2] \in Word /\ w[2].p \in Nat /\ w[2].i \in Nat
                              /\ (w[1].i < Comes(h, w[1].p) => w[2].p = w[1].p /\ w[2].i = w[1].i + 1)
                              /\ (w[1].i = Comes(h, w[1].p) => w[2].p > w[1].p /\ w[2].i = 1)
         /\ Tail(w) = <<>> => w[1].i = Comes(h, w[1].p)
<1>1. /\ w \in Seq(Word) /\ Len(w) \in Nat /\ Len(w) > 0 /\ Tail(w) \in Seq(Word) /\ Len(Tail(w)) = Len(w) - 1
      /\ \A k \in 1 .. Len(w) - 1 : Tail(w)[k] = w[k + 1]
  BY TailIs DEF WordsOk
<1>2. \A k \in 1 .. Len(w) : w[k] \in Word BY <1>1, ElementIs
<1>3. w[1] \in Word /\ w[1].p \in Nat /\ w[1].i \in Nat
  <2>1. w[1] \in Word BY <1>1, <1>2
  <2> QED BY <2>1 DEF Word
<1>4. w[1].p \in Mine(h, s) /\ w[1].i \in 1 .. Comes(h, w[1].p) BY <1>1 DEF WordsOk
<1>5. w[1].p \in 1 .. Len(h) BY <1>4 DEF Mine
<1>6. Comes(h, w[1].p) \in Nat /\ Comes(h, w[1].p) >= 2 BY <1>5, PacketIs
<1>7. ASSUME Tail(w) # <<>>
      PROVE  /\ Tail(w)[1] = w[2] /\ w[2] \in Word /\ w[2].p \in Nat /\ w[2].i \in Nat
             /\ (w[1].i < Comes(h, w[1].p) => w[2].p = w[1].p /\ w[2].i = w[1].i + 1)
             /\ (w[1].i = Comes(h, w[1].p) => w[2].p > w[1].p /\ w[2].i = 1)
  <2>1. 1 \in 1 .. Len(w) - 1 /\ 1 \in 1 .. Len(w) /\ 2 \in 1 .. Len(w) /\ 1 + 1 = 2 BY <1>7, <1>1
  <2>2. Tail(w)[1] = w[2] /\ w[2] \in Word BY <2>1, <1>1, <1>2
  <2>3. w[2].p \in Nat /\ w[2].i \in Nat BY <2>2 DEF Word
  <2>4. IF w[1].i < Comes(h, w[1].p) THEN w[2].p = w[1].p /\ w[2].i = w[1].i + 1 ELSE w[2].i = 1 BY <2>1 DEF WordsOk
  <2>5. Earlier(w[1], w[2]) BY <2>1 DEF WordsOk
  <2>6. w[1].i = Comes(h, w[1].p) => w[2].i = 1 /\ ~(w[1].i < w[2].i) BY <2>4, <1>3, <1>6
  <2> QED BY <2>2, <2>3, <2>4, <2>5, <2>6, <1>3, <1>6 DEF Earlier
<1>8. Tail(w) = <<>> => w[1].i = Comes(h, w[1].p)
  <2> HAVE Tail(w) = <<>>
  <2>1. Len(w) = 1 BY <1>1
  <2> QED BY <2>1 DEF WordsOk
<1> QED BY <1>3, <1>4, <1>5, <1>6, <1>7, <1>8

LEMMA MetadataDemux ==
  ASSUME NEW h \in Histories, NEW s \in Stores, NEW w, NEW m, NEW r, WordsOk(h, s, w), w # <<>>, MetadataOk(h, s, w, m, r),
         NEW n, n = (IF w[1].i <= 2 THEN Append(m, <<w[1].p, w[1].i>>) ELSE m)
  PROVE  MetadataOk(h, s, Tail(w), n, r)
<1> DEFINE a == w[1]
           b == w[2]
           z == Tail(w)
           e == <<a.p, a.i>>
<1>1. /\ a.p \in Nat /\ a.i \in Nat /\ a.p \in Mine(h, s) /\ a.i >= 1 /\ a.i <= Comes(h, a.p)
      /\ Comes(h, a.p) \in Nat /\ Comes(h, a.p) >= 2
      /\ z # <<>> => /\ z[1] = b /\ b.p \in Nat /\ b.i \in Nat
                     /\ (a.i < Comes(h, a.p) => b.p = a.p /\ b.i = a.i + 1)
                     /\ (a.i = Comes(h, a.p) => b.p > a.p /\ b.i = 1)
      /\ z = <<>> => a.i = Comes(h, a.p)
  BY SecondWord
<1>2. /\ m \in Seq(Nat \X Nat) /\ Len(m) \in Nat
      /\ \A k \in 1 .. Len(m) : m[k][1] \in Nat /\ m[k][1] \in Mine(h, s) /\ m[k][2] \in {1, 2}
      /\ Current(r) => /\ r \in Nat \X Nat /\ r[1] \in Nat /\ r[2] \in Nat /\ r[1] \in Mine(h, s)
  BY MetadataIs
<1>3. /\ \A j, k \in 1 .. Len(m) : j < k => m[j][1] < m[k][1] \/ (m[j][1] = m[k][1] /\ m[j][2] = 1 /\ m[k][2] = 2)
      /\ \A k \in 1 .. Len(m) - 1 : IF m[k][2] = 1 THEN m[k + 1] = <<m[k][1], 2>> ELSE m[k + 1][2] = 1
      /\ m # <<>> => IF Current(r) /\ r[2] = 1 THEN m[1] = <<r[1], 2>> ELSE m[1][2] = 1
      /\ Current(r) => \A k \in 1 .. Len(m) : r[1] < m[k][1] \/ (r[1] = m[k][1] /\ m[k][2] = 2)
      /\ \A k \in 1 .. Len(m) : m[k][1] < a.p \/ (m[k][1] = a.p /\ m[k][2] < a.i)
      /\ Current(r) => r[1] < a.p \/ (r[1] = a.p /\ 1 < a.i)
      /\ Half(m, r) <=> a.i = 2
      /\ Half(m, r) => a.p = (IF m # <<>> THEN m[Len(m)][1] ELSE r[1])
      /\ Current(r) => r[2] \in 1 .. Leaves(h, r[1]) - 1
  BY DEF MetadataOk
<1> HIDE DEF z, a, b
<1>4. z # <<>> => b.p > a.p \/ (b.p = a.p /\ b.i = a.i + 1) BY <1>1
<1>9. z # <<>> => \A x, y \in Nat : x < a.p \/ (x = a.p /\ y < a.i) => x < z[1].p \/ (x = z[1].p /\ y < z[1].i)
  <2> HAVE z # <<>>
  <2>1. z[1] = b /\ b.p \in Nat /\ b.i \in Nat BY <1>1
  <2> QED BY <2>1, <1>1, <1>4
<1>10. \A k \in 1 .. Len(m) : m[k][1] \in Nat /\ m[k][2] \in Nat BY <1>2
<1>5. CASE ~(a.i <= 2)
  <2>1. n = m /\ a.i > 2 BY <1>5, <1>1 DEF a
  <2>2. ~Half(m, r) BY <2>1, <1>3, <1>1
  <2>3. ~(z # <<>> /\ z[1].i = 2) BY <1>1, <2>1
  <2>4. z # <<>> => \A k \in 1 .. Len(m) : m[k][1] < z[1].p \/ (m[k][1] = z[1].p /\ m[k][2] < z[1].i)
    BY <1>3, <1>9, <1>10
  <2>5. z # <<>> /\ Current(r) => r[1] < z[1].p \/ (r[1] = z[1].p /\ 1 < z[1].i) BY <1>2, <1>3, <1>9
  <2>6. \A k \in 1 .. Len(m) : m[k][1] \in Mine(h, s) /\ m[k][2] \in {1, 2} BY <1>2
  <2>7. m \in Seq(Nat \X Nat)
        /\ (Current(r) => r \in Nat \X Nat /\ r[1] \in Mine(h, s) /\ r[2] \in 1 .. Leaves(h, r[1]) - 1) BY <1>2, <1>3
  <2>8. MetadataOk(h, s, z, m, r)
    <3>1. (Half(m, r) <=> z # <<>> /\ z[1].i = 2) /\ (Half(m, r) => z[1].p = (IF m # <<>> THEN m[Len(m)][1] ELSE r[1]))
      BY <2>2, <2>3
    <3> QED BY <3>1, <2>4, <2>5, <2>6, <2>7, <1>3 DEF MetadataOk
  <2> QED BY <2>1, <2>8 DEF z
<1>6. CASE a.i <= 2
  <2>1. n = Append(m, e) /\ a.i \in {1, 2} BY <1>6, <1>1 DEF a
  <2>2. e \in Nat \X Nat /\ e[1] = a.p /\ e[2] = a.i BY <1>1
  <2> HIDE DEF e
  <2>3. /\ n \in Seq(Nat \X Nat) /\ n # <<>> /\ Len(n) = Len(m) + 1 /\ n[Len(m) + 1] = e /\ \A k \in 1 .. Len(m) : n[k] = m[k]
    BY <2>1, <2>2, <1>2, AppendIs
  <2>4. \A k \in 1 .. Len(n) : k \in 1 .. Len(m) \/ (k = Len(m) + 1 /\ n[k] = e) BY <2>3, <1>2
  <2>5. \A k \in 1 .. Len(n) : n[k][1] \in Mine(h, s) /\ n[k][2] \in {1, 2} BY <2>1, <2>2, <2>3, <2>4, <1>1, <1>2
  <2>6. \A j, k \in 1 .. Len(n) : j < k => n[j][1] < n[k][1] \/ (n[j][1] = n[k][1] /\ n[j][2] = 1 /\ n[k][2] = 2)
    <3> TAKE j, k \in 1 .. Len(n)
    <3> HAVE j < k
    <3>1. j \in 1 .. Len(m) BY <2>3, <1>2
    <3>2. CASE k \in 1 .. Len(m) BY <3>1, <3>2, <2>3, <1>3
    <3>3. CASE k \notin 1 .. Len(m)
      <4>1. n[k] = e /\ n[j] = m[j] BY <3>1, <3>3, <2>3, <2>4
      <4>2. m[j][1] < a.p \/ (m[j][1] = a.p /\ m[j][2] < a.i) BY <3>1, <1>3
      <4>3. m[j][2] \in {1, 2} BY <3>1, <1>2
      <4> QED BY <4>1, <4>2, <4>3, <2>1, <2>2
    <3> QED BY <3>2, <3>3
  <2>7. \A k \in 1 .. Len(n) - 1 : IF n[k][2] = 1 THEN n[k + 1] = <<n[k][1], 2>> ELSE n[k + 1][2] = 1
    <3> TAKE k \in 1 .. Len(n) - 1
    <3>1. k \in 1 .. Len(m) /\ n[k] = m[k] BY <2>3, <1>2
    <3>2. CASE k \in 1 .. Len(m) - 1
      <4>4. Len(m) \in Nat BY <1>2
      <4>1. k + 1 \in 1 .. Len(m) BY <3>2, <4>4
      <4>2. n[k + 1] = m[k + 1] BY <4>1, <2>3
      <4>3. IF m[k][2] = 1 THEN m[k + 1] = <<m[k][1], 2>> ELSE m[k + 1][2] = 1 BY <3>2, <1>3
      <4> QED BY <3>1, <4>2, <4>3
    <3>3. CASE k = Len(m)
      <4>1. n[k + 1] = e /\ m # <<>> BY <3>1, <3>3, <2>3
      <4>2. Half(m, r) <=> m[k][2] = 1 BY <4>1, <3>3 DEF Half
      <4>3. m[k][2] = 1 => a.i = 2 /\ a.p = m[k][1] BY <4>1, <4>2, <3>3, <1>3
      <4>4. m[k][2] # 1 => a.i = 1 BY <4>2, <1>3, <2>1
      <4>5. m[k][2] = 1 => e = <<m[k][1], 2>> BY <4>3 DEF e
      <4> QED BY <4>1, <4>4, <4>5, <3>1, <2>2
    <3>4. k \in 1 .. Len(m) - 1 \/ k = Len(m)
      <4>1. Len(m) \in Nat /\ k \in 1 .. Len(m) BY <3>1, <1>2
      <4> QED BY <4>1
    <3> QED BY <3>2, <3>3, <3>4
  <2>8. IF Current(r) /\ r[2] = 1 THEN n[1] = <<r[1], 2>> ELSE n[1][2] = 1
    <3>1. CASE m # <<>>
      <4>1. n[1] = m[1] BY <3>1, <2>3, <1>2
      <4> QED BY <4>1, <3>1, <1>3
    <3>2. CASE m = <<>>
      <4>1. n[1] = e BY <3>2, <2>3, <1>2
      <4>2. Half(m, r) <=> Current(r) /\ r[2] = 1 BY <3>2 DEF Half
      <4>3. CASE Half(m, r)
        <5>1. a.i = 2 /\ a.p = r[1] BY <4>3, <3>2, <1>3
        <5> QED BY <5>1, <4>1, <4>2, <4>3 DEF e
      <4>4. CASE ~Half(m, r) BY <4>4, <4>2, <4>1, <2>1, <2>2, <1>3
      <4> QED BY <4>3, <4>4
    <3> QED BY <3>1, <3>2
  <2>9. Current(r) => \A k \in 1 .. Len(n) : r[1] < n[k][1] \/ (r[1] = n[k][1] /\ n[k][2] = 2)
    <3> HAVE Current(r)
    <3> TAKE k \in 1 .. Len(n)
    <3>1. CASE k \in 1 .. Len(m) BY <3>1, <2>3, <1>3
    <3>2. CASE k \notin 1 .. Len(m)
      <4>1. n[k][1] = a.p /\ n[k][2] = a.i BY <3>2, <2>4, <2>2
      <4>2. r[1] < a.p \/ (r[1] = a.p /\ 1 < a.i) BY <1>3
      <4> QED BY <4>1, <4>2, <2>1
    <3> QED BY <3>1, <3>2
  <2>10. z # <<>> => \A k \in 1 .. Len(n) : n[k][1] < z[1].p \/ (n[k][1] = z[1].p /\ n[k][2] < z[1].i)
    <3> HAVE z # <<>>
    <3> TAKE k \in 1 .. Len(n)
    <3>1. CASE k \in 1 .. Len(m)
      <4>1. m[k][1] < a.p \/ (m[k][1] = a.p /\ m[k][2] < a.i) BY <3>1, <1>3
      <4>2. m[k][1] \in Nat /\ m[k][2] \in Nat BY <3>1, <1>10
      <4>3. m[k][1] < z[1].p \/ (m[k][1] = z[1].p /\ m[k][2] < z[1].i) BY <4>1, <4>2, <1>9
      <4> QED BY <4>3, <3>1, <2>3
    <3>2. CASE k \notin 1 .. Len(m)
      <4>1. n[k][1] = a.p /\ n[k][2] = a.i BY <3>2, <2>4, <2>2
      <4> QED BY <4>1, <1>1, <1>4
    <3> QED BY <3>1, <3>2
  <2>11. z # <<>> /\ Current(r) => r[1] < z[1].p \/ (r[1] = z[1].p /\ 1 < z[1].i) BY <1>2, <1>3, <1>9
  <2>12. Half(n, r) <=> a.i = 1 BY <2>1, <2>2, <2>3 DEF Half
  <2>13. Half(n, r) <=> z # <<>> /\ z[1].i = 2 BY <2>12, <2>1, <1>1
  <2>14. Half(n, r) => z[1].p = n[Len(n)][1]
    <3> HAVE Half(n, r)
    <3>1. z # <<>> /\ z[1] = b /\ b.p = a.p BY <2>12, <1>1
    <3> QED BY <3>1, <2>2, <2>3
  <2> QED BY <2>3, <2>5, <2>6, <2>7, <2>8, <2>9, <2>10, <2>11, <2>13, <2>14, <1>2, <1>3 DEF MetadataOk, z
<1> QED BY <1>5, <1>6

(* The tail of the metadata, without what it says of the packet in front. *)
RestIs(h, s, w, m, n) ==
  /\ n \in Seq(Nat \X Nat) /\ Len(n) \in Nat /\ Len(n) = Len(m) - 1 /\ Len(m) \in Nat /\ 1 \in 1 .. Len(m)
  /\ \A k \in 1 .. Len(n) : n[k] = m[k + 1] /\ k + 1 \in 1 .. Len(m)
  /\ \A k \in 1 .. Len(n) : n[k][1] \in Mine(h, s) /\ n[k][2] \in {1, 2}
  /\ \A j, k \in 1 .. Len(n) : j < k => n[j][1] < n[k][1] \/ (n[j][1] = n[k][1] /\ n[j][2] = 1 /\ n[k][2] = 2)
  /\ \A k \in 1 .. Len(n) - 1 : IF n[k][2] = 1 THEN n[k + 1] = <<n[k][1], 2>> ELSE n[k + 1][2] = 1
  /\ n # <<>> => IF m[1][2] = 1 THEN n[1] = <<m[1][1], 2>> ELSE n[1][2] = 1
  /\ \A k \in 1 .. Len(n) : m[1][1] < n[k][1] \/ (m[1][1] = n[k][1] /\ m[1][2] = 1 /\ n[k][2] = 2)
  /\ w # <<>> => \A k \in 1 .. Len(n) : n[k][1] < w[1].p \/ (n[k][1] = w[1].p /\ n[k][2] < w[1].i)
  /\ n # <<>> => n[Len(n)] = m[Len(m)]
  /\ n = <<>> => Len(m) = 1

LEMMA MetadataTail ==
  ASSUME NEW h \in Histories, NEW s \in Stores, NEW w, NEW m, NEW r, MetadataOk(h, s, w, m, r), m # <<>>,
         NEW n, n = Tail(m)
  PROVE  RestIs(h, s, w, m, n)
<1>1. /\ m \in Seq(Nat \X Nat) /\ n \in Seq(Nat \X Nat) /\ Len(m) \in Nat /\ Len(m) > 0 /\ Len(n) = Len(m) - 1
      /\ \A k \in 1 .. Len(m) - 1 : n[k] = m[k + 1]
  BY TailIs DEF MetadataOk
<1>2. \A k \in 1 .. Len(n) : n[k] = m[k + 1] /\ k + 1 \in 1 .. Len(m) BY <1>1
<1>3. \A k \in 1 .. Len(n) : n[k][1] \in Mine(h, s) /\ n[k][2] \in {1, 2} BY <1>2 DEF MetadataOk
<1>4. \A j, k \in 1 .. Len(m) : j < k => m[j][1] < m[k][1] \/ (m[j][1] = m[k][1] /\ m[j][2] = 1 /\ m[k][2] = 2)
  BY DEF MetadataOk
<1>5. \A j, k \in 1 .. Len(n) : j < k => n[j][1] < n[k][1] \/ (n[j][1] = n[k][1] /\ n[j][2] = 1 /\ n[k][2] = 2)
  <2> TAKE j, k \in 1 .. Len(n)
  <2> HAVE j < k
  <2>1. j + 1 < k + 1 BY <1>1
  <2> QED BY <2>1, <1>2, <1>4
<1>6. \A k \in 1 .. Len(n) - 1 : IF n[k][2] = 1 THEN n[k + 1] = <<n[k][1], 2>> ELSE n[k + 1][2] = 1
  <2> TAKE k \in 1 .. Len(n) - 1
  <2>1. k \in 1 .. Len(n) /\ k + 1 \in 1 .. Len(n) /\ k + 1 \in 1 .. Len(m) - 1 BY <1>1
  <2>2. IF m[k + 1][2] = 1 THEN m[(k + 1) + 1] = <<m[k + 1][1], 2>> ELSE m[(k + 1) + 1][2] = 1 BY <2>1 DEF MetadataOk
  <2> QED BY <2>1, <2>2, <1>2
<1>7. n # <<>> => IF m[1][2] = 1 THEN n[1] = <<m[1][1], 2>> ELSE n[1][2] = 1
  <2> HAVE n # <<>>
  <2>1. 1 \in 1 .. Len(m) - 1 /\ 1 \in 1 .. Len(n) /\ 1 + 1 = 2 BY <1>1
  <2>2. IF m[1][2] = 1 THEN m[1 + 1] = <<m[1][1], 2>> ELSE m[1 + 1][2] = 1 BY <2>1 DEF MetadataOk
  <2> QED BY <2>1, <2>2, <1>2
<1>8. \A k \in 1 .. Len(n) : m[1][1] < n[k][1] \/ (m[1][1] = n[k][1] /\ m[1][2] = 1 /\ n[k][2] = 2)
  <2> TAKE k \in 1 .. Len(n)
  <2>1. 1 \in 1 .. Len(m) /\ k + 1 \in 1 .. Len(m) /\ 1 < k + 1 BY <1>1
  <2> QED BY <2>1, <1>2, <1>4
<1>9. w # <<>> => \A k \in 1 .. Len(n) : n[k][1] < w[1].p \/ (n[k][1] = w[1].p /\ n[k][2] < w[1].i)
  BY <1>2 DEF MetadataOk
<1>10. n # <<>> => n[Len(n)] = m[Len(m)]
  <2> HAVE n # <<>>
  <2>1. Len(n) \in 1 .. Len(n) /\ Len(n) + 1 = Len(m) BY <1>1
  <2> QED BY <2>1, <1>2
<1>11. Len(n) \in Nat /\ 1 \in 1 .. Len(m) BY <1>1
<1>12. n = <<>> => Len(m) = 1
  <2> HAVE n = <<>>
  <2>1. Len(n) = 0 BY <1>1, EmptyIs
  <2> QED BY <2>1, <1>1
<1> QED BY <1>1, <1>2, <1>3, <1>5, <1>6, <1>7, <1>8, <1>9, <1>10, <1>11, <1>12 DEF RestIs

(* remux sends the first word of an answer, and another one. *)
LEMMA MetadataFirst ==
  ASSUME NEW h \in Histories, NEW s \in Stores, NEW w, NEW m, NEW r, MetadataOk(h, s, w, m, r), r = <<>>, m # <<>>
  PROVE  m[1][2] = 1 /\ m[1][1] \in Nat /\ m[1][1] \in 1 .. Len(h) /\ MetadataOk(h, s, w, Tail(m), <<m[1][1], 1>>)
<1> DEFINE n == Tail(m)
           q == <<m[1][1], 1>>
<1>1. /\ n \in Seq(Nat \X Nat) /\ Len(n) \in Nat /\ Len(n) = Len(m) - 1 /\ Len(m) \in Nat /\ 1 \in 1 .. Len(m)
      /\ \A k \in 1 .. Len(n) : n[k] = m[k + 1] /\ k + 1 \in 1 .. Len(m)
      /\ \A k \in 1 .. Len(n) : n[k][1] \in Mine(h, s) /\ n[k][2] \in {1, 2}
      /\ \A j, k \in 1 .. Len(n) : j < k => n[j][1] < n[k][1] \/ (n[j][1] = n[k][1] /\ n[j][2] = 1 /\ n[k][2] = 2)
      /\ \A k \in 1 .. Len(n) - 1 : IF n[k][2] = 1 THEN n[k + 1] = <<n[k][1], 2>> ELSE n[k + 1][2] = 1
      /\ n # <<>> => IF m[1][2] = 1 THEN n[1] = <<m[1][1], 2>> ELSE n[1][2] = 1
      /\ \A k \in 1 .. Len(n) : m[1][1] < n[k][1] \/ (m[1][1] = n[k][1] /\ m[1][2] = 1 /\ n[k][2] = 2)
      /\ w # <<>> => \A k \in 1 .. Len(n) : n[k][1] < w[1].p \/ (n[k][1] = w[1].p /\ n[k][2] < w[1].i)
      /\ n # <<>> => n[Len(n)] = m[Len(m)]
      /\ n = <<>> => Len(m) = 1
  <2>1. RestIs(h, s, w, m, n) BY MetadataTail
  <2> QED BY <2>1 DEF RestIs
<1> HIDE DEF n
<1>2. m[1][2] = 1 BY DEF MetadataOk, Current
<1>3. m[1][1] \in Nat /\ m[1][1] \in Mine(h, s) BY <1>1, MetadataIs
<1>4. m[1][1] \in 1 .. Len(h) /\ Leaves(h, m[1][1]) \in Nat /\ Leaves(h, m[1][1]) >= 2
  <2>1. m[1][1] \in 1 .. Len(h) BY <1>3 DEF Mine
  <2> QED BY <2>1, PacketIs
<1>5. q # <<>> /\ q \in Nat \X Nat /\ q[1] = m[1][1] /\ q[2] = 1 BY <1>3
<1> HIDE DEF q
<1>6. Current(q) /\ q[1] \in Mine(h, s) /\ q[2] \in 1 .. Leaves(h, q[1]) - 1 BY <1>3, <1>4, <1>5 DEF Current
<1>7. w # <<>> => q[1] < w[1].p \/ (q[1] = w[1].p /\ 1 < w[1].i) BY <1>1, <1>2, <1>5 DEF MetadataOk
<1>8. (Half(n, q) <=> Half(m, r)) /\ (IF n # <<>> THEN n[Len(n)][1] ELSE q[1]) = m[Len(m)][1]
  <2>1. CASE n = <<>> BY <2>1, <1>1, <1>2, <1>5, <1>6 DEF Half
  <2>2. CASE n # <<>> BY <2>2, <1>1 DEF Half
  <2> QED BY <2>1, <2>2
<1>9. (Half(n, q) <=> w # <<>> /\ w[1].i = 2) /\ (Half(n, q) => w[1].p = (IF n # <<>> THEN n[Len(n)][1] ELSE q[1]))
  BY <1>8 DEF MetadataOk
<1>10. MetadataOk(h, s, w, n, q) BY <1>1, <1>2, <1>5, <1>6, <1>7, <1>9 DEF MetadataOk
<1> QED BY <1>2, <1>3, <1>4, <1>10 DEF n, q

LEMMA MetadataNext ==
  ASSUME NEW h \in Histories, NEW s \in Stores, NEW w, NEW m, NEW r, MetadataOk(h, s, w, m, r), Current(r), r[2] = 1 => m # <<>>,
         NEW n, n = (IF r[2] = 1 THEN Tail(m) ELSE m),
         NEW q, q = (IF r[2] + 1 = Leaves(h, r[1]) THEN <<>> ELSE <<r[1], r[2] + 1>>)
  PROVE  MetadataOk(h, s, w, n, q)
<1>1. /\ m \in Seq(Nat \X Nat) /\ Len(m) \in Nat
      /\ \A k \in 1 .. Len(m) : m[k][1] \in Nat /\ m[k][1] \in Mine(h, s) /\ m[k][2] \in {1, 2}
      /\ r \in Nat \X Nat /\ r[1] \in Mine(h, s) /\ r[1] \in Nat /\ r[2] \in Nat /\ r[2] >= 1
      /\ r[2] < Leaves(h, r[1]) /\ r[1] \in 1 .. Len(h)
  BY MetadataIs
<1>2. Leaves(h, r[1]) \in Nat BY <1>1, PacketIs
<1>3. Current(q) => q \in Nat \X Nat /\ q[1] = r[1] /\ q[2] = r[2] + 1 /\ q[2] \in 1 .. Leaves(h, q[1]) - 1
  BY <1>1, <1>2 DEF Current
<1>4. ~(Current(q) /\ q[2] = 1) BY <1>1, <1>3
<1>5. w # <<>> => r[1] < w[1].p \/ (r[1] = w[1].p /\ 1 < w[1].i) BY DEF MetadataOk
<1>6. CASE r[2] # 1
  <2>1. n = m BY <1>6
  <2>2. Half(n, q) <=> Half(m, r) BY <2>1, <1>4, <1>6 DEF Half
  <2>3. Half(n, q) => m # <<>> BY <2>1, <1>4 DEF Half
  <2>4. (Half(n, q) <=> w # <<>> /\ w[1].i = 2) /\ (Half(n, q) => w[1].p = (IF n # <<>> THEN n[Len(n)][1] ELSE q[1]))
    BY <2>1, <2>2, <2>3 DEF MetadataOk
  <2>5. Current(q) => \A k \in 1 .. Len(m) : q[1] < m[k][1] \/ (q[1] = m[k][1] /\ m[k][2] = 2) BY <1>3 DEF MetadataOk
  <2>6. m # <<>> => m[1][2] = 1 BY <1>6 DEF MetadataOk
  <2>7. /\ \A j, k \in 1 .. Len(m) : j < k => m[j][1] < m[k][1] \/ (m[j][1] = m[k][1] /\ m[j][2] = 1 /\ m[k][2] = 2)
        /\ \A k \in 1 .. Len(m) - 1 : IF m[k][2] = 1 THEN m[k + 1] = <<m[k][1], 2>> ELSE m[k + 1][2] = 1
        /\ w # <<>> => \A k \in 1 .. Len(m) : m[k][1] < w[1].p \/ (m[k][1] = w[1].p /\ m[k][2] < w[1].i)
    BY DEF MetadataOk
  <2>8. MetadataOk(h, s, w, m, q) BY <2>1, <2>4, <2>5, <2>6, <2>7, <1>1, <1>3, <1>4, <1>5 DEF MetadataOk
  <2> QED BY <2>1, <2>8
<1>7. CASE r[2] = 1
  <2>1. n = Tail(m) /\ m # <<>> BY <1>7
  <2>2. /\ n \in Seq(Nat \X Nat) /\ Len(n) \in Nat /\ Len(n) = Len(m) - 1 /\ Len(m) \in Nat /\ 1 \in 1 .. Len(m)
        /\ \A k \in 1 .. Len(n) : n[k] = m[k + 1] /\ k + 1 \in 1 .. Len(m)
        /\ \A k \in 1 .. Len(n) : n[k][1] \in Mine(h, s) /\ n[k][2] \in {1, 2}
        /\ \A j, k \in 1 .. Len(n) : j < k => n[j][1] < n[k][1] \/ (n[j][1] = n[k][1] /\ n[j][2] = 1 /\ n[k][2] = 2)
        /\ \A k \in 1 .. Len(n) - 1 : IF n[k][2] = 1 THEN n[k + 1] = <<n[k][1], 2>> ELSE n[k + 1][2] = 1
        /\ n # <<>> => IF m[1][2] = 1 THEN n[1] = <<m[1][1], 2>> ELSE n[1][2] = 1
        /\ w # <<>> => \A k \in 1 .. Len(n) : n[k][1] < w[1].p \/ (n[k][1] = w[1].p /\ n[k][2] < w[1].i)
        /\ n # <<>> => n[Len(n)] = m[Len(m)]
        /\ n = <<>> => Len(m) = 1
    <3>1. RestIs(h, s, w, m, n) BY <2>1, MetadataTail
    <3> QED BY <3>1 DEF RestIs
  <2>3. m[1] = <<r[1], 2>> BY <2>1, <1>7 DEF MetadataOk
  <2>4. n # <<>> => n[1][2] = 1 BY <2>2, <2>3
  <2>5. Half(n, q) <=> Half(m, r)
    <3>1. CASE n = <<>>
      <4>1. ~Half(n, q) BY <3>1, <1>4 DEF Half
      <4>2. ~Half(m, r) BY <3>1, <2>1, <2>2, <2>3 DEF Half
      <4> QED BY <4>1, <4>2
    <3>2. CASE n # <<>> BY <3>2, <2>1, <2>2 DEF Half
    <3> QED BY <3>1, <3>2
  <2>6. Half(n, q) => n # <<>> BY <1>4 DEF Half
  <2>7. (Half(n, q) <=> w # <<>> /\ w[1].i = 2) /\ (Half(n, q) => w[1].p = (IF n # <<>> THEN n[Len(n)][1] ELSE q[1]))
    BY <2>1, <2>2, <2>5, <2>6 DEF MetadataOk
  <2>8. Current(q) => \A k \in 1 .. Len(n) : q[1] < n[k][1] \/ (q[1] = n[k][1] /\ n[k][2] = 2)
    <3>1. \A k \in 1 .. Len(m) : r[1] < m[k][1] \/ (r[1] = m[k][1] /\ m[k][2] = 2) BY DEF MetadataOk
    <3> QED BY <3>1, <2>2, <1>3
  <2> QED BY <2>2, <2>4, <2>7, <2>8, <1>1, <1>3, <1>4, <1>5 DEF MetadataOk
<1> QED BY <1>6, <1>7

LEMMA GetsAre ==
  ASSUME NEW h \in Histories, NEW m, NEW r, NEW t, NEW v, NEW pos, GetsOk(h, m, r, t, v, pos)
  PROVE  /\ t \in Seq(Nat) /\ v \in Seq(Value) /\ pos \in Nat /\ Len(t) \in Nat /\ Len(v) \in Nat
         /\ \A p \in AtRemux(h, m, r) : p \in 1 .. Len(h) /\ p \in Nat /\ h[p].op = "get" /\ h[p].len \in Nat /\ h[p].len >= 2
         /\ \A k \in 1 .. Len(t) : t[k] \in Nat /\ t[k] \in AtRemux(h, m, r)
         /\ \A k \in 1 .. Len(v) : v[k] \in Value /\ v[k].p \in Nat /\ v[k].i \in Nat /\ v[k].i >= 1 /\ v[k].i <= h[v[k].p].len
                                   /\ v[k].p \in AtRemux(h, m, r)
<1>1. t \in Seq(Nat) /\ v \in Seq(Value) /\ pos \in Nat /\ Len(t) \in Nat /\ Len(v) \in Nat BY DEF GetsOk
<1>2. \A p \in AtRemux(h, m, r) : p \in 1 .. Len(h) /\ h[p].op = "get" BY DEF AtRemux
<1>3. \A p \in AtRemux(h, m, r) : p \in Nat /\ h[p].len \in Nat /\ h[p].len >= 2 BY <1>2, PacketIs
<1>4. \A k \in 1 .. Len(t) : t[k] \in Nat /\ t[k] \in AtRemux(h, m, r) BY <1>1, ElementIs DEF GetsOk
<1>5. \A k \in 1 .. Len(v) : v[k] \in Value BY <1>1, ElementIs
<1>6. \A k \in 1 .. Len(v) : v[k].p \in Nat /\ v[k].i \in Nat BY <1>5 DEF Value
<1>7. \A k \in 1 .. Len(v) : v[k].p \in AtRemux(h, m, r) /\ v[k].i \in 1 .. h[v[k].p].len BY DEF GetsOk
<1>8. \A k \in 1 .. Len(v) : v[k].i >= 1 /\ v[k].i <= h[v[k].p].len BY <1>3, <1>6, <1>7
<1> QED BY <1>1, <1>2, <1>3, <1>4, <1>5, <1>6, <1>7, <1>8

(* The values at remux are older than those to be received. *)
LEMMA GetsOrder ==
  ASSUME NEW h \in Histories, NEW m, NEW r, NEW t, NEW v, NEW pos, GetsOk(h, m, r, t, v, pos),
         NEW j \in 1 .. Len(v), NEW k \in 1 .. Len(t)
  PROVE  v[j].p <= t[k] /\ (v[j].i = h[v[j].p].len => v[j].p < t[k])
<1> DEFINE last == v[Len(v)]
<1>1. /\ t \in Seq(Nat) /\ v \in Seq(Value) /\ Len(t) \in Nat /\ Len(v) \in Nat
      /\ \A i \in 1 .. Len(t) : t[i] \in Nat
      /\ \A i \in 1 .. Len(v) : v[i].p \in Nat /\ v[i].i \in Nat /\ v[i].i <= h[v[i].p].len /\ v[i].p \in AtRemux(h, m, r)
      /\ \A p \in AtRemux(h, m, r) : h[p].len \in Nat
  BY GetsAre
<1>2. Len(v) \in 1 .. Len(v) /\ 1 \in 1 .. Len(t) /\ v # <<>> BY <1>1
<1>3. v[j].p \in Nat /\ v[j].i \in Nat /\ h[v[j].p].len \in Nat /\ last.p \in Nat /\ last.i \in Nat /\ h[last.p].len \in Nat
      /\ t[k] \in Nat /\ t[1] \in Nat /\ last.i <= h[last.p].len
  BY <1>1, <1>2
<1>4. j = Len(v) \/ Earlier(v[j], last)
  <2>1. j # Len(v) => j < Len(v) BY <1>1
  <2> QED BY <2>1, <1>2 DEF GetsOk
<1>5. t[1] <= t[k]
  <2>1. k # 1 => 1 < k BY <1>1
  <2>2. k # 1 => t[1] < t[k] BY <2>1, <1>2 DEF GetsOk
  <2> QED BY <2>2, <1>3
<1>6. IF last.i < h[last.p].len THEN t[1] = last.p ELSE last.p < t[k] BY <1>2 DEF GetsOk
<1>7. v[j].p < last.p \/ (v[j].p = last.p /\ (v[j].i < last.i \/ j = Len(v))) BY <1>4, <1>3 DEF Earlier
<1> HIDE DEF last
<1>8. CASE last.i < h[last.p].len BY <1>8, <1>3, <1>5, <1>6, <1>7 DEF last
<1>9. CASE ~(last.i < h[last.p].len) BY <1>9, <1>3, <1>6, <1>7
<1> QED BY <1>8, <1>9

(* At the head of the values is the first of the gets at remux. *)
LEMMA GetsFirst ==
  ASSUME NEW h \in Histories, NEW m, NEW r, NEW t, NEW v, NEW pos, GetsOk(h, m, r, t, v, pos),
         v # <<>>, NEW p \in AtRemux(h, m, r)
  PROVE  v[1].p <= p
<1>1. /\ t \in Seq(Nat) /\ v \in Seq(Value) /\ Len(v) \in Nat
      /\ \A i \in 1 .. Len(v) : v[i].p \in Nat
  BY GetsAre
<1>2. 1 \in 1 .. Len(v) BY <1>1, EmptyIs
<1>3. CASE \E k \in 1 .. Len(t) : t[k] = p BY <1>2, <1>3, GetsOrder
<1>4. CASE \E k \in 1 .. Len(v) : v[k].p = p
  <2>1. PICK k \in 1 .. Len(v) : v[k].p = p BY <1>4
  <2>2. k = 1 \/ Earlier(v[1], v[k])
    <3>1. k # 1 => 1 < k BY <1>1
    <3> QED BY <3>1, <1>2 DEF GetsOk
  <2> QED BY <2>1, <2>2, <1>1, <1>2 DEF Earlier
<1> QED BY <1>3, <1>4 DEF GetsOk

(* u is what is left of the values behind the first. *)
OthersAre(h, v, u) ==
  /\ u \in Seq(Value) /\ Len(u) \in Nat /\ Len(u) = Len(v) - 1 /\ 1 \in 1 .. Len(v)
  /\ \A k \in 1 .. Len(u) : u[k] = v[k + 1] /\ k + 1 \in 1 .. Len(v)
  /\ u # <<>> => /\ u[1] = v[2] /\ u[Len(u)] = v[Len(v)] /\ 2 \in 1 .. Len(v)
                 /\ IF v[1].i < h[v[1].p].len THEN u[1].p = v[1].p /\ u[1].i = v[1].i + 1 ELSE u[1].i = 1
  /\ u = <<>> => Len(v) = 1
  /\ \A j, k \in 1 .. Len(u) : j < k => Earlier(u[j], u[k])
  /\ \A k \in 1 .. Len(u) : Earlier(v[1], u[k])
  /\ \A k \in 1 .. Len(u) - 1 :
       IF u[k].i < h[u[k].p].len THEN u[k + 1].p = u[k].p /\ u[k + 1].i = u[k].i + 1 ELSE u[k + 1].i = 1

LEMMA SecondValue ==
  ASSUME NEW h \in Histories, NEW m, NEW r, NEW t, NEW v, NEW pos, GetsOk(h, m, r, t, v, pos), v # <<>>,
         NEW u, u = Tail(v)
  PROVE  OthersAre(h, v, u)
<1>1. /\ v \in Seq(Value) /\ u \in Seq(Value) /\ Len(v) \in Nat /\ Len(v) > 0 /\ Len(u) = Len(v) - 1 /\ Len(u) \in Nat
      /\ \A k \in 1 .. Len(v) - 1 : u[k] = v[k + 1]
  BY TailIs, GetsAre
<1>2. \A k \in 1 .. Len(u) : u[k] = v[k + 1] /\ k + 1 \in 1 .. Len(v) BY <1>1
<1>3. ASSUME u # <<>>
      PROVE  /\ u[1] = v[2] /\ u[Len(u)] = v[Len(v)] /\ 2 \in 1 .. Len(v)
             /\ IF v[1].i < h[v[1].p].len THEN u[1].p = v[1].p /\ u[1].i = v[1].i + 1 ELSE u[1].i = 1
  <2>1. Len(u) \in 1 .. Len(u) /\ 1 \in 1 .. Len(u) /\ Len(u) + 1 = Len(v) /\ 1 \in 1 .. Len(v) - 1 BY <1>1, <1>3, EmptyIs
  <2>2. u[1] = v[1 + 1] /\ u[Len(u)] = v[Len(v)] /\ 1 + 1 \in 1 .. Len(v) BY <2>1, <1>2
  <2>3. IF v[1].i < h[v[1].p].len THEN v[1 + 1].p = v[1].p /\ v[1 + 1].i = v[1].i + 1 ELSE v[1 + 1].i = 1 BY <2>1 DEF GetsOk
  <2> QED BY <2>2, <2>3
<1>4. u = <<>> => Len(v) = 1
  <2> HAVE u = <<>>
  <2>1. Len(u) = 0 BY <1>1, EmptyIs
  <2> QED BY <2>1, <1>1
<1>5. \A j, k \in 1 .. Len(v) : j < k => Earlier(v[j], v[k]) BY DEF GetsOk
<1>6. \A j, k \in 1 .. Len(u) : j < k => Earlier(u[j], u[k])
  <2> TAKE j, k \in 1 .. Len(u)
  <2> HAVE j < k
  <2>1. j + 1 < k + 1 BY <1>1
  <2> QED BY <2>1, <1>2, <1>5
<1>7. \A k \in 1 .. Len(u) : Earlier(v[1], u[k])
  <2> TAKE k \in 1 .. Len(u)
  <2>1. 1 \in 1 .. Len(v) /\ k + 1 \in 1 .. Len(v) /\ 1 < k + 1 BY <1>1
  <2> QED BY <2>1, <1>2, <1>5
<1>8. \A k \in 1 .. Len(u) - 1 :
        IF u[k].i < h[u[k].p].len THEN u[k + 1].p = u[k].p /\ u[k + 1].i = u[k].i + 1 ELSE u[k + 1].i = 1
  <2> TAKE k \in 1 .. Len(u) - 1
  <2>1. k \in 1 .. Len(u) /\ k + 1 \in 1 .. Len(u) /\ k + 1 \in 1 .. Len(v) - 1 BY <1>1
  <2>2. u[k] = v[k + 1] /\ u[k + 1] = v[(k + 1) + 1] BY <2>1, <1>2
  <2>3. IF v[k + 1].i < h[v[k + 1].p].len THEN v[(k + 1) + 1].p = v[k + 1].p /\ v[(k + 1) + 1].i = v[k + 1].i + 1
        ELSE v[(k + 1) + 1].i = 1
    BY <2>1 DEF GetsOk
  <2> QED BY <2>2, <2>3
<1>9. 1 \in 1 .. Len(v) BY <1>1
<1> QED BY <1>1, <1>2, <1>3, <1>4, <1>6, <1>7, <1>8, <1>9 DEF OthersAre

LEMMA AtRemuxGrows ==
  ASSUME NEW h \in Histories, NEW x \in Packet, NEW s \in Stores, NEW w, NEW m, NEW r, MetadataOk(h, s, w, m, r)
  PROVE  AtRemux(Append(h, x), m, r) = AtRemux(h, m, r)
<1> DEFINE g == Append(h, x)
<1>1. /\ Len(h) \in Nat /\ Len(g) = Len(h) + 1 /\ \A p \in 1 .. Len(h) : g[p] = h[p]
      /\ Mine(h, s) \subseteq 1 .. Len(h)
  BY HistoryGrows
<1> HIDE DEF g
<1>2. (Current(r) => r[1] \in 1 .. Len(h)) /\ \A k \in 1 .. Len(m) : m[k][1] \in 1 .. Len(h) BY <1>1, MetadataIs
<1>3. \A p : (Current(r) /\ r[1] = p) \/ (\E k \in 1 .. Len(m) : m[k] = <<p, 1>>) => p \in 1 .. Len(h)
  <2> TAKE p
  <2>1. \A k \in 1 .. Len(m) : m[k] = <<p, 1>> => m[k][1] = p OBVIOUS
  <2> QED BY <2>1, <1>2
<1>4. 1 .. Len(h) \subseteq 1 .. Len(g) BY <1>1
<1> QED BY <1>1, <1>3, <1>4 DEF AtRemux, g

LEMMA GetsGrow ==
  ASSUME NEW h \in Histories, NEW x \in Packet, NEW s \in Stores, NEW w, NEW m, NEW r, MetadataOk(h, s, w, m, r),
         NEW t, NEW v, NEW pos, GetsOk(h, m, r, t, v, pos)
  PROVE  GetsOk(Append(h, x), m, r, t, v, pos)
<1> DEFINE g == Append(h, x)
<1>1. AtRemux(g, m, r) = AtRemux(h, m, r) BY AtRemuxGrows
<1>2. \A p \in 1 .. Len(h) : g[p] = h[p] BY HistoryGrows
<1> HIDE DEF g
<1>3. /\ t \in Seq(Nat) /\ v \in Seq(Value) /\ pos \in Nat /\ Len(t) \in Nat /\ Len(v) \in Nat
      /\ \A k \in 1 .. Len(t) : t[k] \in AtRemux(h, m, r)
      /\ \A k \in 1 .. Len(v) : v[k].p \in AtRemux(h, m, r)
      /\ \A p \in AtRemux(h, m, r) : p \in 1 .. Len(h)
  BY GetsAre
<1>4. (Current(r) => g[r[1]] = h[r[1]]) /\ (\A k \in 1 .. Len(t) : g[t[k]] = h[t[k]])
      /\ (\A k \in 1 .. Len(v) : g[v[k].p] = h[v[k].p]) /\ \A p \in AtRemux(h, m, r) : g[p] = h[p]
  BY <1>2, <1>3, MetadataIs
<1>5. (v # <<>> => Len(v) \in 1 .. Len(v)) /\ (t # <<>> => 1 \in 1 .. Len(t)) /\ \A k \in 1 .. Len(v) - 1 : k \in 1 .. Len(v)
  BY <1>3, EmptyIs
<1>6. \A k \in 1 .. Len(v) : v[k].p \in AtRemux(h, m, r) /\ v[k].i \in 1 .. g[v[k].p].len BY <1>4 DEF GetsOk
<1>7. \A k \in 1 .. Len(v) - 1 :
        IF v[k].i < g[v[k].p].len THEN v[k + 1].p = v[k].p /\ v[k + 1].i = v[k].i + 1 ELSE v[k + 1].i = 1
  BY <1>4, <1>5 DEF GetsOk
<1>8. v # <<>> =>
       LET last == v[Len(v)] IN
       IF last.i < g[last.p].len THEN t # <<>> /\ t[1] = last.p /\ pos = last.i
       ELSE pos = 0 /\ \A k \in 1 .. Len(t) : last.p < t[k]
  BY <1>4, <1>5 DEF GetsOk
<1>9. v # <<>> =>
       IF Current(r) /\ g[r[1]].op = "get" THEN v[1].p = r[1] /\ v[1].i = r[2] + 1 ELSE v[1].i = 1
  BY <1>4 DEF GetsOk
<1>10. v = <<>> =>
       IF Current(r) /\ g[r[1]].op = "get" THEN t # <<>> /\ t[1] = r[1] /\ pos = r[2] ELSE pos = 0
  BY <1>4 DEF GetsOk
<1>11. t # <<>> => pos < g[t[1]].len BY <1>4, <1>5 DEF GetsOk
<1>12. \A p \in AtRemux(h, m, r) :
         (\E k \in 1 .. Len(t) : t[k] = p) \/ \E k \in 1 .. Len(v) : v[k].p = p /\ v[k].i = g[p].len
  <2> TAKE p \in AtRemux(h, m, r)
  <2>1. g[p] = h[p] BY <1>4
  <2>2. (\E k \in 1 .. Len(t) : t[k] = p) \/ \E k \in 1 .. Len(v) : v[k].p = p /\ v[k].i = h[p].len BY DEF GetsOk
  <2> QED BY <2>1, <2>2
<1>13. (\A j, k \in 1 .. Len(t) : j < k => t[j] < t[k]) /\ \A j, k \in 1 .. Len(v) : j < k => Earlier(v[j], v[k]) BY DEF GetsOk
<1>14. GetsOk(g, m, r, t, v, pos) BY <1>1, <1>3, <1>6, <1>7, <1>8, <1>9, <1>10, <1>11, <1>12, <1>13 DEF GetsOk
<1> QED BY <1>14 DEF g

(* Metadata that is no first word of a get changes nothing. *)
LEMMA GetsKept ==
  ASSUME NEW h, NEW m, NEW r, NEW n, NEW q, NEW t, NEW v, NEW pos, GetsOk(h, m, r, t, v, pos),
         AtRemux(h, n, q) = AtRemux(h, m, r),
         (Current(q) /\ h[q[1]].op = "get") <=> (Current(r) /\ h[r[1]].op = "get"),
         Current(q) /\ Current(r) => q = r
  PROVE  GetsOk(h, n, q, t, v, pos)
<1>1. Current(q) /\ h[q[1]].op = "get" => q = r OBVIOUS
<1>2. v # <<>> =>
       IF Current(q) /\ h[q[1]].op = "get" THEN v[1].p = q[1] /\ v[1].i = q[2] + 1 ELSE v[1].i = 1
  BY <1>1 DEF GetsOk
<1>3. v = <<>> =>
       IF Current(q) /\ h[q[1]].op = "get" THEN t # <<>> /\ t[1] = q[1] /\ pos = q[2] ELSE pos = 0
  BY <1>1 DEF GetsOk
<1> QED BY <1>2, <1>3 DEF GetsOk

LEMMA GetsDemux ==
  ASSUME NEW h \in Histories, NEW s \in Stores, NEW w, NEW m, NEW r, WordsOk(h, s, w), w # <<>>, MetadataOk(h, s, w, m, r),
         NEW n, n = (IF w[1].i <= 2 THEN Append(m, <<w[1].p, w[1].i>>) ELSE m),
         NEW t, NEW v, NEW pos, GetsOk(h, m, r, t, v, pos),
         NEW u, u = (IF h[w[1].p].op = "get" /\ w[1].i = 1 THEN Append(t, w[1].p) ELSE t)
  PROVE  GetsOk(h, n, r, u, v, pos)
<1> DEFINE a == w[1]
           e == <<a.p, a.i>>
           A == AtRemux(h, m, r)
           B == AtRemux(h, n, r)
<1>1. a.p \in Nat /\ a.i \in Nat /\ a.p \in Mine(h, s) /\ a.i >= 1 /\ a.p \in 1 .. Len(h) BY SecondWord
<1>2. /\ m \in Seq(Nat \X Nat) /\ Len(m) \in Nat
      /\ \A k \in 1 .. Len(m) : m[k][1] < a.p \/ (m[k][1] = a.p /\ m[k][2] < a.i)
      /\ Current(r) => r[1] < a.p \/ (r[1] = a.p /\ 1 < a.i)
  BY DEF MetadataOk
<1>3. /\ t \in Seq(Nat) /\ v \in Seq(Value) /\ pos \in Nat /\ Len(t) \in Nat /\ Len(v) \in Nat
      /\ \A p \in A : p \in 1 .. Len(h) /\ p \in Nat /\ h[p].op = "get" /\ h[p].len \in Nat /\ h[p].len >= 2
      /\ \A k \in 1 .. Len(t) : t[k] \in Nat /\ t[k] \in A
      /\ \A k \in 1 .. Len(v) : v[k] \in Value /\ v[k].p \in Nat /\ v[k].i \in Nat /\ v[k].i >= 1 /\ v[k].i <= h[v[k].p].len
                                /\ v[k].p \in A
  BY GetsAre
<1>e. e \in Nat \X Nat /\ e[1] = a.p /\ e[2] = a.i BY <1>1
<1>n. n = m \/ (a.i <= 2 /\ n = Append(m, e)) OBVIOUS
<1>l. n # m => /\ Len(n) = Len(m) + 1 /\ n[Len(m) + 1] = e /\ \A k \in 1 .. Len(m) : n[k] = m[k]
  BY <1>2, <1>e, <1>n, AppendIs
<1>4. CASE ~(h[a.p].op = "get" /\ a.i = 1)
  <2>1. u = t BY <1>4
  <2>2. \A p : h[p].op = "get" => ((\E k \in 1 .. Len(n) : n[k] = <<p, 1>>) <=> \E k \in 1 .. Len(m) : m[k] = <<p, 1>>)
    <3> TAKE p
    <3> HAVE h[p].op = "get"
    <3> SUFFICES ASSUME n # m PROVE (\E k \in 1 .. Len(n) : n[k] = <<p, 1>>) <=> \E k \in 1 .. Len(m) : m[k] = <<p, 1>> OBVIOUS
    <3>1. e # <<p, 1>> BY <1>4
    <3> HIDE DEF e, a
    <3>2. \A k \in 1 .. Len(n) : k \in 1 .. Len(m) \/ n[k] = e BY <1>l, <1>2
    <3>3. \A k \in 1 .. Len(m) : k \in 1 .. Len(n) BY <1>l, <1>2
    <3> QED BY <3>1, <3>2, <3>3, <1>l
  <2>3. B = A BY <2>2 DEF AtRemux
  <2> QED BY <2>1, <2>3, GetsKept
<1>5. CASE h[a.p].op = "get" /\ a.i = 1
  <2>1. u = Append(t, a.p) /\ n = Append(m, e) /\ n # m
    <3>1. u = Append(t, a.p) /\ n = Append(m, e) BY <1>5
    <3>2. Len(Append(m, e)) = Len(m) + 1 BY <1>2, <1>e, AppendIs
    <3> QED BY <3>1, <3>2, <1>2
  <2>2. \A p \in A : p < a.p
    <3> TAKE p \in A
    <3>1. CASE Current(r) /\ r[1] = p BY <3>1, <1>2, <1>5
    <3>2. CASE \E k \in 1 .. Len(m) : m[k] = <<p, 1>>
      <4>1. PICK k \in 1 .. Len(m) : m[k] = <<p, 1>> BY <3>2
      <4>2. m[k][1] = p /\ m[k][2] = 1 BY <4>1
      <4>3. m[k][1] < a.p \/ (m[k][1] = a.p /\ m[k][2] < a.i) BY <1>2
      <4> QED BY <4>2, <4>3, <1>5
    <3> QED BY <3>1, <3>2 DEF AtRemux
  <2>3. e = <<a.p, 1>> BY <1>5
  <2> HIDE DEF e, a
  <2>4. /\ u \in Seq(Nat) /\ u # <<>> /\ Len(u) = Len(t) + 1 /\ u[Len(t) + 1] = a.p
        /\ \A k \in 1 .. Len(t) : u[k] = t[k]
    <3>1. u = Append(t, a.p) BY <2>1
    <3>2. t \in Seq(Nat) /\ a.p \in Nat BY <1>1, <1>3
    <3> QED BY <3>1, <3>2, AppendIs
  <2>5. \A k \in 1 .. Len(u) : k \in 1 .. Len(t) \/ (k = Len(t) + 1 /\ u[k] = a.p) BY <2>4, <1>3
  <2>6. B = A \cup {a.p}
    <3>1. \A k \in 1 .. Len(n) : k \in 1 .. Len(m) \/ n[k] = e BY <1>l, <2>1, <1>2
    <3>2. \A k \in 1 .. Len(m) : k \in 1 .. Len(n) /\ n[k] = m[k] BY <1>l, <2>1, <1>2
    <3>3. Len(m) + 1 \in 1 .. Len(n) /\ n[Len(m) + 1] = <<a.p, 1>> BY <1>l, <2>1, <1>2, <2>3
    <3>4. \A p : (\E k \in 1 .. Len(n) : n[k] = <<p, 1>>) <=> p = a.p \/ \E k \in 1 .. Len(m) : m[k] = <<p, 1>>
      <4> TAKE p
      <4>1. e = <<p, 1>> <=> p = a.p BY <2>3
      <4> QED BY <4>1, <3>1, <3>2, <3>3, <2>3
    <3> QED BY <3>4, <1>1, <1>5 DEF AtRemux
  <2>7. \A k \in 1 .. Len(u) : u[k] \in B BY <2>4, <2>5, <2>6, <1>3
  <2>8. \A j, k \in 1 .. Len(u) : j < k => u[j] < u[k]
    <3> TAKE j, k \in 1 .. Len(u)
    <3> HAVE j < k
    <3>1. j \in 1 .. Len(t) BY <2>4, <1>3
    <3>2. CASE k \in 1 .. Len(t) BY <3>1, <3>2, <2>4 DEF GetsOk
    <3>3. CASE k \notin 1 .. Len(t) BY <3>1, <3>3, <2>2, <2>4, <2>5, <1>3
    <3> QED BY <3>2, <3>3
  <2>9. \A k \in 1 .. Len(v) : v[k].p \in B /\ v[k].i \in 1 .. h[v[k].p].len BY <2>6 DEF GetsOk
  <2>10. v # <<>> => Len(v) \in 1 .. Len(v) BY <1>3, EmptyIs
  <2>11. (t # <<>> => u[1] = t[1]) /\ (t = <<>> => u[1] = a.p)
    <3>1. t # <<>> => 1 \in 1 .. Len(t) BY <1>3, EmptyIs
    <3>2. t = <<>> => Len(t) + 1 = 1 BY <1>3, EmptyIs
    <3> QED BY <3>1, <3>2, <2>4
  <2>12. v # <<>> =>
       LET last == v[Len(v)] IN
       IF last.i < h[last.p].len THEN u # <<>> /\ u[1] = last.p /\ pos = last.i
       ELSE pos = 0 /\ \A k \in 1 .. Len(u) : last.p < u[k]
    <3> HAVE v # <<>>
    <3>1. v[Len(v)].p < a.p BY <2>2, <2>10, <1>3
    <3>2. IF v[Len(v)].i < h[v[Len(v)].p].len THEN t # <<>> /\ t[1] = v[Len(v)].p /\ pos = v[Len(v)].i
          ELSE pos = 0 /\ \A k \in 1 .. Len(t) : v[Len(v)].p < t[k]
      BY DEF GetsOk
    <3>3. CASE v[Len(v)].i < h[v[Len(v)].p].len BY <3>2, <3>3, <2>4, <2>11
    <3>4. CASE ~(v[Len(v)].i < h[v[Len(v)].p].len)
      <4>1. \A k \in 1 .. Len(u) : v[Len(v)].p < u[k] BY <3>1, <3>2, <3>4, <2>4, <2>5
      <4> QED BY <4>1, <3>2, <3>4
    <3> QED BY <3>3, <3>4
  <2>13. v = <<>> =>
       IF Current(r) /\ h[r[1]].op = "get" THEN u # <<>> /\ u[1] = r[1] /\ pos = r[2] ELSE pos = 0
    BY <2>4, <2>11 DEF GetsOk
  <2>14. pos < h[u[1]].len
    <3>1. CASE t # <<>> BY <3>1, <2>11 DEF GetsOk
    <3>2. CASE t = <<>>
      <4>1. pos = 0 BY <3>2 DEF GetsOk
      <4> QED BY <4>1, <3>2, <2>11, <1>1, PacketIs
    <3> QED BY <3>1, <3>2
  <2>15. \A p \in B :
       (\E k \in 1 .. Len(u) : u[k] = p) \/ \E k \in 1 .. Len(v) : v[k].p = p /\ v[k].i = h[p].len
    <3> TAKE p \in B
    <3>1. CASE p = a.p
      <4>1. Len(t) + 1 \in 1 .. Len(u) BY <2>4, <1>3
      <4> QED BY <4>1, <3>1, <2>4
    <3>2. CASE p \in A
      <4>1. (\E k \in 1 .. Len(t) : t[k] = p) \/ \E k \in 1 .. Len(v) : v[k].p = p /\ v[k].i = h[p].len BY <3>2 DEF GetsOk
      <4>2. \A k \in 1 .. Len(t) : k \in 1 .. Len(u) BY <2>4, <1>3
      <4> QED BY <4>1, <4>2, <2>4
    <3> QED BY <3>1, <3>2, <2>6
  <2> QED BY <2>4, <2>7, <2>8, <2>9, <2>12, <2>13, <2>14, <2>15, <1>3 DEF GetsOk
<1> QED BY <1>4, <1>5

LEMMA GetsReceive ==
  ASSUME NEW h \in Histories, NEW m, NEW r, NEW t, NEW v, NEW pos, GetsOk(h, m, r, t, v, pos), t # <<>>,
         NEW x \in Word,
         NEW u, u = Append(v, [p |-> t[1], i |-> pos + 1, v |-> x]),
         NEW n, n = (IF pos + 1 = h[t[1]].len THEN Tail(t) ELSE t),
         NEW next, next = (IF pos + 1 = h[t[1]].len THEN 0 ELSE pos + 1)
  PROVE  GetsOk(h, m, r, n, u, next)
<1> DEFINE A == AtRemux(h, m, r)
           e == [p |-> t[1], i |-> pos + 1, v |-> x]
           last == v[Len(v)]
<1>1. /\ t \in Seq(Nat) /\ v \in Seq(Value) /\ pos \in Nat /\ Len(t) \in Nat /\ Len(v) \in Nat
      /\ \A p \in A : p \in 1 .. Len(h) /\ p \in Nat /\ h[p].op = "get" /\ h[p].len \in Nat /\ h[p].len >= 2
      /\ \A k \in 1 .. Len(t) : t[k] \in Nat /\ t[k] \in A
      /\ \A k \in 1 .. Len(v) : v[k] \in Value /\ v[k].p \in Nat /\ v[k].i \in Nat /\ v[k].i >= 1 /\ v[k].i <= h[v[k].p].len
                                /\ v[k].p \in A
  BY GetsAre
<1>2. 1 \in 1 .. Len(t) /\ t[1] \in A /\ t[1] \in Nat /\ h[t[1]].len \in Nat /\ pos < h[t[1]].len
  <2>1. 1 \in 1 .. Len(t) BY <1>1, EmptyIs
  <2> QED BY <2>1, <1>1 DEF GetsOk
<1>3. e \in Value /\ e.p = t[1] /\ e.i = pos + 1
  <2>1. pos + 1 \in Nat BY <1>1
  <2> QED BY <2>1, <1>2 DEF Value
<1>u. u = Append(v, e) OBVIOUS
<1> HIDE DEF e, A
<1>4. /\ u \in Seq(Value) /\ u # <<>> /\ Len(u) = Len(v) + 1 /\ u[Len(v) + 1] = e /\ \A k \in 1 .. Len(v) : u[k] = v[k]
  <2>1. v \in Seq(Value) /\ e \in Value BY <1>1, <1>3
  <2> QED BY <2>1, <1>u, AppendIs
<1>5. \A k \in 1 .. Len(u) : k \in 1 .. Len(v) \/ (k = Len(v) + 1 /\ u[k] = e) BY <1>4, <1>1
<1>6. v # <<>> => /\ Len(v) \in 1 .. Len(v)
                  /\ IF last.i < h[last.p].len THEN t[1] = last.p /\ pos = last.i ELSE pos = 0 /\ last.p < t[1]
  <2>1. v # <<>> => Len(v) \in 1 .. Len(v) BY <1>1, EmptyIs
  <2> QED BY <2>1, <1>2 DEF GetsOk
<1>7. \A k \in 1 .. Len(u) : u[k].p \in A /\ u[k].i \in 1 .. h[u[k].p].len
  <2> TAKE k \in 1 .. Len(u)
  <2>1. CASE k \in 1 .. Len(v) BY <2>1, <1>4 DEF GetsOk, A
  <2>2. CASE k \notin 1 .. Len(v)
    <3>1. pos + 1 \in 1 .. h[t[1]].len BY <1>1, <1>2
    <3> QED BY <3>1, <2>2, <1>2, <1>3, <1>5
  <2> QED BY <2>1, <2>2
<1>8. v # <<>> => Earlier(last, e)
  <2> HAVE v # <<>>
  <2>1. last.p \in Nat /\ last.i \in Nat BY <1>1, <1>6
  <2>2. CASE last.i < h[last.p].len BY <2>1, <2>2, <1>3, <1>6 DEF Earlier
  <2>3. CASE ~(last.i < h[last.p].len) BY <2>1, <2>3, <1>3, <1>6 DEF Earlier
  <2> QED BY <2>2, <2>3
<1>9. \A j, k \in 1 .. Len(u) : j < k => Earlier(u[j], u[k])
  <2> TAKE j, k \in 1 .. Len(u)
  <2> HAVE j < k
  <2>1. j \in 1 .. Len(v) /\ v # <<>>
    <3>1. j \in 1 .. Len(v) BY <1>4, <1>1
    <3> QED BY <3>1, <1>1, EmptyIs
  <2>2. CASE k \in 1 .. Len(v) BY <2>1, <2>2, <1>4 DEF GetsOk
  <2>3. CASE k \notin 1 .. Len(v)
    <3>1. u[k] = e /\ u[j] = v[j] BY <2>1, <2>3, <1>4, <1>5
    <3>2. j = Len(v) \/ Earlier(v[j], last)
      <4>1. j # Len(v) => j < Len(v) BY <2>1, <1>1
      <4> QED BY <4>1, <2>1, <1>6 DEF GetsOk
    <3>3. v[j].p \in Nat /\ v[j].i \in Nat /\ last.p \in Nat /\ last.i \in Nat /\ e.p \in Nat /\ e.i \in Nat
      <4>1. Len(v) \in 1 .. Len(v) BY <2>1, <1>6
      <4>2. \A i \in 1 .. Len(v) : v[i].p \in Nat /\ v[i].i \in Nat BY <1>1
      <4>3. e.p \in Nat /\ e.i \in Nat BY <1>1, <1>2, <1>3
      <4> QED BY <4>1, <4>2, <4>3, <2>1
    <3>4. Earlier(last, e) BY <2>1, <1>8
    <3>5. Earlier(v[j], e)
      <4>3. CASE j = Len(v) BY <4>3, <3>4
      <4>4. CASE j # Len(v)
        <5>1. PICK a, b, f : a = v[j] /\ b = last /\ f = e OBVIOUS
        <5>2. Earlier(a, b) /\ Earlier(b, f) BY <5>1, <4>4, <3>2, <3>4
        <5>3. a.p \in Nat /\ a.i \in Nat /\ b.p \in Nat /\ b.i \in Nat /\ f.p \in Nat /\ f.i \in Nat BY <3>3, <5>1
        <5>4. Earlier(a, f) BY <5>2, <5>3 DEF Earlier
        <5> QED BY <5>4, <5>1
      <4> QED BY <4>3, <4>4
    <3> QED BY <3>1, <3>5
  <2> QED BY <2>2, <2>3
<1>10. \A k \in 1 .. Len(u) - 1 :
       IF u[k].i < h[u[k].p].len THEN u[k + 1].p = u[k].p /\ u[k + 1].i = u[k].i + 1 ELSE u[k + 1].i = 1
  <2> TAKE k \in 1 .. Len(u) - 1
  <2>1. k \in 1 .. Len(v) /\ u[k] = v[k] BY <1>4, <1>1
  <2>2. CASE k \in 1 .. Len(v) - 1
    <3>1. k + 1 \in 1 .. Len(v) BY <2>2, <1>1
    <3> QED BY <2>1, <2>2, <3>1, <1>4 DEF GetsOk
  <2>3. CASE k = Len(v)
    <3>1. u[k + 1] = e /\ v # <<>> BY <2>1, <2>3, <1>4, <1>1, EmptyIs
    <3>2. e.p = t[1] /\ e.i = pos + 1 BY <1>3
    <3>3. u[k] = last BY <2>1, <2>3
    <3>4. IF last.i < h[last.p].len THEN t[1] = last.p /\ pos = last.i ELSE pos = 0 BY <3>1, <1>6
    <3> HIDE DEF last
    <3> QED BY <3>1, <3>2, <3>3, <3>4
  <2> QED BY <2>1, <2>2, <2>3, <1>1
<1>11. u[Len(u)] = e BY <1>4, <1>1
<1>12. u[1] = IF v = <<>> THEN e ELSE v[1]
  <2>1. v # <<>> => 1 \in 1 .. Len(v) BY <1>1, EmptyIs
  <2>2. v = <<>> => Len(v) = 0 BY <1>1, EmptyIs
  <2> QED BY <2>1, <2>2, <1>4
<1>13. IF Current(r) /\ h[r[1]].op = "get" THEN u[1].p = r[1] /\ u[1].i = r[2] + 1 ELSE u[1].i = 1
  <2>1. CASE v = <<>>
    <3>1. IF Current(r) /\ h[r[1]].op = "get" THEN t[1] = r[1] /\ pos = r[2] ELSE pos = 0 BY <2>1 DEF GetsOk
    <3> QED BY <3>1, <2>1, <1>3, <1>12
  <2>2. CASE v # <<>> BY <2>2, <1>12 DEF GetsOk
  <2> QED BY <2>1, <2>2
<1>14. CASE pos + 1 = h[t[1]].len
  <2>1. n = Tail(t) /\ next = 0 BY <1>14
  <2>2. /\ n \in Seq(Nat) /\ Len(n) = Len(t) - 1 /\ Len(n) \in Nat /\ \A k \in 1 .. Len(t) - 1 : n[k] = t[k + 1]
    BY <2>1, <1>1, TailIs
  <2>3. \A k \in 1 .. Len(n) : n[k] = t[k + 1] /\ k + 1 \in 1 .. Len(t) BY <2>2, <1>1
  <2>4. \A j, k \in 1 .. Len(t) : j < k => t[j] < t[k] BY DEF GetsOk
  <2>5. \A j, k \in 1 .. Len(n) : j < k => n[j] < n[k]
    <3> TAKE j, k \in 1 .. Len(n)
    <3> HAVE j < k
    <3>1. j + 1 < k + 1 BY <2>2
    <3> QED BY <3>1, <2>3, <2>4
  <2>6. \A k \in 1 .. Len(n) : t[1] < n[k]
    <3> TAKE k \in 1 .. Len(n)
    <3>1. 1 < k + 1 BY <2>2
    <3> QED BY <3>1, <2>3, <2>4, <1>2
  <2>7. \A k \in 1 .. Len(n) : n[k] \in A BY <2>3, <1>1 DEF A
  <2>8. n # <<>> => next < h[n[1]].len
    <3> HAVE n # <<>>
    <3>0. n \in Seq(Nat) BY <2>2
    <3>1. 1 \in 1 .. Len(n) BY <3>0, NonEmpty
    <3>2. n[1] \in AtRemux(h, m, r) BY <2>7, <3>1 DEF A
    <3>3. h[n[1]].len \in Nat /\ h[n[1]].len >= 2 BY <3>2, <1>1 DEF A
    <3> QED BY <3>3, <2>1
  <2>9. \A p \in A :
       (\E k \in 1 .. Len(n) : n[k] = p) \/ \E k \in 1 .. Len(u) : u[k].p = p /\ u[k].i = h[p].len
    <3> TAKE p \in A
    <3>1. (\E k \in 1 .. Len(t) : t[k] = p) \/ \E k \in 1 .. Len(v) : v[k].p = p /\ v[k].i = h[p].len BY DEF GetsOk, A
    <3>2. CASE \E k \in 1 .. Len(t) : t[k] = p
      <4>1. PICK k \in 1 .. Len(t) : t[k] = p BY <3>2
      <4>2. CASE k = 1
        <5>1. Len(u) \in 1 .. Len(u) BY <1>4, <1>1
        <5> QED BY <5>1, <4>1, <4>2, <1>11, <1>3, <1>14
      <4>3. CASE k # 1
        <5>1. k - 1 \in 1 .. Len(n) /\ (k - 1) + 1 = k BY <4>3, <2>2, <1>1
        <5> QED BY <5>1, <4>1, <2>3
      <4> QED BY <4>2, <4>3
    <3>3. CASE \E k \in 1 .. Len(v) : v[k].p = p /\ v[k].i = h[p].len
      <4>1. \A k \in 1 .. Len(v) : k \in 1 .. Len(u) BY <1>4, <1>1
      <4> QED BY <4>1, <3>3, <1>4
    <3> QED BY <3>1, <3>2, <3>3
  <2>10. LET f == u[Len(u)] IN
         IF f.i < h[f.p].len THEN n # <<>> /\ n[1] = f.p /\ next = f.i
         ELSE next = 0 /\ \A k \in 1 .. Len(n) : f.p < n[k]
    <3>1. ~(e.i < h[e.p].len) BY <1>2, <1>3, <1>14
    <3> QED BY <3>1, <2>1, <2>6, <1>3, <1>11
  <2>11. n \in Seq(Nat) /\ next \in Nat BY <2>1, <2>2
  <2> QED BY <2>5, <2>7, <2>8, <2>9, <2>10, <2>11, <1>4, <1>7, <1>9, <1>10, <1>13 DEF GetsOk, A
<1>15. CASE pos + 1 # h[t[1]].len
  <2>1. n = t /\ next = pos + 1 BY <1>15
  <2>2. LET f == u[Len(u)] IN
        IF f.i < h[f.p].len THEN t # <<>> /\ t[1] = f.p /\ next = f.i
        ELSE next = 0 /\ \A k \in 1 .. Len(n) : f.p < n[k]
    <3>1. e.i < h[e.p].len BY <1>1, <1>2, <1>3, <1>15
    <3> QED BY <3>1, <2>1, <1>3, <1>11
  <2>3. next < h[t[1]].len /\ next \in Nat
    <3>1. PICK len : len = h[t[1]].len OBVIOUS
    <3>2. len \in Nat /\ pos \in Nat /\ pos < len /\ pos + 1 # len BY <3>1, <1>1, <1>2, <1>15
    <3>3. pos + 1 < len /\ pos + 1 \in Nat BY <3>2
    <3> QED BY <3>1, <3>3, <2>1
  <2>4. \A p \in A :
       (\E k \in 1 .. Len(t) : t[k] = p) \/ \E k \in 1 .. Len(u) : u[k].p = p /\ u[k].i = h[p].len
    <3> TAKE p \in A
    <3>1. (\E k \in 1 .. Len(t) : t[k] = p) \/ \E k \in 1 .. Len(v) : v[k].p = p /\ v[k].i = h[p].len BY DEF GetsOk, A
    <3>2. \A k \in 1 .. Len(v) : k \in 1 .. Len(u) BY <1>4, <1>1
    <3> QED BY <3>1, <3>2, <1>4
  <2>5. \A j, k \in 1 .. Len(t) : j < k => t[j] < t[k] BY DEF GetsOk
  <2>6. GetsOk(h, m, r, t, u, next)
    BY <2>1, <2>2, <2>3, <2>4, <2>5, <1>1, <1>4, <1>7, <1>9, <1>10, <1>13 DEF GetsOk, A
  <2> QED BY <2>1, <2>6
<1> QED BY <1>14, <1>15

LEMMA AtRemuxFirst ==
  ASSUME NEW h \in Histories, NEW s \in Stores, NEW w, NEW m, NEW r, MetadataOk(h, s, w, m, r), r = <<>>, m # <<>>,
         NEW q, q = <<m[1][1], 1>>
  PROVE  AtRemux(h, Tail(m), q) = AtRemux(h, m, r) /\ Current(q) /\ q[1] = m[1][1] /\ q[2] = 1
<1> DEFINE n == Tail(m)
<1>1. RestIs(h, s, w, m, n) BY MetadataTail
<1>2. /\ m[1][2] = 1 /\ m[1] = <<m[1][1], m[1][2]>> /\ 1 \in 1 .. Len(m) /\ Len(m) \in Nat
  <2>1. 1 \in 1 .. Len(m) /\ Len(m) \in Nat BY <1>1 DEF RestIs
  <2>2. m[1] = <<m[1][1], m[1][2]>> BY <2>1, MetadataIs
  <2>3. m[1][2] = 1 BY MetadataFirst
  <2> QED BY <2>1, <2>2, <2>3
<1>3. Current(q) /\ q[1] = m[1][1] /\ q[2] = 1 BY DEF Current
<1>4. \A p : (\E k \in 1 .. Len(m) : m[k] = <<p, 1>>) <=> q[1] = p \/ \E k \in 1 .. Len(n) : n[k] = <<p, 1>>
  <2> TAKE p
  <2>1. m[1] = <<p, 1>> <=> q[1] = p BY <1>2, <1>3
  <2>2. \A k \in 1 .. Len(n) : n[k] = m[k + 1] /\ k + 1 \in 1 .. Len(m) BY <1>1 DEF RestIs
  <2>3. \A k \in 1 .. Len(m) : k = 1 \/ (k - 1 \in 1 .. Len(n) /\ (k - 1) + 1 = k) BY <1>1 DEF RestIs
  <2>4. ASSUME NEW k \in 1 .. Len(m), m[k] = <<p, 1>>, k # 1 PROVE \E j \in 1 .. Len(n) : n[j] = <<p, 1>>
    <3>1. k - 1 \in 1 .. Len(n) /\ n[k - 1] = m[k] BY <2>2, <2>3, <2>4
    <3> QED BY <3>1, <2>4
  <2> HIDE DEF n
  <2>5. ASSUME NEW k \in 1 .. Len(n), n[k] = <<p, 1>> PROVE \E j \in 1 .. Len(m) : m[j] = <<p, 1>>
    <3>1. k + 1 \in 1 .. Len(m) /\ m[k + 1] = <<p, 1>> BY <2>2, <2>5
    <3> QED BY <3>1
  <2> QED BY <2>1, <2>4, <2>5, <1>2
<1>5. ~Current(r) BY DEF Current
<1> QED BY <1>3, <1>4, <1>5 DEF AtRemux

(* The first word of an answer; a get brings with it the first word of its value. *)
LEMMA GetsSentFirst ==
  ASSUME NEW h \in Histories, NEW s \in Stores, NEW w, NEW m, NEW r, MetadataOk(h, s, w, m, r), r = <<>>, m # <<>>,
         NEW t, NEW v, NEW pos, GetsOk(h, m, r, t, v, pos), h[m[1][1]].op = "get" => v # <<>>
  PROVE  /\ h[m[1][1]].op = "get" => v[1].p = m[1][1] /\ v[1].i = 1
         /\ GetsOk(h, Tail(m), <<m[1][1], 1>>, t, IF h[m[1][1]].op = "get" THEN Tail(v) ELSE v, pos)
<1> DEFINE p == m[1][1]
           n == Tail(m)
           q == <<p, 1>>
           A == AtRemux(h, m, r)
<1>1. AtRemux(h, n, q) = A /\ Current(q) /\ q[1] = p /\ q[2] = 1 BY AtRemuxFirst
<1>2. p \in Nat /\ p \in 1 .. Len(h) /\ h[p].len \in Nat /\ h[p].len >= 2 BY MetadataFirst, PacketIs
<1>3. ~Current(r) BY DEF Current
<1>m. /\ m \in Seq(Nat \X Nat) /\ Len(m) \in Nat /\ 1 \in 1 .. Len(m) /\ m[1] = <<p, 1>>
      /\ \A k \in 1 .. Len(m) : m[k][1] \in Nat
  <2>1. RestIs(h, s, w, m, Tail(m)) BY MetadataTail
  <2>2. m[1][2] = 1 BY MetadataFirst
  <2>3. /\ m \in Seq(Nat \X Nat) /\ Len(m) \in Nat
        /\ \A k \in 1 .. Len(m) : m[k] = <<m[k][1], m[k][2]>> /\ m[k][1] \in Nat
    BY MetadataIs
  <2>4. 1 \in 1 .. Len(m) BY <2>1 DEF RestIs
  <2>5. m[1] = <<p, 1>> BY <2>2, <2>3, <2>4
  <2> QED BY <2>3, <2>4, <2>5
<1> HIDE DEF n, q, p
<1>4. CASE h[p].op # "get"
  <2>1. GetsOk(h, n, q, t, v, pos) BY <1>1, <1>3, <1>4, GetsKept DEF A
  <2> QED BY <2>1, <1>4 DEF n, q, p
<1>5. CASE h[p].op = "get"
  <2> DEFINE u == Tail(v)
  <2>0. v # <<>> BY <1>5 DEF p
  <2>1. /\ t \in Seq(Nat) /\ v \in Seq(Value) /\ pos \in Nat /\ Len(t) \in Nat /\ Len(v) \in Nat
        /\ \A x \in A : x \in 1 .. Len(h) /\ x \in Nat /\ h[x].op = "get" /\ h[x].len \in Nat /\ h[x].len >= 2
        /\ \A k \in 1 .. Len(t) : t[k] \in Nat /\ t[k] \in A
        /\ \A k \in 1 .. Len(v) : v[k] \in Value /\ v[k].p \in Nat /\ v[k].i \in Nat /\ v[k].i >= 1 /\ v[k].i <= h[v[k].p].len
                                  /\ v[k].p \in A
    BY GetsAre
  <2>2. 1 \in 1 .. Len(v) /\ Len(v) \in 1 .. Len(v) BY <2>0, <2>1, NonEmpty
  <2>3. p \in A BY <1>m, <1>2, <1>5 DEF AtRemux
  <2>4. v[1].p <= p BY <2>0, <2>3, GetsFirst DEF A
  <2>5. p <= v[1].p
    <3>1. v[1].p \in A BY <2>1, <2>2
    <3>2. PICK k \in 1 .. Len(m) : m[k] = <<v[1].p, 1>> BY <3>1, <1>3 DEF AtRemux, A
    <3>3. m[k][1] = v[1].p BY <3>2
    <3>4. k = 1 \/ m[1][1] < m[k][1] \/ m[1][1] = m[k][1]
      <4>1. k # 1 => 1 < k BY <1>m
      <4> QED BY <4>1, <1>m DEF MetadataOk
    <3>5. m[1][1] = p BY DEF p
    <3>6. m[k][1] \in Nat /\ m[1][1] \in Nat BY <1>m
    <3>7. \A x, y \in Nat : x < y \/ x = y => x <= y OBVIOUS
    <3>8. m[1][1] <= m[k][1] BY <3>4, <3>6, <3>7
    <3> QED BY <3>3, <3>5, <3>8
  <2>6. v[1].p = p /\ v[1].i = 1
    <3>1. v[1].p = p BY <2>1, <2>2, <2>4, <2>5, <1>2
    <3> QED BY <3>1, <2>0, <1>3 DEF GetsOk
  <2>7. /\ u \in Seq(Value) /\ Len(u) \in Nat /\ Len(u) = Len(v) - 1
        /\ \A k \in 1 .. Len(u) : u[k] = v[k + 1] /\ k + 1 \in 1 .. Len(v)
        /\ u # <<>> => /\ u[1] = v[2] /\ u[Len(u)] = v[Len(v)]
                       /\ IF v[1].i < h[v[1].p].len THEN u[1].p = v[1].p /\ u[1].i = v[1].i + 1 ELSE u[1].i = 1
        /\ u = <<>> => Len(v) = 1
        /\ \A j, k \in 1 .. Len(u) : j < k => Earlier(u[j], u[k])
        /\ \A k \in 1 .. Len(u) - 1 :
             IF u[k].i < h[u[k].p].len THEN u[k + 1].p = u[k].p /\ u[k + 1].i = u[k].i + 1 ELSE u[k + 1].i = 1
    <3>1. OthersAre(h, v, u) BY <2>0, SecondValue
    <3> QED BY <3>1 DEF OthersAre
  <2> HIDE DEF u, A
  <2>8. \A k \in 1 .. Len(u) : u[k].p \in A /\ u[k].i \in 1 .. h[u[k].p].len BY <2>7 DEF GetsOk, A
  <2>9. u # <<>> =>
       LET last == u[Len(u)] IN
       IF last.i < h[last.p].len THEN t # <<>> /\ t[1] = last.p /\ pos = last.i
       ELSE pos = 0 /\ \A k \in 1 .. Len(t) : last.p < t[k]
    BY <2>0, <2>7 DEF GetsOk
  <2>10. u # <<>> => u[1].p = q[1] /\ u[1].i = q[2] + 1 BY <1>1, <1>2, <2>6, <2>7
  <2>11. u = <<>> => t # <<>> /\ t[1] = q[1] /\ pos = q[2]
    <3> HAVE u = <<>>
    <3>1. Len(v) = 1 BY <2>7
    <3>2. v[1].i < h[v[1].p].len BY <2>6, <1>2
    <3>3. t # <<>> /\ t[1] = v[1].p /\ pos = v[1].i BY <3>1, <3>2, <2>0 DEF GetsOk
    <3> QED BY <3>3, <2>6, <1>1
  <2>12. \A x \in A :
       (\E k \in 1 .. Len(t) : t[k] = x) \/ \E k \in 1 .. Len(u) : u[k].p = x /\ u[k].i = h[x].len
    <3> TAKE x \in A
    <3>1. (\E k \in 1 .. Len(t) : t[k] = x) \/ \E k \in 1 .. Len(v) : v[k].p = x /\ v[k].i = h[x].len BY DEF GetsOk, A
    <3>2. ASSUME NEW k \in 1 .. Len(v), v[k].p = x, v[k].i = h[x].len PROVE \E j \in 1 .. Len(u) : u[j].p = x /\ u[j].i = h[x].len
      <4>1. k # 1 BY <3>2, <2>6, <1>2
      <4>2. k - 1 \in 1 .. Len(u) /\ (k - 1) + 1 = k BY <4>1, <2>1, <2>7
      <4>3. u[k - 1] = v[k] BY <4>2, <2>7
      <4> QED BY <4>2, <4>3, <3>2
    <3> QED BY <3>1, <3>2
  <2>13. /\ \A j, k \in 1 .. Len(t) : j < k => t[j] < t[k]
         /\ t # <<>> => pos < h[t[1]].len
    BY DEF GetsOk
  <2>14. h[q[1]].op = "get" BY <1>1, <1>5
  <2>15. GetsOk(h, n, q, t, u, pos)
    BY <1>1, <2>1, <2>7, <2>8, <2>9, <2>10, <2>11, <2>12, <2>13, <2>14 DEF GetsOk
  <2> QED BY <2>6, <2>15, <1>5 DEF n, q, p, u
<1> QED BY <1>4, <1>5

SentIs(h, m, r, n, q) ==
  /\ AtRemux(h, n, q) = (IF Current(q) THEN AtRemux(h, m, r) ELSE AtRemux(h, m, r) \ {r[1]})
  /\ (Current(q) <=> r[2] + 1 # Leaves(h, r[1])) /\ (Current(q) => q[1] = r[1] /\ q[2] = r[2] + 1)

LEMMA AtRemuxNext ==
  ASSUME NEW h \in Histories, NEW s \in Stores, NEW w, NEW m, NEW r, MetadataOk(h, s, w, m, r), Current(r), r[2] = 1 => m # <<>>,
         NEW n, n = (IF r[2] = 1 THEN Tail(m) ELSE m),
         NEW q, q = (IF r[2] + 1 = Leaves(h, r[1]) THEN <<>> ELSE <<r[1], r[2] + 1>>)
  PROVE  SentIs(h, m, r, n, q)
<1>1. \A p : (\E k \in 1 .. Len(m) : m[k] = <<p, 1>>) <=> \E k \in 1 .. Len(n) : n[k] = <<p, 1>>
  <2>1. CASE r[2] # 1 BY <2>1
  <2>2. CASE r[2] = 1
    <3> TAKE p
    <3>0. n = Tail(m) /\ m # <<>> BY <2>2
    <3>1. RestIs(h, s, w, m, n) BY <3>0, MetadataTail
    <3>2. m[1] # <<p, 1>>
      <4>1. m[1] = <<r[1], 2>> BY <3>0, <2>2 DEF MetadataOk
      <4> QED BY <4>1
    <3>3. \A k \in 1 .. Len(n) : n[k] = m[k + 1] /\ k + 1 \in 1 .. Len(m) BY <3>1 DEF RestIs
    <3>4. \A k \in 1 .. Len(m) : k = 1 \/ (k - 1 \in 1 .. Len(n) /\ (k - 1) + 1 = k) BY <3>1 DEF RestIs
    <3>5. ASSUME NEW k \in 1 .. Len(m), m[k] = <<p, 1>> PROVE \E j \in 1 .. Len(n) : n[j] = <<p, 1>>
      <4>1. k # 1 BY <3>2, <3>5
      <4>2. k - 1 \in 1 .. Len(n) /\ (k - 1) + 1 = k BY <4>1, <3>4
      <4>3. n[k - 1] = m[k] BY <4>2, <3>3
      <4> QED BY <4>2, <4>3, <3>5
    <3>6. ASSUME NEW k \in 1 .. Len(n), n[k] = <<p, 1>> PROVE \E j \in 1 .. Len(m) : m[j] = <<p, 1>>
      <4>1. k + 1 \in 1 .. Len(m) /\ m[k + 1] = <<p, 1>> BY <3>3, <3>6
      <4> QED BY <4>1
    <3> QED BY <3>5, <3>6
  <2> QED BY <2>1, <2>2
<1>2. /\ (Current(q) <=> r[2] + 1 # Leaves(h, r[1])) /\ (Current(q) => q[1] = r[1] /\ q[2] = r[2] + 1) BY DEF Current
<1>3. \A k \in 1 .. Len(m) : m[k] # <<r[1], 1>>
  <2> TAKE k \in 1 .. Len(m)
  <2>1. r[1] < m[k][1] \/ (r[1] = m[k][1] /\ m[k][2] = 2) BY DEF MetadataOk
  <2>2. r[1] \in Nat BY MetadataIs
  <2>3. m[k] = <<r[1], 1>> => m[k][1] = r[1] /\ m[k][2] = 1 OBVIOUS
  <2> QED BY <2>1, <2>2, <2>3
<1> HIDE DEF Current
<1>4. AtRemux(h, n, q) = (IF Current(q) THEN AtRemux(h, m, r) ELSE AtRemux(h, m, r) \ {r[1]})
  <2>1. CASE Current(q)
    <3>1. \A p : (Current(q) /\ q[1] = p) <=> (Current(r) /\ r[1] = p) BY <2>1, <1>2
    <3> QED BY <2>1, <3>1, <1>1 DEF AtRemux
  <2>2. CASE ~Current(q) BY <2>2, <1>1, <1>3 DEF AtRemux
  <2> QED BY <2>1, <2>2
<1> QED BY <1>2, <1>4 DEF SentIs

(* Another word of an answer; a get brings the next word of its value. *)
LEMMA GetsSentNext ==
  ASSUME NEW h \in Histories, NEW s \in Stores, NEW w, NEW m, NEW r, MetadataOk(h, s, w, m, r), Current(r), r[2] = 1 => m # <<>>,
         NEW n, n = (IF r[2] = 1 THEN Tail(m) ELSE m),
         NEW q, q = (IF r[2] + 1 = Leaves(h, r[1]) THEN <<>> ELSE <<r[1], r[2] + 1>>),
         NEW t, NEW v, NEW pos, GetsOk(h, m, r, t, v, pos), h[r[1]].op = "get" => v # <<>>
  PROVE  /\ h[r[1]].op = "get" => v[1].p = r[1] /\ v[1].i = r[2] + 1
         /\ GetsOk(h, n, q, t, IF h[r[1]].op = "get" THEN Tail(v) ELSE v, pos)
<1> DEFINE A == AtRemux(h, m, r)
<1>1. /\ AtRemux(h, n, q) = (IF Current(q) THEN A ELSE A \ {r[1]})
      /\ (Current(q) <=> r[2] + 1 # Leaves(h, r[1])) /\ (Current(q) => q[1] = r[1] /\ q[2] = r[2] + 1)
  <2>1. SentIs(h, m, r, n, q) BY AtRemuxNext
  <2> QED BY <2>1 DEF SentIs
<1>2. /\ r[1] \in Nat /\ r[2] \in Nat /\ r[2] >= 1 /\ r[2] < Leaves(h, r[1]) /\ r[1] \in 1 .. Len(h)
      /\ Leaves(h, r[1]) \in Nat
  BY MetadataIs, PacketIs
<1>3. CASE h[r[1]].op # "get"
  <2>1. Leaves(h, r[1]) = 2 BY <1>3 DEF Leaves
  <2>2. ~Current(q) BY <2>1, <1>1, <1>2
  <2>3. r[1] \notin A BY <1>3 DEF AtRemux
  <2>4. AtRemux(h, n, q) = A BY <2>2, <2>3, <1>1
  <2>5. GetsOk(h, n, q, t, v, pos) BY <2>2, <2>4, <1>3, GetsKept
  <2> QED BY <2>5, <1>3
<1>4. CASE h[r[1]].op = "get"
  <2> DEFINE u == Tail(v)
             len == h[r[1]].len
  <2>0. v # <<>> /\ Leaves(h, r[1]) = len /\ len \in Nat BY <1>2, <1>4 DEF Leaves
  <2>1. /\ t \in Seq(Nat) /\ v \in Seq(Value) /\ pos \in Nat /\ Len(t) \in Nat /\ Len(v) \in Nat
        /\ \A x \in A : x \in 1 .. Len(h) /\ x \in Nat /\ h[x].op = "get" /\ h[x].len \in Nat /\ h[x].len >= 2
        /\ \A k \in 1 .. Len(t) : t[k] \in Nat /\ t[k] \in A
        /\ \A k \in 1 .. Len(v) : v[k] \in Value /\ v[k].p \in Nat /\ v[k].i \in Nat /\ v[k].i >= 1 /\ v[k].i <= h[v[k].p].len
                                  /\ v[k].p \in A
    BY GetsAre
  <2>2. 1 \in 1 .. Len(v) /\ Len(v) \in 1 .. Len(v) BY <2>0, <2>1, NonEmpty
  <2>3. v[1].p = r[1] /\ v[1].i = r[2] + 1 BY <2>0, <1>4 DEF GetsOk
  <2>7. /\ u \in Seq(Value) /\ Len(u) \in Nat /\ Len(u) = Len(v) - 1
        /\ \A k \in 1 .. Len(u) : u[k] = v[k + 1] /\ k + 1 \in 1 .. Len(v)
        /\ u # <<>> => /\ u[1] = v[2] /\ u[Len(u)] = v[Len(v)]
                       /\ IF v[1].i < h[v[1].p].len THEN u[1].p = v[1].p /\ u[1].i = v[1].i + 1 ELSE u[1].i = 1
        /\ u = <<>> => Len(v) = 1
        /\ \A j, k \in 1 .. Len(u) : j < k => Earlier(u[j], u[k])
        /\ \A k \in 1 .. Len(u) : Earlier(v[1], u[k])
        /\ \A k \in 1 .. Len(u) - 1 :
             IF u[k].i < h[u[k].p].len THEN u[k + 1].p = u[k].p /\ u[k + 1].i = u[k].i + 1 ELSE u[k + 1].i = 1
    <3>1. OthersAre(h, v, u) BY <2>0, SecondValue
    <3> QED BY <3>1 DEF OthersAre
  <2> HIDE DEF u, A
  <2>8. \A k \in 1 .. Len(u) : u[k].p \in A /\ u[k].i \in 1 .. h[u[k].p].len BY <2>7 DEF GetsOk, A
  <2>9. u # <<>> =>
       LET last == u[Len(u)] IN
       IF last.i < h[last.p].len THEN t # <<>> /\ t[1] = last.p /\ pos = last.i
       ELSE pos = 0 /\ \A k \in 1 .. Len(t) : last.p < t[k]
    BY <2>0, <2>7 DEF GetsOk
  <2>10. u = <<>> =>
       IF v[1].i < len THEN t # <<>> /\ t[1] = r[1] /\ pos = v[1].i
       ELSE pos = 0
    <3> HAVE u = <<>>
    <3>1. Len(v) = 1 BY <2>7
    <3>2. IF v[1].i < h[v[1].p].len THEN t # <<>> /\ t[1] = v[1].p /\ pos = v[1].i ELSE pos = 0 BY <3>1, <2>0 DEF GetsOk
    <3> QED BY <3>2, <2>3
  <2>11. /\ \A j, k \in 1 .. Len(t) : j < k => t[j] < t[k]
         /\ t # <<>> => pos < h[t[1]].len
    BY DEF GetsOk
  <2>12. \A x \in A :
       (\E k \in 1 .. Len(t) : t[k] = x) \/ \E k \in 1 .. Len(v) : v[k].p = x /\ v[k].i = h[x].len BY DEF GetsOk, A
  <2>13. \A k \in 1 .. Len(v) : k = 1 \/ \E j \in 1 .. Len(u) : u[j] = v[k]
    <3> TAKE k \in 1 .. Len(v)
    <3>1. k # 1 => k - 1 \in 1 .. Len(u) /\ (k - 1) + 1 = k BY <2>1, <2>7
    <3>2. k # 1 => u[k - 1] = v[k] BY <3>1, <2>7
    <3> QED BY <3>1, <3>2
  <2>14. CASE r[2] + 1 # len
    <3>1. Current(q) /\ q[1] = r[1] /\ q[2] = r[2] + 1 /\ h[q[1]].op = "get" /\ AtRemux(h, n, q) = A BY <2>14, <2>0, <1>1, <1>4
    <3>2. v[1].i < len BY <2>14, <2>0, <2>3, <1>2
    <3>3. u # <<>> => u[1].p = q[1] /\ u[1].i = q[2] + 1 BY <3>1, <3>2, <2>3, <2>7
    <3>4. u = <<>> => t # <<>> /\ t[1] = q[1] /\ pos = q[2] BY <3>1, <3>2, <2>3, <2>10
    <3>5. \A x \in A : (\E k \in 1 .. Len(t) : t[k] = x) \/ \E k \in 1 .. Len(u) : u[k].p = x /\ u[k].i = h[x].len
      <4> TAKE x \in A
      <4>1. ~(v[1].p = x /\ v[1].i = h[x].len) BY <3>2, <2>3, <2>0, <1>2
      <4> QED BY <4>1, <2>12, <2>13
    <3>6. GetsOk(h, n, q, t, u, pos)
      BY <3>1, <3>3, <3>4, <3>5, <2>1, <2>7, <2>8, <2>9, <2>11 DEF GetsOk
    <3> QED BY <3>6, <2>3, <1>4 DEF u
  <2>15. CASE r[2] + 1 = len
    <3>1. ~Current(q) /\ AtRemux(h, n, q) = A \ {r[1]} BY <2>15, <2>0, <1>1
    <3>2. v[1].i = len /\ ~(v[1].i < len) BY <2>15, <2>0, <2>3
    <3>3. u # <<>> => u[1].i = 1 BY <3>2, <2>3, <2>7
    <3>4. u = <<>> => pos = 0 BY <3>2, <2>10
    <3>5. \A k \in 1 .. Len(u) : u[k].p # r[1]
      <4> TAKE k \in 1 .. Len(u)
      <4>1. Earlier(v[1], u[k]) BY <2>7
      <4>2. u[k] = v[k + 1] /\ k + 1 \in 1 .. Len(v) BY <2>7
      <4>3. u[k].i \in Nat /\ u[k].i <= h[u[k].p].len /\ u[k].p \in Nat BY <4>2, <2>1
      <4>4. SUFFICES ASSUME u[k].p = r[1] PROVE FALSE OBVIOUS
      <4>5. u[k].i <= len BY <4>3, <4>4
      <4>6. v[1].i < u[k].i BY <4>1, <4>4, <2>3, <1>2 DEF Earlier
      <4> QED BY <4>3, <4>5, <4>6, <3>2, <2>0
    <3>6. \A k \in 1 .. Len(t) : t[k] # r[1]
      <4> TAKE k \in 1 .. Len(t)
      <4>1. v[1].p < t[k] BY <3>2, <2>2, <2>3, GetsOrder
      <4> QED BY <4>1, <2>3, <1>2
    <3>7. \A x \in A \ {r[1]} :
            (\E k \in 1 .. Len(t) : t[k] = x) \/ \E k \in 1 .. Len(u) : u[k].p = x /\ u[k].i = h[x].len
      <4> TAKE x \in A \ {r[1]}
      <4>1. v[1].p # x BY <2>3
      <4> QED BY <4>1, <2>12, <2>13
    <3>8. \A k \in 1 .. Len(t) : t[k] \in A \ {r[1]} BY <3>6, <2>1
    <3>9. \A k \in 1 .. Len(u) : u[k].p \in A \ {r[1]} /\ u[k].i \in 1 .. h[u[k].p].len BY <3>5, <2>8
    <3>10. GetsOk(h, n, q, t, u, pos)
      BY <3>1, <3>3, <3>4, <3>7, <3>8, <3>9, <2>1, <2>7, <2>9, <2>11 DEF GetsOk
    <3> QED BY <3>10, <2>3, <1>4 DEF u
  <2> QED BY <2>14, <2>15
<1> QED BY <1>3, <1>4

MemCmd == [write : BOOLEAN, p : Nat, line : Nat, count : Nat \ {0}]
ReadLine == [p : Nat, line : Nat, words : Seq(Word)]
OutWord == [p : Nat, i : Nat, v : Word, last : BOOLEAN]
Memories == UNION {[lines -> Seq(Word)] : lines \in SUBSET Nat}

InTypes ==
  /\ history \in Histories /\ splitIn \in Seq(Word)
  /\ inData \in [Stores -> Seq(Word)] /\ toDemux \in [Stores -> Seq(Word)]
  /\ table \in [Keys -> Nat] /\ \A k \in Keys : table[k] \in 0 .. Len(history)
AccTypes ==
  /\ accState \in [Stores -> Nat]
  /\ filterSeq \in [Stores -> Seq({"set", "get"})] /\ streamToPop \in [Stores -> {"none", "set", "get"}]
  /\ popSet \in [Stores -> Seq(Nat)] /\ popGet \in [Stores -> Seq(Nat)]
SetTypes == setMd \in [Stores -> Seq(Nat)] /\ setValueIn \in [Stores -> Seq(Word)] /\ setBuf \in [Stores -> Seq(Word)]
MemTypes ==
  /\ memWrCmd \in [Stores -> Seq(MemCmd)] /\ memRdCmd \in [Stores -> Seq(MemCmd)] /\ memCmd \in [Stores -> Seq(MemCmd)]
  /\ memWrData \in [Stores -> Seq(Seq(Word))] /\ memory \in [Stores -> Memories] /\ rdData \in [Stores -> Seq(ReadLine)]
GetTypes ==
  /\ getMd \in [Stores -> Seq(Nat)] /\ disp2rec \in [Stores -> Seq(Nat)]
  /\ recPos \in [Stores -> Nat] /\ getPath2remux \in [Stores -> Seq(Value)]
  /\ metadataBuffer \in [Stores -> Seq(Nat \X Nat)] /\ remuxPos \in [Stores -> {<<>>} \cup (Nat \X Nat)]
  /\ outData \in [Stores -> Seq(OutWord)]
TypesOk == InTypes /\ AccTypes /\ SetTypes /\ MemTypes /\ GetTypes

(* What is on its way to a store, as far as demux, and the gets to be received. *)
Split(s) == IF history # <<>> /\ history[Len(history)].store = s THEN splitIn ELSE <<>>
Words(s) == toDemux[s] \o (inData[s] \o Split(s))
Awaited(s) == disp2rec[s] \o getMd[s]

SplitOk == splitIn # <<>> => history # <<>> /\ \A k \in 1 .. Len(splitIn) : splitIn[k].p = Len(history)
HeldOk(s) == accState[s] > 0 => inData[s] # <<>>
SetsKnown(s) == \A k \in 1 .. Len(setValueIn[s]) : setValueIn[s][k].p \in 1 .. Len(history)
StoreOk(s) ==
  /\ WordsOk(history, s, Words(s))
  /\ MetadataOk(history, s, Words(s), metadataBuffer[s], remuxPos[s])
  /\ GetsOk(history, metadataBuffer[s], remuxPos[s], Awaited(s), getPath2remux[s], recPos[s])
StoresOk == \A s \in Stores : HeldOk(s) /\ SetsKnown(s) /\ StoreOk(s)

ValuesInv == TypesOk /\ SplitOk /\ StoresOk

(* A store that a step passes by. *)
StoreKept(s) ==
  /\ Words(s)' = Words(s) /\ metadataBuffer'[s] = metadataBuffer[s] /\ remuxPos'[s] = remuxPos[s]
  /\ Awaited(s)' = Awaited(s) /\ getPath2remux'[s] = getPath2remux[s] /\ recPos'[s] = recPos[s]

(* What a step does to a store, as far as its answers depend on it: nothing, demux takes a word, *)
(* remux sends the first word of a packet, or the next one of the packet it has begun.           *)
AnswersKept(s) ==
  Words(s)' = Words(s) /\ metadataBuffer'[s] = metadataBuffer[s] /\ remuxPos'[s] = remuxPos[s] /\ outData'[s] = outData[s]
TakesWord(s) ==
  /\ Words(s) # <<>> /\ Words(s)' = Tail(Words(s)) /\ remuxPos'[s] = remuxPos[s] /\ outData'[s] = outData[s]
  /\ metadataBuffer'[s] = (IF Words(s)[1].i <= 2 THEN Append(metadataBuffer[s], <<Words(s)[1].p, Words(s)[1].i>>)
                           ELSE metadataBuffer[s])
SendsFirst(s) ==
  /\ remuxPos[s] = <<>> /\ metadataBuffer[s] # <<>> /\ Words(s)' = Words(s)
  /\ metadataBuffer'[s] = Tail(metadataBuffer[s]) /\ remuxPos'[s] = <<metadataBuffer[s][1][1], 1>>
  /\ \E e \in OutWord : e.p = metadataBuffer[s][1][1] /\ e.i = 1 /\ ~e.last /\ outData'[s] = Append(outData[s], e)
SendsNext(s) ==
  LET r == remuxPos[s] IN
  /\ r # <<>> /\ (r[2] = 1 => metadataBuffer[s] # <<>>) /\ Words(s)' = Words(s)
  /\ metadataBuffer'[s] = (IF r[2] = 1 THEN Tail(metadataBuffer[s]) ELSE metadataBuffer[s])
  /\ \E e \in OutWord : /\ e.p = r[1] /\ e.i = r[2] + 1 /\ (e.last <=> r[2] + 1 = Leaves(history, r[1]))
                        /\ outData'[s] = Append(outData[s], e) /\ remuxPos'[s] = (IF e.last THEN <<>> ELSE <<r[1], r[2] + 1>>)

LEMMA StoreKeptOk ==
  ASSUME NEW s \in Stores, StoreOk(s), StoreKept(s), history' = history
  PROVE  StoreOk(s)'
BY DEF StoreOk, StoreKept

LEMMA SplitIs ==
  ASSUME TypesOk, NEW s \in Stores
  PROVE  /\ Split(s) \in Seq(Word) /\ Words(s) \in Seq(Word) /\ inData[s] \o Split(s) \in Seq(Word)
         /\ toDemux[s] \in Seq(Word) /\ inData[s] \in Seq(Word)
<1>1. splitIn \in Seq(Word) /\ toDemux[s] \in Seq(Word) /\ inData[s] \in Seq(Word) BY DEF TypesOk, InTypes
<1>2. <<>> \in Seq(Word) OBVIOUS
<1>3. Split(s) \in Seq(Word) BY <1>1, <1>2 DEF Split
<1>4. inData[s] \o Split(s) \in Seq(Word) BY <1>1, <1>3, ConcatIs
<1>5. Words(s) \in Seq(Word) BY <1>1, <1>4, ConcatIs DEF Words
<1> QED BY <1>1, <1>3, <1>4, <1>5

(* What is at the head of a FIFO in front of demux is of its store. *)
LEMMA InFrontOf ==
  ASSUME ValuesInv, NEW s \in Stores, NEW k \in 1 .. Len(inData[s])
  PROVE  inData[s][k].p \in 1 .. Len(history) /\ history[inData[s][k].p] \in Packet
<1> DEFINE d == toDemux[s]
           a == inData[s]
           b == a \o Split(s)
<1>1. d \in Seq(Word) /\ a \in Seq(Word) /\ b \in Seq(Word) /\ Split(s) \in Seq(Word) BY SplitIs DEF ValuesInv
<1>2. /\ Len(a) \in Nat /\ Len(Split(s)) \in Nat /\ Len(b) = Len(a) + Len(Split(s)) /\ \A j \in 1 .. Len(a) : b[j] = a[j]
  BY <1>1, ConcatIs
<1>3. k \in 1 .. Len(b) /\ b[k] = a[k] BY <1>2
<1>4. Words(s) = d \o b BY DEF Words
<1> HIDE DEF b, d
<1>5. Len(d) \in Nat /\ Len(d \o b) = Len(d) + Len(b) /\ Len(b) \in Nat /\ \A j \in 1 .. Len(b) : (d \o b)[Len(d) + j] = b[j]
  BY <1>1, ConcatIs
<1>6. Len(d) + k \in 1 .. Len(Words(s)) /\ Words(s)[Len(d) + k] = a[k] BY <1>3, <1>4, <1>5
<1>7. a[k].p \in Mine(history, s) BY <1>6 DEF ValuesInv, StoresOk, StoreOk, WordsOk
<1>8. a[k].p \in 1 .. Len(history) BY <1>7 DEF Mine
<1>9. history \in Histories BY DEF ValuesInv, TypesOk, InTypes
<1> QED BY <1>8, <1>9, ElementIs DEF Histories

LEMMA AtHead ==
  ASSUME ValuesInv, NEW s \in Stores, inData[s] # <<>>
  PROVE  /\ Head(inData[s]) \in Word /\ Head(inData[s]) = inData[s][1]
         /\ Head(inData[s]).p \in 1 .. Len(history) /\ Head(inData[s]).p \in Nat /\ history[Head(inData[s]).p] \in Packet
<1>1. inData[s] \in Seq(Word) BY SplitIs DEF ValuesInv
<1>2. Head(inData[s]) \in Word /\ Head(inData[s]) = inData[s][1] BY <1>1, TailIs
<1>3. 1 \in 1 .. Len(inData[s]) BY <1>1, NonEmpty
<1>4. Head(inData[s]).p \in Nat BY <1>2 DEF Word
<1> QED BY <1>2, <1>3, <1>4, InFrontOf

LEMMA ForwardKeeps ==
  ASSUME ValuesInv, NEW s \in Stores, inData[s] # <<>>, Forward(s), UNCHANGED <<history, splitIn, table>>
  PROVE  InTypes' /\ \A t \in Stores : Words(t)' = Words(t) /\ (t # s => inData'[t] = inData[t])
<1>1. /\ toDemux \in [Stores -> Seq(Word)] /\ inData \in [Stores -> Seq(Word)]
      /\ toDemux' = Put(toDemux, s, Head(inData[s])) /\ inData' = Drop(inData, s)
  BY DEF ValuesInv, TypesOk, InTypes, Forward
<1>2. Head(inData[s]) \in Word BY AtHead
<1>3. toDemux' \in [Stores -> Seq(Word)] /\ toDemux'[s] = Append(toDemux[s], Head(inData[s]))
      /\ \A t \in Stores : t # s => toDemux'[t] = toDemux[t]
  <2>1. toDemux \in [Stores -> Seq(Word)] BY <1>1
  <2>2. LET f == Put(toDemux, s, Head(inData[s])) IN
        f \in [Stores -> Seq(Word)] /\ f[s] = Append(toDemux[s], Head(inData[s])) /\ \A t \in Stores : t # s => f[t] = toDemux[t]
    BY <2>1, <1>2, PutIs
  <2> QED BY <2>2, <1>1
<1>4. inData' \in [Stores -> Seq(Word)] /\ inData'[s] = Tail(inData[s]) /\ \A t \in Stores : t # s => inData'[t] = inData[t]
  BY <1>1, DropIs
<1>5. InTypes' BY <1>3, <1>4 DEF ValuesInv, TypesOk, InTypes
<1>6. \A t \in Stores : Split(t)' = Split(t) BY DEF Split
<1>7. \A t \in Stores : t # s => Words(t)' = Words(t) BY <1>3, <1>4, <1>6 DEF Words
<1>8. Words(s)' = Words(s)
  <2>1. toDemux[s] \in Seq(Word) /\ inData[s] \in Seq(Word) /\ Split(s) \in Seq(Word) BY SplitIs DEF ValuesInv
  <2>2. Append(toDemux[s], Head(inData[s])) \o (Tail(inData[s]) \o Split(s)) = toDemux[s] \o (inData[s] \o Split(s))
    <3>1. inData[s] \o Split(s) \in Seq(Word) BY <2>1, ConcatIs
    <3>2. inData[s] \o Split(s) # <<>> /\ Head(inData[s] \o Split(s)) = Head(inData[s])
          /\ Tail(inData[s] \o Split(s)) = Tail(inData[s]) \o Split(s)
      BY <2>1, PassedOn
    <3>3. Append(toDemux[s], Head(inData[s] \o Split(s))) \o Tail(inData[s] \o Split(s)) = toDemux[s] \o (inData[s] \o Split(s))
      BY <2>1, <3>1, <3>2, Passed
    <3> QED BY <3>2, <3>3
  <2> QED BY <2>2, <1>3, <1>4, <1>6 DEF Words
<1> QED BY <1>4, <1>5, <1>7, <1>8

LEMMA StoresKeptOk ==
  ASSUME ValuesInv, history' = history, \A t \in Stores : StoreKept(t) /\ HeldOk(t)' /\ SetsKnown(t)'
  PROVE  StoresOk'
<1>1. \A t \in Stores : StoreOk(t)' BY StoreKeptOk DEF ValuesInv, StoresOk
<1> QED BY <1>1 DEF StoresOk

LEMMA AccStreamKeeps ==
  ASSUME ValuesInv, NEW s \in Stores, AccStream(s), UNCHANGED <<splitIn, table>>
  PROVE  ValuesInv'
<1>1. inData[s] # <<>> /\ accState[s] = 0 /\ Forward(s)
      /\ UNCHANGED <<history, accVars, popVars, setVars, getVars, memVars, remuxVars, outData>>
  BY DEF AccStream
<1>2. InTypes' /\ \A t \in Stores : Words(t)' = Words(t) /\ (t # s => inData'[t] = inData[t]) BY <1>1, ForwardKeeps
<1>3. AccTypes' /\ SetTypes' /\ MemTypes' /\ GetTypes'
  BY <1>1 DEF ValuesInv, TypesOk, AccTypes, SetTypes, MemTypes, GetTypes, accVars, popVars, setVars, getVars, memVars, remuxVars
<1>4. SplitOk' BY <1>1 DEF ValuesInv, SplitOk
<1>5. \A t \in Stores : HeldOk(t)' /\ SetsKnown(t)'
  BY <1>1, <1>2 DEF ValuesInv, StoresOk, HeldOk, SetsKnown, accVars, setVars
<1>6. \A t \in Stores : StoreKept(t) BY <1>1, <1>2 DEF StoreKept, Awaited, getVars, remuxVars
<1>7. StoresOk' BY <1>1, <1>5, <1>6, StoresKeptOk
<1> QED BY <1>2, <1>3, <1>4, <1>7 DEF ValuesInv, TypesOk

LEMMA AccTakeKeeps ==
  ASSUME ValuesInv, NEW s \in Stores, AccTake(s), UNCHANGED <<splitIn, table>>
  PROVE  ValuesInv'
<1>1. /\ inData[s] # <<>> /\ ~Passes(Head(inData[s]).p)
      /\ accState' = [accState EXCEPT ![s] = Head(inData[s]).p]
      /\ filterSeq' = Put(filterSeq, s, Op(Head(inData[s]).p))
      /\ UNCHANGED <<history, inData, filter, streamToPop, popVars, toDemux, setVars, getVars, memVars, remuxVars, outData>>
  BY DEF AccTake
<1>2. InTypes' /\ \A t \in Stores : Words(t)' = Words(t)
  BY <1>1 DEF ValuesInv, TypesOk, InTypes, Words, Split
<1>3. SetTypes' /\ MemTypes' /\ GetTypes'
  BY <1>1 DEF ValuesInv, TypesOk, SetTypes, MemTypes, GetTypes, setVars, getVars, memVars, remuxVars
<1>4. AccTypes'
  <2>1. Head(inData[s]).p \in Nat /\ history[Head(inData[s]).p] \in Packet BY <1>1, AtHead
  <2>2. Op(Head(inData[s]).p) \in {"set", "get"} BY <1>1, <2>1 DEF Passes, Op, Packet
  <2>3. filterSeq \in [Stores -> Seq({"set", "get"})] BY DEF ValuesInv, TypesOk, AccTypes
  <2>4. filterSeq' \in [Stores -> Seq({"set", "get"})] BY <1>1, <2>2, <2>3, PutIs
  <2>5. accState' \in [Stores -> Nat] BY <1>1, <2>1 DEF ValuesInv, TypesOk, AccTypes
  <2> QED BY <1>1, <2>4, <2>5 DEF ValuesInv, TypesOk, AccTypes, popVars
<1>5. SplitOk' BY <1>1 DEF ValuesInv, SplitOk
<1>6. \A t \in Stores : HeldOk(t)' /\ SetsKnown(t)'
  BY <1>1 DEF ValuesInv, StoresOk, TypesOk, AccTypes, HeldOk, SetsKnown, setVars
<1>7. \A t \in Stores : StoreKept(t) BY <1>1, <1>2 DEF StoreKept, Awaited, getVars, remuxVars
<1>8. StoresOk' BY <1>1, <1>6, <1>7, StoresKeptOk
<1> QED BY <1>2, <1>3, <1>4, <1>5, <1>8 DEF ValuesInv, TypesOk

LEMMA NextToPopTypes ==
  ASSUME AccTypes, NEW s \in Stores, NextToPop(s)
  PROVE  filterSeq' \in [Stores -> Seq({"set", "get"})] /\ streamToPop' \in [Stores -> {"none", "set", "get"}]
<1>1. filterSeq \in [Stores -> Seq({"set", "get"})] /\ streamToPop \in [Stores -> {"none", "set", "get"}] BY DEF AccTypes
<1>2. CASE filterSeq[s] = <<>> BY <1>1, <1>2 DEF NextToPop
<1>3. CASE filterSeq[s] # <<>>
  <2>1. streamToPop' = [streamToPop EXCEPT ![s] = Head(filterSeq[s])] /\ filterSeq' = Drop(filterSeq, s) BY <1>3 DEF NextToPop
  <2>2. filterSeq[s] \in Seq({"set", "get"}) BY <1>1
  <2>3. Head(filterSeq[s]) \in {"set", "get"} BY <1>3, <2>2, TailIs
  <2>4. Drop(filterSeq, s) \in [Stores -> Seq({"set", "get"})] BY <1>1, <1>3, DropIs
  <2> QED BY <1>1, <2>1, <2>3, <2>4
<1> QED BY <1>2, <1>3

LEMMA AccPushKeeps ==
  ASSUME ValuesInv, NEW s \in Stores, AccPush(s), UNCHANGED <<splitIn, table>>
  PROVE  ValuesInv'
<1>1. /\ accState[s] > 0 /\ Forward(s) /\ accState' = [accState EXCEPT ![s] = 0]
      /\ IF streamToPop[s] = "none" THEN NextToPop(s) ELSE UNCHANGED <<streamToPop, filterSeq>>
      /\ UNCHANGED <<history, popVars, setVars, getVars, memVars, remuxVars, outData>>
  BY DEF AccPush
<1>2. inData[s] # <<>> BY <1>1 DEF ValuesInv, StoresOk, HeldOk
<1>3. InTypes' /\ \A t \in Stores : Words(t)' = Words(t) /\ (t # s => inData'[t] = inData[t]) BY <1>1, <1>2, ForwardKeeps
<1>4. SetTypes' /\ MemTypes' /\ GetTypes'
  BY <1>1 DEF ValuesInv, TypesOk, SetTypes, MemTypes, GetTypes, setVars, getVars, memVars, remuxVars
<1>5. AccTypes'
  <2>1. AccTypes BY DEF ValuesInv, TypesOk
  <2>2. filterSeq' \in [Stores -> Seq({"set", "get"})] /\ streamToPop' \in [Stores -> {"none", "set", "get"}]
    BY <1>1, <2>1, NextToPopTypes DEF AccTypes
  <2>3. accState' \in [Stores -> Nat] BY <1>1, <2>1 DEF AccTypes
  <2> QED BY <1>1, <2>1, <2>2, <2>3 DEF AccTypes, popVars
<1>6. SplitOk' BY <1>1 DEF ValuesInv, SplitOk
<1>7. \A t \in Stores : HeldOk(t)' /\ SetsKnown(t)'
  <2>1. \A t \in Stores : accState'[t] > 0 => t # s /\ accState'[t] = accState[t]
    BY <1>1 DEF ValuesInv, TypesOk, AccTypes
  <2>2. \A t \in Stores : HeldOk(t)' BY <1>3, <2>1 DEF ValuesInv, StoresOk, HeldOk
  <2>3. \A t \in Stores : SetsKnown(t)' BY <1>1 DEF ValuesInv, StoresOk, SetsKnown, setVars
  <2> QED BY <2>2, <2>3
<1>8. \A t \in Stores : StoreKept(t) BY <1>1, <1>3 DEF StoreKept, Awaited, getVars, remuxVars
<1>9. StoresOk' BY <1>1, <1>7, <1>8, StoresKeptOk
<1> QED BY <1>3, <1>4, <1>5, <1>6, <1>9 DEF ValuesInv, TypesOk

LEMMA AccPopKeeps ==
  ASSUME ValuesInv, NEW s \in Stores, AccPop(s), UNCHANGED <<splitIn, table>>
  PROVE  ValuesInv'
<1>1. /\ CanPop(s) /\ NextToPop(s)
      /\ IF streamToPop[s] = "set"
         THEN popSet' = Drop(popSet, s) /\ UNCHANGED popGet
         ELSE popGet' = Drop(popGet, s) /\ UNCHANGED popSet
      /\ UNCHANGED <<history, inData, accState, toDemux, setVars, getVars, memVars, remuxVars, outData>>
  BY DEF AccPop
<1>2. InTypes' /\ \A t \in Stores : Words(t)' = Words(t)
  BY <1>1 DEF ValuesInv, TypesOk, InTypes, Words, Split
<1>3. SetTypes' /\ MemTypes' /\ GetTypes'
  BY <1>1 DEF ValuesInv, TypesOk, SetTypes, MemTypes, GetTypes, setVars, getVars, memVars, remuxVars
<1>4. AccTypes'
  <2>1. AccTypes BY DEF ValuesInv, TypesOk
  <2>2. filterSeq' \in [Stores -> Seq({"set", "get"})] /\ streamToPop' \in [Stores -> {"none", "set", "get"}]
    BY <1>1, <2>1, NextToPopTypes
  <2>3. popSet \in [Stores -> Seq(Nat)] /\ popGet \in [Stores -> Seq(Nat)] BY <2>1 DEF AccTypes
  <2>4. popSet' \in [Stores -> Seq(Nat)] /\ popGet' \in [Stores -> Seq(Nat)]
    <3>1. CASE streamToPop[s] = "set"
      <4>1. popSet[s] # <<>> BY <1>1, <3>1 DEF CanPop
      <4>2. Drop(popSet, s) \in [Stores -> Seq(Nat)] BY <4>1, <2>3, DropIs
      <4> QED BY <4>2, <3>1, <1>1, <2>3
    <3>2. CASE streamToPop[s] # "set"
      <4>1. popGet[s] # <<>> BY <1>1, <3>2 DEF CanPop
      <4>2. Drop(popGet, s) \in [Stores -> Seq(Nat)] BY <4>1, <2>3, DropIs
      <4> QED BY <4>2, <3>2, <1>1, <2>3
    <3> QED BY <3>1, <3>2
  <2> QED BY <1>1, <2>1, <2>2, <2>4 DEF AccTypes
<1>5. SplitOk' BY <1>1 DEF ValuesInv, SplitOk
<1>6. \A t \in Stores : HeldOk(t)' /\ SetsKnown(t)'
  BY <1>1 DEF ValuesInv, StoresOk, HeldOk, SetsKnown, setVars
<1>7. \A t \in Stores : StoreKept(t) BY <1>1, <1>2 DEF StoreKept, Awaited, getVars, remuxVars
<1>8. StoresOk' BY <1>1, <1>6, <1>7, StoresKeptOk
<1> QED BY <1>2, <1>3, <1>4, <1>5, <1>8 DEF ValuesInv, TypesOk

LEMMA DemuxKeeps ==
  ASSUME ValuesInv, NEW s \in Stores, Demux(s), UNCHANGED <<splitIn, table>>
  PROVE  ValuesInv' /\ TakesWord(s) /\ \A t \in Stores : t # s => AnswersKept(t)
<1> DEFINE w == Head(toDemux[s])
<1>1. /\ toDemux[s] # <<>> /\ toDemux' = Drop(toDemux, s)
      /\ metadataBuffer' = (IF w.i <= 2 THEN Put(metadataBuffer, s, <<w.p, w.i>>) ELSE metadataBuffer)
      /\ getMd' = (IF Op(w.p) = "get" /\ w.i = 1 THEN Put(getMd, s, w.p) ELSE getMd)
      /\ setMd' = (IF Op(w.p) = "set" /\ w.i = 1 THEN Put(setMd, s, w.p) ELSE setMd)
      /\ setValueIn' = (IF Op(w.p) = "set" THEN Put(setValueIn, s, w) ELSE setValueIn)
      /\ UNCHANGED <<history, inData, accVars, popVars, setBuf, disp2rec, rdData, recPos, getPath2remux, memVars,
                     remuxPos, outData>>
  BY DEF Demux, BringsMetadata
<1>2. history \in Histories BY DEF ValuesInv, TypesOk, InTypes
<1>3. StoreOk(s) /\ SetsKnown(s) BY DEF ValuesInv, StoresOk
<1>4. toDemux[s] \in Seq(Word) /\ inData[s] \o Split(s) \in Seq(Word) /\ Words(s) \in Seq(Word) BY SplitIs DEF ValuesInv
<1>5. /\ Words(s) # <<>> /\ Head(Words(s)) = w /\ Tail(Words(s)) = Tail(toDemux[s]) \o (inData[s] \o Split(s))
  <2> DEFINE d == toDemux[s]
             b == inData[s] \o Split(s)
  <2>1. d \in Seq(Word) /\ b \in Seq(Word) /\ d # <<>> BY <1>1, <1>4
  <2> HIDE DEF d, b
  <2>2. Tail(d \o b) = Tail(d) \o b /\ Head(d \o b) = Head(d) /\ d \o b # <<>> BY <2>1, PassedOn
  <2> QED BY <2>2 DEF d, b, Words
<1>6. w = Words(s)[1] /\ w \in Word BY <1>4, <1>5, TailIs
<1>7. w.p \in Nat /\ w.i \in Nat /\ w.p \in 1 .. Len(history) BY <1>2, <1>3, <1>5, <1>6, SecondWord DEF StoreOk
<1> HIDE DEF w
<1>8. toDemux' \in [Stores -> Seq(Word)] /\ toDemux'[s] = Tail(toDemux[s])
      /\ \A t \in Stores : t # s => toDemux'[t] = toDemux[t]
  <2>1. toDemux \in [Stores -> Seq(Word)] BY DEF ValuesInv, TypesOk, InTypes
  <2> QED BY <1>1, <2>1, DropIs
<1>9. metadataBuffer' \in [Stores -> Seq(Nat \X Nat)]
      /\ metadataBuffer'[s] = (IF w.i <= 2 THEN Append(metadataBuffer[s], <<w.p, w.i>>) ELSE metadataBuffer[s])
      /\ \A t \in Stores : t # s => metadataBuffer'[t] = metadataBuffer[t]
  <2>1. metadataBuffer \in [Stores -> Seq(Nat \X Nat)] BY DEF ValuesInv, TypesOk, GetTypes
  <2> DEFINE e == <<w.p, w.i>>
             pairs == Nat \X Nat
  <2>2. e \in pairs BY <1>7
  <2>3. metadataBuffer \in [Stores -> Seq(pairs)] BY <2>1
  <2> HIDE DEF e, pairs
  <2>4. LET f == Put(metadataBuffer, s, e) IN
        f \in [Stores -> Seq(pairs)] /\ f[s] = Append(metadataBuffer[s], e) /\ \A t \in Stores : t # s => f[t] = metadataBuffer[t]
    BY <2>2, <2>3, PutIs
  <2> QED BY <1>1, <2>1, <2>4 DEF e, pairs
<1>10. getMd' \in [Stores -> Seq(Nat)]
       /\ getMd'[s] = (IF Op(w.p) = "get" /\ w.i = 1 THEN Append(getMd[s], w.p) ELSE getMd[s])
       /\ \A t \in Stores : t # s => getMd'[t] = getMd[t]
  <2>1. getMd \in [Stores -> Seq(Nat)] BY DEF ValuesInv, TypesOk, GetTypes
  <2>2. LET f == Put(getMd, s, w.p) IN
        f \in [Stores -> Seq(Nat)] /\ f[s] = Append(getMd[s], w.p) /\ \A t \in Stores : t # s => f[t] = getMd[t]
    <3>1. w.p \in Nat BY <1>7
    <3>2. \A f \in [Stores -> Seq(Nat)] : \A x \in Nat :
            Put(f, s, x) \in [Stores -> Seq(Nat)] /\ Put(f, s, x)[s] = Append(f[s], x) /\ \A t \in Stores : t # s => Put(f, s, x)[t] = f[t]
      BY PutIs
    <3> QED BY <2>1, <3>1, <3>2, Zenon
  <2> QED BY <1>1, <2>1, <2>2
<1>11. setMd' \in [Stores -> Seq(Nat)]
  <2>1. setMd \in [Stores -> Seq(Nat)] BY DEF ValuesInv, TypesOk, SetTypes
  <2>2. Put(setMd, s, w.p) \in [Stores -> Seq(Nat)] BY <2>1, <1>7, PutIs
  <2> QED BY <1>1, <2>1, <2>2
<1>12. setValueIn' \in [Stores -> Seq(Word)] /\ \A t \in Stores : SetsKnown(t)'
  <2>1. setValueIn \in [Stores -> Seq(Word)] BY DEF ValuesInv, TypesOk, SetTypes
  <2>2. LET f == Put(setValueIn, s, w) IN
        f \in [Stores -> Seq(Word)] /\ f[s] = Append(setValueIn[s], w) /\ \A t \in Stores : t # s => f[t] = setValueIn[t]
    <3>1. w \in Word BY <1>6
    <3> HIDE DEF w
    <3>2. \A f \in [Stores -> Seq(Word)] : \A x \in Word :
            Put(f, s, x) \in [Stores -> Seq(Word)] /\ Put(f, s, x)[s] = Append(f[s], x) /\ \A t \in Stores : t # s => Put(f, s, x)[t] = f[t]
      BY PutIs
    <3> QED BY <2>1, <3>1, <3>2, Zenon
  <2>3. \A t \in Stores : SetsKnown(t) BY DEF ValuesInv, StoresOk
  <2>4. /\ Len(setValueIn[s]) \in Nat /\ Len(Append(setValueIn[s], w)) = Len(setValueIn[s]) + 1
        /\ Append(setValueIn[s], w)[Len(setValueIn[s]) + 1] = w
        /\ \A k \in 1 .. Len(setValueIn[s]) : Append(setValueIn[s], w)[k] = setValueIn[s][k]
    <3>1. setValueIn[s] \in Seq(Word) BY <2>1
    <3> QED BY <3>1, <1>6, AppendIs
  <2>5. \A k \in 1 .. Len(Append(setValueIn[s], w)) : Append(setValueIn[s], w)[k].p \in 1 .. Len(history)
    <3> TAKE k \in 1 .. Len(Append(setValueIn[s], w))
    <3>1. k \in 1 .. Len(setValueIn[s]) \/ k = Len(setValueIn[s]) + 1 BY <2>4
    <3> QED BY <3>1, <2>3, <2>4, <1>7 DEF SetsKnown
  <2>6. CASE Op(w.p) = "set" BY <2>6, <2>2, <2>3, <2>5, <1>1 DEF SetsKnown
  <2>7. CASE Op(w.p) # "set" BY <2>7, <2>1, <2>3, <1>1 DEF SetsKnown
  <2> QED BY <2>6, <2>7
<1>13. InTypes' /\ AccTypes' /\ SetTypes' /\ MemTypes' /\ GetTypes' /\ SplitOk'
  BY <1>1, <1>8, <1>9, <1>10, <1>11, <1>12
  DEF ValuesInv, TypesOk, InTypes, AccTypes, SetTypes, MemTypes, GetTypes, SplitOk, accVars, popVars, memVars
<1>14. \A t \in Stores : HeldOk(t)' BY <1>1 DEF ValuesInv, StoresOk, HeldOk, accVars
<1>15. \A t \in Stores : t # s => StoreOk(t)'
  <2>1. \A t \in Stores : t # s => StoreKept(t)
    BY <1>1, <1>8, <1>9, <1>10 DEF StoreKept, Words, Split, Awaited
  <2> QED BY <2>1, <1>1, StoreKeptOk DEF ValuesInv, StoresOk
<1>16. StoreOk(s)'
  <2> DEFINE u == Awaited(s)'
  <2>1. Words(s)' = Tail(Words(s)) BY <1>1, <1>5, <1>8 DEF Words, Split
  <2>2. u = (IF history[w.p].op = "get" /\ w.i = 1 THEN Append(Awaited(s), w.p) ELSE Awaited(s))
    <3> DEFINE c == disp2rec[s]
               g == getMd[s]
    <3>1. c \in Seq(Nat) /\ g \in Seq(Nat) BY DEF ValuesInv, TypesOk, GetTypes
    <3> HIDE DEF c, g
    <3>3. PICK x \in Nat : x = w.p BY <1>7
    <3>4. c \o Append(g, x) = Append(c \o g, x) BY <3>1
    <3>2. c \o Append(g, w.p) = Append(c \o g, w.p) BY <3>3, <3>4
    <3> QED BY <3>2, <1>1, <1>10 DEF Awaited, Op, c, g
  <2> HIDE DEF u
  <2>3. /\ WordsOk(history, s, Words(s)) /\ MetadataOk(history, s, Words(s), metadataBuffer[s], remuxPos[s])
        /\ GetsOk(history, metadataBuffer[s], remuxPos[s], Awaited(s), getPath2remux[s], recPos[s])
    BY <1>3 DEF StoreOk
  <2>4. WordsOk(history, s, Tail(Words(s))) BY <1>2, <1>5, <2>3, WordsTail
  <2>5. MetadataOk(history, s, Tail(Words(s)), metadataBuffer'[s], remuxPos[s])
    BY <1>2, <1>5, <1>6, <1>9, <2>3, MetadataDemux
  <2>6. GetsOk(history, metadataBuffer'[s], remuxPos[s], u, getPath2remux[s], recPos[s])
    <3> DEFINE z == Words(s)
               m == metadataBuffer[s]
    <3>1. metadataBuffer'[s] = (IF z[1].i <= 2 THEN Append(m, <<z[1].p, z[1].i>>) ELSE m) BY <1>6, <1>9
    <3>2. u = (IF history[z[1].p].op = "get" /\ z[1].i = 1 THEN Append(Awaited(s), z[1].p) ELSE Awaited(s)) BY <1>6, <2>2
    <3>3. z # <<>> BY <1>5
    <3> HIDE DEF z, m
    <3>4. history \in Histories /\ WordsOk(history, s, z) /\ MetadataOk(history, s, z, m, remuxPos[s])
          /\ GetsOk(history, m, remuxPos[s], Awaited(s), getPath2remux[s], recPos[s])
      BY <1>2, <2>3 DEF z, m
    <3>5. \A n : n = (IF z[1].i <= 2 THEN Append(m, <<z[1].p, z[1].i>>) ELSE m) =>
            \A y : y = (IF history[z[1].p].op = "get" /\ z[1].i = 1 THEN Append(Awaited(s), z[1].p) ELSE Awaited(s)) =>
              GetsOk(history, n, remuxPos[s], y, getPath2remux[s], recPos[s])
      BY <3>3, <3>4, GetsDemux
    <3> QED BY <3>1, <3>2, <3>5
  <2> QED BY <1>1, <2>1, <2>4, <2>5, <2>6 DEF StoreOk, u
<1>17. TakesWord(s) BY <1>1, <1>5, <1>6, <1>8, <1>9 DEF TakesWord, Words, Split
<1>18. \A t \in Stores : t # s => AnswersKept(t) BY <1>1, <1>8, <1>9 DEF AnswersKept, Words, Split
<1> QED BY <1>12, <1>13, <1>14, <1>15, <1>16, <1>17, <1>18 DEF ValuesInv, TypesOk, StoresOk

LEMMA CommandIs ==
  ASSUME ValuesInv, NEW s \in Stores, NEW p \in 1 .. Len(history), NEW write \in BOOLEAN
  PROVE  Command(write, p, s) \in MemCmd
<1>1. history \in Histories BY DEF ValuesInv, TypesOk, InTypes
<1>2. Addr(p) \in Nat /\ ValueWords(p) \in Nat /\ ValueWords(p) >= 2 BY <1>1, PacketIs DEF Addr, ValueWords
<1>3. LineWords[s] \in Nat \ {0} /\ SlotLines \in Nat BY LineAssumption
<1>4. LineOf(Addr(p), 0) \in Nat BY <1>2, <1>3 DEF LineOf
<1>5. \A a \in Nat, b \in Nat \ {0} : a >= b => a \div b \in Nat /\ a \div b >= 1 OBVIOUS
<1>6. ValueWords(p) + LineWords[s] - 1 \in Nat /\ ValueWords(p) + LineWords[s] - 1 >= LineWords[s] BY <1>2, <1>3
<1>7. Lines(p, s) \in Nat \ {0}
  <2>1. Lines(p, s) \in Nat /\ Lines(p, s) >= 1 BY <1>3, <1>5, <1>6 DEF Lines
  <2> QED BY <2>1
<1>8. p \in Nat BY <1>1 DEF Histories
<1> QED BY <1>4, <1>7, <1>8 DEF Command, MemCmd

(* A step of a store that leaves the FIFOs between demux and remux as they are. *)
LEMMA MemoryKeeps ==
  ASSUME ValuesInv, UNCHANGED <<history, splitIn, table, inData, toDemux, accState, metadataBuffer, remuxPos, getPath2remux, recPos>>,
         \A t \in Stores : Awaited(t)' = Awaited(t) /\ SetsKnown(t)',
         AccTypes', SetTypes', MemTypes', GetTypes'
  PROVE  ValuesInv'
<1>1. InTypes' /\ SplitOk' BY DEF ValuesInv, TypesOk, InTypes, SplitOk
<1>2. \A t \in Stores : StoreKept(t) /\ HeldOk(t)' BY DEF StoreKept, HeldOk, ValuesInv, StoresOk, Words, Split
<1>3. StoresOk' BY <1>2, StoresKeptOk
<1> QED BY <1>1, <1>3 DEF ValuesInv, TypesOk

LEMMA SetPathKeeps ==
  ASSUME ValuesInv, NEW s \in Stores, SetPath(s), UNCHANGED <<splitIn, table>>
  PROVE  ValuesInv'
<1> DEFINE w == Head(setValueIn[s])
           place == ((w.i - 1) % LineWords[s]) + 1
           line == PutInLine(setBuf[s], place, w)
           left == IF LastWord(w) THEN <<>> ELSE line
<1>1. /\ setValueIn[s] # <<>> /\ setValueIn' = Drop(setValueIn, s)
      /\ w.i = 1 => setMd[s] # <<>>
      /\ setMd' = (IF w.i = 1 THEN Drop(setMd, s) ELSE setMd)
      /\ IF EndsLine(w, s) THEN memWrData' = Put(memWrData, s, line) ELSE UNCHANGED memWrData
      /\ setBuf' = [setBuf EXCEPT ![s] = left]
      /\ memWrCmd' = (IF EndsLine(w, s) /\ InFirstLine(w, s) THEN Put(memWrCmd, s, Command(TRUE, w.p, s)) ELSE memWrCmd)
      /\ popSet' = (IF LastWord(w) /\ s \in Filtered THEN Put(popSet, s, w.p) ELSE popSet)
      /\ UNCHANGED <<history, inData, accVars, popGet, toDemux, getVars, memRdCmd, memCmd, memory, remuxVars, outData>>
  BY DEF SetPath
<1>2. setMd \in [Stores -> Seq(Nat)] /\ setValueIn \in [Stores -> Seq(Word)] /\ setBuf \in [Stores -> Seq(Word)]
  BY DEF ValuesInv, TypesOk, SetTypes
<1>3. setValueIn[s] \in Seq(Word) /\ setBuf[s] \in Seq(Word) /\ <<>> \in Seq(Word) BY <1>2
<1>4. /\ w \in Word /\ w = setValueIn[s][1] /\ 1 \in 1 .. Len(setValueIn[s])
      /\ Len(setValueIn[s]) \in Nat /\ Len(Tail(setValueIn[s])) = Len(setValueIn[s]) - 1
      /\ \A k \in 1 .. Len(setValueIn[s]) - 1 : Tail(setValueIn[s])[k] = setValueIn[s][k + 1]
  BY <1>1, <1>3, TailIs, NonEmpty
<1>5. w.p \in Nat /\ w.p \in 1 .. Len(history)
  <2>1. SetsKnown(s) BY DEF ValuesInv, StoresOk
  <2> QED BY <2>1, <1>4 DEF SetsKnown, Word
<1> HIDE DEF w
<1>6. line \in Seq(Word) /\ left \in Seq(Word)
  <2>1. Append(setBuf[s], w) \in Seq(Word) BY <1>3, <1>4, AppendIs
  <2>2. [setBuf[s] EXCEPT ![place] = w] \in Seq(Word)
    <3> DEFINE buf == setBuf[s]
    <3>1. buf \in Seq(Word) BY <1>3
    <3> HIDE DEF buf, place
    <3>2. buf \in [1 .. Len(buf) -> Word] /\ Len(buf) \in Nat BY <3>1
    <3>3. [buf EXCEPT ![place] = w] \in [1 .. Len(buf) -> Word] BY <3>2, <1>4
    <3>4. [buf EXCEPT ![place] = w] \in Seq(Word) BY <3>2, <3>3
    <3> QED BY <3>4 DEF buf
  <2>3. line \in Seq(Word) BY <2>1, <2>2 DEF PutInLine
  <2> QED BY <2>3, <1>3
<1> HIDE DEF place, line, left
<1>7. setMd' \in [Stores -> Seq(Nat)] BY <1>1, <1>2, DropIs
<1>8. setValueIn' \in [Stores -> Seq(Word)] /\ setValueIn'[s] = Tail(setValueIn[s])
      /\ \A t \in Stores : t # s => setValueIn'[t] = setValueIn[t]
  <2>1. setValueIn[s] # <<>> BY <1>1
  <2>2. LET f == Drop(setValueIn, s) IN
        f \in [Stores -> Seq(Word)] /\ f[s] = Tail(setValueIn[s]) /\ \A t \in Stores : t # s => f[t] = setValueIn[t]
    <3>1. setValueIn \in [Stores -> Seq(Word)] BY <1>2
    <3> QED BY <2>1, <3>1, DropIs, Zenon
  <2> QED BY <2>2, <1>1
<1>9. setBuf' \in [Stores -> Seq(Word)] BY <1>1, <1>2, <1>3, <1>6
<1>10. memWrData' \in [Stores -> Seq(Seq(Word))]
  <2>1. memWrData \in [Stores -> Seq(Seq(Word))] BY DEF ValuesInv, TypesOk, MemTypes
  <2>2. Put(memWrData, s, line) \in [Stores -> Seq(Seq(Word))] BY <2>1, <1>6, PutIs
  <2> QED BY <1>1, <2>1, <2>2
<1>11. memWrCmd' \in [Stores -> Seq(MemCmd)]
  <2>1. memWrCmd \in [Stores -> Seq(MemCmd)] BY DEF ValuesInv, TypesOk, MemTypes
  <2>2. Command(TRUE, w.p, s) \in MemCmd BY <1>5, CommandIs
  <2>3. Put(memWrCmd, s, Command(TRUE, w.p, s)) \in [Stores -> Seq(MemCmd)] BY <2>1, <2>2, PutIs
  <2> QED BY <1>1, <2>1, <2>3
<1>12. popSet' \in [Stores -> Seq(Nat)]
  <2>1. popSet \in [Stores -> Seq(Nat)] BY DEF ValuesInv, TypesOk, AccTypes
  <2>2. Put(popSet, s, w.p) \in [Stores -> Seq(Nat)] BY <2>1, <1>5, PutIs
  <2> QED BY <1>1, <2>1, <2>2
<1>13. \A t \in Stores : SetsKnown(t)'
  <2>1. \A t \in Stores : SetsKnown(t) BY DEF ValuesInv, StoresOk
  <2>2. \A k \in 1 .. Len(Tail(setValueIn[s])) : k + 1 \in 1 .. Len(setValueIn[s]) /\ k \in 1 .. Len(setValueIn[s]) - 1 BY <1>4
  <2>3. \A k \in 1 .. Len(Tail(setValueIn[s])) : Tail(setValueIn[s])[k].p \in 1 .. Len(history)
    BY <2>1, <2>2, <1>4 DEF SetsKnown
  <2> QED BY <2>1, <2>3, <1>1, <1>8 DEF SetsKnown
<1>14. AccTypes' BY <1>1, <1>12 DEF ValuesInv, TypesOk, AccTypes, accVars
<1>15. SetTypes' BY <1>7, <1>8, <1>9 DEF SetTypes
<1>16. MemTypes' BY <1>1, <1>10, <1>11 DEF ValuesInv, TypesOk, MemTypes, getVars
<1>17. GetTypes' BY <1>1 DEF ValuesInv, TypesOk, GetTypes, getVars, remuxVars
<1>18. \A t \in Stores : Awaited(t)' = Awaited(t) BY <1>1 DEF Awaited, getVars
<1> QED BY <1>1, <1>13, <1>14, <1>15, <1>16, <1>17, <1>18, MemoryKeeps DEF accVars, getVars, remuxVars

LEMMA DispatchKeeps ==
  ASSUME ValuesInv, NEW s \in Stores, Dispatch(s), UNCHANGED <<splitIn, table>>
  PROVE  ValuesInv'
<1> DEFINE p == Head(getMd[s])
<1>1. /\ getMd[s] # <<>> /\ memRdCmd' = Put(memRdCmd, s, Command(FALSE, p, s)) /\ disp2rec' = Put(disp2rec, s, p)
      /\ getMd' = Drop(getMd, s)
      /\ UNCHANGED <<history, inData, accVars, popVars, toDemux, setVars, rdData, recPos, getPath2remux,
                     memWrCmd, memWrData, memCmd, memory, remuxVars, outData>>
  BY DEF Dispatch
<1>2. getMd \in [Stores -> Seq(Nat)] /\ disp2rec \in [Stores -> Seq(Nat)] BY DEF ValuesInv, TypesOk, GetTypes
<1>3. getMd[s] \in Seq(Nat) /\ disp2rec[s] \in Seq(Nat) BY <1>2
<1>4. p \in Nat /\ p = getMd[s][1] /\ 1 \in 1 .. Len(getMd[s]) BY <1>1, <1>3, TailIs, NonEmpty
<1>5. p \in 1 .. Len(history)
  <2>1. GetsOk(history, metadataBuffer[s], remuxPos[s], Awaited(s), getPath2remux[s], recPos[s])
    BY DEF ValuesInv, StoresOk, StoreOk
  <2>2. /\ Len(disp2rec[s]) \in Nat /\ Len(getMd[s]) \in Nat /\ Len(Awaited(s)) = Len(disp2rec[s]) + Len(getMd[s])
        /\ Awaited(s)[Len(disp2rec[s]) + 1] = getMd[s][1]
    <3> DEFINE c == disp2rec[s]
               g == getMd[s]
    <3>1. c \in Seq(Nat) /\ g \in Seq(Nat) /\ 1 \in 1 .. Len(g) BY <1>3, <1>4
    <3> HIDE DEF c, g
    <3>2. Len(c) \in Nat /\ Len(g) \in Nat /\ Len(c \o g) = Len(c) + Len(g) /\ (c \o g)[Len(c) + 1] = g[1]
      BY <3>1, ConcatIs
    <3> QED BY <3>2 DEF c, g, Awaited
  <2>3. Len(disp2rec[s]) + 1 \in 1 .. Len(Awaited(s))
    <3>1. Len(getMd[s]) >= 1 /\ Len(getMd[s]) \in Nat BY <1>4, <2>2
    <3>2. Len(disp2rec[s]) \in Nat /\ Len(Awaited(s)) = Len(disp2rec[s]) + Len(getMd[s]) BY <2>2
    <3>3. \A a, b \in Nat : b >= 1 => a + 1 \in 1 .. (a + b) OBVIOUS
    <3>4. Len(disp2rec[s]) + 1 \in 1 .. (Len(disp2rec[s]) + Len(getMd[s])) BY <3>1, <3>2, <3>3
    <3> QED BY <3>2, <3>4
  <2>4. history \in Histories BY DEF ValuesInv, TypesOk, InTypes
  <2>5. Awaited(s)[Len(disp2rec[s]) + 1] \in AtRemux(history, metadataBuffer[s], remuxPos[s]) BY <2>1, <2>3 DEF GetsOk
  <2>6. p \in AtRemux(history, metadataBuffer[s], remuxPos[s]) BY <2>2, <2>5, <1>4
  <2> QED BY <2>6 DEF AtRemux
<1> HIDE DEF p
<1>6. getMd' \in [Stores -> Seq(Nat)] /\ getMd'[s] = Tail(getMd[s]) /\ \A t \in Stores : t # s => getMd'[t] = getMd[t]
  <2>1. getMd[s] # <<>> BY <1>1
  <2>2. getMd \in [Stores -> Seq(Nat)] BY <1>2
  <2>3. Drop(getMd, s) \in [Stores -> Seq(Nat)] BY <2>1, <2>2, DropIs
  <2>4. Drop(getMd, s)[s] = Tail(getMd[s]) /\ \A t \in Stores : t # s => Drop(getMd, s)[t] = getMd[t] BY <2>2 DEF Drop
  <2> QED BY <2>3, <2>4, <1>1
<1>7. disp2rec' \in [Stores -> Seq(Nat)] /\ disp2rec'[s] = Append(disp2rec[s], p)
      /\ \A t \in Stores : t # s => disp2rec'[t] = disp2rec[t]
  <2>1. disp2rec \in [Stores -> Seq(Nat)] BY <1>2
  <2>2. Put(disp2rec, s, p) \in [Stores -> Seq(Nat)] BY <2>1, <1>4, PutIs
  <2>3. Put(disp2rec, s, p)[s] = Append(disp2rec[s], p) /\ \A t \in Stores : t # s => Put(disp2rec, s, p)[t] = disp2rec[t]
    BY <2>1 DEF Put
  <2> QED BY <2>2, <2>3, <1>1
<1>8. \A t \in Stores : Awaited(t)' = Awaited(t)
  <2>1. Append(disp2rec[s], p) \o Tail(getMd[s]) = disp2rec[s] \o getMd[s] BY <1>1, <1>3, Passed DEF p
  <2> QED BY <2>1, <1>6, <1>7 DEF Awaited
<1>9. memRdCmd' \in [Stores -> Seq(MemCmd)]
  <2>1. memRdCmd \in [Stores -> Seq(MemCmd)] BY DEF ValuesInv, TypesOk, MemTypes
  <2>2. Command(FALSE, p, s) \in MemCmd BY <1>5, CommandIs
  <2> QED BY <1>1, <2>1, <2>2, PutIs
<1>10. AccTypes' BY <1>1 DEF ValuesInv, TypesOk, AccTypes, accVars, popVars
<1>11. SetTypes' BY <1>1 DEF ValuesInv, TypesOk, SetTypes, setVars
<1>12. MemTypes' BY <1>1, <1>9 DEF ValuesInv, TypesOk, MemTypes
<1>13. GetTypes' BY <1>1, <1>6, <1>7 DEF ValuesInv, TypesOk, GetTypes, remuxVars
<1>14. \A t \in Stores : SetsKnown(t)' BY <1>1 DEF ValuesInv, StoresOk, SetsKnown, setVars
<1> QED BY <1>1, <1>8, <1>10, <1>11, <1>12, <1>13, <1>14, MemoryKeeps DEF accVars, remuxVars

LEMMA AggregateKeeps ==
  ASSUME ValuesInv, NEW s \in Stores, Aggregate(s), UNCHANGED <<splitIn, table>>
  PROVE  ValuesInv'
<1>1. /\ IF TakesWrite(s)
         THEN memCmd' = Put(memCmd, s, Head(memWrCmd[s])) /\ memWrCmd' = Drop(memWrCmd, s) /\ UNCHANGED memRdCmd
         ELSE /\ memRdCmd[s] # <<>>
              /\ memCmd' = Put(memCmd, s, Head(memRdCmd[s])) /\ memRdCmd' = Drop(memRdCmd, s) /\ UNCHANGED memWrCmd
      /\ UNCHANGED <<history, inData, accVars, popVars, toDemux, setVars, getVars, memWrData, memory, remuxVars, outData>>
  BY DEF Aggregate
<1>2. memWrCmd \in [Stores -> Seq(MemCmd)] /\ memRdCmd \in [Stores -> Seq(MemCmd)] /\ memCmd \in [Stores -> Seq(MemCmd)]
  BY DEF ValuesInv, TypesOk, MemTypes
<1>3. memWrCmd' \in [Stores -> Seq(MemCmd)] /\ memRdCmd' \in [Stores -> Seq(MemCmd)] /\ memCmd' \in [Stores -> Seq(MemCmd)]
  <2>1. CASE TakesWrite(s)
    <3>1. memWrCmd[s] # <<>> /\ memWrCmd[s] \in Seq(MemCmd) BY <2>1, <1>2 DEF TakesWrite
    <3>2. Head(memWrCmd[s]) \in MemCmd BY <3>1, TailIs
    <3>3. Put(memCmd, s, Head(memWrCmd[s])) \in [Stores -> Seq(MemCmd)] BY <3>2, <1>2, PutIs
    <3>4. Drop(memWrCmd, s) \in [Stores -> Seq(MemCmd)] BY <3>1, <1>2, DropIs
    <3> QED BY <3>3, <3>4, <2>1, <1>1, <1>2
  <2>2. CASE ~TakesWrite(s)
    <3>1. memRdCmd[s] # <<>> /\ memRdCmd[s] \in Seq(MemCmd) BY <2>2, <1>1, <1>2
    <3>2. Head(memRdCmd[s]) \in MemCmd BY <3>1, TailIs
    <3>3. Put(memCmd, s, Head(memRdCmd[s])) \in [Stores -> Seq(MemCmd)] BY <3>2, <1>2, PutIs
    <3>4. Drop(memRdCmd, s) \in [Stores -> Seq(MemCmd)] BY <3>1, <1>2, DropIs
    <3> QED BY <3>3, <3>4, <2>2, <1>1, <1>2
  <2> QED BY <2>1, <2>2
<1>4. AccTypes' BY <1>1 DEF ValuesInv, TypesOk, AccTypes, accVars, popVars
<1>5. SetTypes' BY <1>1 DEF ValuesInv, TypesOk, SetTypes, setVars
<1>6. MemTypes' BY <1>1, <1>3 DEF ValuesInv, TypesOk, MemTypes, getVars
<1>7. GetTypes' BY <1>1 DEF ValuesInv, TypesOk, GetTypes, getVars, remuxVars
<1>8. \A t \in Stores : Awaited(t)' = Awaited(t) /\ SetsKnown(t)'
  BY <1>1 DEF ValuesInv, StoresOk, SetsKnown, Awaited, getVars, setVars
<1> QED BY <1>1, <1>4, <1>5, <1>6, <1>7, <1>8, MemoryKeeps DEF accVars, getVars, remuxVars

LEMMA WriteIs ==
  ASSUME NEW m \in Memories, NEW l \in Nat, NEW x \in Seq(Word)
  PROVE  /\ Written(m, l, x) \in Memories /\ DOMAIN Written(m, l, x) = DOMAIN m \cup {l} /\ Written(m, l, x)[l] = x
         /\ \A k \in DOMAIN m : k # l => Written(m, l, x)[k] = m[k]
<1>1. PICK lines \in SUBSET Nat : m \in [lines -> Seq(Word)] BY DEF Memories
<1>2. Written(m, l, x) \in [lines \cup {l} -> Seq(Word)] BY <1>1 DEF Written
<1>3. lines \cup {l} \in SUBSET Nat BY <1>1
<1>4. Written(m, l, x) \in Memories BY <1>2, <1>3 DEF Memories
<1> QED BY <1>4 DEF Written

LEMMA MemAccessKeeps ==
  ASSUME ValuesInv, NEW s \in Stores, MemAccess(s), UNCHANGED <<splitIn, table>>
  PROVE  ValuesInv'
<1> DEFINE c == Head(memCmd[s])
           words == IF c.line \in DOMAIN memory[s] THEN memory[s][c.line] ELSE <<>>
           read == [p |-> c.p, line |-> c.line, words |-> words]
           next == [c EXCEPT !.line = @ + 1, !.count = @ - 1]
           left == IF c.count = 1 THEN Tail(memCmd[s]) ELSE <<next>> \o Tail(memCmd[s])
           written == Written(memory[s], c.line, Head(memWrData[s]))
<1>1. /\ memCmd[s] # <<>>
      /\ c.write => /\ memWrData[s] # <<>> /\ memory' = [memory EXCEPT ![s] = written]
                    /\ memWrData' = Drop(memWrData, s) /\ UNCHANGED rdData
      /\ ~c.write => rdData' = Put(rdData, s, read) /\ UNCHANGED <<memory, memWrData>>
      /\ memCmd' = [memCmd EXCEPT ![s] = left]
      /\ UNCHANGED <<history, inData, accVars, popVars, toDemux, setVars, getMd, disp2rec, recPos, getPath2remux,
                     memWrCmd, memRdCmd, remuxVars, outData>>
  BY DEF MemAccess
<1>2. /\ memCmd \in [Stores -> Seq(MemCmd)] /\ memWrData \in [Stores -> Seq(Seq(Word))] /\ memory \in [Stores -> Memories]
      /\ rdData \in [Stores -> Seq(ReadLine)]
  BY DEF ValuesInv, TypesOk, MemTypes
<1>3. memCmd[s] \in Seq(MemCmd) /\ memory[s] \in Memories /\ memWrData[s] \in Seq(Seq(Word)) BY <1>2
<1>4. c \in MemCmd /\ Tail(memCmd[s]) \in Seq(MemCmd) BY <1>1, <1>3, TailIs
<1>5. c.p \in Nat /\ c.line \in Nat /\ c.count \in Nat \ {0} /\ c.write \in BOOLEAN BY <1>4 DEF MemCmd
<1>6. left \in Seq(MemCmd)
  <2>1. CASE c.count = 1 BY <2>1, <1>4
  <2>2. CASE c.count # 1
    <3>1. c.line + 1 \in Nat /\ c.count - 1 \in Nat \ {0} BY <1>5, <2>2
    <3>2. next \in MemCmd BY <1>4, <3>1 DEF MemCmd
    <3> HIDE DEF next
    <3>3. <<next>> \in Seq(MemCmd) BY <3>2
    <3>4. <<next>> \o Tail(memCmd[s]) \in Seq(MemCmd) BY <3>3, <1>4, ConcatIs
    <3> QED BY <3>4, <2>2
  <2> QED BY <2>1, <2>2
<1>7. words \in Seq(Word)
  <2>1. CASE c.line \in DOMAIN memory[s]
    <3>1. PICK lines \in SUBSET Nat : memory[s] \in [lines -> Seq(Word)] BY <1>3 DEF Memories
    <3>2. memory[s][c.line] \in Seq(Word) BY <3>1, <2>1
    <3> QED BY <3>2, <2>1
  <2>2. CASE c.line \notin DOMAIN memory[s] BY <2>2
  <2> QED BY <2>1, <2>2
<1> HIDE DEF words
<1>8. read \in ReadLine BY <1>5, <1>7 DEF ReadLine
<1> HIDE DEF read, left
<1>9. memCmd' \in [Stores -> Seq(MemCmd)] BY <1>1, <1>2, <1>6
<1>10. memWrData' \in [Stores -> Seq(Seq(Word))] /\ memory' \in [Stores -> Memories] /\ rdData' \in [Stores -> Seq(ReadLine)]
  <2>1. CASE c.write
    <3>1. memWrData[s] # <<>> BY <2>1, <1>1
    <3>2. Head(memWrData[s]) \in Seq(Word) BY <3>1, <1>3, TailIs
    <3>3. written \in Memories BY <3>2, <1>3, <1>5, WriteIs
    <3> HIDE DEF written
    <3>4. Drop(memWrData, s) \in [Stores -> Seq(Seq(Word))] BY <3>1, <1>2, DropIs
    <3> QED BY <3>3, <3>4, <2>1, <1>1, <1>2
  <2>2. CASE ~c.write
    <3>1. Put(rdData, s, read) \in [Stores -> Seq(ReadLine)] BY <1>2, <1>8, PutIs
    <3> QED BY <3>1, <2>2, <1>1, <1>2
  <2> QED BY <2>1, <2>2
<1>11. AccTypes' BY <1>1 DEF ValuesInv, TypesOk, AccTypes, accVars, popVars
<1>12. SetTypes' BY <1>1 DEF ValuesInv, TypesOk, SetTypes, setVars
<1>13. MemTypes' BY <1>1, <1>9, <1>10 DEF ValuesInv, TypesOk, MemTypes
<1>14. GetTypes' BY <1>1 DEF ValuesInv, TypesOk, GetTypes, remuxVars
<1>15. \A t \in Stores : Awaited(t)' = Awaited(t) /\ SetsKnown(t)'
  BY <1>1 DEF ValuesInv, StoresOk, SetsKnown, Awaited, setVars
<1> QED BY <1>1, <1>11, <1>12, <1>13, <1>14, <1>15, MemoryKeeps DEF accVars, remuxVars

LEMMA ReceiveKeeps ==
  ASSUME ValuesInv, NEW s \in Stores, Receive(s), UNCHANGED <<splitIn, table>>
  PROVE  ValuesInv'
<1> DEFINE p == Head(disp2rec[s])
           inLine == (recPos[s] % LineWords[s]) + 1
           last == recPos[s] + 1 = ValueWords(p)
           v == WordOf(Head(rdData[s]).words, inLine)
           x == [p |-> p, i |-> recPos[s] + 1, v |-> v]
<1>1. /\ disp2rec[s] # <<>> /\ rdData[s] # <<>>
      /\ getPath2remux' = Put(getPath2remux, s, x)
      /\ recPos' = [recPos EXCEPT ![s] = IF last THEN 0 ELSE @ + 1]
      /\ rdData' = (IF last \/ inLine = LineWords[s] THEN Drop(rdData, s) ELSE rdData)
      /\ disp2rec' = (IF last THEN Drop(disp2rec, s) ELSE disp2rec)
      /\ popGet' = (IF last /\ s \in Filtered THEN Put(popGet, s, p) ELSE popGet)
      /\ UNCHANGED <<history, inData, accVars, popSet, toDemux, setVars, getMd, memVars, remuxVars, outData>>
  BY DEF Receive
<1>2. /\ disp2rec \in [Stores -> Seq(Nat)] /\ getMd \in [Stores -> Seq(Nat)] /\ getPath2remux \in [Stores -> Seq(Value)]
      /\ recPos \in [Stores -> Nat] /\ rdData \in [Stores -> Seq(ReadLine)] /\ popGet \in [Stores -> Seq(Nat)]
  BY DEF ValuesInv, TypesOk, GetTypes, MemTypes, AccTypes
<1>3. history \in Histories /\ StoreOk(s) BY DEF ValuesInv, TypesOk, InTypes, StoresOk
<1>4. disp2rec[s] \in Seq(Nat) /\ getMd[s] \in Seq(Nat) /\ rdData[s] \in Seq(ReadLine) /\ recPos[s] \in Nat
      /\ recPos[s] + 1 \in Nat
  BY <1>2
<1>5. p \in Nat /\ p = disp2rec[s][1] BY <1>1, <1>4, TailIs
<1>6. v \in Word
  <2>1. Head(rdData[s]) \in ReadLine BY <1>1, <1>4, TailIs
  <2>2. Head(rdData[s]).words \in Seq(Word) BY <2>1 DEF ReadLine
  <2>3. NoWord \in Word BY DEF NoWord, Word
  <2>4. CASE inLine \in DOMAIN Head(rdData[s]).words
    <3> DEFINE line == Head(rdData[s]).words
    <3>1. line \in Seq(Word) BY <2>2
    <3> HIDE DEF line
    <3>2. \A i \in DOMAIN line : line[i] \in Word BY <3>1
    <3> QED BY <2>4, <3>2 DEF WordOf, line
  <2>5. CASE inLine \notin DOMAIN Head(rdData[s]).words BY <2>3, <2>5 DEF WordOf
  <2> QED BY <2>4, <2>5
<1> HIDE DEF v, p
<1>7. x \in Value BY <1>4, <1>5, <1>6 DEF Value
<1> HIDE DEF x
<1>8. getPath2remux' \in [Stores -> Seq(Value)] /\ getPath2remux'[s] = Append(getPath2remux[s], x)
      /\ \A t \in Stores : t # s => getPath2remux'[t] = getPath2remux[t]
  <2>1. Put(getPath2remux, s, x) \in [Stores -> Seq(Value)] BY <1>2, <1>7, PutIs
  <2>2. Put(getPath2remux, s, x)[s] = Append(getPath2remux[s], x)
        /\ \A t \in Stores : t # s => Put(getPath2remux, s, x)[t] = getPath2remux[t]
    BY <1>2 DEF Put
  <2> QED BY <2>1, <2>2, <1>1
<1>9. recPos' \in [Stores -> Nat] /\ recPos'[s] = (IF last THEN 0 ELSE recPos[s] + 1)
      /\ \A t \in Stores : t # s => recPos'[t] = recPos[t]
  BY <1>1, <1>2, <1>4
<1>10. rdData' \in [Stores -> Seq(ReadLine)]
  <2>1. Drop(rdData, s) \in [Stores -> Seq(ReadLine)] BY <1>1, <1>2, DropIs
  <2> QED BY <2>1, <1>1, <1>2
<1>11. disp2rec' \in [Stores -> Seq(Nat)] /\ disp2rec'[s] = (IF last THEN Tail(disp2rec[s]) ELSE disp2rec[s])
       /\ \A t \in Stores : t # s => disp2rec'[t] = disp2rec[t]
  <2>1. Drop(disp2rec, s) \in [Stores -> Seq(Nat)] BY <1>1, <1>2, DropIs
  <2>2. Drop(disp2rec, s)[s] = Tail(disp2rec[s]) /\ \A t \in Stores : t # s => Drop(disp2rec, s)[t] = disp2rec[t]
    BY <1>2 DEF Drop
  <2> QED BY <2>1, <2>2, <1>1, <1>2
<1>12. popGet' \in [Stores -> Seq(Nat)]
  <2>1. Put(popGet, s, p) \in [Stores -> Seq(Nat)] BY <1>2, <1>5, PutIs
  <2> QED BY <2>1, <1>1, <1>2
<1>13. AccTypes' BY <1>1, <1>12 DEF ValuesInv, TypesOk, AccTypes, accVars
<1>14. SetTypes' BY <1>1 DEF ValuesInv, TypesOk, SetTypes, setVars
<1>15. MemTypes' BY <1>1, <1>10 DEF ValuesInv, TypesOk, MemTypes, memVars
<1>16. GetTypes' BY <1>1, <1>8, <1>9, <1>11 DEF ValuesInv, TypesOk, GetTypes, remuxVars
<1>17. InTypes' /\ SplitOk' BY <1>1 DEF ValuesInv, TypesOk, InTypes, SplitOk
<1>18. \A t \in Stores : HeldOk(t)' /\ SetsKnown(t)'
  BY <1>1 DEF ValuesInv, StoresOk, HeldOk, SetsKnown, accVars, setVars
<1>19. \A t \in Stores : Words(t)' = Words(t) /\ metadataBuffer'[t] = metadataBuffer[t] /\ remuxPos'[t] = remuxPos[t]
  BY <1>1 DEF Words, Split, remuxVars
<1>20. \A t \in Stores : t # s => StoreOk(t)'
  <2>1. \A t \in Stores : t # s => StoreKept(t) BY <1>1, <1>8, <1>9, <1>11, <1>19 DEF StoreKept, Awaited
  <2> QED BY <2>1, <1>1, StoreKeptOk DEF ValuesInv, StoresOk
<1>21. StoreOk(s)'
  <2> DEFINE t == Awaited(s)
             n == Awaited(s)'
             m == metadataBuffer[s]
             r == remuxPos[s]
             g == getPath2remux[s]
             pos == recPos[s]
  <2>1. WordsOk(history, s, Words(s)) /\ MetadataOk(history, s, Words(s), m, r) /\ GetsOk(history, m, r, t, g, pos)
    BY <1>3 DEF StoreOk
  <2>2. t # <<>> /\ t[1] = p /\ Tail(t) = Tail(disp2rec[s]) \o getMd[s]
    <3> DEFINE c == disp2rec[s]
               d == getMd[s]
    <3>1. c \in Seq(Nat) /\ d \in Seq(Nat) /\ c # <<>> BY <1>1, <1>4
    <3> HIDE DEF c, d
    <3>2. Tail(c \o d) = Tail(c) \o d /\ Head(c \o d) = Head(c) /\ c \o d # <<>> /\ c \o d \in Seq(Nat) BY <3>1, PassedOn, ConcatIs
    <3>3. Head(c \o d) = (c \o d)[1] BY <3>2, TailIs
    <3> QED BY <3>2, <3>3 DEF c, d, Awaited, p
  <2>3. n = (IF pos + 1 = history[t[1]].len THEN Tail(t) ELSE t) BY <1>1, <1>11, <2>2 DEF Awaited, ValueWords
  <2>4. recPos'[s] = (IF pos + 1 = history[t[1]].len THEN 0 ELSE pos + 1) BY <1>9, <2>2 DEF ValueWords
  <2>5. getPath2remux'[s] = Append(g, [p |-> t[1], i |-> pos + 1, v |-> v]) BY <1>8, <2>2 DEF x
  <2> HIDE DEF t, n, m, r, g, pos
  <2>6. \A u : u = Append(g, [p |-> t[1], i |-> pos + 1, v |-> v]) =>
          \A y : y = (IF pos + 1 = history[t[1]].len THEN Tail(t) ELSE t) =>
            \A z : z = (IF pos + 1 = history[t[1]].len THEN 0 ELSE pos + 1) => GetsOk(history, m, r, y, u, z)
    BY <1>3, <1>6, <2>1, <2>2, GetsReceive
  <2>7. GetsOk(history, m, r, n, getPath2remux'[s], recPos'[s]) BY <2>3, <2>4, <2>5, <2>6
  <2> QED BY <1>1, <1>19, <2>1, <2>7 DEF StoreOk, n, m, r
<1> QED BY <1>13, <1>14, <1>15, <1>16, <1>17, <1>18, <1>20, <1>21 DEF ValuesInv, TypesOk, StoresOk

(* Another word of the answers of store s. *)
Sent(s, p, i, last) == \E e \in OutWord : e.p = p /\ e.i = i /\ (e.last <=> last) /\ outData'[s] = Append(outData[s], e)

LEMMA EmitIs ==
  ASSUME GetTypes, NEW s \in Stores, NEW p \in Nat, NEW i \in Nat, NEW v \in Word, NEW last \in BOOLEAN, Emit(s, p, i, v, last)
  PROVE  /\ outData' \in [Stores -> Seq(OutWord)] /\ remuxPos' \in [Stores -> {<<>>} \cup (Nat \X Nat)]
         /\ remuxPos'[s] = (IF last THEN <<>> ELSE <<p, i>>)
         /\ \A t \in Stores : t # s => remuxPos'[t] = remuxPos[t] /\ outData'[t] = outData[t]
         /\ Sent(s, p, i, last)
<1> DEFINE e == [p |-> p, i |-> i, v |-> v, last |-> last]
<1>1. outData \in [Stores -> Seq(OutWord)] /\ remuxPos \in [Stores -> {<<>>} \cup (Nat \X Nat)] BY DEF GetTypes
<1>2. e \in OutWord /\ e.p = p /\ e.i = i /\ (e.last <=> last) BY DEF OutWord
<1>3. outData' = Put(outData, s, e) /\ remuxPos' = [remuxPos EXCEPT ![s] = IF last THEN <<>> ELSE <<p, i>>] BY DEF Emit
<1> HIDE DEF e
<1>4. LET f == Put(outData, s, e) IN
      f \in [Stores -> Seq(OutWord)] /\ f[s] = Append(outData[s], e) /\ \A t \in Stores : t # s => f[t] = outData[t]
  <2>1. e \in OutWord /\ outData \in [Stores -> Seq(OutWord)] BY <1>1, <1>2
  <2> QED BY <2>1, PutIs
<1>5. <<p, i>> \in Nat \X Nat OBVIOUS
<1>6. Sent(s, p, i, last) BY <1>2, <1>3, <1>4 DEF Sent
<1> QED BY <1>1, <1>3, <1>4, <1>5, <1>6

LEMMA NoWordIs == NoWord \in Word
BY DEF NoWord, Word

(* A step of remux: what it leaves, of each of what it reads from. *)
LEMMA RemuxKeeps ==
  ASSUME ValuesInv, NEW s \in Stores, GetTypes',
         UNCHANGED <<history, splitIn, table, inData, accVars, popVars, toDemux, setVars, memVars>>,
         UNCHANGED <<getMd, disp2rec, rdData, recPos>>,
         \A t \in Stores : t # s => /\ metadataBuffer'[t] = metadataBuffer[t] /\ remuxPos'[t] = remuxPos[t]
                                    /\ getPath2remux'[t] = getPath2remux[t],
         MetadataOk(history, s, Words(s), metadataBuffer'[s], remuxPos'[s]),
         GetsOk(history, metadataBuffer'[s], remuxPos'[s], Awaited(s), getPath2remux'[s], recPos[s])
  PROVE  ValuesInv'
<1>1. InTypes' /\ SplitOk' BY DEF ValuesInv, TypesOk, InTypes, SplitOk
<1>2. AccTypes' BY DEF ValuesInv, TypesOk, AccTypes, accVars, popVars
<1>3. SetTypes' BY DEF ValuesInv, TypesOk, SetTypes, setVars
<1>4. MemTypes' BY DEF ValuesInv, TypesOk, MemTypes, memVars
<1>5. \A t \in Stores : HeldOk(t)' /\ SetsKnown(t)' BY DEF ValuesInv, StoresOk, HeldOk, SetsKnown, accVars, setVars
<1>6. \A t \in Stores : Words(t)' = Words(t) /\ Awaited(t)' = Awaited(t) BY DEF Words, Split, Awaited
<1>7. \A t \in Stores : t # s => StoreOk(t)'
  <2>1. \A t \in Stores : t # s => StoreKept(t) BY <1>6 DEF StoreKept
  <2> QED BY <2>1, StoreKeptOk DEF ValuesInv, StoresOk
<1>8. WordsOk(history, s, Words(s)) BY DEF ValuesInv, StoresOk, StoreOk
<1>9. StoreOk(s)' BY <1>6, <1>8 DEF StoreOk
<1> QED BY <1>1, <1>2, <1>3, <1>4, <1>5, <1>7, <1>9 DEF ValuesInv, TypesOk, StoresOk

LEMMA DropMetadata ==
  ASSUME GetTypes, NEW s \in Stores, metadataBuffer[s] # <<>>
  PROVE  /\ Drop(metadataBuffer, s) \in [Stores -> Seq(Nat \X Nat)] /\ Drop(metadataBuffer, s)[s] = Tail(metadataBuffer[s])
         /\ \A t \in Stores : t # s => Drop(metadataBuffer, s)[t] = metadataBuffer[t]
         /\ Md(s) = metadataBuffer[s][1] /\ Md(s)[1] \in Nat /\ Md(s)[2] \in Nat /\ Md(s) = <<Md(s)[1], Md(s)[2]>>
<1> DEFINE pairs == Nat \X Nat
<1>1. metadataBuffer \in [Stores -> Seq(pairs)] BY DEF GetTypes
<1>2. \A e \in pairs : e[1] \in Nat /\ e[2] \in Nat /\ e = <<e[1], e[2]>> OBVIOUS
<1> HIDE DEF pairs
<1>3. metadataBuffer[s] \in Seq(pairs) BY <1>1
<1>4. Md(s) \in pairs /\ Md(s) = metadataBuffer[s][1] BY <1>3, TailIs DEF Md
<1>5. Drop(metadataBuffer, s) \in [Stores -> Seq(pairs)] BY <1>1, DropIs
<1>6. Drop(metadataBuffer, s)[s] = Tail(metadataBuffer[s]) /\ \A t \in Stores : t # s => Drop(metadataBuffer, s)[t] = metadataBuffer[t]
  BY <1>1 DEF Drop
<1> QED BY <1>2, <1>4, <1>5, <1>6 DEF pairs

LEMMA DropValue ==
  ASSUME GetTypes, NEW s \in Stores, getPath2remux[s] # <<>>
  PROVE  /\ Drop(getPath2remux, s) \in [Stores -> Seq(Value)] /\ Drop(getPath2remux, s)[s] = Tail(getPath2remux[s])
         /\ \A t \in Stores : t # s => Drop(getPath2remux, s)[t] = getPath2remux[t]
         /\ Head(getPath2remux[s]) = getPath2remux[s][1] /\ Head(getPath2remux[s]).v \in Word
<1>1. getPath2remux \in [Stores -> Seq(Value)] BY DEF GetTypes
<1>2. getPath2remux[s] \in Seq(Value) BY <1>1
<1>3. Head(getPath2remux[s]) \in Value /\ Head(getPath2remux[s]) = getPath2remux[s][1] BY <1>2, TailIs
<1>4. Head(getPath2remux[s]).v \in Word BY <1>3 DEF Value
<1>5. Drop(getPath2remux, s) \in [Stores -> Seq(Value)] BY <1>1, DropIs
<1>6. Drop(getPath2remux, s)[s] = Tail(getPath2remux[s]) /\ \A t \in Stores : t # s => Drop(getPath2remux, s)[t] = getPath2remux[t]
  BY <1>1 DEF Drop
<1> QED BY <1>3, <1>4, <1>5, <1>6

LEMMA RemuxFirstKeeps ==
  ASSUME ValuesInv, NEW s \in Stores, RemuxFirst(s), UNCHANGED <<splitIn, table>>
  PROVE  ValuesInv' /\ SendsFirst(s) /\ \A t \in Stores : t # s => AnswersKept(t)
<1> DEFINE p == Md(s)[1]
           get == Op(p) = "get"
           v == IF get THEN Head(getPath2remux[s]).v ELSE NoWord
           m == metadataBuffer[s]
           g == getPath2remux[s]
<1>1. /\ remuxPos[s] = <<>> /\ m # <<>> /\ (get => g # <<>>) /\ Emit(s, p, 1, v, FALSE)
      /\ getPath2remux' = (IF get THEN Drop(getPath2remux, s) ELSE getPath2remux)
      /\ metadataBuffer' = Drop(metadataBuffer, s)
      /\ UNCHANGED <<history, inData, accVars, popVars, toDemux, setVars, getMd, disp2rec, rdData, recPos, memVars>>
  BY DEF RemuxFirst
<1>2. GetTypes /\ history \in Histories /\ StoreOk(s) BY DEF ValuesInv, TypesOk, InTypes, StoresOk
<1>3. /\ metadataBuffer' \in [Stores -> Seq(Nat \X Nat)] /\ metadataBuffer'[s] = Tail(m)
      /\ \A t \in Stores : t # s => metadataBuffer'[t] = metadataBuffer[t]
      /\ Md(s) = m[1] /\ p \in Nat
  BY <1>1, <1>2, DropMetadata
<1>4. /\ getPath2remux' \in [Stores -> Seq(Value)] /\ getPath2remux'[s] = (IF get THEN Tail(g) ELSE g)
      /\ \A t \in Stores : t # s => getPath2remux'[t] = getPath2remux[t]
      /\ v \in Word
  <2>1. CASE get BY <2>1, <1>1, <1>2, DropValue
  <2>2. CASE ~get BY <2>2, <1>1, <1>2, NoWordIs DEF GetTypes
  <2> QED BY <2>1, <2>2
<1> HIDE DEF v, p
<1>5. /\ outData' \in [Stores -> Seq(OutWord)] /\ remuxPos' \in [Stores -> {<<>>} \cup (Nat \X Nat)]
      /\ remuxPos'[s] = <<p, 1>> /\ \A t \in Stores : t # s => remuxPos'[t] = remuxPos[t] /\ outData'[t] = outData[t]
      /\ \E e \in OutWord : e.p = p /\ e.i = 1 /\ ~e.last /\ outData'[s] = Append(outData[s], e)
  <2>1. GetTypes /\ p \in Nat /\ v \in Word /\ Emit(s, p, 1, v, FALSE) BY <1>1, <1>2, <1>3, <1>4
  <2>2. 1 \in Nat /\ FALSE \in BOOLEAN OBVIOUS
  <2>3. /\ outData' \in [Stores -> Seq(OutWord)] /\ remuxPos' \in [Stores -> {<<>>} \cup (Nat \X Nat)]
        /\ remuxPos'[s] = (IF FALSE THEN <<>> ELSE <<p, 1>>)
        /\ \A t \in Stores : t # s => remuxPos'[t] = remuxPos[t] /\ outData'[t] = outData[t]
        /\ Sent(s, p, 1, FALSE)
    BY <2>1, <2>2, EmitIs
  <2> QED BY <2>3 DEF Sent
<1>6. GetTypes' BY <1>1, <1>2, <1>3, <1>4, <1>5 DEF GetTypes
<1>7. p = m[1][1] /\ (get <=> history[m[1][1]].op = "get") BY <1>3 DEF p, Op
<1> HIDE DEF get, m, g
<1>8. /\ MetadataOk(history, s, Words(s), m, remuxPos[s]) /\ GetsOk(history, m, remuxPos[s], Awaited(s), g, recPos[s])
  BY <1>2 DEF StoreOk, m, g
<1>9. MetadataOk(history, s, Words(s), metadataBuffer'[s], remuxPos'[s])
  BY <1>1, <1>2, <1>3, <1>5, <1>7, <1>8, MetadataFirst
<1>10. GetsOk(history, metadataBuffer'[s], remuxPos'[s], Awaited(s), getPath2remux'[s], recPos[s])
  <2>1. GetsOk(history, Tail(m), <<m[1][1], 1>>, Awaited(s), IF history[m[1][1]].op = "get" THEN Tail(g) ELSE g, recPos[s])
    BY <1>1, <1>2, <1>7, <1>8, GetsSentFirst
  <2> QED BY <2>1, <1>3, <1>4, <1>5, <1>7
<1>11. ValuesInv' BY <1>1, <1>3, <1>4, <1>5, <1>6, <1>9, <1>10, RemuxKeeps
<1>12. \A t \in Stores : Words(t)' = Words(t) BY <1>1 DEF Words, Split
<1>13. SendsFirst(s) BY <1>1, <1>3, <1>5, <1>7, <1>12 DEF SendsFirst, m
<1>14. \A t \in Stores : t # s => AnswersKept(t) BY <1>3, <1>5, <1>12 DEF AnswersKept
<1> QED BY <1>11, <1>13, <1>14

(* remux sends another word of the packet that it has begun. *)
LEMMA RemuxNextKeeps ==
  ASSUME ValuesInv, NEW s \in Stores, UNCHANGED <<splitIn, table>>,
         remuxPos[s] # <<>>,
         UNCHANGED <<history, inData, accVars, popVars, toDemux, setVars, getMd, disp2rec, rdData, recPos, memVars>>,
         NEW get, get <=> Op(remuxPos[s][1]) = "get", get => getPath2remux[s] # <<>>,
         NEW i, i = remuxPos[s][2] + 1,
         remuxPos[s][2] = 1 => metadataBuffer[s] # <<>>,
         metadataBuffer' = (IF remuxPos[s][2] = 1 THEN Drop(metadataBuffer, s) ELSE metadataBuffer),
         getPath2remux' = (IF get THEN Drop(getPath2remux, s) ELSE getPath2remux),
         NEW v \in Word, Emit(s, remuxPos[s][1], i, v, i = Leaves(history, remuxPos[s][1]))
  PROVE  ValuesInv' /\ SendsNext(s) /\ \A t \in Stores : t # s => AnswersKept(t)
<1> DEFINE m == metadataBuffer[s]
           g == getPath2remux[s]
           r == remuxPos[s]
           p == r[1]
<1>1. GetTypes /\ history \in Histories /\ StoreOk(s) BY DEF ValuesInv, TypesOk, InTypes, StoresOk
<1>2. Current(r) /\ r \in Nat \X Nat /\ p \in Nat /\ i \in Nat
  <2>1. r \in {<<>>} \cup (Nat \X Nat) BY <1>1 DEF GetTypes
  <2> QED BY <2>1 DEF Current
<1>3. /\ metadataBuffer' \in [Stores -> Seq(Nat \X Nat)] /\ metadataBuffer'[s] = (IF r[2] = 1 THEN Tail(m) ELSE m)
      /\ \A t \in Stores : t # s => metadataBuffer'[t] = metadataBuffer[t]
  <2>1. CASE r[2] = 1 BY <2>1, <1>1, DropMetadata
  <2>2. CASE r[2] # 1 BY <2>2, <1>1 DEF GetTypes
  <2> QED BY <2>1, <2>2
<1>4. /\ getPath2remux' \in [Stores -> Seq(Value)] /\ getPath2remux'[s] = (IF get THEN Tail(g) ELSE g)
      /\ \A t \in Stores : t # s => getPath2remux'[t] = getPath2remux[t]
  <2>1. CASE get BY <2>1, <1>1, DropValue
  <2>2. CASE ~get BY <2>2, <1>1 DEF GetTypes
  <2> QED BY <2>1, <2>2
<1>5. /\ outData' \in [Stores -> Seq(OutWord)] /\ remuxPos' \in [Stores -> {<<>>} \cup (Nat \X Nat)]
      /\ remuxPos'[s] = (IF i = Leaves(history, p) THEN <<>> ELSE <<p, i>>)
      /\ \A t \in Stores : t # s => remuxPos'[t] = remuxPos[t] /\ outData'[t] = outData[t]
      /\ Sent(s, p, i, i = Leaves(history, p))
  BY <1>1, <1>2, EmitIs
<1>6. GetTypes' BY <1>1, <1>3, <1>4, <1>5 DEF GetTypes
<1>7. get <=> history[r[1]].op = "get" BY DEF Op
<1>8. MetadataOk(history, s, Words(s), m, r) /\ GetsOk(history, m, r, Awaited(s), g, recPos[s]) BY <1>1 DEF StoreOk
<1>e. \E e \in OutWord : /\ e.p = r[1] /\ e.i = r[2] + 1 /\ (e.last <=> r[2] + 1 = Leaves(history, r[1]))
                         /\ outData'[s] = Append(outData[s], e) /\ remuxPos'[s] = (IF e.last THEN <<>> ELSE <<r[1], r[2] + 1>>)
  BY <1>5 DEF Sent
<1>9. /\ (r[2] = 1 => m # <<>>) /\ (history[r[1]].op = "get" => g # <<>>)
      /\ remuxPos'[s] = (IF r[2] + 1 = Leaves(history, r[1]) THEN <<>> ELSE <<r[1], r[2] + 1>>)
  BY <1>5, <1>7
<1> HIDE DEF m, g, r, p
<1>10. MetadataOk(history, s, Words(s), metadataBuffer'[s], remuxPos'[s])
  <2>1. \A n : n = (IF r[2] = 1 THEN Tail(m) ELSE m) =>
          \A q : q = (IF r[2] + 1 = Leaves(history, r[1]) THEN <<>> ELSE <<r[1], r[2] + 1>>) => MetadataOk(history, s, Words(s), n, q)
    BY <1>1, <1>2, <1>8, <1>9, MetadataNext
  <2> QED BY <2>1, <1>3, <1>9
<1>11. GetsOk(history, metadataBuffer'[s], remuxPos'[s], Awaited(s), getPath2remux'[s], recPos[s])
  <2>1. \A n : n = (IF r[2] = 1 THEN Tail(m) ELSE m) =>
          \A q : q = (IF r[2] + 1 = Leaves(history, r[1]) THEN <<>> ELSE <<r[1], r[2] + 1>>) =>
            GetsOk(history, n, q, Awaited(s), IF history[r[1]].op = "get" THEN Tail(g) ELSE g, recPos[s])
    BY <1>1, <1>2, <1>8, <1>9, GetsSentNext
  <2>2. getPath2remux'[s] = IF history[r[1]].op = "get" THEN Tail(g) ELSE g BY <1>4, <1>7
  <2> QED BY <2>1, <2>2, <1>3, <1>9
<1>12. ValuesInv' BY <1>3, <1>4, <1>5, <1>6, <1>10, <1>11, RemuxKeeps
<1>13. \A t \in Stores : Words(t)' = Words(t) BY DEF Words, Split
<1>14. SendsNext(s) BY <1>3, <1>9, <1>13, <1>e DEF SendsNext, m, r
<1>15. \A t \in Stores : t # s => AnswersKept(t) BY <1>3, <1>5, <1>13 DEF AnswersKept
<1> QED BY <1>12, <1>14, <1>15

LEMMA CurrentIs ==
  ASSUME ValuesInv, NEW s \in Stores, remuxPos[s] # <<>>
  PROVE  /\ remuxPos[s][1] \in 1 .. Len(history) /\ remuxPos[s][2] \in Nat /\ remuxPos[s][2] >= 1
         /\ remuxPos[s][2] < Leaves(history, remuxPos[s][1])
<1>1. history \in Histories /\ MetadataOk(history, s, Words(s), metadataBuffer[s], remuxPos[s])
  BY DEF ValuesInv, TypesOk, InTypes, StoresOk, StoreOk
<1>2. Current(remuxPos[s]) BY DEF Current
<1> QED BY <1>1, <1>2, MetadataIs

LEMMA RemuxRestKeeps ==
  ASSUME ValuesInv, NEW s \in Stores, RemuxRest(s), UNCHANGED <<splitIn, table>>
  PROVE  ValuesInv' /\ SendsNext(s) /\ \A t \in Stores : t # s => AnswersKept(t)
<1>1. /\ remuxPos[s] # <<>> /\ Op(remuxPos[s][1]) # "get" /\ metadataBuffer[s] # <<>>
      /\ Emit(s, remuxPos[s][1], 2, NoWord, TRUE)
      /\ metadataBuffer' = Drop(metadataBuffer, s)
      /\ UNCHANGED <<history, inData, accVars, popVars, toDemux, setVars, getMd, disp2rec, rdData, recPos, memVars>>
      /\ getPath2remux' = getPath2remux
  BY DEF RemuxRest, getVars
<1>2. Leaves(history, remuxPos[s][1]) = 2 BY <1>1 DEF Leaves, Op
<1>3. remuxPos[s][2] = 1 BY <1>1, <1>2, CurrentIs
<1>4. Emit(s, remuxPos[s][1], 2, NoWord, 2 = Leaves(history, remuxPos[s][1])) BY <1>1, <1>2
<1>5. 2 = remuxPos[s][2] + 1 BY <1>3
<1> QED BY <1>1, <1>3, <1>4, <1>5, NoWordIs, RemuxNextKeeps

LEMMA RemuxGetKeeps ==
  ASSUME ValuesInv, NEW s \in Stores, RemuxGet(s), UNCHANGED <<splitIn, table>>
  PROVE  ValuesInv' /\ SendsNext(s) /\ \A t \in Stores : t # s => AnswersKept(t)
<1> DEFINE p == remuxPos[s][1]
           i == remuxPos[s][2] + 1
           v == Head(getPath2remux[s]).v
<1>1. /\ remuxPos[s] # <<>> /\ Op(p) = "get" /\ getPath2remux[s] # <<>> /\ Emit(s, p, i, v, i = ValueWords(p))
      /\ i = 2 => metadataBuffer[s] # <<>>
      /\ metadataBuffer' = (IF i = 2 THEN Drop(metadataBuffer, s) ELSE metadataBuffer)
      /\ getPath2remux' = Drop(getPath2remux, s)
      /\ UNCHANGED <<history, inData, accVars, popVars, toDemux, setVars, getMd, disp2rec, rdData, recPos, memVars>>
  BY DEF RemuxGet
<1>2. ValueWords(p) = Leaves(history, p) BY <1>1 DEF Leaves, Op, ValueWords
<1>3. i = 2 <=> remuxPos[s][2] = 1 BY <1>1, CurrentIs
<1>4. v \in Word BY <1>1, DropValue DEF ValuesInv, TypesOk
<1> HIDE DEF v
<1> QED BY <1>1, <1>2, <1>3, <1>4, RemuxNextKeeps

----------------------------------------------------------------------------
(* Splitter.                                                               *)

LEMMA SplitterKeeps ==
  ASSUME ValuesInv, Splitter
  PROVE  ValuesInv' /\ \A t \in Stores : AnswersKept(t)
<1> DEFINE e == Head(splitIn)
<1>1. /\ splitIn # <<>> /\ inData' = Put(inData, history[e.p].store, e) /\ splitIn' = Tail(splitIn)
      /\ UNCHANGED <<history, accVars, popVars, toDemux, setVars, getVars, memVars, remuxVars, outData, table>>
  BY DEF Splitter
<1>2. splitIn \in Seq(Word) /\ history \in Histories /\ inData \in [Stores -> Seq(Word)] /\ toDemux \in [Stores -> Seq(Word)]
  BY DEF ValuesInv, TypesOk, InTypes
<1>3. e \in Word /\ e = splitIn[1] /\ splitIn' \in Seq(Word) /\ 1 \in 1 .. Len(splitIn)
      /\ Len(splitIn) \in Nat /\ Len(splitIn') = Len(splitIn) - 1 /\ \A k \in 1 .. Len(splitIn) - 1 : splitIn'[k] = splitIn[k + 1]
  BY <1>1, <1>2, TailIs, NonEmpty
<1>4. history # <<>> /\ \A k \in 1 .. Len(splitIn) : splitIn[k].p = Len(history) BY <1>1 DEF ValuesInv, SplitOk
<1>5. e.p = Len(history) /\ Len(history) \in 1 .. Len(history) BY <1>2, <1>3, <1>4, NonEmpty DEF Histories
<1>6. history[e.p].store \in Stores BY <1>2, <1>5, PacketIs
<1> PICK s \in Stores : s = history[e.p].store BY <1>6
<1>7. s = history[Len(history)].store BY <1>5
<1> HIDE DEF e
<1>8. inData' \in [Stores -> Seq(Word)] /\ inData'[s] = Append(inData[s], e) /\ \A t \in Stores : t # s => inData'[t] = inData[t]
  <2>1. LET f == Put(inData, s, e) IN
        f \in [Stores -> Seq(Word)] /\ f[s] = Append(inData[s], e) /\ \A t \in Stores : t # s => f[t] = inData[t]
    <3>1. e \in Word /\ inData \in [Stores -> Seq(Word)] BY <1>2, <1>3
    <3> QED BY <3>1, PutIs
  <2> QED BY <2>1, <1>1
<1>9. InTypes' BY <1>1, <1>2, <1>3, <1>8 DEF ValuesInv, TypesOk, InTypes
<1>10. AccTypes' /\ SetTypes' /\ MemTypes' /\ GetTypes'
  BY <1>1 DEF ValuesInv, TypesOk, AccTypes, SetTypes, MemTypes, GetTypes, accVars, popVars, setVars, getVars, memVars, remuxVars
<1>11. SplitOk'
  <2>1. \A k \in 1 .. Len(splitIn') : splitIn'[k].p = Len(history)
    <3>1. \A k \in 1 .. Len(splitIn') : splitIn'[k] = splitIn[k + 1] /\ k + 1 \in 1 .. Len(splitIn) BY <1>3
    <3> QED BY <3>1, <1>4
  <2> QED BY <2>1, <1>1, <1>4 DEF SplitOk
<1>12. Words(s)' = Words(s)
  <2> DEFINE a == inData[s]
             d == toDemux[s]
  <2>1. a \in Seq(Word) /\ d \in Seq(Word) BY <1>2, <1>6
  <2>2. Split(s) = splitIn /\ Split(s)' = Tail(splitIn) BY <1>1, <1>4, <1>7 DEF Split
  <2>3. Append(a, e) \o Tail(splitIn) = a \o splitIn BY <2>1, <1>1, <1>2, Passed DEF e
  <2>4. inData'[s] = Append(a, e) /\ toDemux'[s] = d BY <1>1, <1>8
  <2> HIDE DEF a, d
  <2>5. Words(s)' = d \o (Append(a, e) \o Tail(splitIn)) BY <2>2, <2>4 DEF Words
  <2>6. Words(s) = d \o (a \o splitIn) BY <2>2 DEF Words, a, d
  <2> QED BY <2>3, <2>5, <2>6
<1>13. \A t \in Stores : t # s => Words(t)' = Words(t)
  <2>1. \A t \in Stores : t # s => Split(t) = <<>> /\ Split(t)' = <<>> BY <1>1, <1>7 DEF Split
  <2> QED BY <2>1, <1>1, <1>8 DEF Words
<1>14. \A t \in Stores : HeldOk(t)' /\ SetsKnown(t)'
  <2>1. inData'[s] # <<>>
    <3>1. inData[s] \in Seq(Word) BY <1>2, <1>6
    <3>2. e \in Word BY <1>3
    <3>3. Append(inData[s], e) # <<>> BY <3>1, <3>2, AppendIs
    <3> QED BY <3>3, <1>8
  <2> QED BY <2>1, <1>1, <1>8 DEF ValuesInv, StoresOk, HeldOk, SetsKnown, accVars, setVars
<1>15. \A t \in Stores : StoreKept(t) BY <1>1, <1>12, <1>13 DEF StoreKept, Awaited, getVars, remuxVars
<1>16. StoresOk' BY <1>1, <1>14, <1>15, StoresKeptOk
<1>17. \A t \in Stores : AnswersKept(t) BY <1>1, <1>12, <1>13 DEF AnswersKept, remuxVars
<1> QED BY <1>9, <1>10, <1>11, <1>16, <1>17 DEF ValuesInv, TypesOk

LEMMA Associates ==
  ASSUME NEW T, NEW a \in Seq(T), NEW b \in Seq(T), NEW c \in Seq(T)
  PROVE  a \o (b \o c) = (a \o b) \o c
OBVIOUS

----------------------------------------------------------------------------
(* The table sends a packet.                                               *)

(* What the table adds: the words of packet x, if it is one of the store, behind all others. *)
WordsAdded(s, x) ==
  LET p == Len(history) + 1 IN
  Words(s)' = (IF x.store = s THEN Words(s) \o WordsOf(p, Comes(Append(history, x), p)) ELSE Words(s))

PacketAdded == \E x \in Packet : history' = Append(history, x) /\ \A s \in Stores : WordsAdded(s, x)

(* A packet is sent while none is on its way to the splitter: it comes behind all words of its *)
(* store, and all that is under way belongs to a packet before it.                             *)
LEMMA SendsKeeps ==
  ASSUME ValuesInv, splitIn = <<>>, NEW x \in Packet, Sends(Len(history) + 1, x), UNCHANGED storeVars,
         table' \in [Keys -> 0 .. Len(history) + 1]
  PROVE  ValuesInv' /\ PacketAdded
<1> DEFINE h == history
           g == Append(history, x)
           p == Len(history) + 1
           n == Comes(g, p)
<1>1. h \in Histories BY DEF ValuesInv, TypesOk, InTypes
<1>2. g \in Histories /\ Len(h) \in Nat /\ Len(g) = Len(h) + 1 /\ g[p] = x /\ p \in Nat
  <2>1. "dram" \in Stores BY DEF Stores
  <2>2. g \in Histories /\ Len(h) \in Nat /\ Len(g) = Len(h) + 1 /\ g[p] = x BY <1>1, <2>1, HistoryGrows
  <2> QED BY <2>2
<1>4. n = IF x.op = "get" THEN 2 ELSE x.len BY <1>2 DEF Comes
<1> HIDE DEF g
<1>3. p \in 1 .. Len(g) /\ n \in Nat /\ n >= 2
  <2>1. p \in 1 .. Len(g) BY <1>2
  <2> QED BY <2>1, <1>2, PacketIs
<1> USE DEF g
<1>5. history' = g /\ splitIn' = splitIn \o WordsOf(p, n) BY <1>4 DEF Sends, WordsOf
<1>6. WordsOf(p, n) \in Seq(Word) /\ Len(WordsOf(p, n)) = n /\ \A i \in 1 .. n : WordsOf(p, n)[i].p = p /\ WordsOf(p, n)[i].i = i
  <2> HIDE DEF n, p
  <2> QED BY <1>2, <1>3, WordsOfIs
<1> HIDE DEF n, g
<1>7. splitIn' = WordsOf(p, n)
  <2>1. splitIn' = <<>> \o WordsOf(p, n) BY <1>5
  <2>2. \A u \in Seq(Word) : <<>> \o u = u OBVIOUS
  <2> QED BY <2>1, <2>2, <1>6
<1>8. InTypes'
  <2>1. \A k \in Keys : table'[k] \in 0 .. Len(history') BY <1>2, <1>5
  <2>2. table' \in [Keys -> Nat] BY <1>2
  <2>3. inData' = inData /\ toDemux' = toDemux BY DEF storeVars
  <2> QED BY <2>1, <2>2, <2>3, <1>2, <1>5, <1>6, <1>7 DEF ValuesInv, TypesOk, InTypes
<1>9. AccTypes' /\ SetTypes' /\ MemTypes' /\ GetTypes'
  BY DEF ValuesInv, TypesOk, AccTypes, SetTypes, MemTypes, GetTypes, storeVars, accVars, popVars, setVars, getVars, memVars, remuxVars
<1>10. history' # <<>> /\ SplitOk'
  <2>1. history' # <<>> BY <1>1, <1>2, <1>5, EmptyIs DEF Histories
  <2> QED BY <2>1, <1>2, <1>5, <1>6, <1>7 DEF SplitOk
<1>11. \A t \in Stores : HeldOk(t)' /\ SetsKnown(t)'
  <2>1. \A t \in Stores : HeldOk(t) /\ SetsKnown(t) BY DEF ValuesInv, StoresOk
  <2>2. \A k \in 1 .. Len(h) : k \in 1 .. Len(g) BY <1>2
  <2> QED BY <2>1, <2>2, <1>5 DEF HeldOk, SetsKnown, storeVars, accVars, setVars
<1>12. ASSUME NEW s \in Stores PROVE StoreOk(s)' /\ WordsAdded(s, x)
  <2> DEFINE d == toDemux[s]
             a == inData[s]
             w == Words(s)
             z == Words(s)'
  <2>1. WordsOk(h, s, w) /\ MetadataOk(h, s, w, metadataBuffer[s], remuxPos[s])
        /\ GetsOk(h, metadataBuffer[s], remuxPos[s], Awaited(s), getPath2remux[s], recPos[s])
    BY DEF ValuesInv, StoresOk, StoreOk
  <2>2. d \in Seq(Word) /\ a \in Seq(Word) /\ w \in Seq(Word) BY SplitIs DEF ValuesInv
  <2>3. w = d \o a
    <3>1. Split(s) = <<>> BY DEF Split
    <3>2. \A u \in Seq(Word) : u \o <<>> = u OBVIOUS
    <3> QED BY <3>1, <3>2, <2>2 DEF Words
  <2>4. z = d \o (a \o (IF x.store = s THEN WordsOf(p, n) ELSE <<>>))
    <3>1. Split(s)' = IF x.store = s THEN WordsOf(p, n) ELSE <<>> BY <1>2, <1>5, <1>7, <1>10 DEF Split
    <3> QED BY <3>1 DEF Words, storeVars
  <2>5. z = (IF x.store = s THEN w \o WordsOf(p, n) ELSE w)
    <3>1. \A u \in Seq(Word) : d \o (a \o u) = (d \o a) \o u
      <4> HIDE DEF d, a
      <4>1. d \in Seq(Word) /\ a \in Seq(Word) BY <2>2
      <4>2. \A b, c, u \in Seq(Word) : b \o (c \o u) = (b \o c) \o u BY Associates
      <4> QED BY <4>1, <4>2
    <3>2. d \o (a \o WordsOf(p, n)) = (d \o a) \o WordsOf(p, n) BY <3>1, <1>6
    <3>3. a \o <<>> = a BY <2>2
    <3> HIDE DEF a, d, w, z
    <3> QED BY <3>2, <3>3, <2>3, <2>4
  <2> HIDE DEF z, w, d, a
  <2>6. WordsOk(g, s, w) BY <2>1, <1>1, WordsGrow DEF g
  <2>7. \A k \in 1 .. Len(w) : w[k].p < p
    <3>1. \A k \in 1 .. Len(w) : w[k].p \in 1 .. Len(h) BY <2>1 DEF WordsOk, Mine
    <3> QED BY <3>1, <1>2
  <2>8. WordsOk(g, s, z)
    <3>1. CASE x.store = s
      <4>1. WordsOk(g, s, w \o WordsOf(p, n)) BY <3>1, <2>6, <2>7, <1>2, <1>3, WordsJoin DEF n
      <4> QED BY <4>1, <3>1, <2>5
    <3>2. CASE x.store # s BY <3>2, <2>5, <2>6
    <3> QED BY <3>1, <3>2
  <2>9. MetadataOk(g, s, z, metadataBuffer[s], remuxPos[s])
    <3>1. w # <<>> => z # <<>> /\ z[1] = w[1]
      <4> SUFFICES ASSUME w # <<>> PROVE z # <<>> /\ z[1] = w[1] OBVIOUS
      <4>1. w \in Seq(Word) /\ 1 \in 1 .. Len(w) BY <2>2, NonEmpty
      <4> DEFINE u == WordsOf(p, n)
      <4>5. w \in Seq(Word) /\ u \in Seq(Word) /\ Len(u) = n BY <2>2, <1>6
      <4> HIDE DEF u
      <4>6. w \o u \in Seq(Word) /\ Len(w \o u) = Len(w) + Len(u) /\ \A k \in 1 .. Len(w) : (w \o u)[k] = w[k] BY <4>5, ConcatIs
      <4> USE DEF u
      <4>2. LET c == w \o WordsOf(p, n) IN c \in Seq(Word) /\ Len(c) = Len(w) + n /\ c[1] = w[1] BY <4>1, <4>5, <4>6
      <4>3. Len(w) \in Nat /\ Len(w) + n > 0 BY <4>1, <1>3
      <4>4. w \o WordsOf(p, n) # <<>> BY <4>2, <4>3, EmptyIs
      <4> QED BY <4>2, <4>4, <2>5
    <3>2. w = <<>> => z = <<>> \/ (z[1].p = Len(h) + 1 /\ z[1].i = 1)
      <4> SUFFICES ASSUME w = <<>>, x.store = s PROVE z[1].p = Len(h) + 1 /\ z[1].i = 1 BY <2>5
      <4>1. z = WordsOf(p, n)
        <5>1. \A u \in Seq(Word) : <<>> \o u = u OBVIOUS
        <5> QED BY <5>1, <1>6, <2>5
      <4>2. 1 \in 1 .. n BY <1>3
      <4> QED BY <4>1, <4>2, <1>6
    <3> QED BY <2>1, <3>1, <3>2, <1>1, MetadataGrow DEF g
  <2>10. GetsOk(g, metadataBuffer[s], remuxPos[s], Awaited(s), getPath2remux[s], recPos[s])
    BY <2>1, <1>1, GetsGrow DEF g
  <2>11. metadataBuffer'[s] = metadataBuffer[s] /\ remuxPos'[s] = remuxPos[s] /\ Awaited(s)' = Awaited(s)
         /\ getPath2remux'[s] = getPath2remux[s] /\ recPos'[s] = recPos[s]
    BY DEF Awaited, storeVars, remuxVars, getVars
  <2>12. WordsAdded(s, x) BY <2>5 DEF WordsAdded, z, w, p, n, g, h
  <2> QED BY <2>8, <2>9, <2>10, <2>11, <2>12, <1>5 DEF StoreOk, z
<1>13. PacketAdded BY <1>5, <1>12 DEF PacketAdded, g, h
<1> QED BY <1>8, <1>9, <1>10, <1>11, <1>12, <1>13 DEF ValuesInv, TypesOk, StoresOk

LEMMA PassIs == Pass \in Packet /\ Pass.store \in Stores
<1>1. "dram" \in Stores BY DEF Stores
<1> QED BY <1>1 DEF Pass, Packet

LEMMA StoreOfIs == \A n : StoreOf(n) \in Stores
BY DEF StoreOf, Stores

LEMMA SentIsLast ==
  ASSUME ValuesInv, NEW x, Sends(Len(history) + 1, x)
  PROVE  Len(history) + 1 \in DOMAIN history' /\ history'[Len(history) + 1] = x
<1>1. history \in Seq(Packet) /\ history' = Append(history, x) BY DEF ValuesInv, TypesOk, InTypes, Histories, Sends
<1> QED BY <1>1

(* Any set of numbers that is not empty has a lowest one. *)
LEMMA LowestIs ==
  ASSUME NEW A \in SUBSET Nat, A # {}
  PROVE  Lowest(A) \in A
<1>1. PICK a \in A : \A b \in A : <<b, a>> \notin OpToRel(<, Nat)
  BY NatLessThanWellFounded, WFMin
<1>2. \A b \in A : ~(b < a) BY <1>1 DEF OpToRel
<1>3. \A b \in A : a <= b BY <1>2
<1> QED BY <1>3 DEF Lowest

LEMMA FreeIs ==
  ASSUME NEW n
  PROVE  FreeAddresses(n) \in SUBSET Nat
BY AddressesAssumption, SmallAssumption DEF FreeAddresses

LEMMA TableExecutesKeeps ==
  ASSUME ValuesInv, LongValues', NEW k, NEW op, NEW n, TableExecutes(k, op, n)
  PROVE  ValuesInv' /\ PacketAdded
<1> DEFINE p == Len(history) + 1
           found == k \in Keys /\ table[k] > 0
<1>1. splitIn = <<>> /\ UNCHANGED storeVars BY DEF TableExecutes
<1>2. history \in Histories /\ Len(history) \in Nat /\ table \in [Keys -> Nat] /\ \A key \in Keys : table[key] \in 0 .. Len(history)
  BY EmptyIs DEF ValuesInv, TypesOk, InTypes, Histories
<1>3. found => table[k] \in 1 .. Len(history) /\ history[table[k]] \in Packet
  <2>1. found => table[k] \in 1 .. Len(history) BY <1>2
  <2>2. \A j \in 1 .. Len(history) : history[j] \in Packet BY <1>2, ElementIs DEF Histories
  <2> QED BY <2>1, <2>2
<1>4. table \in [Keys -> 0 .. p] BY <1>2
<1>5. ASSUME NEW x \in Packet, Sends(p, x), table' \in [Keys -> 0 .. p] PROVE ValuesInv' /\ PacketAdded
  BY <1>1, <1>5, SendsKeeps
<1> HIDE DEF p
<1>6. CASE op = "get" /\ found /\ Sends(p, [history[table[k]] EXCEPT !.op = "get"]) /\ UNCHANGED table
  <2>1. [history[table[k]] EXCEPT !.op = "get"] \in Packet BY <1>3, <1>6 DEF Packet
  <2> QED BY <2>1, <1>4, <1>5, <1>6
<1>7. CASE Sends(p, Pass) /\ table' \in [Keys -> 0 .. p] BY <1>5, <1>7, PassIs
<1>8. CASE /\ op = "set" /\ k \in Keys /\ FreeAddresses(n) # {}
           /\ Sends(p, [op |-> "set", store |-> StoreOf(n), len |-> n,
                        addr |-> IF found THEN Addr(table[k]) ELSE Lowest(FreeAddresses(n))])
           /\ table' = [table EXCEPT ![k] = p]
  <2> DEFINE a == IF found THEN Addr(table[k]) ELSE Lowest(FreeAddresses(n))
             x == [op |-> "set", store |-> StoreOf(n), len |-> n, addr |-> a]
  <2>1. a \in Nat
    <3>1. CASE found BY <3>1, <1>3 DEF Addr, Packet
    <3>2. CASE ~found
      <4>1. Lowest(FreeAddresses(n)) \in Nat BY <1>8, FreeIs, LowestIs
      <4> QED BY <4>1, <3>2
    <3> QED BY <3>1, <3>2
  <2> HIDE DEF a
  <2>2. x.len = n OBVIOUS
  <2> HIDE DEF x
  <2>3. Sends(p, x) BY <1>8 DEF x, a
  <2>4. p \in DOMAIN history' /\ history'[p] = x BY <2>3, SentIsLast DEF p
  <2>5. n \in Nat \ {0, 1} BY <2>2, <2>4 DEF LongValues, Packets
  <2>6. x \in Packet BY <2>1, <2>5, StoreOfIs DEF x, Packet
  <2>7. table' \in [Keys -> 0 .. p] BY <1>2, <1>4, <1>8 DEF p
  <2> QED BY <2>3, <2>6, <2>7, <1>5
<1>9. p \in Nat BY <1>2 DEF p
<1>10. \/ op = "get" /\ found /\ Sends(p, [history[table[k]] EXCEPT !.op = "get"]) /\ UNCHANGED table
       \/ op = "get" /\ ~found /\ Sends(p, Pass) /\ UNCHANGED table
       \/ /\ op = "set" /\ k \in Keys /\ FreeAddresses(n) # {}
          /\ Sends(p, [op |-> "set", store |-> StoreOf(n), len |-> n,
                       addr |-> IF found THEN Addr(table[k]) ELSE Lowest(FreeAddresses(n))])
          /\ table' = [table EXCEPT ![k] = p]
       \/ op = "delete" /\ Sends(p, Pass) /\ table' = [key \in Keys |-> IF key = k THEN 0 ELSE table[key]]
       \/ op = "flush" /\ Sends(p, Pass) /\ table' = [key \in Keys |-> 0]
  BY DEF TableExecutes, p
<1>11. CASE op = "get" /\ ~found /\ Sends(p, Pass) /\ UNCHANGED table BY <1>4, <1>7, <1>11
<1>12. CASE op = "delete" /\ Sends(p, Pass) /\ table' = [key \in Keys |-> IF key = k THEN 0 ELSE table[key]]
  <2>1. table' \in [Keys -> 0 .. p] BY <1>4, <1>9, <1>12
  <2> QED BY <2>1, <1>7, <1>12
<1>13. CASE op = "flush" /\ Sends(p, Pass) /\ table' = [key \in Keys |-> 0]
  <2>1. table' \in [Keys -> 0 .. p] BY <1>9, <1>13
  <2> QED BY <2>1, <1>7, <1>13
<1> QED BY <1>6, <1>8, <1>10, <1>11, <1>12, <1>13

LEMMA SetFailsKeeps ==
  ASSUME ValuesInv, LongValues', NEW n, SetFails(n)
  PROVE  ValuesInv' /\ PacketAdded
<1> DEFINE x == [Pass EXCEPT !.store = StoreOf(n), !.len = n]
<1>1. splitIn = <<>> /\ Sends(Len(history) + 1, x) /\ UNCHANGED <<storeVars, table>> BY DEF SetFails
<1>2. x.len = n BY DEF Pass
<1>3. n \in Nat \ {0, 1}
  <2> HIDE DEF x
  <2>1. Len(history) + 1 \in DOMAIN history' /\ history'[Len(history) + 1] = x BY <1>1, SentIsLast
  <2> QED BY <2>1, <1>2 DEF LongValues, Packets
<1>4. x \in Packet BY <1>3, PassIs, StoreOfIs DEF Packet
<1>5. table' \in [Keys -> 0 .. Len(history) + 1]
  <2>1. Len(history) \in Nat /\ table \in [Keys -> Nat] /\ \A key \in Keys : table[key] \in 0 .. Len(history)
    BY EmptyIs DEF ValuesInv, TypesOk, InTypes, Histories
  <2> QED BY <2>1, <1>1
<1> HIDE DEF x
<1> QED BY <1>1, <1>4, <1>5, SendsKeeps

----------------------------------------------------------------------------
(* The merger takes a word away from a store.                              *)

LEMMA MergerKeeps ==
  ASSUME ValuesInv, NEW s \in Stores, Merger(s)
  PROVE  ValuesInv'
<1>1. /\ outData[s] # <<>> /\ outData' = Drop(outData, s)
      /\ UNCHANGED <<history, inData, accVars, popVars, toDemux, setVars, getVars, memVars, remuxVars, table, splitIn>>
  BY DEF Merger, MayMerge
<1>2. outData' \in [Stores -> Seq(OutWord)]
  <2>1. outData \in [Stores -> Seq(OutWord)] BY DEF ValuesInv, TypesOk, GetTypes
  <2> QED BY <2>1, <1>1, DropIs
<1>3. AccTypes' /\ SetTypes' /\ MemTypes'
  BY <1>1 DEF ValuesInv, TypesOk, AccTypes, SetTypes, MemTypes, accVars, popVars, setVars, getVars, memVars
<1>4. GetTypes' BY <1>1, <1>2 DEF ValuesInv, TypesOk, GetTypes, getVars, remuxVars
<1>5. InTypes' /\ SplitOk' BY <1>1 DEF ValuesInv, TypesOk, InTypes, SplitOk
<1>6. \A t \in Stores : HeldOk(t)' /\ SetsKnown(t)' BY <1>1 DEF ValuesInv, StoresOk, HeldOk, SetsKnown, accVars, setVars
<1>7. \A t \in Stores : StoreKept(t) BY <1>1 DEF StoreKept, Awaited, Words, Split, getVars, remuxVars
<1>8. StoresOk' BY <1>1, <1>6, <1>7, StoresKeptOk
<1> QED BY <1>3, <1>4, <1>5, <1>8 DEF ValuesInv, TypesOk

LEMMA StoreStepKeeps ==
  ASSUME ValuesInv, NEW s \in Stores, StoreStep(s), UNCHANGED <<splitIn, table>>
  PROVE  ValuesInv'
<1>1. CASE AccStream(s) BY <1>1, AccStreamKeeps
<1>2. CASE AccTake(s) BY <1>2, AccTakeKeeps
<1>3. CASE AccPush(s) BY <1>3, AccPushKeeps
<1>4. CASE AccPop(s) BY <1>4, AccPopKeeps
<1>5. CASE Demux(s) BY <1>5, DemuxKeeps
<1>6. CASE SetPath(s) BY <1>6, SetPathKeeps
<1>7. CASE Dispatch(s) BY <1>7, DispatchKeeps
<1>8. CASE Aggregate(s) BY <1>8, AggregateKeeps
<1>9. CASE MemAccess(s) BY <1>9, MemAccessKeeps
<1>10. CASE Receive(s) BY <1>10, ReceiveKeeps
<1>11. CASE RemuxFirst(s) BY <1>11, RemuxFirstKeeps
<1>12. CASE RemuxRest(s) BY <1>12, RemuxRestKeeps
<1>13. CASE RemuxGet(s) BY <1>13, RemuxGetKeeps
<1> QED BY <1>1, <1>2, <1>3, <1>4, <1>5, <1>6, <1>7, <1>8, <1>9, <1>10, <1>11, <1>12, <1>13 DEF StoreStep

(* Parser and formatter leave the stores alone. *)
LEMMA ParserLeaves == ParserStep => UNCHANGED valueVars
<1>1. ParseHeader \/ ParseLength \/ ParseThird \/ ParseExtras => UNCHANGED valueVars
  BY DEF ParseHeader, ParseLength, ParseThird, ParseExtras, Unspoilt
<1>2. ParseKey \/ ParseKeyEnd \/ ParseValue \/ ParseSpill => UNCHANGED valueVars
  BY DEF ParseKey, ParseKeyEnd, ParseValue, ParseSpill, Unspoilt
<1>3. RearIdle \/ RearFirst \/ RearRest => UNCHANGED valueVars
  BY DEF RearIdle, RearFirst, RearRest, RearWord, FrontKept
<1> QED BY <1>1, <1>2, <1>3 DEF ParserStep

LEMMA FormatterLeaves == FormatterStep => UNCHANGED valueVars
<1>1. ResponseFront => UNCHANGED valueVars BY DEF ResponseFront, FormatterKept
<1>2. RespMetadata \/ RespHeader \/ RespLength \/ RespThird => UNCHANGED valueVars
  BY DEF RespMetadata, RespHeader, RespLength, RespThird, RespKept, FormatterKept
<1>3. RespFlags \/ RespValue \/ RespEnd \/ RespError => UNCHANGED valueVars
  BY DEF RespFlags, RespValue, RespEnd, RespError, RespKept, FormatterKept
<1> QED BY <1>1, <1>2, <1>3 DEF FormatterStep

LEMMA ReaderSends ==
  ASSUME TableReads
  PROVE  UNCHANGED valueVars \/ (\E k, op, n : TableExecutes(k, op, n)) \/ \E n : SetFails(n)
BY DEF TableReads

LEMMA UnchangedKeeps ==
  ASSUME ValuesInv, UNCHANGED valueVars
  PROVE  ValuesInv'
<1>1. UNCHANGED <<history, splitIn, table, inData, toDemux, setMd, setValueIn, setBuf, getMd, disp2rec, rdData, recPos, getPath2remux,
                  accState, filterSeq, streamToPop, popSet, popGet, memWrCmd, memWrData, memRdCmd, memCmd, memory, metadataBuffer,
                  remuxPos, outData>>
  BY DEF valueVars, storeVars, accVars, popVars, setVars, getVars, memVars, remuxVars
<1>2. AccTypes' /\ SetTypes' /\ MemTypes' /\ GetTypes' BY <1>1 DEF ValuesInv, TypesOk, AccTypes, SetTypes, MemTypes, GetTypes
<1>3. \A t \in Stores : Awaited(t)' = Awaited(t) /\ SetsKnown(t)' BY <1>1 DEF ValuesInv, StoresOk, SetsKnown, Awaited
<1> QED BY <1>1, <1>2, <1>3, MemoryKeeps

LEMMA NextKeeps ==
  ASSUME ValuesInv, LongValues', [Next]_serverVars
  PROVE  ValuesInv'
<1>1. CASE Splitter /\ UNCHANGED clientVars BY <1>1, SplitterKeeps
<1>2. CASE \E s \in Stores : StoreStep(s) /\ UNCHANGED <<table, splitIn, answer, merging, answered>>
  BY <1>2, StoreStepKeeps
<1>3. CASE \E s \in Stores : Merge(s) BY <1>3, MergerKeeps DEF Merge
<1>4. CASE ParserStep BY <1>4, ParserLeaves, UnchangedKeeps
<1>5. CASE TableReads BY <1>5, ReaderSends, UnchangedKeeps, TableExecutesKeeps, SetFailsKeeps
<1>6. CASE FormatterStep BY <1>6, FormatterLeaves, UnchangedKeeps
<1>7. CASE TableAnswers BY <1>7, TableExecutesKeeps DEF TableAnswers
<1>8. CASE UNCHANGED serverVars BY <1>8, UnchangedKeeps DEF serverVars
<1> QED BY <1>1, <1>2, <1>3, <1>4, <1>5, <1>6, <1>7, <1>8 DEF Next, Serves, Pipeline

----------------------------------------------------------------------------
(* What follows.                                                           *)

LEMMA EmptyOk ==
  ASSUME NEW h \in Histories, NEW s \in Stores
  PROVE  WordsOk(h, s, <<>>) /\ MetadataOk(h, s, <<>>, <<>>, <<>>) /\ GetsOk(h, <<>>, <<>>, <<>>, <<>>, 0)
<1>1. WordsOk(h, s, <<>>) BY DEF WordsOk
<1>2. ~Current(<<>>) BY DEF Current
<1>3. MetadataOk(h, s, <<>>, <<>>, <<>>) BY <1>2 DEF MetadataOk, Half
<1>4. AtRemux(h, <<>>, <<>>) = {} BY <1>2 DEF AtRemux
<1>5. GetsOk(h, <<>>, <<>>, <<>>, <<>>, 0) BY <1>2, <1>4 DEF GetsOk
<1> QED BY <1>1, <1>3, <1>5

LEMMA InitKeeps ==
  ASSUME ValuesInit
  PROVE  ValuesInv
<1>1. StoreInit /\ table = [k \in Keys |-> 0] /\ splitIn = <<>> BY DEF ValuesInit
<1>2. history = <<>> /\ history \in Histories BY <1>1 DEF StoreInit, Histories
<1>3. InTypes BY <1>1, <1>2 DEF StoreInit, InTypes
<1>4. AccTypes BY <1>1 DEF StoreInit, AccTypes
<1>5. SetTypes BY <1>1 DEF StoreInit, SetTypes
<1>6. MemTypes
  <2>1. <<>> \in [{} -> Seq(Word)] /\ {} \in SUBSET Nat OBVIOUS
  <2>2. <<>> \in Memories BY <2>1 DEF Memories
  <2> QED BY <1>1, <2>2 DEF StoreInit, MemTypes
<1>7. GetTypes BY <1>1 DEF StoreInit, GetTypes
<1>8. SplitOk BY <1>1 DEF SplitOk
<1>9. ASSUME NEW s \in Stores PROVE HeldOk(s) /\ SetsKnown(s) /\ StoreOk(s)
  <2>1. accState[s] = 0 /\ setValueIn[s] = <<>> /\ inData[s] = <<>> /\ toDemux[s] = <<>> /\ disp2rec[s] = <<>> /\ getMd[s] = <<>>
        /\ metadataBuffer[s] = <<>> /\ remuxPos[s] = <<>> /\ getPath2remux[s] = <<>> /\ recPos[s] = 0
    BY <1>1 DEF StoreInit
  <2>2. Words(s) = <<>> /\ Awaited(s) = <<>> BY <1>1, <2>1 DEF Words, Split, Awaited
  <2>3. StoreOk(s) BY <1>2, <2>1, <2>2, EmptyOk DEF StoreOk
  <2> QED BY <2>1, <2>3 DEF HeldOk, SetsKnown
<1> QED BY <1>3, <1>4, <1>5, <1>6, <1>7, <1>8, <1>9 DEF ValuesInv, TypesOk, StoresOk

LEMMA WaitingFollows ==
  ASSUME ValuesInv
  PROVE  WaitingIsExpected
<1> SUFFICES ASSUME NEW s \in Stores
             PROVE  /\ getPath2remux[s] # <<>> =>
                          LET v == Head(getPath2remux[s]) IN
                          IF remuxPos[s] = <<>>
                          THEN metadataBuffer[s] # <<>> /\ (Op(Md(s)[1]) = "get" => v.p = Md(s)[1] /\ v.i = 1)
                          ELSE Op(remuxPos[s][1]) = "get" => v.p = remuxPos[s][1] /\ v.i = remuxPos[s][2] + 1
                    /\ metadataBuffer[s] # <<>> =>
                          IF remuxPos[s] # <<>> /\ remuxPos[s][2] = 1 THEN Md(s) = <<remuxPos[s][1], 2>> ELSE Md(s)[2] = 1
  BY DEF WaitingIsExpected
<1> DEFINE h == history
           m == metadataBuffer[s]
           r == remuxPos[s]
           v == getPath2remux[s]
           t == Awaited(s)
           pos == recPos[s]
<1>1. h \in Histories /\ MetadataOk(h, s, Words(s), m, r) /\ GetsOk(h, m, r, t, v, pos) BY DEF ValuesInv, TypesOk, InTypes, StoresOk, StoreOk
<1>2. m # <<>> => Md(s) = m[1] BY DropMetadata DEF ValuesInv, TypesOk
<1>3. v # <<>> => Head(v) = v[1] BY DropValue DEF ValuesInv, TypesOk
<1>4. Current(r) <=> r # <<>> BY DEF Current
<1> HIDE DEF h, m, r, v, t, pos
<1>5. m # <<>> => IF Current(r) /\ r[2] = 1 THEN m[1] = <<r[1], 2>> ELSE m[1][2] = 1 BY <1>1 DEF MetadataOk
<1>6. ASSUME v # <<>>, r # <<>>, h[r[1]].op = "get" PROVE v[1].p = r[1] /\ v[1].i = r[2] + 1
  BY <1>1, <1>4, <1>6 DEF GetsOk
<1>7. ASSUME v # <<>>, r = <<>> PROVE m # <<>> /\ (h[m[1][1]].op = "get" => v[1].p = m[1][1] /\ v[1].i = 1)
  <2>1. Len(v) \in Nat /\ 1 \in 1 .. Len(v)
    <3>1. v \in Seq(Value) BY <1>1, GetsAre
    <3> QED BY <3>1, <1>7, NonEmpty
  <2>2. v[1].p \in AtRemux(h, m, r) BY <2>1, <1>1, GetsAre
  <2>3. \E k \in 1 .. Len(m) : m[k] = <<v[1].p, 1>> BY <2>2, <1>4, <1>7 DEF AtRemux
  <2>4. m \in Seq(Nat \X Nat) BY <1>1, MetadataIs
  <2>5. m # <<>> BY <2>3, <2>4, EmptyIs
  <2>6. /\ h \in Histories /\ MetadataOk(h, s, Words(s), m, r) /\ GetsOk(h, m, r, t, v, pos)
        /\ r = <<>> /\ m # <<>> /\ (h[m[1][1]].op = "get" => v # <<>>)
    BY <2>5, <1>1, <1>7
  <2>7. /\ h[m[1][1]].op = "get" => v[1].p = m[1][1] /\ v[1].i = 1
        /\ GetsOk(h, Tail(m), <<m[1][1], 1>>, t, IF h[m[1][1]].op = "get" THEN Tail(v) ELSE v, pos)
    BY <2>6, GetsSentFirst
  <2> QED BY <2>5, <2>7
<1> QED BY <1>2, <1>3, <1>4, <1>5, <1>6, <1>7 DEF h, m, r, v, Op

(* Whatever bytes clients send, as long as what comes to the stores has two words or more: a value *)
(* waits at an idle remux only with its metadata, and it is the next word of the packet that remux *)
(* sends; so remux, which goes on to the opcode without a test for metadata (valueStore.cpp:608),  *)
(* never sends a value with the metadata of the packet before, and never takes the second word of  *)
(* metadata for the first word of a packet.                                                        *)
THEOREM WaitingValuesBelong == Spec /\ []LongValues => []WaitingIsExpected
<1>1. Init => ValuesInv BY InitKeeps DEF Init
<1>2. ValuesInv /\ LongValues' /\ [Next]_serverVars => ValuesInv' BY NextKeeps
<1>3. ValuesInv => WaitingIsExpected BY WaitingFollows
<1> QED BY <1>1, <1>2, <1>3, PTL DEF Spec

----------------------------------------------------------------------------
(* With a table that sends what it likes.                                  *)

NoClient == requests = <<>> /\ feInput = <<>> /\ front = FrontStart /\ metadataIn = <<>> /\ rear = RearStart /\ toTable = <<>>

LEMMA NoClientStarts == Init /\ requests = <<>> => NoClient /\ LongValues
<1> SUFFICES ASSUME Init, requests = <<>> PROVE NoClient /\ LongValues OBVIOUS
<1> DEFINE datagrams == [k \in DOMAIN requests |-> Datagram(k)]
<1>1. datagrams = <<>> OBVIOUS
<1> HIDE DEF datagrams
<1>2. S!FlattenSeq(datagrams) = <<>>
  <2>1. Len(datagrams) = 0 BY <1>1
  <2> QED BY <2>1, <1>1 DEF S!FlattenSeq
<1>3. NoClient BY <1>2 DEF Init, NoClient, datagrams
<1>4. LongValues BY DEF Init, ValuesInit, StoreInit, LongValues, Packets
<1> QED BY <1>3, <1>4

(* Without input, nothing comes from the parser. *)
LEMMA NoClientKeeps ==
  ASSUME NoClient, [Next]_serverVars
  PROVE  NoClient' /\ ~ParserStep /\ ~TableReads
<1>1. feInput = <<>> /\ ~front.spill /\ front.word = 0 /\ metadataIn = <<>> /\ rear.state = "BPR_IDLE" /\ toTable = <<>>
  BY DEF NoClient, FrontStart, RearStart
<1>2. ~ParserStep
  <2>1. ~(ParseHeader \/ ParseLength \/ ParseThird \/ ParseExtras \/ ParseKey \/ ParseKeyEnd \/ ParseValue)
    BY <1>1 DEF ParseHeader, ParseLength, ParseThird, ParseExtras, ParseKey, ParseKeyEnd, ParseValue, Reads
  <2>2. ~ParseSpill BY <1>1 DEF ParseSpill
  <2>3. ~(RearIdle \/ RearFirst \/ RearRest) BY <1>1 DEF RearIdle, RearFirst, RearRest
  <2> QED BY <2>1, <2>2, <2>3 DEF ParserStep
<1>3. ~TableReads BY <1>1 DEF TableReads
<1>4. CASE (Pipeline \/ TableAnswers) /\ UNCHANGED clientVars
  BY <1>2, <1>3, <1>4 DEF NoClient, clientVars, parserVars
<1>5. CASE \E s \in Stores : Merge(s) BY <1>2, <1>3, <1>5 DEF NoClient, Merge, parserVars
<1>6. CASE FormatterStep
  <2>1. UNCHANGED <<requests, parserVars>>
    <3>1. ResponseFront => UNCHANGED <<requests, parserVars>>
      BY DEF ResponseFront, FormatterKept
    <3>2. RespMetadata \/ RespHeader \/ RespLength \/ RespThird => UNCHANGED <<requests, parserVars>>
      BY DEF RespMetadata, RespHeader, RespLength, RespThird, RespKept, FormatterKept
    <3>3. RespFlags \/ RespValue \/ RespEnd \/ RespError => UNCHANGED <<requests, parserVars>>
      BY DEF RespFlags, RespValue, RespEnd, RespError, RespKept, FormatterKept
    <3> QED BY <1>6, <3>1, <3>2, <3>3 DEF FormatterStep
  <2> QED BY <2>1, <1>2, <1>3 DEF NoClient, parserVars
<1>7. CASE UNCHANGED serverVars BY <1>2, <1>3, <1>7 DEF NoClient, serverVars, clientVars, parserVars
<1> QED BY <1>2, <1>3, <1>4, <1>5, <1>6, <1>7 DEF Next, Serves

LEMMA LengthsStayLong ==
  ASSUME ValuesInv, LongValues, NoClient, [Next]_serverVars
  PROVE  LongValues'
<1>1. history \in Seq(Packet) /\ \A p \in DOMAIN history : history[p].len \in Nat \ {0, 1}
  BY DEF ValuesInv, TypesOk, InTypes, Histories, LongValues, Packets
<1>2. ASSUME UNCHANGED history PROVE LongValues' BY <1>1, <1>2 DEF LongValues, Packets
<1>3. ASSUME NEW x, x.len \in Nat \ {0, 1}, history' = Append(history, x) PROVE LongValues'
  <2>1. \A p \in DOMAIN history' : p = Len(history) + 1 \/ p \in DOMAIN history BY <1>1, <1>3
  <2>2. \A p \in DOMAIN history : history'[p] = history[p] BY <1>1, <1>3
  <2>3. history'[Len(history) + 1] = x BY <1>1, <1>3
  <2> QED BY <1>1, <1>3, <2>1, <2>2, <2>3 DEF LongValues, Packets
<1>4. ASSUME NEW k, NEW op, NEW n \in Nat \ {0, 1}, TableExecutes(k, op, n) PROVE LongValues'
  <2> DEFINE p == Len(history) + 1
             found == k \in Keys /\ table[k] > 0
             a == IF found THEN Addr(table[k]) ELSE Lowest(FreeAddresses(n))
             x == [op |-> "set", store |-> StoreOf(n), len |-> n, addr |-> a]
             y == [history[table[k]] EXCEPT !.op = "get"]
  <2>1. (op = "get" /\ found /\ Sends(p, y)) \/ Sends(p, Pass) \/ Sends(p, x) BY <1>4 DEF TableExecutes
  <2>2. x.len = n /\ Pass.len = 2 BY DEF Pass
  <2>3. found => y.len \in Nat \ {0, 1}
    <3>1. found => table[k] \in 1 .. Len(history)
      <4>1. \A key \in Keys : table[key] \in 0 .. Len(history) BY DEF ValuesInv, TypesOk, InTypes
      <4>2. Len(history) \in Nat BY <1>1
      <4> QED BY <4>1, <4>2
    <3>2. found => history[table[k]] \in Packet BY <3>1, <1>1, ElementIs
    <3> QED BY <3>2 DEF Packet
  <2> HIDE DEF x, y, found
  <2>4. history' = Append(history, x) \/ history' = Append(history, Pass) \/ (found /\ history' = Append(history, y))
    BY <2>1 DEF Sends
  <2> QED BY <2>2, <2>3, <2>4, <1>3, <1>4
<1>5. ~ParserStep /\ ~TableReads BY NoClientKeeps
<1>6. CASE Pipeline
  <2>1. UNCHANGED history
    <3>1. Splitter => UNCHANGED history BY DEF Splitter
    <3>2. \A s : AccStream(s) \/ AccTake(s) \/ AccPush(s) \/ AccPop(s) \/ Demux(s) \/ SetPath(s) => UNCHANGED history
      BY DEF AccStream, AccTake, AccPush, AccPop, Demux, SetPath
    <3>3. \A s : Dispatch(s) \/ Aggregate(s) \/ MemAccess(s) \/ Receive(s) => UNCHANGED history
      BY DEF Dispatch, Aggregate, MemAccess, Receive
    <3>4. \A s : RemuxFirst(s) \/ RemuxRest(s) \/ RemuxGet(s) => UNCHANGED history BY DEF RemuxFirst, RemuxRest, RemuxGet
    <3> QED BY <1>6, <3>1, <3>2, <3>3, <3>4 DEF Pipeline, StoreStep
  <2> QED BY <2>1, <1>2
<1>7. CASE \E s \in Stores : Merge(s) BY <1>2, <1>7 DEF Merge, Merger
<1>8. CASE FormatterStep BY <1>2, <1>8, FormatterLeaves DEF valueVars
<1>9. CASE TableAnswers
  <2>1. 2 \in Nat \ {0, 1} /\ Lengths \subseteq Nat \ {0, 1} BY LengthsAssumption
  <2> QED BY <2>1, <1>4, <1>9 DEF TableAnswers
<1>10. CASE UNCHANGED serverVars BY <1>2, <1>10 DEF serverVars, valueVars
<1> QED BY <1>5, <1>6, <1>7, <1>8, <1>9, <1>10 DEF Next, Serves

(* The same without a hypothesis about the values, where the table sends any packets it can send: *)
(* none of those is shorter than two words.                                                       *)
THEOREM WaitingValuesBelongFree == Spec /\ requests = <<>> => []WaitingIsExpected
<1> DEFINE Inv == ValuesInv /\ NoClient /\ LongValues
<1>1. Init /\ requests = <<>> => Inv BY InitKeeps, NoClientStarts DEF Init
<1>2. Inv /\ [Next]_serverVars => Inv' BY NextKeeps, NoClientKeeps, LengthsStayLong
<1>3. Inv => WaitingIsExpected BY WaitingFollows
<1> QED BY <1>1, <1>2, <1>3, PTL DEF Spec

----------------------------------------------------------------------------
(* The answers of a store.                                                 *)

(* The words that remux has sent, o, up to the one it sends next. *)
SentOk(h, s, r, o) ==
  /\ o \in Seq(OutWord)
  /\ \A k \in 1 .. Len(o) : /\ o[k].p \in Mine(h, s) /\ o[k].i \in 1 .. Leaves(h, o[k].p)
                            /\ o[k].last <=> o[k].i = Leaves(h, o[k].p)
  /\ \A k \in 1 .. Len(o) - 1 : IF o[k].last THEN o[k + 1].i = 1 ELSE o[k + 1].p = o[k].p /\ o[k + 1].i = o[k].i + 1
  /\ o # <<>> => IF o[Len(o)].last THEN r = <<>> ELSE r = <<o[Len(o)].p, o[Len(o)].i>>

(* They leave in the order in which the packets came. *)
InOrder(w, m, r, o) ==
  /\ \A j, k \in 1 .. Len(o) : j < k => o[j].p <= o[k].p
  /\ \A k \in 1 .. Len(o) : /\ r # <<>> => o[k].p <= r[1]
                            /\ \A j \in 1 .. Len(m) : o[k].p <= m[j][1]
                            /\ \A j \in 1 .. Len(w) : o[k].p <= w[j].p

(* The end of the answer to packet q is still to come. *)
UnderWay(w, m, r, o, q) ==
  \/ \E k \in 1 .. Len(w) : w[k].p = q /\ w[k].i = 2
  \/ \E k \in 1 .. Len(m) : m[k] = <<q, 2>>
  \/ r # <<>> /\ r[1] = q
  \/ \E k \in 1 .. Len(o) : o[k].p = q /\ o[k].last
AllComes(h, s, w, m, r, o, done) == \A q \in Mine(h, s) : q \in done \/ UnderWay(w, m, r, o, q)

OutOk(h, s, w, m, r, o, done) == SentOk(h, s, r, o) /\ InOrder(w, m, r, o) /\ AllComes(h, s, w, m, r, o, done)

(* What comes next from store s to the merger, which takes the words of store g for the answer a. *)
NextOk(s, r, o, g, a) ==
  IF g = s
  THEN IF o # <<>> THEN o[1].p = a[Len(a)].p /\ o[1].i = a[Len(a)].i + 1 ELSE r = <<a[Len(a)].p, a[Len(a)].i>>
  ELSE IF o # <<>> THEN o[1].i = 1 ELSE r = <<>>

LEMMA SentAre ==
  ASSUME NEW h \in Histories, NEW s \in Stores, NEW r, NEW o, SentOk(h, s, r, o)
  PROVE  /\ o \in Seq(OutWord) /\ Len(o) \in Nat
         /\ \A k \in 1 .. Len(o) : /\ o[k] \in OutWord /\ o[k].p \in Nat /\ o[k].i \in Nat /\ o[k].last \in BOOLEAN
                                   /\ o[k].p \in Mine(h, s) /\ o[k].p \in 1 .. Len(h) /\ o[k].i >= 1 /\ o[k].i <= Leaves(h, o[k].p)
                                   /\ Leaves(h, o[k].p) \in Nat /\ Leaves(h, o[k].p) >= 2
<1>1. o \in Seq(OutWord) /\ Len(o) \in Nat BY EmptyIs DEF SentOk
<1>2. ASSUME NEW k \in 1 .. Len(o)
      PROVE  /\ o[k] \in OutWord /\ o[k].p \in Nat /\ o[k].i \in Nat /\ o[k].last \in BOOLEAN
             /\ o[k].p \in Mine(h, s) /\ o[k].p \in 1 .. Len(h) /\ o[k].i >= 1 /\ o[k].i <= Leaves(h, o[k].p)
             /\ Leaves(h, o[k].p) \in Nat /\ Leaves(h, o[k].p) >= 2
  <2>1. o[k] \in OutWord BY <1>1, ElementIs
  <2>2. o[k].p \in Nat /\ o[k].i \in Nat /\ o[k].last \in BOOLEAN BY <2>1 DEF OutWord
  <2>3. o[k].p \in Mine(h, s) /\ o[k].i \in 1 .. Leaves(h, o[k].p) BY DEF SentOk
  <2>4. o[k].p \in 1 .. Len(h) BY <2>3 DEF Mine
  <2>5. Leaves(h, o[k].p) \in Nat /\ Leaves(h, o[k].p) >= 2 BY <2>4, PacketIs
  <2> QED BY <2>1, <2>2, <2>3, <2>4, <2>5
<1> QED BY <1>1, <1>2

(* remux sends another word: the first one of a packet, or the next of the one it has begun. *)
LEMMA SentGrow ==
  ASSUME NEW h \in Histories, NEW s \in Stores, NEW r, NEW o, SentOk(h, s, r, o), r = <<>> \/ r \in Nat \X Nat,
         NEW g, NEW a, NextOk(s, r, o, g, a),
         NEW p \in Mine(h, s), NEW i \in 1 .. Leaves(h, p),
         IF r = <<>> THEN i = 1 ELSE p = r[1] /\ i = r[2] + 1,
         NEW e \in OutWord, e.p = p, e.i = i, e.last <=> i = Leaves(h, p),
         NEW q, q = (IF e.last THEN <<>> ELSE <<p, i>>)
  PROVE  SentOk(h, s, q, Append(o, e)) /\ NextOk(s, q, Append(o, e), g, a)
<1> DEFINE u == Append(o, e)
<1>1. p \in 1 .. Len(h) /\ p \in Nat /\ Leaves(h, p) \in Nat /\ i \in Nat
  <2>1. p \in 1 .. Len(h) /\ Len(h) \in Nat BY EmptyIs DEF Mine, Histories
  <2>2. Leaves(h, p) \in Nat BY <2>1, PacketIs
  <2> QED BY <2>1, <2>2
<1>2. e \in OutWord /\ e.p = p /\ e.i = i /\ (e.last <=> i = Leaves(h, p)) OBVIOUS
<1>3. o \in Seq(OutWord) /\ Len(o) \in Nat /\ \A k \in 1 .. Len(o) : o[k].p \in Nat /\ o[k].i \in Nat /\ o[k].last \in BOOLEAN
  BY SentAre
<1>4. /\ u \in Seq(OutWord) /\ u # <<>> /\ Len(u) = Len(o) + 1 /\ u[Len(o) + 1] = e /\ \A k \in 1 .. Len(o) : u[k] = o[k]
  BY <1>2, <1>3, AppendIs
<1> HIDE DEF u
<1>5. \A k \in 1 .. Len(u) : (k \in 1 .. Len(o) /\ u[k] = o[k]) \/ (k = Len(o) + 1 /\ u[k] = e) BY <1>3, <1>4
<1>6. \A k \in 1 .. Len(u) : u[k].p \in Mine(h, s) /\ u[k].i \in 1 .. Leaves(h, u[k].p) /\ (u[k].last <=> u[k].i = Leaves(h, u[k].p))
  <2> TAKE k \in 1 .. Len(u)
  <2>1. CASE k \in 1 .. Len(o) /\ u[k] = o[k] BY <2>1 DEF SentOk
  <2>2. CASE u[k] = e BY <2>2, <1>2
  <2> QED BY <2>1, <2>2, <1>5
<1>7. o # <<>> => IF o[Len(o)].last THEN i = 1 ELSE p = o[Len(o)].p /\ i = o[Len(o)].i + 1
  <2> SUFFICES ASSUME o # <<>> PROVE IF o[Len(o)].last THEN i = 1 ELSE p = o[Len(o)].p /\ i = o[Len(o)].i + 1 OBVIOUS
  <2>1. IF o[Len(o)].last THEN r = <<>> ELSE r = <<o[Len(o)].p, o[Len(o)].i>> BY DEF SentOk
  <2> QED BY <2>1
<1>8. \A k \in 1 .. Len(u) - 1 : IF u[k].last THEN u[k + 1].i = 1 ELSE u[k + 1].p = u[k].p /\ u[k + 1].i = u[k].i + 1
  <2> TAKE k \in 1 .. Len(u) - 1
  <2>1. k \in 1 .. Len(o) /\ u[k] = o[k] BY <1>3, <1>4
  <2>2. CASE k = Len(o)
    <3>1. o # <<>> BY <2>1, <1>3, EmptyIs
    <3>2. u[k + 1] = e BY <2>2, <1>4
    <3> QED BY <3>1, <3>2, <2>1, <2>2, <1>2, <1>7
  <2>3. CASE k # Len(o)
    <3>1. k \in 1 .. Len(o) - 1 /\ k + 1 \in 1 .. Len(o) BY <2>1, <2>3, <1>3
    <3>2. u[k + 1] = o[k + 1] BY <3>1, <1>4
    <3>3. \A j \in 1 .. Len(o) - 1 : IF o[j].last THEN o[j + 1].i = 1 ELSE o[j + 1].p = o[j].p /\ o[j + 1].i = o[j].i + 1
      BY DEF SentOk
    <3>4. IF o[k].last THEN o[k + 1].i = 1 ELSE o[k + 1].p = o[k].p /\ o[k + 1].i = o[k].i + 1 BY <3>1, <3>3
    <3> QED BY <3>2, <3>4, <2>1
  <2> QED BY <2>2, <2>3
<1>9. IF u[Len(u)].last THEN q = <<>> ELSE q = <<u[Len(u)].p, u[Len(u)].i>> BY <1>2, <1>3, <1>4
<1>10. SentOk(h, s, q, u) BY <1>4, <1>6, <1>8, <1>9 DEF SentOk
<1>11. NextOk(s, q, u, g, a)
  <2>1. CASE o # <<>>
    <3>1. u[1] = o[1] BY <2>1, <1>3, <1>4, NonEmpty
    <3> QED BY <3>1, <2>1, <1>4 DEF NextOk
  <2>2. CASE o = <<>>
    <3>1. u[1] = e BY <2>2, <1>4
    <3>2. IF g = s THEN r = <<a[Len(a)].p, a[Len(a)].i>> ELSE r = <<>> BY <2>2 DEF NextOk
    <3>3. IF g = s THEN p = a[Len(a)].p /\ i = a[Len(a)].i + 1 ELSE i = 1 BY <3>2
    <3> QED BY <3>1, <3>3, <1>2, <1>4 DEF NextOk
  <2> QED BY <2>1, <2>2
<1> QED BY <1>10, <1>11 DEF u

(* What is known of the metadata, n, and the words that are left when one of packet p is sent. *)
UpTo(o, p) == \A k \in 1 .. Len(o) : o[k].p <= p
From(w, p) == \A j \in 1 .. Len(w) : p <= w[j].p
Left(m, n, p) == \A j \in 1 .. Len(n) : p <= n[j][1] /\ \E k \in 1 .. Len(m) : m[k] = n[j]
SecondsLeft(m, n, p) == \A x : (\E k \in 1 .. Len(m) : m[k] = <<x, 2>>) => x = p \/ \E k \in 1 .. Len(n) : n[k] = <<x, 2>>
Sending(e, q) == e.last \/ (q # <<>> /\ q[1] = e.p)

LEMMA OrderGrows ==
  ASSUME NEW h \in Histories, NEW s \in Stores, NEW r, NEW o, SentOk(h, s, r, o), NEW w, NEW m, InOrder(w, m, r, o),
         NEW e \in OutWord, UpTo(o, e.p), NEW n, Left(m, n, e.p), From(w, e.p), NEW q, q = <<>> \/ q[1] = e.p
  PROVE  InOrder(w, n, q, Append(o, e))
<1> DEFINE u == Append(o, e)
           p == e.p
<1>0. /\ p \in Nat /\ \A k \in 1 .. Len(o) : o[k].p <= p
      /\ \A j \in 1 .. Len(n) : p <= n[j][1] /\ \E k \in 1 .. Len(m) : m[k] = n[j]
      /\ \A j \in 1 .. Len(w) : p <= w[j].p
      /\ q # <<>> => q[1] = p
  BY DEF OutWord, UpTo, Left, From
<1>1. o \in Seq(OutWord) /\ Len(o) \in Nat /\ \A k \in 1 .. Len(o) : o[k].p \in Nat BY SentAre
<1>2. /\ Len(u) = Len(o) + 1 /\ u[Len(o) + 1] = e /\ \A k \in 1 .. Len(o) : u[k] = o[k]
  BY <1>1, AppendIs
<1> HIDE DEF u
<1>3. \A k \in 1 .. Len(u) : (k \in 1 .. Len(o) /\ u[k] = o[k]) \/ (k = Len(o) + 1 /\ u[k] = e) BY <1>1, <1>2
<1>4. \A k \in 1 .. Len(u) : u[k].p <= p BY <1>0, <1>3
<1>5. \A j, k \in 1 .. Len(u) : j < k => u[j].p <= u[k].p
  <2> TAKE j, k \in 1 .. Len(u)
  <2> HAVE j < k
  <2>1. CASE k = Len(o) + 1 BY <2>1, <1>2, <1>4
  <2>2. CASE k \in 1 .. Len(o)
    <3>1. j \in 1 .. Len(o) BY <2>2, <1>1, <1>3
    <3> QED BY <3>1, <2>2, <1>2 DEF InOrder
  <2> QED BY <2>1, <2>2, <1>3
<1>6. ASSUME NEW k \in 1 .. Len(u)
      PROVE  /\ q # <<>> => u[k].p <= q[1]
             /\ \A j \in 1 .. Len(n) : u[k].p <= n[j][1]
             /\ \A j \in 1 .. Len(w) : u[k].p <= w[j].p
  <2>1. CASE k \in 1 .. Len(o) /\ u[k] = o[k]
    <3>1. \A j \in 1 .. Len(n) : o[k].p <= n[j][1]
      <4> TAKE j \in 1 .. Len(n)
      <4>1. PICK x \in 1 .. Len(m) : m[x] = n[j] BY <1>0
      <4>2. o[k].p <= m[x][1] BY <2>1 DEF InOrder
      <4> QED BY <4>1, <4>2
    <3>2. \A j \in 1 .. Len(w) : o[k].p <= w[j].p BY <2>1 DEF InOrder
    <3>3. o[k].p <= p BY <2>1, <1>0
    <3> QED BY <3>1, <3>2, <3>3, <2>1, <1>0
  <2>2. CASE u[k] = e
    <3>1. p <= p BY <1>0
    <3> QED BY <3>1, <2>2, <1>0
  <2> QED BY <2>1, <2>2, <1>3
<1> QED BY <1>5, <1>6 DEF InOrder, u

LEMMA ComesGrow ==
  ASSUME NEW h \in Histories, NEW s \in Stores, NEW w, NEW m, NEW r, NEW o, SentOk(h, s, r, o),
         NEW done, AllComes(h, s, w, m, r, o, done),
         NEW e \in OutWord, NEW n, SecondsLeft(m, n, e.p), r = <<>> \/ r[1] = e.p, NEW q, Sending(e, q)
  PROVE  AllComes(h, s, w, n, q, Append(o, e), done)
<1> DEFINE u == Append(o, e)
           p == e.p
<1>0. /\ \A x : (\E k \in 1 .. Len(m) : m[k] = <<x, 2>>) => x = p \/ \E k \in 1 .. Len(n) : n[k] = <<x, 2>>
      /\ r # <<>> => r[1] = p
      /\ ~e.last => q # <<>> /\ q[1] = p
  BY DEF SecondsLeft, Sending
<1>1. o \in Seq(OutWord) /\ Len(o) \in Nat BY SentAre
<1>2. /\ Len(u) = Len(o) + 1 /\ u[Len(o) + 1] = e /\ \A k \in 1 .. Len(o) : u[k] = o[k]
  BY <1>1, AppendIs
<1> HIDE DEF u
<1>3. UnderWay(w, n, q, u, p)
  <2>1. CASE e.last
    <3>1. Len(o) + 1 \in 1 .. Len(u) BY <1>1, <1>2
    <3> QED BY <3>1, <2>1, <1>2 DEF UnderWay
  <2>2. CASE ~e.last BY <2>2, <1>0 DEF UnderWay
  <2> QED BY <2>1, <2>2
<1>4. ASSUME NEW x \in Mine(h, s), x \notin done PROVE UnderWay(w, n, q, u, x)
  <2>1. UnderWay(w, m, r, o, x) BY <1>4 DEF AllComes
  <2>2. CASE \E k \in 1 .. Len(w) : w[k].p = x /\ w[k].i = 2 BY <2>2 DEF UnderWay
  <2>3. CASE \E k \in 1 .. Len(m) : m[k] = <<x, 2>>
    <3>1. x = p \/ \E k \in 1 .. Len(n) : n[k] = <<x, 2>> BY <2>3, <1>0
    <3> QED BY <3>1, <1>3 DEF UnderWay
  <2>4. CASE r # <<>> /\ r[1] = x BY <2>4, <1>0, <1>3
  <2>5. CASE \E k \in 1 .. Len(o) : o[k].p = x /\ o[k].last
    <3>1. PICK k \in 1 .. Len(o) : o[k].p = x /\ o[k].last BY <2>5
    <3>2. k \in 1 .. Len(u) /\ u[k] = o[k] BY <1>1, <1>2
    <3> QED BY <3>1, <3>2 DEF UnderWay
  <2> QED BY <2>1, <2>2, <2>3, <2>4, <2>5 DEF UnderWay
<1> QED BY <1>4 DEF AllComes, u

(* All that is behind remux is behind the packet that it sends. *)
LEMMA Behind ==
  ASSUME NEW h \in Histories, NEW s \in Stores, NEW w, WordsOk(h, s, w), NEW m, NEW r, MetadataOk(h, s, w, m, r)
  PROVE  /\ m # <<>> => \A j \in 1 .. Len(w) : m[1][1] <= w[j].p
         /\ r # <<>> => \A j \in 1 .. Len(w) : r[1] <= w[j].p
<1>1. w \in Seq(Word) /\ Len(w) \in Nat /\ \A j \in 1 .. Len(w) : w[j].p \in Nat
  <2>1. w \in Seq(Word) /\ Len(w) \in Nat BY EmptyIs DEF WordsOk
  <2>2. \A j \in 1 .. Len(w) : w[j] \in Word BY <2>1, ElementIs
  <2> QED BY <2>1, <2>2 DEF Word
<1>2. \A j \in 1 .. Len(w) : w # <<>> /\ w[1].p \in Nat /\ w[1].p <= w[j].p
  <2> TAKE j \in 1 .. Len(w)
  <2>1. w # <<>> /\ 1 \in 1 .. Len(w) BY <1>1, EmptyIs
  <2>2. CASE j = 1 BY <2>1, <2>2, <1>1
  <2>3. CASE j # 1
    <3>1. 1 < j BY <2>3, <1>1
    <3>2. Earlier(w[1], w[j]) BY <2>1, <3>1 DEF WordsOk
    <3> QED BY <3>2, <2>1, <1>1 DEF Earlier
  <2> QED BY <2>2, <2>3
<1>3. ASSUME m # <<>>, NEW j \in 1 .. Len(w) PROVE m[1][1] <= w[j].p
  <2>1. 1 \in 1 .. Len(m) BY <1>3, MetadataIs, NonEmpty
  <2>2. m[1][1] \in Nat BY <2>1, MetadataIs
  <2>3. m[1][1] <= w[1].p BY <1>2, <2>1, <2>2 DEF MetadataOk
  <2> QED BY <2>2, <2>3, <1>1, <1>2
<1>4. ASSUME r # <<>>, NEW j \in 1 .. Len(w) PROVE r[1] <= w[j].p
  <2>1. r[1] \in Nat BY <1>4, MetadataIs DEF Current
  <2>2. r[1] <= w[1].p BY <1>2, <1>4, <2>1 DEF MetadataOk, Current
  <2> QED BY <2>1, <2>2, <1>1, <1>2
<1> QED BY <1>3, <1>4

LEMMA OutFirst ==
  ASSUME NEW h \in Histories, NEW s \in Stores, NEW w, WordsOk(h, s, w), NEW m, NEW r, MetadataOk(h, s, w, m, r),
         r = <<>>, m # <<>>, NEW o, NEW done, OutOk(h, s, w, m, r, o, done), NEW g, NEW a, NextOk(s, r, o, g, a),
         NEW e \in OutWord, e.p = m[1][1], e.i = 1, ~e.last, NEW q, q = <<m[1][1], 1>>
  PROVE  OutOk(h, s, w, Tail(m), q, Append(o, e), done) /\ NextOk(s, q, Append(o, e), g, a)
<1> DEFINE n == Tail(m)
           p == m[1][1]
<1>1. RestIs(h, s, w, m, n) BY MetadataTail
<1>2. m[1][2] = 1 /\ p \in Nat /\ p \in 1 .. Len(h) BY MetadataFirst
<1>3. p \in Mine(h, s) /\ \A k \in 1 .. Len(m) : m[k][1] \in Nat BY <1>1, MetadataIs DEF RestIs
<1>4. Leaves(h, p) \in Nat /\ Leaves(h, p) >= 2 BY <1>2, PacketIs
<1>5. \A k \in 1 .. Len(n) : n[k] = m[k + 1] /\ k + 1 \in 1 .. Len(m) /\ p <= n[k][1]
  <2> TAKE k \in 1 .. Len(n)
  <2>1. n[k] = m[k + 1] /\ k + 1 \in 1 .. Len(m) /\ (p < n[k][1] \/ p = n[k][1]) BY <1>1 DEF RestIs
  <2>2. n[k][1] \in Nat BY <2>1, <1>3
  <2> QED BY <2>1, <2>2, <1>2
<1>6. \A x : (\E k \in 1 .. Len(m) : m[k] = <<x, 2>>) => \E k \in 1 .. Len(n) : n[k] = <<x, 2>>
  <2> TAKE x
  <2> HAVE \E k \in 1 .. Len(m) : m[k] = <<x, 2>>
  <2>1. PICK k \in 1 .. Len(m) : m[k] = <<x, 2>> OBVIOUS
  <2>2. k # 1 BY <2>1, <1>2
  <2>3. k - 1 \in 1 .. Len(n) /\ (k - 1) + 1 = k BY <2>2, <1>1 DEF RestIs
  <2>4. n[k - 1] = m[k] BY <2>3, <1>5
  <2> QED BY <2>1, <2>3, <2>4
<1>7. 1 \in 1 .. Leaves(h, p) /\ ~(1 = Leaves(h, p)) /\ q = (IF e.last THEN <<>> ELSE <<p, 1>>) BY <1>4
<1>8. e.p = p /\ q # <<>> /\ q[1] = p OBVIOUS
<1>9. \A j \in 1 .. Len(w) : p <= w[j].p BY Behind
<1>10. \A k \in 1 .. Len(o) : o[k].p <= p BY <1>1 DEF OutOk, InOrder, RestIs
<1> HIDE DEF n, p
<1>11. SentOk(h, s, r, o) /\ InOrder(w, m, r, o) /\ AllComes(h, s, w, m, r, o, done) BY DEF OutOk
<1>12. SentOk(h, s, q, Append(o, e)) /\ NextOk(s, q, Append(o, e), g, a)
  <2>1. (IF r = <<>> THEN 1 = 1 ELSE p = r[1] /\ 1 = r[2] + 1) /\ (e.last <=> 1 = Leaves(h, p)) BY <1>7
  <2> QED BY <1>3, <1>7, <1>8, <1>11, <2>1, SentGrow
<1>13. InOrder(w, n, q, Append(o, e))
  <2>1. \A k \in 1 .. Len(n) : p <= n[k][1] /\ \E j \in 1 .. Len(m) : m[j] = n[k]
    <3> TAKE k \in 1 .. Len(n)
    <3>1. k + 1 \in 1 .. Len(m) /\ m[k + 1] = n[k] /\ p <= n[k][1] BY <1>5
    <3> QED BY <3>1
  <2>2. Left(m, n, e.p) /\ UpTo(o, e.p) /\ From(w, e.p) BY <1>8, <1>9, <1>10, <2>1 DEF Left, UpTo, From
  <2>3. q = <<>> \/ q[1] = e.p BY <1>8
  <2> QED BY <1>11, <2>2, <2>3, OrderGrows
<1>14. AllComes(h, s, w, n, q, Append(o, e), done)
  <2>1. \A x : (\E k \in 1 .. Len(m) : m[k] = <<x, 2>>) => x = p \/ \E k \in 1 .. Len(n) : n[k] = <<x, 2>> BY <1>6
  <2>2. SecondsLeft(m, n, e.p) BY <1>8, <2>1 DEF SecondsLeft
  <2>3. (r = <<>> \/ r[1] = e.p) /\ Sending(e, q) BY <1>8 DEF Sending
  <2> QED BY <1>11, <2>2, <2>3, ComesGrow
<1> QED BY <1>12, <1>13, <1>14 DEF OutOk, n

LEMMA OutNext ==
  ASSUME NEW h \in Histories, NEW s \in Stores, NEW w, WordsOk(h, s, w), NEW m, NEW r, MetadataOk(h, s, w, m, r),
         r # <<>>, r[2] = 1 => m # <<>>, NEW o, NEW done, OutOk(h, s, w, m, r, o, done), NEW g, NEW a, NextOk(s, r, o, g, a),
         NEW e \in OutWord, e.p = r[1], e.i = r[2] + 1, e.last <=> r[2] + 1 = Leaves(h, r[1]),
         NEW n, n = (IF r[2] = 1 THEN Tail(m) ELSE m),
         NEW q, q = (IF e.last THEN <<>> ELSE <<r[1], r[2] + 1>>)
  PROVE  OutOk(h, s, w, n, q, Append(o, e), done) /\ NextOk(s, q, Append(o, e), g, a)
<1> DEFINE p == r[1]
           i == r[2] + 1
<1>1. /\ r \in Nat \X Nat /\ p \in Mine(h, s) /\ p \in Nat /\ r[2] \in Nat /\ r[2] >= 1 /\ r[2] < Leaves(h, p) /\ p \in 1 .. Len(h)
      /\ \A k \in 1 .. Len(m) : m[k][1] \in Nat
      /\ Len(m) \in Nat
  BY MetadataIs DEF Current
<1>2. Leaves(h, p) \in Nat BY <1>1, PacketIs
<1>3. i \in 1 .. Leaves(h, p) /\ i \in Nat BY <1>1, <1>2
<1>4. \A k \in 1 .. Len(m) : p <= m[k][1]
  <2>1. \A k \in 1 .. Len(m) : p < m[k][1] \/ p = m[k][1] BY DEF MetadataOk, Current
  <2> HIDE DEF p
  <2>2. p \in Nat /\ \A k \in 1 .. Len(m) : m[k][1] \in Nat BY <1>1
  <2>3. \A x, y \in Nat : x < y \/ x = y => x <= y OBVIOUS
  <2> QED BY <2>1, <2>2, <2>3
<1>5. /\ \A k \in 1 .. Len(n) : p <= n[k][1] /\ \E j \in 1 .. Len(m) : m[j] = n[k]
      /\ \A x : (\E k \in 1 .. Len(m) : m[k] = <<x, 2>>) => x = p \/ \E k \in 1 .. Len(n) : n[k] = <<x, 2>>
  <2>1. CASE r[2] = 1
    <3>1. n = Tail(m) /\ m # <<>> BY <2>1
    <3>2. RestIs(h, s, w, m, n) BY <3>1, MetadataTail
    <3>3. \A k \in 1 .. Len(n) : n[k] = m[k + 1] /\ k + 1 \in 1 .. Len(m) BY <3>2 DEF RestIs
    <3>4. m[1] = <<p, 2>> BY <2>1, <3>1 DEF MetadataOk, Current
    <3>5. ASSUME NEW x, NEW k \in 1 .. Len(m), m[k] = <<x, 2>>, x # p PROVE \E j \in 1 .. Len(n) : n[j] = <<x, 2>>
      <4>1. k # 1 BY <3>4, <3>5
      <4>2. k - 1 \in 1 .. Len(n) /\ (k - 1) + 1 = k BY <4>1, <3>2 DEF RestIs
      <4>3. n[k - 1] = m[k] BY <4>2, <3>3
      <4> QED BY <4>2, <4>3, <3>5
    <3>6. \A k \in 1 .. Len(n) : p <= n[k][1] /\ \E j \in 1 .. Len(m) : m[j] = n[k] BY <3>3, <1>4
    <3> QED BY <3>5, <3>6
  <2>2. CASE r[2] # 1
    <3>1. n = m BY <2>2
    <3> QED BY <3>1, <1>4
  <2> QED BY <2>1, <2>2
<1>6. e.p = p /\ e.i = i /\ (e.last <=> i = Leaves(h, p)) /\ q = (IF e.last THEN <<>> ELSE <<p, i>>) OBVIOUS
<1>7. (~e.last => q # <<>> /\ q[1] = p) /\ (q # <<>> => q[1] = p) BY <1>6
<1>8. \A j \in 1 .. Len(w) : p <= w[j].p BY Behind
<1>9. \A k \in 1 .. Len(o) : o[k].p <= p BY DEF OutOk, InOrder
<1>10. SentOk(h, s, q, Append(o, e)) /\ NextOk(s, q, Append(o, e), g, a)
  <2>1. IF r = <<>> THEN i = 1 ELSE p = r[1] /\ i = r[2] + 1 OBVIOUS
  <2>2. SentOk(h, s, r, o) BY DEF OutOk
  <2> HIDE DEF p, i
  <2> QED BY <1>1, <1>3, <1>6, <2>1, <2>2, SentGrow
<1>11. InOrder(w, n, q, Append(o, e))
  <2>1. SentOk(h, s, r, o) /\ InOrder(w, m, r, o) BY DEF OutOk
  <2>2. p \in Nat /\ (q # <<>> => q[1] = p) /\ e.p = p BY <1>1, <1>6, <1>7
  <2>3. \A k \in 1 .. Len(n) : p <= n[k][1] /\ \E j \in 1 .. Len(m) : m[j] = n[k] BY <1>5
  <2> HIDE DEF p, i
  <2>4. Left(m, n, e.p) /\ UpTo(o, e.p) /\ From(w, e.p) BY <1>8, <1>9, <2>2, <2>3 DEF Left, UpTo, From
  <2>5. q = <<>> \/ q[1] = e.p BY <2>2
  <2> QED BY <2>1, <2>4, <2>5, OrderGrows
<1>12. AllComes(h, s, w, n, q, Append(o, e), done)
  <2>1. SentOk(h, s, r, o) /\ AllComes(h, s, w, m, r, o, done) BY DEF OutOk
  <2>2. (r # <<>> => r[1] = p) /\ e.p = p /\ (~e.last => q # <<>> /\ q[1] = p) BY <1>6, <1>7
  <2>3. \A x : (\E k \in 1 .. Len(m) : m[k] = <<x, 2>>) => x = p \/ \E k \in 1 .. Len(n) : n[k] = <<x, 2>> BY <1>5
  <2> HIDE DEF p, i
  <2>4. SecondsLeft(m, n, e.p) BY <2>2, <2>3 DEF SecondsLeft
  <2>5. (r = <<>> \/ r[1] = e.p) /\ Sending(e, q) BY <2>2 DEF Sending
  <2> QED BY <2>1, <2>4, <2>5, ComesGrow
<1> QED BY <1>10, <1>11, <1>12 DEF OutOk

(* demux takes a word away; with the first two of a packet, metadata comes. *)
LEMMA OutDemux ==
  ASSUME NEW h \in Histories, NEW s \in Stores, NEW w, WordsOk(h, s, w), w # <<>>, NEW m \in Seq(Nat \X Nat), NEW r, NEW o, NEW done,
         OutOk(h, s, w, m, r, o, done),
         NEW n, n = (IF w[1].i <= 2 THEN Append(m, <<w[1].p, w[1].i>>) ELSE m)
  PROVE  OutOk(h, s, Tail(w), n, r, o, done)
<1> DEFINE z == Tail(w)
           e == <<w[1].p, w[1].i>>
           pairs == Nat \X Nat
<1>1. /\ w \in Seq(Word) /\ Len(w) \in Nat /\ Len(w) > 0 /\ Len(z) = Len(w) - 1
      /\ \A k \in 1 .. Len(w) - 1 : z[k] = w[k + 1]
  BY TailIs DEF WordsOk
<1>2. 1 \in 1 .. Len(w) /\ w[1] \in Word BY <1>1, ElementIs
<1>3. w[1].p \in Nat /\ w[1].i \in Nat /\ e \in pairs /\ e[1] = w[1].p BY <1>2 DEF Word
<1>4. m \in Seq(pairs) OBVIOUS
<1> HIDE DEF pairs, e, z
<1>5. /\ Len(m) \in Nat /\ Len(Append(m, e)) = Len(m) + 1 /\ Append(m, e)[Len(m) + 1] = e
      /\ \A k \in 1 .. Len(m) : Append(m, e)[k] = m[k]
  BY <1>3, <1>4, AppendIs
<1>6. n = (IF w[1].i <= 2 THEN Append(m, e) ELSE m) BY DEF e
<1>n. /\ \A k \in 1 .. Len(n) : (k \in 1 .. Len(m) /\ n[k] = m[k]) \/ n[k] = e
      /\ \A k \in 1 .. Len(m) : k \in 1 .. Len(n) /\ n[k] = m[k]
      /\ w[1].i <= 2 => Len(m) + 1 \in 1 .. Len(n) /\ n[Len(m) + 1] = e
  <2>1. CASE w[1].i <= 2
    <3> DEFINE y == Append(m, e)
    <3>1. n = y BY <2>1, <1>6
    <3>2. Len(m) \in Nat /\ Len(y) = Len(m) + 1 /\ y[Len(m) + 1] = e /\ \A k \in 1 .. Len(m) : y[k] = m[k] BY <1>5
    <3> HIDE DEF y
    <3>3. \A k \in 1 .. Len(y) : (k \in 1 .. Len(m) /\ y[k] = m[k]) \/ y[k] = e BY <3>2
    <3>4. \A k \in 1 .. Len(m) : k \in 1 .. Len(y) /\ y[k] = m[k] BY <3>2
    <3>5. Len(m) + 1 \in 1 .. Len(y) /\ y[Len(m) + 1] = e BY <3>2
    <3> QED BY <3>1, <3>3, <3>4, <3>5
  <2>2. CASE ~(w[1].i <= 2)
    <3>1. n = m BY <2>2, <1>6
    <3> QED BY <3>1, <2>2
  <2> QED BY <2>1, <2>2
<1>7. \A k \in 1 .. Len(n) : (k \in 1 .. Len(m) /\ n[k] = m[k]) \/ n[k] = e BY <1>n
<1>8. \A k \in 1 .. Len(m) : k \in 1 .. Len(n) /\ n[k] = m[k] BY <1>n
<1>9. w[1].i <= 2 => Len(m) + 1 \in 1 .. Len(n) /\ n[Len(m) + 1] = e BY <1>n
<1>10. \A k \in 1 .. Len(z) : z[k] = w[k + 1] /\ k + 1 \in 1 .. Len(w)
  <2>1. \A k \in 1 .. Len(z) : k \in 1 .. Len(w) - 1 /\ k + 1 \in 1 .. Len(w) BY <1>1
  <2> QED BY <2>1, <1>1
<1>11. InOrder(z, n, r, o)
  <2>1. InOrder(w, m, r, o) BY DEF OutOk
  <2>2. ASSUME NEW k \in 1 .. Len(o) PROVE (\A j \in 1 .. Len(n) : o[k].p <= n[j][1]) /\ \A j \in 1 .. Len(z) : o[k].p <= z[j].p
    <3>1. o[k].p <= w[1].p BY <2>1, <1>2 DEF InOrder
    <3>2. \A j \in 1 .. Len(n) : o[k].p <= n[j][1] BY <2>1, <3>1, <1>3, <1>7 DEF InOrder
    <3>3. \A j \in 1 .. Len(z) : o[k].p <= z[j].p BY <2>1, <1>10 DEF InOrder
    <3> QED BY <3>2, <3>3
  <2> QED BY <2>1, <2>2 DEF InOrder
<1>12. AllComes(h, s, z, n, r, o, done)
  <2> SUFFICES ASSUME NEW q \in Mine(h, s), q \notin done PROVE UnderWay(z, n, r, o, q) BY DEF AllComes
  <2>1. UnderWay(w, m, r, o, q) BY DEF OutOk, AllComes
  <2>2. CASE \E k \in 1 .. Len(w) : w[k].p = q /\ w[k].i = 2
    <3>1. PICK k \in 1 .. Len(w) : w[k].p = q /\ w[k].i = 2 BY <2>2
    <3>2. CASE k = 1
      <4>1. e = <<q, 2>> /\ w[1].i <= 2 BY <3>1, <3>2 DEF e
      <4> QED BY <4>1, <1>9 DEF UnderWay
    <3>3. CASE k # 1
      <4>1. k - 1 \in 1 .. Len(z) /\ (k - 1) + 1 = k BY <3>3, <1>1
      <4>2. z[k - 1] = w[k] BY <4>1, <1>10
      <4> QED BY <4>1, <4>2, <3>1 DEF UnderWay
    <3> QED BY <3>2, <3>3
  <2>3. CASE \E k \in 1 .. Len(m) : m[k] = <<q, 2>>
    <3>1. \E k \in 1 .. Len(n) : n[k] = <<q, 2>> BY <2>3, <1>8
    <3> QED BY <3>1 DEF UnderWay
  <2>4. CASE (r # <<>> /\ r[1] = q) \/ \E k \in 1 .. Len(o) : o[k].p = q /\ o[k].last BY <2>4 DEF UnderWay
  <2> QED BY <2>1, <2>2, <2>3, <2>4 DEF UnderWay
<1> QED BY <1>11, <1>12 DEF OutOk, z

(* The table sends a packet. *)
LEMMA OutGrows ==
  ASSUME NEW h \in Histories, NEW x \in Packet, NEW s \in Stores, NEW w \in Seq(Word), NEW m, NEW r, NEW o, NEW done,
         OutOk(h, s, w, m, r, o, done),
         NEW z, z = (IF x.store = s THEN w \o WordsOf(Len(h) + 1, Comes(Append(h, x), Len(h) + 1)) ELSE w)
  PROVE  OutOk(Append(h, x), s, z, m, r, o, done)
<1> DEFINE g == Append(h, x)
           p == Len(h) + 1
           c == Comes(g, p)
           u == WordsOf(p, c)
<1>1. /\ g \in Histories /\ Len(h) \in Nat /\ Len(g) = Len(h) + 1 /\ g[p] = x
      /\ \A q \in 1 .. Len(h) : g[q] = h[q] /\ Leaves(g, q) = Leaves(h, q)
      /\ Mine(h, s) \subseteq Mine(g, s) /\ Mine(h, s) \subseteq 1 .. Len(h)
  BY HistoryGrows
<1> HIDE DEF g
<1>2. \A q \in Mine(g, s) : q \in Mine(h, s) \/ (q = p /\ x.store = s)
  <2> TAKE q \in Mine(g, s)
  <2>1. q \in 1 .. Len(g) /\ g[q].store = s BY DEF Mine
  <2>2. q \in 1 .. Len(h) \/ q = p BY <2>1, <1>1
  <2> QED BY <2>1, <2>2, <1>1 DEF Mine
<1>3. p \in Nat /\ p \in 1 .. Len(g) BY <1>1
<1> HIDE DEF p
<1>4. c \in Nat /\ c >= 2 BY <1>1, <1>3, PacketIs
<1> HIDE DEF c
<1>5. u \in Seq(Word) /\ Len(u) = c /\ \A i \in 1 .. c : u[i].p = p /\ u[i].i = i BY <1>3, <1>4, WordsOfIs
<1> HIDE DEF u
<1>6. z = (IF x.store = s THEN w \o u ELSE w) BY DEF u, c, p, g
<1>7. /\ Len(w) \in Nat /\ Len(w \o u) = Len(w) + c
      /\ \A k \in 1 .. Len(w) : (w \o u)[k] = w[k]
      /\ \A k \in 1 .. c : (w \o u)[Len(w) + k] = u[k]
  <2>1. u \in Seq(Word) BY <1>5
  <2>2. /\ Len(w) \in Nat /\ Len(w \o u) = Len(w) + Len(u)
        /\ \A k \in 1 .. Len(w) : (w \o u)[k] = w[k]
        /\ \A k \in 1 .. Len(u) : (w \o u)[Len(w) + k] = u[k]
    BY <2>1, ConcatIs
  <2> QED BY <2>2, <1>5
<1>8. \A k \in 1 .. Len(z) : (k \in 1 .. Len(w) /\ z[k] = w[k]) \/ z[k].p = p
  <2> TAKE k \in 1 .. Len(z)
  <2>1. CASE k \in 1 .. Len(w) BY <2>1, <1>6, <1>7
  <2>2. CASE k \notin 1 .. Len(w)
    <3>1. x.store = s BY <2>2, <1>6
    <3>2. k - Len(w) \in 1 .. c /\ Len(w) + (k - Len(w)) = k BY <2>2, <3>1, <1>4, <1>6, <1>7
    <3>3. z[k] = u[k - Len(w)] BY <3>1, <3>2, <1>6, <1>7
    <3> QED BY <3>2, <3>3, <1>5
  <2> QED BY <2>1, <2>2
<1>9. \A k \in 1 .. Len(w) : k \in 1 .. Len(z) /\ z[k] = w[k] BY <1>4, <1>6, <1>7
<1>10. SentOk(h, s, r, o) /\ InOrder(w, m, r, o) /\ AllComes(h, s, w, m, r, o, done) BY DEF OutOk
<1>11. \A k \in 1 .. Len(o) : o[k].p \in 1 .. Len(h) BY <1>10, SentAre
<1>12. SentOk(g, s, r, o)
  <2>1. \A k \in 1 .. Len(o) : o[k].p \in Mine(g, s) /\ Leaves(g, o[k].p) = Leaves(h, o[k].p) BY <1>1, <1>10, <1>11 DEF SentOk
  <2> QED BY <2>1, <1>10 DEF SentOk
<1>13. InOrder(z, m, r, o)
  <2>1. \A k \in 1 .. Len(o), j \in 1 .. Len(z) : o[k].p <= z[j].p
    <3> TAKE k \in 1 .. Len(o), j \in 1 .. Len(z)
    <3>1. o[k].p <= p BY <1>1, <1>11 DEF p
    <3>2. j \in 1 .. Len(w) => o[k].p <= w[j].p BY <1>10 DEF InOrder
    <3> QED BY <3>1, <3>2, <1>8
  <2> QED BY <2>1, <1>10 DEF InOrder
<1>14. AllComes(g, s, z, m, r, o, done)
  <2> SUFFICES ASSUME NEW q \in Mine(g, s), q \notin done PROVE UnderWay(z, m, r, o, q) BY DEF AllComes
  <2>1. CASE q \in Mine(h, s)
    <3>1. UnderWay(w, m, r, o, q) BY <2>1, <1>10 DEF AllComes
    <3>2. (\E k \in 1 .. Len(w) : w[k].p = q /\ w[k].i = 2) => \E k \in 1 .. Len(z) : z[k].p = q /\ z[k].i = 2 BY <1>9
    <3> QED BY <3>1, <3>2 DEF UnderWay
  <2>2. CASE q = p /\ x.store = s
    <3>1. Len(w) + 2 \in 1 .. Len(z) /\ z[Len(w) + 2] = u[2] /\ 2 \in 1 .. c BY <2>2, <1>4, <1>6, <1>7
    <3>2. u[2].p = q /\ u[2].i = 2 BY <2>2, <3>1, <1>5
    <3> QED BY <3>1, <3>2 DEF UnderWay
  <2> QED BY <2>1, <2>2, <1>2
<1> QED BY <1>12, <1>13, <1>14 DEF OutOk, g

(* The merger takes the first word. *)
LEMMA OutTaken ==
  ASSUME NEW h \in Histories, NEW s \in Stores, NEW w, NEW m, NEW r, NEW o, o # <<>>, NEW done, OutOk(h, s, w, m, r, o, done),
         NEW more, done \subseteq more, o[1].last => o[1].p \in more
  PROVE  OutOk(h, s, w, m, r, Tail(o), more)
<1> DEFINE u == Tail(o)
<1>1. SentOk(h, s, r, o) /\ InOrder(w, m, r, o) /\ AllComes(h, s, w, m, r, o, done) BY DEF OutOk
<1>2. o \in Seq(OutWord) BY <1>1, SentAre
<1>3. /\ u \in Seq(OutWord) /\ Len(o) \in Nat /\ Len(o) > 0 /\ Len(u) = Len(o) - 1 /\ \A k \in 1 .. Len(o) - 1 : u[k] = o[k + 1]
  BY <1>2, TailIs
<1> HIDE DEF u
<1>4. \A k \in 1 .. Len(u) : u[k] = o[k + 1] /\ k + 1 \in 1 .. Len(o) BY <1>3
<1>5. SentOk(h, s, r, u)
  <2>1. \A k \in 1 .. Len(u) : u[k].p \in Mine(h, s) /\ u[k].i \in 1 .. Leaves(h, u[k].p) /\ (u[k].last <=> u[k].i = Leaves(h, u[k].p))
    BY <1>1, <1>4 DEF SentOk
  <2>2. \A k \in 1 .. Len(u) - 1 : IF u[k].last THEN u[k + 1].i = 1 ELSE u[k + 1].p = u[k].p /\ u[k + 1].i = u[k].i + 1
    <3> TAKE k \in 1 .. Len(u) - 1
    <3>1. k + 1 \in 1 .. Len(o) - 1 /\ u[k] = o[k + 1] /\ u[k + 1] = o[(k + 1) + 1] BY <1>3, <1>4
    <3> QED BY <3>1, <1>1 DEF SentOk
  <2>3. u # <<>> => IF u[Len(u)].last THEN r = <<>> ELSE r = <<u[Len(u)].p, u[Len(u)].i>>
    <3> SUFFICES ASSUME u # <<>> PROVE IF u[Len(u)].last THEN r = <<>> ELSE r = <<u[Len(u)].p, u[Len(u)].i>> OBVIOUS
    <3>1. Len(u) \in 1 .. Len(u) BY <1>3, NonEmpty
    <3>2. u[Len(u)] = o[Len(o)] BY <3>1, <1>3, <1>4
    <3> QED BY <3>2, <1>1 DEF SentOk
  <2> QED BY <2>1, <2>2, <2>3, <1>3 DEF SentOk
<1>6. InOrder(w, m, r, u)
  <2>1. \A j, k \in 1 .. Len(u) : j < k => u[j].p <= u[k].p
    <3> TAKE j, k \in 1 .. Len(u)
    <3> HAVE j < k
    <3>1. j + 1 < k + 1 BY <1>3
    <3> QED BY <3>1, <1>1, <1>4 DEF InOrder
  <2> QED BY <2>1, <1>1, <1>4 DEF InOrder
<1>7. AllComes(h, s, w, m, r, u, more)
  <2> SUFFICES ASSUME NEW q \in Mine(h, s), q \notin more PROVE UnderWay(w, m, r, u, q) BY DEF AllComes
  <2>1. UnderWay(w, m, r, o, q) BY <1>1 DEF AllComes
  <2>2. CASE \E k \in 1 .. Len(o) : o[k].p = q /\ o[k].last
    <3>1. PICK k \in 1 .. Len(o) : o[k].p = q /\ o[k].last BY <2>2
    <3>2. k # 1 BY <3>1
    <3>3. k - 1 \in 1 .. Len(u) /\ (k - 1) + 1 = k BY <3>2, <1>3
    <3>4. u[k - 1] = o[k] BY <3>3, <1>4
    <3> QED BY <3>1, <3>3, <3>4 DEF UnderWay
  <2> QED BY <2>1, <2>2 DEF UnderWay
<1> QED BY <1>5, <1>6, <1>7 DEF OutOk, u

(* The packet whose word comes next is the first one that is not answered. *)
LEMMA FirstIsOldest ==
  ASSUME NEW h \in Histories, NEW s \in Stores, NEW w, WordsOk(h, s, w), NEW m, NEW r, MetadataOk(h, s, w, m, r),
         NEW o, o # <<>>, NEW done, OutOk(h, s, w, m, r, o, done), NEW q \in Mine(h, s), q < o[1].p
  PROVE  q \in done
<1> SUFFICES ASSUME q \notin done PROVE FALSE OBVIOUS
<1>1. SentOk(h, s, r, o) /\ InOrder(w, m, r, o) /\ UnderWay(w, m, r, o, q) BY DEF OutOk, AllComes
<1>2. Len(o) \in Nat /\ \A k \in 1 .. Len(o) : o[k].p \in Nat BY <1>1, SentAre
<1>3. o \in Seq(OutWord) BY <1>1, SentAre
<1>4. 1 \in 1 .. Len(o) /\ o[1].p \in Nat /\ q \in Nat
  <2>1. 1 \in 1 .. Len(o) BY <1>3, NonEmpty
  <2> QED BY <2>1, <1>2 DEF Mine
<1>5. ~(o[1].p <= q) BY <1>4
<1>6. CASE \E k \in 1 .. Len(w) : w[k].p = q /\ w[k].i = 2 BY <1>1, <1>4, <1>5, <1>6 DEF InOrder
<1>7. CASE \E k \in 1 .. Len(m) : m[k] = <<q, 2>> BY <1>1, <1>4, <1>5, <1>7 DEF InOrder
<1>8. CASE r # <<>> /\ r[1] = q BY <1>1, <1>4, <1>5, <1>8 DEF InOrder
<1>9. CASE \E k \in 1 .. Len(o) : o[k].p = q /\ o[k].last
  <2>1. PICK k \in 1 .. Len(o) : o[k].p = q BY <1>9
  <2>2. k = 1 \/ 1 < k BY <1>2
  <2>3. o[1].p <= o[k].p BY <2>2, <1>1, <1>4 DEF InOrder
  <2> QED BY <2>1, <2>3, <1>5
<1> QED BY <1>1, <1>6, <1>7, <1>8, <1>9 DEF UnderWay

LEMMA NextAfter ==
  ASSUME NEW h \in Histories, NEW s \in Stores, NEW w, NEW m, NEW r, NEW o, o # <<>>, NEW done, OutOk(h, s, w, m, r, o, done),
         NEW g, g = (IF o[1].last THEN "none" ELSE s), NEW a, a[Len(a)] = o[1]
  PROVE  NextOk(s, r, Tail(o), g, a)
<1> DEFINE u == Tail(o)
<1>1. SentOk(h, s, r, o) BY DEF OutOk
<1>2. o \in Seq(OutWord) BY <1>1, SentAre
<1>3. /\ u \in Seq(OutWord) /\ Len(o) \in Nat /\ Len(o) > 0 /\ Len(u) = Len(o) - 1 /\ \A k \in 1 .. Len(o) - 1 : u[k] = o[k + 1]
  BY <1>2, TailIs
<1>4. g = s <=> ~o[1].last BY DEF Stores
<1> HIDE DEF u
<1>5. CASE u # <<>>
  <2>1. 1 \in 1 .. Len(o) - 1 BY <1>3, <1>5, EmptyIs
  <2>2. u[1] = o[2] /\ (IF o[1].last THEN o[2].i = 1 ELSE o[2].p = o[1].p /\ o[2].i = o[1].i + 1) BY <2>1, <1>1, <1>3 DEF SentOk
  <2> QED BY <2>2, <1>4, <1>5 DEF NextOk, u
<1>6. CASE u = <<>>
  <2>1. Len(o) = 1 BY <1>3, <1>6
  <2>2. IF o[1].last THEN r = <<>> ELSE r = <<o[1].p, o[1].i>> BY <2>1, <1>1 DEF SentOk
  <2> QED BY <2>2, <1>4, <1>6 DEF NextOk, u
<1> QED BY <1>5, <1>6

----------------------------------------------------------------------------
(* The answer that the merger sends.                                       *)

(* Its words so far, a, are all of one packet, whose store, g, the merger keeps to until the last; *)
(* all packets of the store in front of it have left.                                              *)
AnswerOk(h, g, a, done) ==
  /\ a \in Seq(OutWord) /\ g \in Stores \cup {"none"}
  /\ a # <<>> => /\ \A k \in 1 .. Len(a) : a[k].p = a[1].p /\ a[k].i = k /\ (a[k].last <=> k = Leaves(h, a[1].p))
                 /\ a[1].p \in 1 .. Len(h)
                 /\ \A q \in 1 .. a[1].p - 1 : h[q].store = h[a[1].p].store => q \in done
  /\ g \in Stores => a # <<>> /\ ~a[Len(a)].last /\ h[a[1].p].store = g

LEMMA AnswerGrows ==
  ASSUME NEW h \in Histories, NEW x \in Packet, NEW g, NEW a, NEW done, AnswerOk(h, g, a, done)
  PROVE  AnswerOk(Append(h, x), g, a, done)
<1> DEFINE z == Append(h, x)
<1>0. "dram" \in Stores BY DEF Stores
<1>1. Len(h) \in Nat /\ Len(z) = Len(h) + 1 /\ \A q \in 1 .. Len(h) : z[q] = h[q] /\ Leaves(z, q) = Leaves(h, q)
  BY <1>0, HistoryGrows
<1> HIDE DEF z
<1>2. CASE a = <<>> BY <1>2 DEF AnswerOk, z
<1>3. CASE a # <<>>
  <2>1. a[1].p \in 1 .. Len(h) BY <1>3 DEF AnswerOk
  <2>2. a[1].p \in 1 .. Len(z) /\ z[a[1].p] = h[a[1].p] /\ Leaves(z, a[1].p) = Leaves(h, a[1].p) BY <2>1, <1>1
  <2>3. \A q \in 1 .. a[1].p - 1 : z[q] = h[q] BY <2>1, <1>1
  <2>4. AnswerOk(z, g, a, done) BY <1>3, <2>2, <2>3 DEF AnswerOk
  <2> QED BY <2>4 DEF z
<1> QED BY <1>2, <1>3

LEMMA AnswerStarts ==
  ASSUME NEW h, NEW s \in Stores, NEW e \in OutWord, e.i = 1, e.p \in Mine(h, s), e.last <=> 1 = Leaves(h, e.p),
         NEW done, \A q \in Mine(h, s) : q < e.p => q \in done, NEW more, done \subseteq more,
         NEW g, g = (IF e.last THEN "none" ELSE s)
  PROVE  AnswerOk(h, g, <<e>>, more)
<1> DEFINE a == <<e>>
<1>1. a \in Seq(OutWord) /\ Len(a) = 1 /\ a[1] = e /\ a # <<>> OBVIOUS
<1> HIDE DEF a
<1>2. \A k \in 1 .. Len(a) : a[k].p = a[1].p /\ a[k].i = k /\ (a[k].last <=> k = Leaves(h, a[1].p))
  <2>1. \A k \in 1 .. Len(a) : k = 1 BY <1>1
  <2> QED BY <2>1, <1>1
<1>3. e.p \in 1 .. Len(h) /\ h[e.p].store = s /\ e.p \in Nat BY DEF Mine, OutWord
<1>4. \A q \in 1 .. e.p - 1 : h[q].store = h[e.p].store => q \in more
  <2> TAKE q \in 1 .. e.p - 1
  <2> HAVE h[q].store = h[e.p].store
  <2>1. q < e.p /\ q \in 1 .. Len(h) BY <1>3
  <2>2. q \in Mine(h, s) BY <2>1, <1>3 DEF Mine
  <2> QED BY <2>1, <2>2
<1>5. g \in Stores \cup {"none"} /\ (g \in Stores => ~e.last /\ g = s) BY DEF Stores
<1>6. AnswerOk(h, g, a, more) BY <1>1, <1>2, <1>3, <1>4, <1>5 DEF AnswerOk
<1> QED BY <1>6 DEF a

LEMMA AnswerGoesOn ==
  ASSUME NEW h, NEW s \in Stores, NEW a, NEW done, AnswerOk(h, s, a, done),
         NEW e \in OutWord, e.p = a[Len(a)].p, e.i = a[Len(a)].i + 1, e.last <=> e.i = Leaves(h, e.p),
         NEW more, done \subseteq more, NEW g, g = (IF e.last THEN "none" ELSE s)
  PROVE  AnswerOk(h, g, Append(a, e), more)
<1> DEFINE u == Append(a, e)
<1>1. a \in Seq(OutWord) /\ a # <<>> /\ h[a[1].p].store = s BY DEF AnswerOk
<1>2. Len(a) \in Nat /\ 1 \in 1 .. Len(a) /\ Len(a) \in 1 .. Len(a)
  <2>1. 1 \in 1 .. Len(a) BY <1>1, NonEmpty
  <2>2. Len(a) \in Nat BY <1>1, EmptyIs
  <2> QED BY <2>1, <2>2
<1>3. /\ u \in Seq(OutWord) /\ u # <<>> /\ Len(u) = Len(a) + 1 /\ u[Len(a) + 1] = e /\ \A k \in 1 .. Len(a) : u[k] = a[k]
  BY <1>1, AppendIs
<1> HIDE DEF u
<1>4. u[1] = a[1] /\ u[Len(u)] = e BY <1>2, <1>3
<1>5. e.p = a[1].p /\ e.i = Len(a) + 1 BY <1>1, <1>2 DEF AnswerOk
<1>6. \A k \in 1 .. Len(u) : u[k].p = u[1].p /\ u[k].i = k /\ (u[k].last <=> k = Leaves(h, u[1].p))
  <2> TAKE k \in 1 .. Len(u)
  <2>1. CASE k \in 1 .. Len(a)
    <3>1. a[k].p = a[1].p /\ a[k].i = k /\ (a[k].last <=> k = Leaves(h, a[1].p)) BY <2>1, <1>1 DEF AnswerOk
    <3>2. u[k] = a[k] BY <2>1, <1>3
    <3> QED BY <3>1, <3>2, <1>4
  <2>2. CASE k \notin 1 .. Len(a)
    <3>1. k = Len(a) + 1 BY <2>2, <1>2, <1>3
    <3> QED BY <3>1, <1>3, <1>4, <1>5
  <2> QED BY <2>1, <2>2
<1>7. u[1].p \in 1 .. Len(h) /\ \A q \in 1 .. u[1].p - 1 : h[q].store = h[u[1].p].store => q \in more
  BY <1>1, <1>4 DEF AnswerOk
<1>8. g \in Stores \cup {"none"} /\ (g \in Stores => ~e.last /\ g = s) BY DEF Stores
<1>9. AnswerOk(h, g, u, more) BY <1>1, <1>3, <1>4, <1>6, <1>7, <1>8 DEF AnswerOk
<1> QED BY <1>9 DEF u

----------------------------------------------------------------------------
(* Of the state.                                                           *)

StoreAnswers(s) ==
  /\ OutOk(history, s, Words(s), metadataBuffer[s], remuxPos[s], outData[s], answered)
  /\ NextOk(s, remuxPos[s], outData[s], merging, answer)
AnswersInv == AnswerOk(history, merging, answer, answered) /\ \A s \in Stores : StoreAnswers(s)

LEMMA StoreAnswersStay ==
  ASSUME NEW s \in Stores, StoreAnswers(s), AnswersKept(s), UNCHANGED <<history, merging, answer, answered>>
  PROVE  StoreAnswers(s)'
BY DEF StoreAnswers, AnswersKept

LEMMA AnswersStay ==
  ASSUME AnswersInv, \A s \in Stores : AnswersKept(s), UNCHANGED <<history, merging, answer, answered>>
  PROVE  AnswersInv'
<1>1. \A s \in Stores : StoreAnswers(s)' BY StoreAnswersStay DEF AnswersInv
<1>2. AnswerOk(history, merging, answer, answered)' BY DEF AnswersInv
<1> QED BY <1>1, <1>2 DEF AnswersInv

(* A step of one store. *)
LEMMA OneStoreAnswers ==
  ASSUME AnswersInv, NEW s \in Stores, StoreAnswers(s)', \A t \in Stores : t # s => AnswersKept(t),
         UNCHANGED <<history, merging, answer, answered>>
  PROVE  AnswersInv'
<1>1. \A t \in Stores : StoreAnswers(t)'
  <2>1. \A t \in Stores : t # s => StoreAnswers(t)' BY StoreAnswersStay DEF AnswersInv
  <2> QED BY <2>1
<1>2. AnswerOk(history, merging, answer, answered)' BY DEF AnswersInv
<1> QED BY <1>1, <1>2 DEF AnswersInv

LEMMA DemuxAnswers ==
  ASSUME ValuesInv, AnswersInv, NEW s \in Stores, TakesWord(s), \A t \in Stores : t # s => AnswersKept(t),
         UNCHANGED <<history, merging, answer, answered>>
  PROVE  AnswersInv'
<1> DEFINE w == Words(s)
           m == metadataBuffer[s]
<1>1. history \in Histories /\ WordsOk(history, s, w) /\ MetadataOk(history, s, w, m, remuxPos[s])
  BY DEF ValuesInv, TypesOk, InTypes, StoresOk, StoreOk
<1>2. m \in Seq(Nat \X Nat) BY <1>1 DEF MetadataOk
<1>3. OutOk(history, s, w, m, remuxPos[s], outData[s], answered) /\ NextOk(s, remuxPos[s], outData[s], merging, answer)
  BY DEF AnswersInv, StoreAnswers
<1>4. /\ w # <<>> /\ Words(s)' = Tail(w) /\ remuxPos'[s] = remuxPos[s] /\ outData'[s] = outData[s]
      /\ metadataBuffer'[s] = (IF w[1].i <= 2 THEN Append(m, <<w[1].p, w[1].i>>) ELSE m)
  BY DEF TakesWord
<1> HIDE DEF w, m
<1>5. \A n : n = (IF w[1].i <= 2 THEN Append(m, <<w[1].p, w[1].i>>) ELSE m) =>
        OutOk(history, s, Tail(w), n, remuxPos[s], outData[s], answered)
  BY <1>1, <1>2, <1>3, <1>4, OutDemux
<1>6. StoreAnswers(s)' BY <1>3, <1>4, <1>5 DEF StoreAnswers
<1> QED BY <1>6, OneStoreAnswers

LEMMA FirstAnswers ==
  ASSUME ValuesInv, AnswersInv, NEW s \in Stores, SendsFirst(s), \A t \in Stores : t # s => AnswersKept(t),
         UNCHANGED <<history, merging, answer, answered>>
  PROVE  AnswersInv'
<1> DEFINE w == Words(s)
           m == metadataBuffer[s]
           r == remuxPos[s]
           o == outData[s]
<1>1. history \in Histories /\ WordsOk(history, s, w) /\ MetadataOk(history, s, w, m, r)
  BY DEF ValuesInv, TypesOk, InTypes, StoresOk, StoreOk
<1>2. OutOk(history, s, w, m, r, o, answered) /\ NextOk(s, r, o, merging, answer)
  BY DEF AnswersInv, StoreAnswers
<1>3. PICK e \in OutWord : e.p = m[1][1] /\ e.i = 1 /\ ~e.last /\ outData'[s] = Append(o, e) BY DEF SendsFirst
<1>4. r = <<>> /\ m # <<>> /\ Words(s)' = w /\ metadataBuffer'[s] = Tail(m) /\ remuxPos'[s] = <<m[1][1], 1>> BY DEF SendsFirst
<1> HIDE DEF w, m, r, o
<1>5. \A q : q = <<m[1][1], 1>> =>
        OutOk(history, s, w, Tail(m), q, Append(o, e), answered) /\ NextOk(s, q, Append(o, e), merging, answer)
  BY <1>1, <1>2, <1>3, <1>4, OutFirst
<1>6. StoreAnswers(s)' BY <1>3, <1>4, <1>5 DEF StoreAnswers
<1> QED BY <1>6, OneStoreAnswers

LEMMA NextAnswers ==
  ASSUME ValuesInv, AnswersInv, NEW s \in Stores, SendsNext(s), \A t \in Stores : t # s => AnswersKept(t),
         UNCHANGED <<history, merging, answer, answered>>
  PROVE  AnswersInv'
<1> DEFINE w == Words(s)
           m == metadataBuffer[s]
           r == remuxPos[s]
           o == outData[s]
<1>1. history \in Histories /\ WordsOk(history, s, w) /\ MetadataOk(history, s, w, m, r)
  BY DEF ValuesInv, TypesOk, InTypes, StoresOk, StoreOk
<1>2. OutOk(history, s, w, m, r, o, answered) /\ NextOk(s, r, o, merging, answer)
  BY DEF AnswersInv, StoreAnswers
<1>3. PICK e \in OutWord : /\ e.p = r[1] /\ e.i = r[2] + 1 /\ (e.last <=> r[2] + 1 = Leaves(history, r[1]))
                           /\ outData'[s] = Append(o, e) /\ remuxPos'[s] = (IF e.last THEN <<>> ELSE <<r[1], r[2] + 1>>)
  BY DEF SendsNext
<1>4. /\ r # <<>> /\ (r[2] = 1 => m # <<>>) /\ Words(s)' = w
      /\ metadataBuffer'[s] = (IF r[2] = 1 THEN Tail(m) ELSE m)
  BY DEF SendsNext
<1> HIDE DEF w, m, r, o
<1>5. \A n : n = (IF r[2] = 1 THEN Tail(m) ELSE m) =>
        \A q : q = (IF e.last THEN <<>> ELSE <<r[1], r[2] + 1>>) =>
          OutOk(history, s, w, n, q, Append(o, e), answered) /\ NextOk(s, q, Append(o, e), merging, answer)
  BY <1>1, <1>2, <1>3, <1>4, OutNext
<1>6. StoreAnswers(s)' BY <1>3, <1>4, <1>5 DEF StoreAnswers
<1> QED BY <1>6, OneStoreAnswers

LEMMA SendsAnswers ==
  ASSUME ValuesInv, AnswersInv, NEW x \in Packet, history' = Append(history, x), \A s \in Stores : WordsAdded(s, x),
         UNCHANGED <<storeVars, merging, answer, answered>>
  PROVE  AnswersInv'
<1>1. history \in Histories BY DEF ValuesInv, TypesOk, InTypes
<1>2. AnswerOk(history, merging, answer, answered)' BY <1>1, AnswerGrows DEF AnswersInv
<1>3. UNCHANGED <<metadataBuffer, remuxPos, outData>> BY DEF storeVars, remuxVars
<1>4. ASSUME NEW s \in Stores PROVE StoreAnswers(s)'
  <2> DEFINE w == Words(s)
             z == IF x.store = s THEN w \o WordsOf(Len(history) + 1, Comes(Append(history, x), Len(history) + 1)) ELSE w
  <2>1. w \in Seq(Word) BY SplitIs DEF ValuesInv
  <2>2. OutOk(history, s, w, metadataBuffer[s], remuxPos[s], outData[s], answered) /\ NextOk(s, remuxPos[s], outData[s], merging, answer)
    BY DEF AnswersInv, StoreAnswers
  <2>3. Words(s)' = z BY DEF WordsAdded
  <2> HIDE DEF w
  <2>4. OutOk(Append(history, x), s, z, metadataBuffer[s], remuxPos[s], outData[s], answered) BY <1>1, <2>1, <2>2, OutGrows
  <2> HIDE DEF z
  <2> QED BY <1>3, <2>2, <2>3, <2>4 DEF StoreAnswers
<1> QED BY <1>2, <1>4 DEF AnswersInv

(* Another store, when the merger takes a word from one. *)
LEMMA OtherAnswers ==
  ASSUME NEW h, NEW s, NEW w, NEW m, NEW r, NEW o, NEW done, OutOk(h, s, w, m, r, o, done), NEW more, done \subseteq more,
         NEW g, NEW a, NextOk(s, r, o, g, a), g # s, NEW f, f # s, NEW b
  PROVE  OutOk(h, s, w, m, r, o, more) /\ NextOk(s, r, o, f, b)
BY DEF OutOk, AllComes, NextOk

LEMMA MergerAnswers ==
  ASSUME ValuesInv, AnswersInv, NEW s \in Stores, Merger(s)
  PROVE  AnswersInv'
<1> DEFINE o == outData[s]
           e == o[1]
           h == history
           more == IF e.last THEN answered \cup {e.p} ELSE answered
           g == IF e.last THEN "none" ELSE s
<1>1. h \in Histories /\ WordsOk(h, s, Words(s)) /\ MetadataOk(h, s, Words(s), metadataBuffer[s], remuxPos[s])
  BY DEF ValuesInv, TypesOk, InTypes, StoresOk, StoreOk
<1>2. /\ OutOk(h, s, Words(s), metadataBuffer[s], remuxPos[s], o, answered) /\ NextOk(s, remuxPos[s], o, merging, answer)
      /\ AnswerOk(h, merging, answer, answered)
  BY DEF AnswersInv, StoreAnswers
<1>3. outData \in [Stores -> Seq(OutWord)] /\ o \in Seq(OutWord) BY DEF ValuesInv, TypesOk, GetTypes
<1>4. o # <<>> /\ outData' = Drop(outData, s) /\ (merging = s \/ merging = "none") BY DEF Merger, MayMerge
<1>5. Head(o) = e /\ e \in OutWord BY <1>3, <1>4, TailIs
<1>6. /\ merging' = g /\ answered' = more /\ answer' = (IF merging = "none" THEN <<e>> ELSE Append(answer, e))
      /\ history' = h
  BY <1>5 DEF Merger
<1>7. outData'[s] = Tail(o) /\ \A t \in Stores : t # s => outData'[t] = outData[t] BY <1>3, <1>4 DEF Drop
<1>8. \A t \in Stores : Words(t)' = Words(t) /\ metadataBuffer'[t] = metadataBuffer[t] /\ remuxPos'[t] = remuxPos[t]
  BY DEF Merger, Words, Split, remuxVars
<1>9. s # "none" BY DEF Stores
<1>10. answered \subseteq more /\ (e.last => e.p \in more) /\ (g = s \/ g = "none") OBVIOUS
<1> HIDE DEF o, h, more, g, e
<1>11. e = o[1] BY DEF e
<1>12. SentOk(h, s, remuxPos[s], o) BY <1>2 DEF OutOk
<1>13. e.p \in Mine(h, s) /\ (e.last <=> e.i = Leaves(h, e.p))
  <2>1. 1 \in 1 .. Len(o) BY <1>3, <1>4, NonEmpty
  <2> QED BY <2>1, <1>11, <1>12 DEF SentOk
<1>14. AnswerOk(h, g, answer', more) /\ answer'[Len(answer')] = e
  <2>1. CASE merging = "none"
    <3>1. answer' = <<e>> /\ e.i = 1 BY <2>1, <1>2, <1>4, <1>6, <1>9, <1>11 DEF NextOk
    <3>2. \A q \in Mine(h, s) : q < e.p => q \in answered BY <1>1, <1>2, <1>4, <1>11, FirstIsOldest
    <3>3. e.last <=> 1 = Leaves(h, e.p) BY <3>1, <1>13
    <3>4. \A x : x = (IF e.last THEN "none" ELSE s) => AnswerOk(h, x, <<e>>, more)
      BY <3>1, <3>2, <3>3, <1>5, <1>10, <1>13, AnswerStarts
    <3>5. AnswerOk(h, g, <<e>>, more) BY <3>4 DEF g
    <3> QED BY <3>1, <3>5
  <2>2. CASE merging # "none"
    <3>1. merging = s /\ answer' = Append(answer, e) BY <2>2, <1>4, <1>6
    <3>2. e.p = answer[Len(answer)].p /\ e.i = answer[Len(answer)].i + 1 BY <3>1, <1>2, <1>4, <1>11 DEF NextOk
    <3>3. AnswerOk(h, s, answer, answered) BY <3>1, <1>2
    <3>4. \A x : x = (IF e.last THEN "none" ELSE s) => AnswerOk(h, x, Append(answer, e), more)
      BY <3>2, <3>3, <1>5, <1>10, <1>13, AnswerGoesOn
    <3>5. AnswerOk(h, g, Append(answer, e), more) BY <3>4 DEF g
    <3>6. answer \in Seq(OutWord) BY <3>3 DEF AnswerOk
    <3>7. Append(answer, e)[Len(Append(answer, e))] = e
      <4>1. Len(Append(answer, e)) = Len(answer) + 1 /\ Append(answer, e)[Len(answer) + 1] = e BY <3>6, <1>5, AppendIs
      <4> QED BY <4>1
    <3> QED BY <3>1, <3>5, <3>7
  <2> QED BY <2>1, <2>2
<1>15. StoreAnswers(s)'
  <2>1. OutOk(h, s, Words(s), metadataBuffer[s], remuxPos[s], Tail(o), more)
    BY <1>1, <1>2, <1>4, <1>10, <1>11, OutTaken
  <2>2. \A x : x = (IF o[1].last THEN "none" ELSE s) =>
          \A a : a[Len(a)] = o[1] => NextOk(s, remuxPos[s], Tail(o), x, a)
    BY <1>1, <1>2, <1>4, NextAfter
  <2>3. NextOk(s, remuxPos[s], Tail(o), g, answer') BY <2>2, <1>11, <1>14 DEF g
  <2> QED BY <2>1, <2>3, <1>6, <1>7, <1>8 DEF StoreAnswers
<1>16. ASSUME NEW t \in Stores, t # s PROVE StoreAnswers(t)'
  <2>1. OutOk(h, t, Words(t), metadataBuffer[t], remuxPos[t], outData[t], answered) /\ NextOk(t, remuxPos[t], outData[t], merging, answer)
    BY DEF AnswersInv, StoreAnswers, h
  <2>2. t # "none" BY DEF Stores
  <2>3. merging # t /\ g # t BY <1>4, <1>10, <1>16, <2>2
  <2>4. \A b : OutOk(h, t, Words(t), metadataBuffer[t], remuxPos[t], outData[t], more) /\ NextOk(t, remuxPos[t], outData[t], g, b)
    BY <2>1, <2>3, <1>10, OtherAnswers
  <2> QED BY <2>4, <1>6, <1>7, <1>8, <1>16 DEF StoreAnswers
<1>17. AnswerOk(history, merging, answer, answered)' BY <1>6, <1>14
<1> QED BY <1>15, <1>16, <1>17 DEF AnswersInv

LEMMA StoreStepAnswers ==
  ASSUME ValuesInv, AnswersInv, NEW s \in Stores, StoreStep(s), UNCHANGED <<table, splitIn, answer, merging, answered>>
  PROVE  AnswersInv'
<1>1. CASE AccStream(s) \/ AccPush(s)
  <2>1. /\ Forward(s) /\ inData[s] # <<>>
        /\ UNCHANGED <<history, popVars, setVars, getVars, memVars, remuxVars, outData>>
    BY <1>1 DEF AccStream, AccPush, ValuesInv, StoresOk, HeldOk
  <2>2. \A t \in Stores : Words(t)' = Words(t) BY <2>1, ForwardKeeps
  <2>3. \A t \in Stores : AnswersKept(t) BY <2>1, <2>2 DEF AnswersKept, remuxVars
  <2> QED BY <2>1, <2>3, AnswersStay
<1>2. ASSUME UNCHANGED <<history, inData, toDemux, remuxVars, outData>> PROVE AnswersInv'
  <2>1. \A t \in Stores : AnswersKept(t) BY <1>2 DEF AnswersKept, remuxVars, Words, Split
  <2> QED BY <1>2, <2>1, AnswersStay
<1>3. CASE AccTake(s) \/ AccPop(s) BY <1>2, <1>3 DEF AccTake, AccPop
<1>4. CASE SetPath(s) BY <1>2, <1>4 DEF SetPath
<1>5. CASE Dispatch(s) \/ Aggregate(s) BY <1>2, <1>5 DEF Dispatch, Aggregate
<1>6. CASE MemAccess(s) \/ Receive(s) BY <1>2, <1>6 DEF MemAccess, Receive
<1>7. CASE Demux(s)
  <2>1. history' = history BY <1>7 DEF Demux
  <2> QED BY <1>7, <2>1, DemuxKeeps, DemuxAnswers
<1>8. CASE RemuxFirst(s)
  <2>1. history' = history BY <1>8 DEF RemuxFirst
  <2> QED BY <1>8, <2>1, RemuxFirstKeeps, FirstAnswers
<1>9. CASE RemuxRest(s)
  <2>1. history' = history BY <1>9 DEF RemuxRest
  <2> QED BY <1>9, <2>1, RemuxRestKeeps, NextAnswers
<1>10. CASE RemuxGet(s)
  <2>1. history' = history BY <1>10 DEF RemuxGet
  <2> QED BY <1>10, <2>1, RemuxGetKeeps, NextAnswers
<1> QED BY <1>1, <1>3, <1>4, <1>5, <1>6, <1>7, <1>8, <1>9, <1>10 DEF StoreStep

LEMMA AddedAnswers ==
  ASSUME ValuesInv, AnswersInv, PacketAdded, UNCHANGED <<storeVars, merging, answer, answered>>
  PROVE  AnswersInv'
BY SendsAnswers DEF PacketAdded

LEMMA IdleAnswers ==
  ASSUME AnswersInv, UNCHANGED valueVars
  PROVE  AnswersInv'
<1>1. UNCHANGED <<history, splitIn, inData, toDemux, metadataBuffer, remuxPos, outData, merging, answer, answered>>
  BY DEF valueVars, storeVars, remuxVars
<1>2. \A s \in Stores : AnswersKept(s) BY <1>1 DEF AnswersKept, Words, Split
<1> QED BY <1>1, <1>2, AnswersStay

LEMMA NextKeepsAnswers ==
  ASSUME ValuesInv, AnswersInv, LongValues', [Next]_serverVars
  PROVE  AnswersInv'
<1>1. CASE Splitter
  <2>1. UNCHANGED <<history, merging, answer, answered>> BY <1>1 DEF Splitter
  <2> QED BY <1>1, <2>1, SplitterKeeps, AnswersStay
<1>2. CASE \E s \in Stores : StoreStep(s) /\ UNCHANGED <<table, splitIn, answer, merging, answered>>
  BY <1>2, StoreStepAnswers
<1>3. CASE \E s \in Stores : Merge(s) BY <1>3, MergerAnswers DEF Merge
<1>4. CASE ParserStep BY <1>4, ParserLeaves, IdleAnswers
<1>5. ASSUME NEW k, NEW op, NEW n, TableExecutes(k, op, n) PROVE AnswersInv'
  <2>1. UNCHANGED <<storeVars, merging, answer, answered>> BY <1>5 DEF TableExecutes
  <2> QED BY <1>5, <2>1, TableExecutesKeeps, AddedAnswers
<1>6. ASSUME NEW n, SetFails(n) PROVE AnswersInv'
  <2>1. UNCHANGED <<storeVars, merging, answer, answered>> BY <1>6 DEF SetFails
  <2> QED BY <1>6, <2>1, SetFailsKeeps, AddedAnswers
<1>7. CASE TableReads BY <1>7, <1>5, <1>6, ReaderSends, IdleAnswers
<1>8. CASE FormatterStep BY <1>8, FormatterLeaves, IdleAnswers
<1>9. CASE TableAnswers BY <1>9, <1>5 DEF TableAnswers
<1>10. CASE UNCHANGED serverVars BY <1>10, IdleAnswers DEF serverVars
<1> QED BY <1>1, <1>2, <1>3, <1>4, <1>7, <1>8, <1>9, <1>10 DEF Next, Serves, Pipeline

LEMMA InitAnswers ==
  ASSUME ValuesInit
  PROVE  AnswersInv
<1>1. /\ StoreInit /\ splitIn = <<>> /\ answer = <<>> /\ merging = "none" /\ history = <<>>
  BY DEF ValuesInit, StoreInit
<1>2. "none" \notin Stores BY DEF Stores
<1>3. AnswerOk(history, merging, answer, answered) BY <1>1, <1>2 DEF AnswerOk
<1>4. ASSUME NEW s \in Stores PROVE StoreAnswers(s)
  <2>1. outData[s] = <<>> /\ metadataBuffer[s] = <<>> /\ remuxPos[s] = <<>> /\ inData[s] = <<>> /\ toDemux[s] = <<>>
    BY <1>1 DEF StoreInit
  <2>2. Words(s) = <<>> BY <1>1, <2>1 DEF Words, Split
  <2>3. Mine(history, s) = {} BY <1>1 DEF Mine
  <2>4. SentOk(history, s, <<>>, <<>>) BY DEF SentOk
  <2>5. InOrder(<<>>, <<>>, <<>>, <<>>) BY DEF InOrder
  <2>6. AllComes(history, s, <<>>, <<>>, <<>>, <<>>, answered) BY <2>3 DEF AllComes
  <2>7. NextOk(s, <<>>, <<>>, merging, answer) BY <1>1, <1>2 DEF NextOk
  <2> QED BY <2>1, <2>2, <2>4, <2>5, <2>6, <2>7 DEF StoreAnswers, OutOk
<1> QED BY <1>3, <1>4 DEF AnswersInv

LEMMA WholeFollows ==
  ASSUME AnswersInv
  PROVE  AnswersWhole
<1> SUFFICES ASSUME answer # <<>>
             PROVE  LET p == answer[1].p IN
                    /\ \A i \in DOMAIN answer : answer[i].p = p /\ answer[i].i = i
                    /\ answer[Len(answer)].last => Len(answer) = (IF Op(p) = "get" THEN ValueWords(p) ELSE 2)
                    /\ \A q \in 1 .. p - 1 : history[q].store = history[p].store => q \in answered
  BY DEF AnswersWhole
<1> DEFINE p == answer[1].p
<1>1. AnswerOk(history, merging, answer, answered) BY DEF AnswersInv
<1>2. answer \in Seq(OutWord) BY <1>1 DEF AnswerOk
<1>3. DOMAIN answer = 1 .. Len(answer) /\ Len(answer) \in 1 .. Len(answer)
  <2>1. DOMAIN answer = 1 .. Len(answer) /\ Len(answer) \in Nat BY <1>2
  <2> QED BY <2>1, <1>2, NonEmpty
<1>4. \A i \in DOMAIN answer : answer[i].p = p /\ answer[i].i = i BY <1>1, <1>3 DEF AnswerOk
<1>5. answer[Len(answer)].last => Len(answer) = Leaves(history, p) BY <1>1, <1>3 DEF AnswerOk
<1>6. Leaves(history, p) = (IF Op(p) = "get" THEN ValueWords(p) ELSE 2) BY DEF Leaves, Op, ValueWords
<1>7. \A q \in 1 .. p - 1 : history[q].store = history[p].store => q \in answered BY <1>1 DEF AnswerOk
<1> QED BY <1>4, <1>5, <1>6, <1>7

(* Under the same hypothesis: the merger never mixes the words of two packets, an answer has all  *)
(* words of its value and no more, and each store answers in the order in which it was asked      *)
(* (merger.cpp:41, and remux of both stores).                                                     *)
THEOREM AnswersLeaveWhole == Spec /\ []LongValues => []AnswersWhole
<1> DEFINE Inv == ValuesInv /\ AnswersInv
<1>1. Init => Inv BY InitKeeps, InitAnswers DEF Init
<1>2. Inv /\ LongValues' /\ [Next]_serverVars => Inv' BY NextKeeps, NextKeepsAnswers
<1>3. Inv => AnswersWhole BY WholeFollows
<1> QED BY <1>1, <1>2, <1>3, PTL DEF Spec

(* The same where the table sends any packets it can send. *)
THEOREM AnswersLeaveWholeFree == Spec /\ requests = <<>> => []AnswersWhole
<1> DEFINE Inv == ValuesInv /\ AnswersInv /\ NoClient /\ LongValues
<1>1. Init /\ requests = <<>> => Inv BY InitKeeps, InitAnswers, NoClientStarts DEF Init
<1>2. Inv /\ [Next]_serverVars => Inv' BY NextKeeps, NextKeepsAnswers, NoClientKeeps, LengthsStayLong
<1>3. Inv => AnswersWhole BY WholeFollows
<1> QED BY <1>1, <1>2, <1>3, PTL DEF Spec
===============================================================================
