--------------------------- MODULE McdTableProofs ---------------------------
(***************************************************************************)
(* The hash table answers as one table would: for every number of keys,    *)
(* buckets, bins and addresses, every depth of the FIFOs, every bound on   *)
(* the requests and flushes, McdTableSystem implements McdAtomicTable      *)
(* (TableIsAtomic), and no address of a value is lost or given twice       *)
(* (NoAddressIsLost).                                                      *)
(*                                                                         *)
(* Behind the refinement stands TableInv.  All requests between the first  *)
(* and the last stage lie in mdBuffer, and each stage works on a segment   *)
(* of it (InOrder): this gives the answers their order.  The filter holds  *)
(* whatever is behind concurrencyControl, and no two requests there        *)
(* conflict (Filtered); so nothing is written to a bucket while a request  *)
(* that read it waits to be judged, and what memRead read is what memWrite *)
(* finds (ReadsCurrent).  Last, a key is in at most one bin (OneBin), or a *)
(* get could find one value and a delete free the other.                   *)
(*                                                                         *)
(* For the addresses the phases of a flush are added (FlushPhases): from   *)
(* the request to the host's done the FIFOs between the two are empty and  *)
(* the pools are filled anew.  The count itself is about the number of     *)
(* times an address lies in a FIFO (Times) and the entries that name it.   *)
(***************************************************************************)
EXTENDS McdTableSystem, FiniteSetTheorems, SequenceTheorems, WellFoundedInduction, TLAPS

(* The inductive invariant. *)

Addresses == Dram \cup Flash
Bin == {Free} \cup [free : {FALSE}, key : Keys, class : Classes, addr : Addresses]
Words == [Bins -> Bin]
Answer == [ok : BOOLEAN] \cup [ok : {TRUE}, class : Classes, addr : Addresses]

QueuesTyped ==
  /\ in2cc \in Seq(Request) /\ mdBuffer \in Seq(Request) /\ hashFilter \in Seq(Request)
  /\ held \in Seq(Request) /\ Len(held) <= 1
  /\ cc2memRead \in Seq(Request) /\ memRd2comp \in Seq(Request)
  /\ comp2memWr \in Seq([req : Request, words : Words])
  /\ memWr2out \in Seq(Answer)
  /\ dec2cc \in Nat

MemoryTyped ==
  /\ mem \in [Buckets -> Words]
  /\ memWrCtrl \in Seq([buckets : SUBSET Buckets, words : Words])
  /\ memRdCtrl \in Seq(Buckets) /\ memRdData \in Seq(Words)
  /\ memWrState \in {"idle", "setRest", "flushWait", "flush", "hung"}

AddressesTyped ==
  /\ freeDram \in Seq(Dram) /\ assignDram \in Seq(Dram)
  /\ freeFlash \in Seq(Flash) /\ assignFlash \in Seq(Flash)
  /\ addressReturn \in Seq(Addresses)

Typed == QueuesTyped /\ MemoryTyped /\ AddressesTyped

(* The request that memWrite has taken and not answered, and the one whose *)
(* pop is to come. *)
InHand == IF memWrState \in {"flushWait", "flush", "hung"} THEN 1 ELSE 0
ToPop == IF memWrState \in {"setRest", "flushWait", "flush", "hung"} THEN 1 ELSE 0

(* The requests that wait to be judged. *)
Compared == [i \in DOMAIN comp2memWr |-> comp2memWr[i].req]

(* q lies in s, behind the first n elements. *)
Lies(q, s, n) == n + Len(q) <= Len(s) /\ \A i \in 1 .. Len(q) : s[n + i] = q[i]

nOut == Len(memWr2out) + InHand
nComp == Len(comp2memWr)
nRead == Len(memRd2comp)
nCc == Len(cc2memRead)

(* The requests in work, in the order in which they came. *)
InOrder ==
  /\ Len(mdBuffer) = nOut + nComp + nRead + nCc + Len(held) + Len(in2cc)
  /\ Lies(Compared, mdBuffer, nOut)
  /\ Lies(memRd2comp, mdBuffer, nOut + nComp)
  /\ Lies(cc2memRead, mdBuffer, nOut + nComp + nRead)
  /\ Lies(held, mdBuffer, nOut + nComp + nRead + nCc)
  /\ Lies(in2cc, mdBuffer, nOut + nComp + nRead + nCc + Len(held))
  /\ memWrState \in {"flushWait", "flush"} => mdBuffer[nOut].op = "flush"

(* The filter: those whose pop is on its way or to come, then those        *)
(* between concurrencyControl and memWrite.  None blocks a later one. *)
nPop == dec2cc + ToPop
Filtered ==
  /\ Len(hashFilter) = nPop + nComp + nRead + nCc
  /\ Lies(Compared, hashFilter, nPop)
  /\ Lies(memRd2comp, hashFilter, nPop + nComp)
  /\ Lies(cc2memRead, hashFilter, nPop + nComp + nRead)
  /\ memWrState \in {"flushWait", "flush"} => hashFilter[nPop].op = "flush"
  /\ \A i, j \in 1 .. Len(hashFilter) : i < j => ~Blocks(hashFilter[i], hashFilter[j])

(* What was read of a bucket is what it holds when memWrite judges it. *)
Held == [b \in Buckets |-> Current(b)]

nData == Len(memRdData)
nCtrl == Len(memRdCtrl)
ReadsCurrent ==
  /\ \A i \in 1 .. nRead : memRd2comp[i].op = "flush" <=> i > nData + nCtrl
  /\ nData + nCtrl <= nRead
  /\ \A i \in 1 .. nData : memRdData[i] = Held[BucketOf[memRd2comp[i].key]]
  /\ \A i \in 1 .. nCtrl : memRdCtrl[i] = BucketOf[memRd2comp[nData + i].key]
  /\ \A i \in 1 .. nComp : comp2memWr[i].req.op # "flush" =>
       comp2memWr[i].words = Held[BucketOf[comp2memWr[i].req.key]]

(* A key is in one bin of its bucket at most. *)
OneBin ==
  \A b \in Buckets : \A i, j \in Bins :
    ~Held[b][i].free /\ ~Held[b][j].free /\ Held[b][i].key = Held[b][j].key => i = j

TableInv == Typed /\ InOrder /\ Filtered /\ ReadsCurrent /\ OneBin

(* Sequences and least elements. *)
LEMMA TailIs ==
  ASSUME NEW T, NEW q \in Seq(T), q # <<>>
  PROVE  /\ Head(q) \in T /\ Head(q) = q[1] /\ Tail(q) \in Seq(T)
         /\ Len(q) \in Nat /\ Len(q) > 0 /\ Len(Tail(q)) = Len(q) - 1
         /\ \A i \in 1 .. Len(q) - 1 : Tail(q)[i] = q[i + 1]
OBVIOUS

LEMMA ElementIs ==
  ASSUME NEW T, NEW q \in Seq(T), NEW i \in 1 .. Len(q)
  PROVE  q[i] \in T
OBVIOUS

LEMMA AppendIs ==
  ASSUME NEW T, NEW q \in Seq(T), NEW e \in T
  PROVE  /\ Append(q, e) \in Seq(T) /\ Append(q, e) # <<>>
         /\ Len(q) \in Nat /\ Len(Append(q, e)) = Len(q) + 1
         /\ Append(q, e)[Len(q) + 1] = e
         /\ \A i \in 1 .. Len(q) : Append(q, e)[i] = q[i]
OBVIOUS

(* What lies in a sequence when one of the two moves on. *)
LEMMA LiesTail ==
  ASSUME NEW T, NEW q \in Seq(T), NEW s \in Seq(T), NEW n \in Nat, q # <<>>, Lies(q, s, n)
  PROVE  Lies(Tail(q), s, n + 1) /\ s[n + 1] = Head(q)
<1>1. \A i \in 1 .. Len(q) : s[n + i] = q[i]
  BY DEF Lies
<1>2. s[n + 1] = Head(q)
  BY <1>1, TailIs
<1>3. ASSUME NEW i \in 1 .. Len(Tail(q))
      PROVE  s[(n + 1) + i] = Tail(q)[i]
  <2>1. i + 1 \in 1 .. Len(q) /\ Tail(q)[i] = q[i + 1]
    BY TailIs
  <2>2. s[n + (i + 1)] = q[i + 1]
    BY <1>1, <2>1
  <2>3. n + (i + 1) = (n + 1) + i
    OBVIOUS
  <2>. QED BY <2>1, <2>2, <2>3
<1>4. (n + 1) + Len(Tail(q)) <= Len(s)
  BY TailIs DEF Lies
<1>. QED BY <1>2, <1>3, <1>4 DEF Lies

LEMMA LiesAppend ==
  ASSUME NEW T, NEW q \in Seq(T), NEW s \in Seq(T), NEW n \in Nat, NEW e \in T, Lies(q, s, n),
         n + Len(q) + 1 <= Len(s), s[n + Len(q) + 1] = e
  PROVE  Lies(Append(q, e), s, n)
BY AppendIs DEF Lies

LEMMA LiesWithin ==
  ASSUME NEW T, NEW q \in Seq(T), NEW s \in Seq(T), NEW n \in Nat, NEW e \in T, Lies(q, s, n)
  PROVE  Lies(q, Append(s, e), n)
BY AppendIs DEF Lies

LEMMA LiesAtEnd ==
  ASSUME NEW T, NEW q \in Seq(T), NEW s \in Seq(T), NEW n \in Nat, NEW e \in T, Lies(q, s, n),
         n + Len(q) = Len(s)
  PROVE  Lies(Append(q, e), Append(s, e), n)
<1>1. Lies(q, Append(s, e), n)
  BY LiesWithin
<1>. DEFINE r == Append(s, e)
<1>2. r \in Seq(T) /\ Len(r) = Len(s) + 1 /\ r[n + Len(q) + 1] = e
  BY AppendIs
<1>3. n + Len(q) + 1 <= Len(r)
  BY <1>2
<1>. HIDE DEF r
<1>4. Lies(Append(q, e), r, n)
  BY <1>1, <1>2, <1>3, LiesAppend DEF r
<1>. QED BY <1>4 DEF r

LEMMA LiesBefore ==
  ASSUME NEW T, NEW q \in Seq(T), NEW s \in Seq(T), NEW n \in Nat, n > 0, Lies(q, s, n)
  PROVE  Lies(q, Tail(s), n - 1)
<1>1. s # <<>> /\ n + Len(q) <= Len(s)
  BY DEF Lies
<1>2. ASSUME NEW i \in 1 .. Len(q)
      PROVE  Tail(s)[(n - 1) + i] = q[i]
  <2>1. (n - 1) + i \in 1 .. Len(s) - 1
    BY <1>1
  <2>2. Tail(s)[(n - 1) + i] = s[((n - 1) + i) + 1]
    BY <1>1, <2>1, TailIs
  <2>3. ((n - 1) + i) + 1 = n + i
    OBVIOUS
  <2>. QED BY <2>2, <2>3 DEF Lies
<1>3. (n - 1) + Len(q) <= Len(Tail(s))
  BY <1>1, TailIs
<1>. QED BY <1>2, <1>3 DEF Lies

LEMMA HasLeast ==
  ASSUME NEW S, S \subseteq Nat, S # {}
  PROVE  \E i \in S : \A j \in S : i <= j
<1>1. PICK i \in S : \A j \in S : <<j, i>> \notin OpToRel(<, Nat)
  BY NatLessThanWellFounded, WFMin
<1>2. \A j \in S : ~(j < i)
  BY <1>1 DEF OpToRel
<1>. QED BY <1>2

LEMMA HasGreatest ==
  ASSUME NEW n \in Nat, NEW S, S \subseteq 1 .. n, S # {}
  PROVE  \E i \in S : \A j \in S : i >= j
<1>. DEFINE D == {n - j : j \in S}
<1>1. PICK d \in D : \A c \in D : d <= c
  <2>1. D \subseteq Nat
    <3>1. \A j \in S : n - j \in Nat
      OBVIOUS
    <3>. QED BY <3>1
  <2>2. D # {}
    OBVIOUS
  <2>. HIDE DEF D
  <2>. QED BY <2>1, <2>2, HasLeast
<1>2. PICK i \in S : d = n - i
  OBVIOUS
<1>3. \A j \in S : n - i <= n - j
  BY <1>1, <1>2
<1>. QED BY <1>3

LEMMA LowestIs ==
  ASSUME NEW S, S \subseteq Nat, NEW i \in S, \A j \in S : i <= j
  PROVE  Lowest(S) = i
<1>1. \A k \in S : (\A j \in S : k <= j) => k = i
  OBVIOUS
<1>. QED BY <1>1 DEF Lowest

LEMMA HighestIs ==
  ASSUME NEW S, S \subseteq Nat, NEW i \in S, \A j \in S : i >= j
  PROVE  Highest(S) = i
<1>1. \A k \in S : (\A j \in S : k >= j) => k = i
  OBVIOUS
<1>. QED BY <1>1 DEF Highest

(* What is where. *)

(* What a request has. *)
LEMMA RequestIs ==
  ASSUME NEW r \in Request
  PROVE  /\ r.op \in {"get", "set", "delete", "flush"}
         /\ r.op # "flush" => /\ r.key \in Keys /\ BucketOf[r.key] \in Buckets
                              /\ Address(r) = BucketOf[r.key]
         /\ r.op = "set" => r.class \in Classes
BY DEF Request, Buckets, Address

(* The words of a bucket are typed, wherever they are. *)
LEMMA CurrentTyped ==
  ASSUME MemoryTyped, NEW b \in Buckets
  PROVE  Current(b) \in Words
<1>1. CASE Pending(b) = {}
  BY <1>1 DEF Current, MemoryTyped
<1>2. CASE Pending(b) # {}
  <2>1. Pending(b) \subseteq 1 .. Len(memWrCtrl) /\ Len(memWrCtrl) \in Nat
    BY DEF Pending, MemoryTyped
  <2>2. PICK i \in Pending(b) : \A j \in Pending(b) : i >= j
    BY <1>2, <2>1, HasGreatest
  <2>3. Highest(Pending(b)) = i
    BY <2>1, <2>2, HighestIs
  <2>4. memWrCtrl[i].words \in Words
    <3>1. i \in 1 .. Len(memWrCtrl)
      BY <2>1, <2>2
    <3>2. memWrCtrl[i] \in [buckets : SUBSET Buckets, words : Words]
      BY <3>1, ElementIs DEF MemoryTyped
    <3>. QED BY <3>2
  <2>. QED BY <1>2, <2>3, <2>4 DEF Current
<1>. QED BY <1>1, <1>2

(* A write that is sent is what its buckets will hold. *)
LEMMA CurrentWritten ==
  ASSUME MemoryTyped, NEW bs \in SUBSET Buckets, NEW words \in Words, Write(bs, words), UNCHANGED mem
  PROVE  \A b \in Buckets : Current(b)' = IF b \in bs THEN words ELSE Current(b)
<1>. SUFFICES ASSUME NEW b \in Buckets
              PROVE  Current(b)' = IF b \in bs THEN words ELSE Current(b)
  OBVIOUS
<1>. DEFINE w == [buckets |-> bs, words |-> words]
            n == Len(memWrCtrl)
<1>1. /\ n \in Nat /\ DOMAIN memWrCtrl = 1 .. n /\ DOMAIN memWrCtrl' = 1 .. n + 1
      /\ memWrCtrl'[n + 1] = w /\ \A i \in 1 .. n : memWrCtrl'[i] = memWrCtrl[i]
  BY DEF MemoryTyped, Write
<1>2. CASE b \in bs
  <2>1. n + 1 \in Pending(b)' /\ Pending(b)' \subseteq 1 .. n + 1
    BY <1>1, <1>2 DEF Pending
  <2>2. Highest(Pending(b)') = n + 1
    BY <1>1, <2>1, HighestIs
  <2>3. Pending(b)' # {} /\ (Highest(Pending(b)))' = Highest(Pending(b)')
    BY <2>1 DEF Highest
  <2>. QED BY <1>1, <1>2, <2>2, <2>3 DEF Current
<1>3. CASE b \notin bs
  <2>1. Pending(b)' = Pending(b) /\ Pending(b) \subseteq 1 .. n
    BY <1>1, <1>3 DEF Pending
  <2>2. CASE Pending(b) = {}
    BY <1>3, <2>1, <2>2 DEF Current
  <2>3. CASE Pending(b) # {}
    <3>1. PICK i \in Pending(b) : \A j \in Pending(b) : i >= j
      BY <1>1, <2>1, <2>3, HasGreatest
    <3>2. Highest(Pending(b)) = i /\ (Highest(Pending(b)))' = i
      BY <2>1, <3>1, HighestIs DEF Highest
    <3>. QED BY <1>1, <1>3, <2>1, <2>3, <3>2 DEF Current
  <2>. QED BY <2>2, <2>3
<1>. QED BY <1>2, <1>3

(* It is still what they hold when the memory has executed it. *)
LEMMA CurrentAccessed ==
  ASSUME MemoryTyped, AccessWrite
  PROVE  \A b \in Buckets : Current(b)' = Current(b)
<1>. SUFFICES ASSUME NEW b \in Buckets
              PROVE  Current(b)' = Current(b)
  OBVIOUS
<1>. DEFINE n == Len(memWrCtrl)
            S == Pending(b)
            R == Pending(b)'
<1>1. /\ n \in Nat /\ n > 0 /\ DOMAIN memWrCtrl = 1 .. n /\ DOMAIN memWrCtrl' = 1 .. n - 1
      /\ \A i \in 1 .. n - 1 : memWrCtrl'[i] = memWrCtrl[i + 1]
      /\ Head(memWrCtrl) = memWrCtrl[1]
  BY DEF MemoryTyped, AccessWrite
<1>2. mem'[b] = IF b \in memWrCtrl[1].buckets THEN memWrCtrl[1].words ELSE mem[b]
  BY <1>1 DEF AccessWrite
<1>3. S = {i \in 1 .. n : b \in memWrCtrl[i].buckets}
  BY <1>1 DEF Pending
<1>4. R = {i \in 1 .. n - 1 : b \in memWrCtrl[i + 1].buckets}
  BY <1>1 DEF Pending
<1>5. (Highest(Pending(b)))' = Highest(R)
  BY DEF Highest
<1>6. CASE S = {}
  <2>1. R = {}
    BY <1>3, <1>4, <1>6
  <2>2. 1 \notin S
    BY <1>6
  <2>3. b \notin memWrCtrl[1].buckets
    BY <1>1, <1>3, <2>2
  <2>. QED BY <1>2, <1>6, <2>1, <2>3 DEF Current
<1>7. CASE S # {}
  <2>1. PICK m \in S : \A j \in S : m >= j
    BY <1>1, <1>3, <1>7, HasGreatest
  <2>2. Highest(S) = m
    <3>1. S \subseteq Nat
      BY <1>3
    <3>. HIDE DEF S
    <3>. QED BY <2>1, <3>1, HighestIs
  <2>3. CASE m = 1
    <3>1. \A i \in R : i + 1 \in S /\ i >= 1
      BY <1>1, <1>3, <1>4
    <3>2. R = {}
      BY <1>1, <1>4, <2>1, <2>3, <3>1
    <3>3. b \in memWrCtrl[1].buckets
      BY <1>3, <2>1, <2>3
    <3>. QED BY <1>2, <1>7, <2>2, <2>3, <3>2, <3>3 DEF Current
  <2>4. CASE m # 1
    <3>1. m - 1 \in R
      BY <1>1, <1>3, <1>4, <2>1, <2>4
    <3>2. \A j \in R : m - 1 >= j
      <4>1. SUFFICES ASSUME NEW j \in R PROVE m - 1 >= j
        OBVIOUS
      <4>2. j \in 1 .. n - 1 /\ j + 1 \in S
        BY <1>1, <1>3, <1>4
      <4>. QED BY <1>3, <2>1, <4>2
    <3>3. R \subseteq Nat
      BY <1>4
    <3>4. Highest(R) = m - 1
      <4>. HIDE DEF R, S
      <4>. QED BY <3>1, <3>2, <3>3, HighestIs
    <3>5. memWrCtrl'[m - 1] = memWrCtrl[m]
      BY <1>1, <1>3, <2>1, <2>4
    <3>6. R # {}
      BY <3>1
    <3>7. Current(b)' = memWrCtrl'[m - 1].words
      BY <1>5, <3>4, <3>6 DEF Current
    <3>. QED BY <1>7, <2>2, <3>5, <3>7 DEF Current
  <2>. QED BY <2>3, <2>4
<1>. QED BY <1>6, <1>7

LEMMA CurrentSame ==
  ASSUME UNCHANGED <<mem, memWrCtrl>>
  PROVE  \A b \in Buckets : Current(b)' = Current(b)
BY DEF Current, Pending, Highest

(* The types. *)

(* What memWrite judges, and the bins that it finds. *)
LEMMA JudgedIs ==
  ASSUME QueuesTyped, comp2memWr # <<>>
  PROVE  /\ Head(comp2memWr).req \in Request /\ Head(comp2memWr).words \in Words
         /\ Head(comp2memWr).req = Compared[1] /\ Head(comp2memWr) = comp2memWr[1]
         /\ Tail(comp2memWr) \in Seq([req : Request, words : Words])
<1>. DEFINE T == [req : Request, words : Words]
<1>1. comp2memWr \in Seq(T)
  BY DEF QueuesTyped
<1>2. Head(comp2memWr) \in T /\ Head(comp2memWr) = comp2memWr[1] /\ Tail(comp2memWr) \in Seq(T)
      /\ 1 \in DOMAIN comp2memWr
  <2>. HIDE DEF T
  <2>. QED BY <1>1, TailIs
<1>. QED BY <1>2 DEF Compared

LEMMA LowestIn ==
  ASSUME NEW S, S \subseteq Bins, S # {}
  PROVE  Lowest(S) \in S /\ Highest(S) \in S
<1>1. S \subseteq Nat /\ NoBins \in Nat
  BY SizeAssumption DEF Bins
<1>2. PICK i \in S : \A j \in S : i <= j
  BY <1>1, HasLeast
<1>3. PICK k \in S : \A j \in S : k >= j
  BY <1>1, HasGreatest DEF Bins
<1>. QED BY <1>1, <1>2, <1>3, LowestIs, HighestIs

LEMMA BinIs ==
  ASSUME NEW words \in Words, NEW i \in Bins
  PROVE  /\ words[i] \in Bin /\ words[i].free \in BOOLEAN
         /\ ~words[i].free => /\ words[i].key \in Keys /\ words[i].class \in Classes
                              /\ words[i].addr \in Addresses
<1>1. words[i] \in Bin
  BY DEF Words
<1>2. CASE words[i] = Free
  BY <1>1, <1>2 DEF Free
<1>3. CASE words[i] \in [free : {FALSE}, key : Keys, class : Classes, addr : Addresses]
  BY <1>1, <1>3
<1>. QED BY <1>1, <1>2, <1>3 DEF Bin

LEMMA EntryIs ==
  ASSUME NEW key \in Keys, NEW class \in Classes, NEW addr \in Addresses
  PROVE  [free |-> FALSE, key |-> key, class |-> class, addr |-> addr] \in Bin
BY DEF Bin

LEMMA EmptyIs == EmptyBucket \in Words /\ \A i \in Bins : EmptyBucket[i].free
BY DEF EmptyBucket, Words, Bin, Free

LEMMA AddressesStep ==
  ASSUME Typed, [Next]_vars
  PROVE  AddressesTyped'
<1>1. CASE UNCHANGED <<freeDram, freeFlash, assignDram, assignFlash, addressReturn>>
  BY <1>1 DEF Typed, AddressesTyped
<1>2. CASE HostStep
  <2>1. AllDram \in Seq(Dram) /\ AllFlash \in Seq(Flash)
    BY AddressAssumption DEF AllDram, AllFlash, Dram, Flash
  <2>2. CASE TopUpDram
    BY <2>2 DEF Typed, AddressesTyped, TopUpDram
  <2>3. CASE TopUpFlash
    BY <2>3 DEF Typed, AddressesTyped, TopUpFlash
  <2>4. CASE TakeBack
    <3>1. Tail(addressReturn) \in Seq(Addresses)
      BY <2>4, TailIs DEF Typed, AddressesTyped, TakeBack
    <3>2. \/ freeDram' = freeDram /\ freeFlash' = freeFlash
          \/ \E a \in Dram : freeDram' = Append(freeDram, a) /\ freeFlash' = freeFlash
          \/ \E a \in Flash : freeFlash' = Append(freeFlash, a) /\ freeDram' = freeDram
      BY <2>4 DEF TakeBack
    <3>3. freeDram' \in Seq(Dram) /\ freeFlash' \in Seq(Flash)
      <4>1. freeDram \in Seq(Dram) /\ freeFlash \in Seq(Flash)
        BY DEF Typed, AddressesTyped
      <4>2. /\ \A a \in Dram : Append(freeDram, a) \in Seq(Dram)
            /\ \A a \in Flash : Append(freeFlash, a) \in Seq(Flash)
        BY <4>1
      <4>. QED BY <3>2, <4>1, <4>2
    <3>. QED BY <2>4, <3>1, <3>3 DEF Typed, AddressesTyped, TakeBack
  <2>5. CASE Acknowledge \/ Refill \/ SeeDone
    BY <2>1, <2>5 DEF Typed, AddressesTyped, Acknowledge, Refill, SeeDone, bridgeVars
  <2>. QED BY <1>2, <2>2, <2>3, <2>4, <2>5 DEF HostStep
<1>3. CASE EvalSet
  <2>1. /\ UNCHANGED <<freeDram, freeFlash, addressReturn>>
        /\ \/ UNCHANGED <<assignDram, assignFlash>>
           \/ assignDram # <<>> /\ assignDram' = Tail(assignDram) /\ UNCHANGED assignFlash
           \/ assignFlash # <<>> /\ assignFlash' = Tail(assignFlash) /\ UNCHANGED assignDram
    BY <1>3 DEF EvalSet, Evaluates, SetFails, PoolFor
  <2>. QED BY <2>1, TailIs DEF Typed, AddressesTyped
<1>4. CASE EvalDelete
  <2>. DEFINE c == Head(comp2memWr)
              match == MatchingBins(c.words, c.req.key)
  <2>1. CASE match = {}
    BY <1>4, <2>1 DEF Typed, AddressesTyped, EvalDelete, Evaluates
  <2>2. CASE match # {}
    <3>1. c.words \in Words
      BY <1>4, JudgedIs DEF Typed, EvalDelete, Evaluates
    <3>2. Highest(match) \in match
      BY <2>2, LowestIn DEF MatchingBins
    <3>3. c.words[Highest(match)].addr \in Addresses
      BY <3>1, <3>2, BinIs DEF MatchingBins
    <3>4. addressReturn' = Append(addressReturn, c.words[Highest(match)].addr)
      BY <1>4, <2>2 DEF EvalDelete
    <3>. HIDE DEF c, match, Addresses
    <3>5. addressReturn' \in Seq(Addresses)
      BY <3>3, <3>4, AppendIs DEF Typed, AddressesTyped
    <3>. QED BY <1>4, <3>5 DEF Typed, AddressesTyped, EvalDelete, Evaluates
  <2>. QED BY <2>1, <2>2
<1>5. CASE FlushStart
  BY <1>5 DEF Typed, AddressesTyped, FlushStart, Evaluates
<1>. QED BY <1>1, <1>2, <1>3, <1>4, <1>5 DEF Next, Internal, ClientAsks, InputLogic, CcAccept, CcRelease,
       CcPop, MemRead, AccessRead, AccessWrite, HtCompare, EvalGet, EvalSetFails, EvalSetHangs, SetRest,
       FlushWait, FlushSweep, OutputLogic, Evaluates, vars, hostVars, bridgeVars

(* What the evaluation of a set writes and answers. *)
SetLocation == IF SetReplace # {} THEN Lowest(SetReplace) ELSE Lowest(SetFound)
SetAddress ==
  IF SetReplace # {} THEN Head(comp2memWr).words[SetLocation].addr
                     ELSE Head(PoolFor(Head(comp2memWr).req.class))
SetEntry ==
  [free |-> FALSE, key |-> Head(comp2memWr).req.key, class |-> Head(comp2memWr).req.class,
   addr |-> SetAddress]

LEMMA SetIs ==
  ASSUME Typed, EvalSet
  PROVE  /\ Head(comp2memWr).req \in Request /\ Head(comp2memWr).req.op = "set"
         /\ SetFound \subseteq Bins /\ SetReplace \subseteq Bins
         /\ SetLocation \in Bins /\ SetAddress \in Addresses /\ SetEntry \in Bin
         /\ SetLocation \in IF SetReplace # {} THEN SetReplace ELSE SetFound
         /\ [Head(comp2memWr).words EXCEPT ![SetLocation] = SetEntry] \in Words
         /\ Write({BucketOf[Head(comp2memWr).req.key]},
                  [Head(comp2memWr).words EXCEPT ![SetLocation] = SetEntry])
         /\ Reply([ok |-> TRUE, class |-> Head(comp2memWr).req.class, addr |-> SetAddress])
<1>. DEFINE c == Head(comp2memWr)
<1>1. c.req \in Request /\ c.req.op = "set" /\ c.words \in Words
  BY JudgedIs DEF Typed, EvalSet, Evaluates
<1>2. c.req.key \in Keys /\ c.req.class \in Classes
  BY <1>1, RequestIs
<1>3. SetFound \subseteq Bins /\ SetReplace \subseteq Bins
  BY DEF SetFound, SetReplace, FreeBins, MatchingBins
<1>4. SetLocation \in IF SetReplace # {} THEN SetReplace ELSE SetFound
  BY <1>3, LowestIn DEF SetLocation, EvalSet
<1>5. SetLocation \in Bins
  BY <1>3, <1>4
<1>6. SetAddress \in Addresses
  <2>1. CASE SetReplace # {}
    <3>1. ~c.words[SetLocation].free
      BY <1>4, <2>1 DEF SetReplace, MatchingBins
    <3>. QED BY <1>1, <1>5, <2>1, <3>1, BinIs DEF SetAddress
  <2>2. CASE SetReplace = {}
    <3>1. PoolFor(c.req.class) # <<>>
      BY DEF EvalSet, SetFails
    <3>2. PoolFor(c.req.class) \in Seq(Dram) \/ PoolFor(c.req.class) \in Seq(Flash)
      BY DEF PoolFor, Typed, AddressesTyped
    <3>3. Head(PoolFor(c.req.class)) \in Addresses
      BY <3>1, <3>2, TailIs DEF Addresses
    <3>. QED BY <2>2, <3>3 DEF SetAddress
  <2>. QED BY <2>1, <2>2
<1>7. SetEntry \in Bin
  BY <1>2, <1>6, EntryIs DEF SetEntry
<1>8. [c.words EXCEPT ![SetLocation] = SetEntry] \in Words
  BY <1>1, <1>5, <1>7 DEF Words
<1>9. /\ Write({BucketOf[c.req.key]}, [c.words EXCEPT ![SetLocation] = SetEntry])
      /\ Reply([ok |-> TRUE, class |-> c.req.class, addr |-> SetAddress])
  BY DEF EvalSet, SetLocation, SetAddress, SetEntry
<1>. QED BY <1>1, <1>3, <1>4, <1>5, <1>6, <1>7, <1>8, <1>9

(* What the evaluation of a delete finds and does. *)
DeleteFound == MatchingBins(Head(comp2memWr).words, Head(comp2memWr).req.key)
DeleteLocation == Highest(DeleteFound)

LEMMA DeleteIs ==
  ASSUME Typed, EvalDelete
  PROVE  /\ Head(comp2memWr).req \in Request /\ Head(comp2memWr).req.op = "delete"
         /\ DeleteFound = {} => Reply([ok |-> FALSE]) /\ UNCHANGED <<memWrCtrl, addressReturn>>
         /\ DeleteFound # {} =>
              /\ DeleteLocation \in DeleteFound /\ DeleteLocation \in Bins
              /\ [Head(comp2memWr).words EXCEPT ![DeleteLocation] = Free] \in Words
              /\ Reply([ok |-> TRUE])
              /\ Write({BucketOf[Head(comp2memWr).req.key]},
                       [Head(comp2memWr).words EXCEPT ![DeleteLocation] = Free])
              /\ addressReturn' = Append(addressReturn, Head(comp2memWr).words[DeleteLocation].addr)
<1>. DEFINE c == Head(comp2memWr)
<1>1. c.req \in Request /\ c.req.op = "delete" /\ c.words \in Words
  BY JudgedIs DEF Typed, EvalDelete, Evaluates
<1>2. CASE DeleteFound = {}
  BY <1>1, <1>2 DEF EvalDelete, DeleteFound
<1>3. CASE DeleteFound # {}
  <2>1. DeleteLocation \in DeleteFound /\ DeleteLocation \in Bins
    BY <1>3, LowestIn DEF DeleteFound, DeleteLocation, MatchingBins
  <2>2. [c.words EXCEPT ![DeleteLocation] = Free] \in Words
    BY <1>1, <2>1 DEF Words, Bin
  <2>3. /\ Reply([ok |-> TRUE])
        /\ Write({BucketOf[c.req.key]}, [c.words EXCEPT ![DeleteLocation] = Free])
        /\ addressReturn' = Append(addressReturn, c.words[DeleteLocation].addr)
    BY <1>3 DEF EvalDelete, DeleteFound, DeleteLocation
  <2>. QED BY <1>1, <1>3, <2>1, <2>2, <2>3
<1>. QED BY <1>2, <1>3

(* What a get answers. *)
GetFound == MatchingBins(Head(comp2memWr).words, Head(comp2memWr).req.key)
GetAnswer ==
  IF GetFound = {} THEN [ok |-> FALSE]
  ELSE [ok |-> TRUE, class |-> Head(comp2memWr).words[Lowest(GetFound)].class,
        addr |-> Head(comp2memWr).words[Lowest(GetFound)].addr]

LEMMA GetIs ==
  ASSUME Typed, EvalGet
  PROVE  /\ Head(comp2memWr).req \in Request /\ Head(comp2memWr).req.op = "get"
         /\ GetFound # {} => Lowest(GetFound) \in GetFound
         /\ Reply(GetAnswer) /\ GetAnswer \in Answer
<1>. DEFINE c == Head(comp2memWr)
<1>1. c.req \in Request /\ c.req.op = "get" /\ c.words \in Words
  BY JudgedIs DEF Typed, EvalGet, Evaluates
<1>2. Reply(GetAnswer)
  BY DEF EvalGet, GetAnswer, GetFound
<1>3. GetFound # {} => Lowest(GetFound) \in GetFound
  BY LowestIn DEF GetFound, MatchingBins
<1>4. GetAnswer \in Answer
  <2>1. CASE GetFound = {}
    BY <2>1 DEF GetAnswer, Answer
  <2>2. CASE GetFound # {}
    <3>1. c.words[Lowest(GetFound)].class \in Classes /\ c.words[Lowest(GetFound)].addr \in Addresses
      BY <1>1, <1>3, <2>2, BinIs DEF GetFound, MatchingBins
    <3>. QED BY <2>2, <3>1 DEF GetAnswer, Answer
  <2>. QED BY <2>1, <2>2
<1>. QED BY <1>1, <1>2, <1>3, <1>4

LEMMA WriteTyped ==
  ASSUME MemoryTyped, NEW bs \in SUBSET Buckets, NEW words \in Words, Write(bs, words)
  PROVE  memWrCtrl' \in Seq([buckets : SUBSET Buckets, words : Words])
<1>. DEFINE T == [buckets : SUBSET Buckets, words : Words]
<1>1. memWrCtrl \in Seq(T) /\ [buckets |-> bs, words |-> words] \in T
  BY DEF MemoryTyped
<1>2. memWrCtrl' = Append(memWrCtrl, [buckets |-> bs, words |-> words])
  BY DEF Write
<1>. HIDE DEF T
<1>3. memWrCtrl' \in Seq(T)
  BY <1>1, <1>2, AppendIs
<1>. QED BY <1>3 DEF T

LEMMA MemoryStep ==
  ASSUME Typed, [Next]_vars
  PROVE  MemoryTyped'
<1>0. MemoryTyped /\ QueuesTyped
  BY DEF Typed
<1>1. CASE UNCHANGED <<mem, memWrCtrl, memRdCtrl, memRdData, memWrState>>
  BY <1>0, <1>1 DEF MemoryTyped
<1>2. CASE MemRead
  <2>1. memRdCtrl' = memRdCtrl \/ \E b \in Buckets : memRdCtrl' = Append(memRdCtrl, b)
    <3>1. Head(cc2memRead) \in Request
      BY <1>0, <1>2, TailIs DEF QueuesTyped, MemRead
    <3>. QED BY <1>2, <3>1, RequestIs DEF MemRead
  <2>2. memRdCtrl' \in Seq(Buckets)
    <3>1. memRdCtrl \in Seq(Buckets)
      BY <1>0 DEF MemoryTyped
    <3>2. \A b \in Buckets : Append(memRdCtrl, b) \in Seq(Buckets)
      BY <3>1
    <3>. QED BY <2>1, <3>1, <3>2
  <2>. QED BY <1>0, <1>2, <2>2 DEF MemoryTyped, MemRead, memVars
<1>3. CASE AccessRead
  <2>1. Tail(memRdCtrl) \in Seq(Buckets) /\ Head(memRdCtrl) \in Buckets
    BY <1>0, <1>3, TailIs DEF MemoryTyped, AccessRead
  <2>2. mem[Head(memRdCtrl)] \in Words
    BY <1>0, <2>1 DEF MemoryTyped
  <2>3. memRdData' \in Seq(Words)
    BY <1>0, <1>3, <2>2, AppendIs DEF MemoryTyped, AccessRead
  <2>. QED BY <1>0, <1>3, <2>1, <2>3 DEF MemoryTyped, AccessRead, memVars
<1>4. CASE AccessWrite
  <2>. DEFINE T == [buckets : SUBSET Buckets, words : Words]
  <2>1. memWrCtrl \in Seq(T) /\ memWrCtrl # <<>> /\ memWrCtrl' = Tail(memWrCtrl)
    BY <1>0, <1>4 DEF MemoryTyped, AccessWrite
  <2>2. Head(memWrCtrl) \in T /\ memWrCtrl' \in Seq(T)
    <3>. HIDE DEF T
    <3>. QED BY <2>1, TailIs
  <2>3. Head(memWrCtrl).words \in Words
    BY <2>2
  <2>4. mem' \in [Buckets -> Words]
    BY <1>0, <1>4, <2>3 DEF MemoryTyped, AccessWrite
  <2>. QED BY <1>0, <1>4, <2>2, <2>4 DEF MemoryTyped, AccessWrite, queues
<1>5. CASE HtCompare
  <2>1. memRdData' \in Seq(Words)
    BY <1>0, <1>5, TailIs DEF MemoryTyped, HtCompare
  <2>. QED BY <1>0, <1>5, <2>1 DEF MemoryTyped, HtCompare, memVars
<1>6. CASE EvalSet
  <2>1. BucketOf[Head(comp2memWr).req.key] \in Buckets
    BY <1>6, SetIs, RequestIs
  <2>2. memWrCtrl' \in Seq([buckets : SUBSET Buckets, words : Words])
    BY <1>0, <1>6, <2>1, SetIs, WriteTyped
  <2>. QED BY <1>0, <1>6, <2>2 DEF MemoryTyped, EvalSet, Evaluates
<1>7. CASE EvalDelete
  <2>1. BucketOf[Head(comp2memWr).req.key] \in Buckets
    BY <1>7, DeleteIs, RequestIs
  <2>2. memWrCtrl' \in Seq([buckets : SUBSET Buckets, words : Words])
    <3>1. CASE DeleteFound = {}
      BY <1>0, <1>7, <3>1, DeleteIs DEF MemoryTyped
    <3>2. CASE DeleteFound # {}
      BY <1>0, <1>7, <2>1, <3>2, DeleteIs, WriteTyped
    <3>. QED BY <3>1, <3>2
  <2>. QED BY <1>0, <1>7, <2>2 DEF MemoryTyped, EvalDelete, Evaluates
<1>8. CASE FlushSweep
  <2>1. memWrCtrl' \in Seq([buckets : SUBSET Buckets, words : Words])
    BY <1>0, <1>8, EmptyIs, WriteTyped DEF FlushSweep
  <2>. QED BY <1>0, <1>8, <2>1 DEF MemoryTyped, FlushSweep
<1>9. CASE SetRest \/ EvalSetHangs \/ FlushStart \/ FlushWait
  BY <1>0, <1>9 DEF MemoryTyped, SetRest, EvalSetHangs, FlushStart, FlushWait, Evaluates, queues
<1>. QED BY <1>1, <1>2, <1>3, <1>4, <1>5, <1>6, <1>7, <1>8, <1>9 DEF Next, Internal, ClientAsks, InputLogic,
       CcAccept, CcRelease, CcPop, EvalGet, EvalSetFails, OutputLogic, Evaluates, vars, tableVars, queues,
       memVars

(* The same of all buckets. *)
LEMMA HeldTyped ==
  ASSUME Typed
  PROVE  Held \in [Buckets -> Words]
BY CurrentTyped DEF Held, Typed

LEMMA HeldWritten ==
  ASSUME Typed, NEW bs \in SUBSET Buckets, NEW words \in Words, Write(bs, words), UNCHANGED mem
  PROVE  Held' = [b \in Buckets |-> IF b \in bs THEN words ELSE Held[b]]
<1>1. \A b \in Buckets : Current(b)' = IF b \in bs THEN words ELSE Current(b)
  BY CurrentWritten DEF Typed
<1>2. Held' = [b \in Buckets |-> Current(b)']
  BY DEF Held
<1>3. \A b \in Buckets : Held[b] = Current(b)
  BY DEF Held
<1>. QED BY <1>1, <1>2, <1>3

LEMMA HeldSame ==
  ASSUME Typed, AccessWrite \/ UNCHANGED <<mem, memWrCtrl>>
  PROVE  Held' = Held
<1>1. \A b \in Buckets : Current(b)' = Current(b)
  BY CurrentAccessed, CurrentSame DEF Typed
<1>. QED BY <1>1 DEF Held

LEMMA ReplyTyped ==
  ASSUME QueuesTyped, NEW answer \in Answer, Reply(answer)
  PROVE  memWr2out' \in Seq(Answer) /\ Len(memWr2out') = Len(memWr2out) + 1
         /\ memWr2out' = Append(memWr2out, answer)
BY AppendIs DEF QueuesTyped, Reply

(* The requests that are evaluated get an answer at once, or later. *)
LEMMA EvalQueues ==
  ASSUME Typed, NEW op, Evaluates(op)
  PROVE  /\ comp2memWr # <<>> /\ comp2memWr' \in Seq([req : Request, words : Words])
         /\ Compared' = Tail(Compared) /\ Compared \in Seq(Request) /\ Compared # <<>>
         /\ Len(comp2memWr') = Len(comp2memWr) - 1 /\ Len(Compared) = Len(comp2memWr)
         /\ Head(Compared) = Head(comp2memWr).req /\ Head(Compared).op = op
         /\ \A i \in 1 .. Len(comp2memWr) - 1 : comp2memWr'[i] = comp2memWr[i + 1]
         /\ UNCHANGED <<in2cc, mdBuffer, cc2memRead, memRd2comp, memRdCtrl, memRdData, mem, hashFilter, held>>
<1>. DEFINE T == [req : Request, words : Words]
<1>1. comp2memWr \in Seq(T) /\ comp2memWr # <<>> /\ comp2memWr' = Tail(comp2memWr)
      /\ Head(comp2memWr).req.op = op
  BY DEF Typed, QueuesTyped, Evaluates
<1>2. /\ Tail(comp2memWr) \in Seq(T) /\ Len(comp2memWr) \in Nat /\ Len(comp2memWr) > 0
      /\ Len(Tail(comp2memWr)) = Len(comp2memWr) - 1 /\ Head(comp2memWr) = comp2memWr[1]
      /\ \A i \in 1 .. Len(comp2memWr) - 1 : Tail(comp2memWr)[i] = comp2memWr[i + 1]
      /\ \A i \in 1 .. Len(comp2memWr) : comp2memWr[i] \in T
  <2>. HIDE DEF T
  <2>. QED BY <1>1, TailIs, ElementIs
<1>3. /\ DOMAIN comp2memWr = 1 .. Len(comp2memWr) /\ DOMAIN comp2memWr' = 1 .. Len(comp2memWr) - 1
  BY <1>1
<1>4. Compared = [i \in 1 .. Len(comp2memWr) |-> comp2memWr[i].req]
  BY <1>3 DEF Compared
<1>5. Compared \in Seq(Request) /\ Len(Compared) = Len(comp2memWr) /\ Compared # <<>>
      /\ Head(Compared) = Head(comp2memWr).req
  <2>1. \A i \in 1 .. Len(comp2memWr) : comp2memWr[i].req \in Request
    BY <1>2
  <2>. QED BY <1>2, <1>4, <2>1
<1>6. Compared' = Tail(Compared)
  <2>1. Compared' = [i \in 1 .. Len(comp2memWr) - 1 |-> comp2memWr[i + 1].req]
    BY <1>1, <1>2, <1>3 DEF Compared
  <2>. QED BY <1>2, <1>4, <1>5, <2>1
<1>. QED BY <1>1, <1>2, <1>5, <1>6 DEF Evaluates

(* The order of requests. *)

OrderInv == InOrder /\ Filtered

LEMMA ComparedIs ==
  ASSUME Typed
  PROVE  Compared \in Seq(Request) /\ Len(Compared) = nComp /\ nComp \in Nat
<1>. DEFINE T == [req : Request, words : Words]
<1>1. comp2memWr \in Seq(T)
  BY DEF Typed, QueuesTyped
<1>2. \A i \in 1 .. Len(comp2memWr) : comp2memWr[i] \in T
  <2>. HIDE DEF T
  <2>. QED BY <1>1
<1>3. Compared = [i \in 1 .. Len(comp2memWr) |-> comp2memWr[i].req]
  BY <1>1 DEF Compared
<1>. QED BY <1>1, <1>2, <1>3 DEF nComp

LEMMA Lengths ==
  ASSUME Typed
  PROVE  /\ nOut \in Nat /\ nComp \in Nat /\ nRead \in Nat /\ nCc \in Nat /\ nPop \in Nat
         /\ Len(held) \in Nat /\ Len(in2cc) \in Nat /\ Len(mdBuffer) \in Nat
         /\ Len(hashFilter) \in Nat /\ dec2cc \in Nat /\ Len(memWr2out) \in Nat
BY ComparedIs DEF Typed, QueuesTyped, nOut, nRead, nCc, nPop, InHand, ToPop

LEMMA Sums ==
  ASSUME Typed
  PROVE  /\ nOut + nComp + nRead \in Nat
         /\ nPop + nComp \in Nat /\ nPop + nComp + nRead \in Nat
<1>1. nOut \in Nat /\ nComp \in Nat /\ nRead \in Nat /\ nPop \in Nat
  BY Lengths
<1>. QED BY <1>1

LEMMA LiesEmpty ==
  ASSUME NEW T, NEW s \in Seq(T), NEW n \in Nat, n <= Len(s)
  PROVE  Lies(<<>>, s, n)
BY DEF Lies

(* A request is let through. *)
LEMMA PushOrder ==
  ASSUME Typed, OrderInv, NEW r \in Request, Push(r), ~Compare(r),
         r = mdBuffer[nOut + nComp + nRead + nCc + 1], nOut + nComp + nRead + nCc + 1 <= Len(mdBuffer),
         UNCHANGED <<mdBuffer, memRd2comp, comp2memWr, memWr2out, dec2cc, memWrState>>
  PROVE  /\ cc2memRead' \in Seq(Request) /\ hashFilter' \in Seq(Request) /\ nCc' = nCc + 1
         /\ Lies(Compared', mdBuffer, nOut) /\ Lies(memRd2comp, mdBuffer, nOut + nComp)
         /\ Lies(cc2memRead', mdBuffer, nOut + nComp + nRead)
         /\ nOut' = nOut /\ nComp' = nComp /\ nRead' = nRead
         /\ Filtered'
<1>1. /\ hashFilter \in Seq(Request) /\ cc2memRead \in Seq(Request) /\ memRd2comp \in Seq(Request)
      /\ mdBuffer \in Seq(Request)
  BY DEF Typed, QueuesTyped
<1>2. hashFilter' = Append(hashFilter, r) /\ cc2memRead' = Append(cc2memRead, r)
  BY DEF Push
<1>3. nOut' = nOut /\ nComp' = nComp /\ nRead' = nRead /\ nPop' = nPop /\ nCc' = nCc + 1
  BY <1>1, <1>2 DEF nOut, nComp, nRead, nPop, InHand, ToPop, nCc
<1>9. Compared' = Compared /\ Compared \in Seq(Request)
  BY ComparedIs DEF Compared
<1>10. Len(cc2memRead) = nCc
  BY DEF nCc
<1>11. nOut \in Nat /\ nComp \in Nat /\ nRead \in Nat /\ nCc \in Nat /\ nPop \in Nat /\ dec2cc \in Nat
       /\ Len(hashFilter) \in Nat
  BY Lengths
<1>4. /\ hashFilter' \in Seq(Request) /\ cc2memRead' \in Seq(Request)
      /\ Len(hashFilter') = Len(hashFilter) + 1
  BY <1>1, <1>2, AppendIs
<1>5. Lies(Compared, mdBuffer, nOut) /\ Lies(memRd2comp, mdBuffer, nOut + nComp)
  BY DEF OrderInv, InOrder
<1>6. Lies(cc2memRead', mdBuffer, nOut + nComp + nRead)
  <2>1. Lies(cc2memRead, mdBuffer, nOut + nComp + nRead)
    BY DEF OrderInv, InOrder
  <2>2. nOut + nComp + nRead \in Nat
    BY Sums
  <2>. QED BY <1>1, <1>2, <1>10, <2>1, <2>2, LiesAppend
<1>7. Filtered'
  <2>0. /\ Len(hashFilter) = nPop + nComp + nRead + nCc
        /\ Lies(Compared, hashFilter, nPop)
        /\ Lies(memRd2comp, hashFilter, nPop + nComp)
        /\ Lies(cc2memRead, hashFilter, nPop + nComp + nRead)
    BY DEF OrderInv, Filtered
  <2>1. Len(hashFilter') = nPop' + nComp' + nRead' + nCc'
    <3>1. Len(hashFilter) = nPop + nComp + nRead + nCc /\ Len(hashFilter') = Len(hashFilter) + 1
      BY <1>4, <2>0
    <3>. QED BY <1>3, <1>11, <3>1
  <2>2. Lies(Compared', hashFilter', nPop')
    BY <1>1, <1>2, <1>3, <1>9, <2>0, Lengths, LiesWithin
  <2>3. Lies(memRd2comp', hashFilter', nPop' + nComp')
    <3>1. nPop + nComp \in Nat
      BY Sums
    <3>. QED BY <1>1, <1>2, <1>3, <2>0, <3>1, LiesWithin
  <2>4. Lies(cc2memRead', hashFilter', nPop' + nComp' + nRead')
    <3>1. nPop + nComp + nRead \in Nat
      BY Sums
    <3>2. (nPop + nComp + nRead) + Len(cc2memRead) = Len(hashFilter)
      BY <1>10, <2>0
    <3>. QED BY <1>1, <1>2, <1>3, <2>0, <3>1, <3>2, LiesAtEnd
  <2>5. memWrState' \in {"flushWait", "flush"} => hashFilter'[nPop'].op = "flush"
    <3>1. SUFFICES ASSUME memWrState \in {"flushWait", "flush"} PROVE hashFilter'[nPop].op = "flush"
      BY <1>3
    <3>2. hashFilter[nPop].op = "flush"
      BY <3>1 DEF OrderInv, Filtered
    <3>3. nPop = dec2cc + 1
      BY <3>1 DEF nPop, ToPop
    <3>4. nPop \in 1 .. Len(hashFilter)
      <4>1. Len(hashFilter) = nPop + nComp + nRead + nCc
        BY <2>0
      <4>. QED BY <1>11, <3>3, <4>1
    <3>. QED BY <1>1, <1>2, <3>2, <3>4, AppendIs
  <2>6. \A i, j \in 1 .. Len(hashFilter') : i < j => ~Blocks(hashFilter'[i], hashFilter'[j])
    <3>1. \A i, j \in 1 .. Len(hashFilter) : i < j => ~Blocks(hashFilter[i], hashFilter[j])
      BY DEF OrderInv, Filtered
    <3>2. \A i \in 1 .. Len(hashFilter) : ~Blocks(hashFilter[i], r)
      BY <1>1 DEF Compare
    <3>. QED BY <1>1, <1>2, <1>4, <3>1, <3>2, AppendIs
  <2>. QED BY <2>1, <2>2, <2>3, <2>4, <2>5, <2>6 DEF Filtered
<1>. QED BY <1>3, <1>4, <1>5, <1>6, <1>7, <1>9

LEMMA AcceptOrder ==
  ASSUME Typed, OrderInv, CcAccept
  PROVE  QueuesTyped' /\ OrderInv'
<1>. DEFINE r == Head(in2cc)
            n == nOut + nComp + nRead + nCc
<1>1. /\ in2cc \in Seq(Request) /\ in2cc # <<>> /\ held = <<>> /\ in2cc' = Tail(in2cc)
      /\ mdBuffer \in Seq(Request) /\ Len(held) = 0
      /\ UNCHANGED <<mdBuffer, memRd2comp, comp2memWr, memWr2out, dec2cc, memWrState>>
  BY DEF Typed, QueuesTyped, CcAccept, memVars
<1>2. r \in Request /\ in2cc' \in Seq(Request) /\ Len(in2cc') = Len(in2cc) - 1 /\ Len(in2cc) \in Nat
  BY <1>1, TailIs
<1>3. n \in Nat /\ Len(mdBuffer) = n + Len(in2cc) /\ Lies(in2cc, mdBuffer, n)
  <2>1. /\ Len(mdBuffer) = n + Len(held) + Len(in2cc)
        /\ Lies(in2cc, mdBuffer, n + Len(held))
    BY DEF OrderInv, InOrder
  <2>2. n \in Nat /\ Len(in2cc) \in Nat
    BY Lengths
  <2>3. n + Len(held) = n
    <3>. HIDE DEF n
    <3>. QED BY <1>1, <2>2
  <2>. QED BY <2>1, <2>2, <2>3
<1>4. Lies(in2cc', mdBuffer, n + 1) /\ mdBuffer[n + 1] = r /\ n + 1 <= Len(mdBuffer)
  <2>1. Lies(in2cc', mdBuffer, n + 1) /\ mdBuffer[n + 1] = r
    <3>. HIDE DEF n
    <3>. QED BY <1>1, <1>2, <1>3, LiesTail
  <2>. QED BY <1>1, <1>2, <1>3, <2>1, TailIs
<1>5. memWrState' \in {"flushWait", "flush"} => mdBuffer'[nOut].op = "flush"
  BY <1>1 DEF OrderInv, InOrder
<1>6. CASE Compare(r) \/ Full
  <2>1. held' = <<r>> /\ UNCHANGED <<hashFilter, cc2memRead>>
    BY <1>6 DEF CcAccept
  <2>2. held' \in Seq(Request) /\ Len(held') = 1 /\ held'[1] = r
    BY <1>2, <2>1
  <2>3. QueuesTyped'
    BY <1>1, <1>2, <2>1, <2>2 DEF Typed, QueuesTyped
  <2>4. /\ nOut' = nOut /\ nComp' = nComp /\ nRead' = nRead /\ nCc' = nCc /\ nPop' = nPop
        /\ Compared' = Compared
    BY <1>1, <2>1 DEF nOut, nComp, nRead, nCc, nPop, InHand, ToPop, Compared
  <2>5. Lies(held', mdBuffer, n)
    <3>. HIDE DEF n
    <3>. QED BY <1>3, <1>4, <2>2 DEF Lies
  <2>6. Filtered'
    BY <1>1, <2>1, <2>4 DEF OrderInv, Filtered
  <2>7. Len(mdBuffer') = nOut' + nComp' + nRead' + nCc' + Len(held') + Len(in2cc')
    BY <1>1, <1>2, <1>3, <2>2, <2>4, Lengths
  <2>8. Lies(in2cc', mdBuffer', nOut' + nComp' + nRead' + nCc' + Len(held'))
    BY <1>1, <1>4, <2>2, <2>4
  <2>. QED BY <1>1, <1>5, <2>1, <2>3, <2>4, <2>5, <2>6, <2>7, <2>8 DEF OrderInv, InOrder
<1>7. CASE ~(Compare(r) \/ Full)
  <2>1. Push(r) /\ held' = held
    BY <1>7 DEF CcAccept
  <2>2. /\ cc2memRead' \in Seq(Request) /\ hashFilter' \in Seq(Request) /\ nCc' = nCc + 1
        /\ Lies(Compared', mdBuffer, nOut) /\ Lies(memRd2comp, mdBuffer, nOut + nComp)
        /\ Lies(cc2memRead', mdBuffer, nOut + nComp + nRead)
        /\ nOut' = nOut /\ nComp' = nComp /\ nRead' = nRead
        /\ Filtered'
    BY <1>1, <1>2, <1>4, <1>7, <2>1, PushOrder
  <2>3. QueuesTyped'
    BY <1>1, <1>2, <2>1, <2>2 DEF Typed, QueuesTyped
  <2>4. Len(mdBuffer') = nOut' + nComp' + nRead' + nCc' + Len(held') + Len(in2cc')
    <3>1. Len(mdBuffer') = nOut + nComp + nRead + nCc + Len(in2cc) /\ Len(held') = 0
      BY <1>1, <1>3, <2>1
    <3>2. nOut' = nOut /\ nComp' = nComp /\ nRead' = nRead /\ nCc' = nCc + 1
      BY <2>2
    <3>3. Len(in2cc') = Len(in2cc) - 1
      BY <1>2
    <3>4. /\ nOut \in Nat /\ nComp \in Nat /\ nRead \in Nat /\ nCc \in Nat /\ Len(in2cc) \in Nat
      BY Lengths
    <3>. HIDE DEF n
    <3>. QED BY <3>1, <3>2, <3>3, <3>4
  <2>5. Lies(in2cc', mdBuffer', nOut' + nComp' + nRead' + nCc' + Len(held'))
    <3>1. nOut' + nComp' + nRead' + nCc' + Len(held') = n + 1
      <4>1. n = nOut + nComp + nRead + nCc /\ Len(held') = 0
        BY <1>1, <2>1
      <4>2. nOut \in Nat /\ nComp \in Nat /\ nRead \in Nat /\ nCc \in Nat
        BY Lengths
      <4>. HIDE DEF n, nOut, nComp, nRead, nCc
      <4>. QED BY <2>2, <4>1, <4>2
    <3>. QED BY <1>1, <1>4, <3>1
  <2>6. Lies(held', mdBuffer', nOut' + nComp' + nRead' + nCc')
    <3>1. nOut' + nComp' + nRead' + nCc' = n + 1
      <4>1. n = nOut + nComp + nRead + nCc
        BY <1>1
      <4>2. nOut \in Nat /\ nComp \in Nat /\ nRead \in Nat /\ nCc \in Nat
        BY Lengths
      <4>. HIDE DEF n, nOut, nComp, nRead, nCc
      <4>. QED BY <2>2, <4>1, <4>2
    <3>. HIDE DEF n
    <3>. QED BY <1>1, <1>3, <1>4, <2>1, <3>1, LiesEmpty
  <2>. QED BY <1>1, <1>5, <2>2, <2>3, <2>4, <2>5, <2>6 DEF OrderInv, InOrder
<1>. QED BY <1>6, <1>7

LEMMA ReleaseOrder ==
  ASSUME Typed, OrderInv, CcRelease
  PROVE  QueuesTyped' /\ OrderInv'
<1>. DEFINE r == held[1]
            n == nOut + nComp + nRead + nCc
<1>1. /\ held \in Seq(Request) /\ held # <<>> /\ Len(held) = 1 /\ held' = <<>>
      /\ mdBuffer \in Seq(Request) /\ in2cc \in Seq(Request)
      /\ UNCHANGED <<in2cc, mdBuffer, memRd2comp, comp2memWr, memWr2out, dec2cc, memWrState>>
  <2>1. held \in Seq(Request) /\ held # <<>> /\ Len(held) <= 1
    BY DEF Typed, QueuesTyped, CcRelease
  <2>2. Len(held) = 1
    BY <2>1, TailIs
  <2>. QED BY <2>1, <2>2 DEF Typed, QueuesTyped, CcRelease, memVars
<1>2. r \in Request /\ Push(r) /\ ~Compare(r)
  BY <1>1 DEF CcRelease
<1>3. /\ nOut \in Nat /\ nComp \in Nat /\ nRead \in Nat /\ nCc \in Nat /\ Len(in2cc) \in Nat /\ n \in Nat
  BY Lengths
<1>4. Len(mdBuffer) = n + Len(held) + Len(in2cc) /\ Lies(held, mdBuffer, n)
      /\ Lies(in2cc, mdBuffer, n + Len(held))
  BY DEF OrderInv, InOrder
<1>5. mdBuffer[n + 1] = r /\ n + 1 <= Len(mdBuffer)
  <2>1. mdBuffer[n + 1] = r
    <3>. HIDE DEF n
    <3>. QED BY <1>1, <1>3, <1>4 DEF Lies
  <2>2. n + 1 <= Len(mdBuffer)
    <3>. HIDE DEF n
    <3>. QED BY <1>1, <1>3, <1>4
  <2>. QED BY <2>1, <2>2
<1>6. /\ cc2memRead' \in Seq(Request) /\ hashFilter' \in Seq(Request) /\ nCc' = nCc + 1
      /\ Lies(Compared', mdBuffer, nOut) /\ Lies(memRd2comp, mdBuffer, nOut + nComp)
      /\ Lies(cc2memRead', mdBuffer, nOut + nComp + nRead)
      /\ nOut' = nOut /\ nComp' = nComp /\ nRead' = nRead
      /\ Filtered'
  BY <1>1, <1>2, <1>5, PushOrder
<1>7. nOut' + nComp' + nRead' + nCc' = n + 1
  BY <1>3, <1>6
<1>8. Len(held') = 0
  BY <1>1
<1>9. Len(mdBuffer') = nOut' + nComp' + nRead' + nCc' + Len(held') + Len(in2cc')
  <2>1. Len(mdBuffer') = n + 1 + Len(in2cc) /\ in2cc' = in2cc
    BY <1>1, <1>4
  <2>. HIDE DEF n
  <2>. QED BY <1>3, <1>7, <1>8, <2>1
<1>10. Lies(in2cc', mdBuffer', nOut' + nComp' + nRead' + nCc' + Len(held'))
  <2>1. nOut' + nComp' + nRead' + nCc' + Len(held') = n + 1
    <3>. HIDE DEF n
    <3>. QED BY <1>3, <1>7, <1>8
  <2>2. Lies(in2cc, mdBuffer, n + 1)
    BY <1>1, <1>4
  <2>. QED BY <1>1, <2>1, <2>2
<1>11. Lies(held', mdBuffer', nOut' + nComp' + nRead' + nCc')
  <2>. HIDE DEF n
  <2>. QED BY <1>1, <1>3, <1>5, <1>7, LiesEmpty
<1>12. memWrState' \in {"flushWait", "flush"} => mdBuffer'[nOut].op = "flush"
  BY <1>1 DEF OrderInv, InOrder
<1>13. QueuesTyped'
  BY <1>1, <1>6 DEF Typed, QueuesTyped
<1>. QED BY <1>1, <1>6, <1>9, <1>10, <1>11, <1>12, <1>13 DEF OrderInv, InOrder

LEMMA PopOrder ==
  ASSUME Typed, OrderInv, CcPop
  PROVE  QueuesTyped' /\ OrderInv'
<1>1. /\ dec2cc > 0 /\ dec2cc \in Nat /\ dec2cc' = dec2cc - 1 /\ hashFilter' = Tail(hashFilter)
      /\ hashFilter \in Seq(Request) /\ memRd2comp \in Seq(Request) /\ cc2memRead \in Seq(Request)
      /\ UNCHANGED <<held, queues, memWrState>>
  BY DEF Typed, QueuesTyped, CcPop, memVars
<1>2. /\ nOut' = nOut /\ nComp' = nComp /\ nRead' = nRead /\ nCc' = nCc
  BY <1>1 DEF queues, nOut, nComp, nRead, nCc, InHand
<1>3. nPop' = nPop - 1 /\ nPop > 0
  BY <1>1 DEF nPop, ToPop
<1>4. Compared' = Compared /\ Compared \in Seq(Request)
  BY <1>1, ComparedIs DEF queues, Compared
<1>5. nPop \in Nat /\ nComp \in Nat /\ nRead \in Nat /\ nCc \in Nat /\ Len(hashFilter) \in Nat
  BY Lengths
<1>6. /\ Len(hashFilter) = nPop + nComp + nRead + nCc
      /\ Lies(Compared, hashFilter, nPop)
      /\ Lies(memRd2comp, hashFilter, nPop + nComp)
      /\ Lies(cc2memRead, hashFilter, nPop + nComp + nRead)
  BY DEF OrderInv, Filtered
<1>7. hashFilter # <<>>
  <2>1. Len(hashFilter) = nPop + nComp + nRead + nCc
    BY <1>6
  <2>2. Len(hashFilter) > 0
    BY <1>3, <1>5, <2>1
  <2>. QED BY <2>2
<1>8. hashFilter' \in Seq(Request) /\ Len(hashFilter') = Len(hashFilter) - 1
      /\ \A i \in 1 .. Len(hashFilter) - 1 : hashFilter'[i] = hashFilter[i + 1]
  BY <1>1, <1>7, TailIs
<1>9. QueuesTyped'
  BY <1>1, <1>8 DEF Typed, QueuesTyped, queues
<1>10. InOrder'
  BY <1>1, <1>2, <1>4 DEF OrderInv, InOrder, queues
<1>11. Filtered'
  <2>1. Len(hashFilter') = nPop' + nComp' + nRead' + nCc'
    <3>1. Len(hashFilter) = nPop + nComp + nRead + nCc /\ Len(hashFilter') = Len(hashFilter) - 1
      BY <1>6, <1>8
    <3>. QED BY <1>2, <1>3, <1>5, <3>1
  <2>2. Lies(Compared', hashFilter', nPop')
    BY <1>1, <1>3, <1>4, <1>5, <1>6, LiesBefore
  <2>3. Lies(memRd2comp', hashFilter', nPop' + nComp')
    <3>1. nPop + nComp \in Nat /\ nPop + nComp > 0 /\ nPop' + nComp' = (nPop + nComp) - 1
      BY <1>2, <1>3, <1>5
    <3>. QED BY <1>1, <1>6, <3>1, LiesBefore DEF queues
  <2>4. Lies(cc2memRead', hashFilter', nPop' + nComp' + nRead')
    <3>1. nPop + nComp + nRead \in Nat /\ nPop + nComp + nRead > 0
          /\ nPop' + nComp' + nRead' = (nPop + nComp + nRead) - 1
      BY <1>2, <1>3, <1>5
    <3>. QED BY <1>1, <1>6, <3>1, LiesBefore DEF queues
  <2>5. memWrState' \in {"flushWait", "flush"} => hashFilter'[nPop'].op = "flush"
    <3>1. SUFFICES ASSUME memWrState \in {"flushWait", "flush"} PROVE hashFilter'[nPop'].op = "flush"
      BY <1>1
    <3>2. hashFilter[nPop].op = "flush"
      BY <3>1 DEF OrderInv, Filtered
    <3>3. nPop = dec2cc + 1
      BY <3>1 DEF nPop, ToPop
    <3>4. nPop' \in 1 .. Len(hashFilter) - 1 /\ nPop' + 1 = nPop
      <4>1. Len(hashFilter) = nPop + nComp + nRead + nCc
        BY <1>6
      <4>. QED BY <1>1, <1>3, <1>5, <3>3, <4>1
    <3>. QED BY <1>8, <3>2, <3>4
  <2>6. \A i, j \in 1 .. Len(hashFilter') : i < j => ~Blocks(hashFilter'[i], hashFilter'[j])
    <3>1. \A i, j \in 1 .. Len(hashFilter) : i < j => ~Blocks(hashFilter[i], hashFilter[j])
      BY DEF OrderInv, Filtered
    <3>2. SUFFICES ASSUME NEW i \in 1 .. Len(hashFilter'), NEW j \in 1 .. Len(hashFilter'), i < j
                   PROVE  ~Blocks(hashFilter'[i], hashFilter'[j])
      OBVIOUS
    <3>3. /\ i + 1 \in 1 .. Len(hashFilter) /\ j + 1 \in 1 .. Len(hashFilter) /\ i + 1 < j + 1
          /\ i \in 1 .. Len(hashFilter) - 1 /\ j \in 1 .. Len(hashFilter) - 1
      BY <1>5, <1>8, <3>2
    <3>. QED BY <1>8, <3>1, <3>3
  <2>. QED BY <2>1, <2>2, <2>3, <2>4, <2>5, <2>6 DEF Filtered
<1>. QED BY <1>9, <1>10, <1>11 DEF OrderInv

LEMMA AskOrder ==
  ASSUME Typed, OrderInv, NEW r \in Request, InputLogic(r)
  PROVE  QueuesTyped' /\ OrderInv'
<1>1. /\ in2cc' = Append(in2cc, r) /\ mdBuffer' = Append(mdBuffer, r)
      /\ in2cc \in Seq(Request) /\ mdBuffer \in Seq(Request) /\ memRd2comp \in Seq(Request)
      /\ cc2memRead \in Seq(Request) /\ held \in Seq(Request)
      /\ UNCHANGED <<cc2memRead, memRd2comp, comp2memWr, memWr2out, hashFilter, held, dec2cc, memWrState>>
  BY DEF Typed, QueuesTyped, InputLogic, filterVars, memVars
<1>2. /\ in2cc' \in Seq(Request) /\ mdBuffer' \in Seq(Request) /\ Len(in2cc') = Len(in2cc) + 1
      /\ Len(mdBuffer') = Len(mdBuffer) + 1
      /\ \A i \in 1 .. Len(mdBuffer) : mdBuffer'[i] = mdBuffer[i]
  BY <1>1, AppendIs
<1>3. nOut' = nOut /\ nComp' = nComp /\ nRead' = nRead /\ nCc' = nCc /\ nPop' = nPop
  BY <1>1 DEF nOut, nComp, nRead, nCc, nPop, InHand, ToPop
<1>4. Compared' = Compared /\ Compared \in Seq(Request) /\ held' = held
  BY <1>1, ComparedIs DEF Compared
<1>5. /\ nOut \in Nat /\ nComp \in Nat /\ nRead \in Nat /\ nCc \in Nat /\ nPop \in Nat
      /\ Len(held) \in Nat /\ Len(in2cc) \in Nat /\ Len(mdBuffer) \in Nat
  BY Lengths
<1>6. Len(mdBuffer) = nOut + nComp + nRead + nCc + Len(held) + Len(in2cc)
  BY DEF OrderInv, InOrder
<1>7. /\ nOut + nComp \in Nat /\ nOut + nComp + nRead \in Nat /\ nOut + nComp + nRead + nCc \in Nat
      /\ nOut + nComp + nRead + nCc + Len(held) \in Nat
  BY <1>5
<1>8. /\ Lies(Compared, mdBuffer', nOut) /\ Lies(memRd2comp, mdBuffer', nOut + nComp)
      /\ Lies(cc2memRead, mdBuffer', nOut + nComp + nRead)
      /\ Lies(held, mdBuffer', nOut + nComp + nRead + nCc)
  BY <1>1, <1>4, <1>5, <1>7, LiesWithin DEF OrderInv, InOrder
<1>9. Lies(in2cc', mdBuffer', nOut + nComp + nRead + nCc + Len(held))
  <2>. DEFINE n == nOut + nComp + nRead + nCc + Len(held)
  <2>1. Lies(in2cc, mdBuffer, n) /\ n \in Nat /\ n + Len(in2cc) = Len(mdBuffer)
    BY <1>6, <1>7 DEF OrderInv, InOrder
  <2>. HIDE DEF n
  <2>2. Lies(in2cc', mdBuffer', n)
    BY <1>1, <2>1, LiesAtEnd
  <2>. QED BY <2>2 DEF n
<1>10. Len(mdBuffer') = nOut' + nComp' + nRead' + nCc' + Len(held') + Len(in2cc')
  <2>1. Len(held') = Len(held)
    BY <1>4
  <2>. QED BY <1>2, <1>3, <1>5, <1>6, <2>1
<1>11. memWrState' \in {"flushWait", "flush"} => mdBuffer'[nOut].op = "flush"
  <2>1. SUFFICES ASSUME memWrState \in {"flushWait", "flush"} PROVE mdBuffer'[nOut].op = "flush"
    BY <1>1
  <2>2. mdBuffer[nOut].op = "flush"
    BY <2>1 DEF OrderInv, InOrder
  <2>3. nOut = Len(memWr2out) + 1 /\ Len(memWr2out) \in Nat
    BY <2>1, Lengths DEF nOut, InHand
  <2>4. nOut \in 1 .. Len(mdBuffer)
    BY <1>5, <1>6, <2>3
  <2>. QED BY <1>2, <2>2, <2>4
<1>12. InOrder'
  BY <1>1, <1>3, <1>4, <1>8, <1>9, <1>10, <1>11 DEF InOrder
<1>13. Filtered'
  BY <1>1, <1>3, <1>4 DEF OrderInv, Filtered
<1>14. QueuesTyped'
  BY <1>1, <1>2 DEF Typed, QueuesTyped
<1>. QED BY <1>12, <1>13, <1>14 DEF OrderInv

LEMMA ReadOrder ==
  ASSUME Typed, OrderInv, MemRead
  PROVE  QueuesTyped' /\ OrderInv' /\ nRead' = nRead + 1 /\ nCc > 0
         /\ memRd2comp' = Append(memRd2comp, Head(cc2memRead))
         /\ Head(cc2memRead) \in Request /\ hashFilter[nPop + nComp + nRead + 1] = Head(cc2memRead)
<1>. DEFINE r == Head(cc2memRead)
<1>1. /\ cc2memRead' = Tail(cc2memRead) /\ memRd2comp' = Append(memRd2comp, r) /\ cc2memRead # <<>>
      /\ mdBuffer \in Seq(Request) /\ memRd2comp \in Seq(Request) /\ hashFilter \in Seq(Request)
      /\ cc2memRead \in Seq(Request)
      /\ UNCHANGED <<in2cc, mdBuffer, comp2memWr, memWr2out, hashFilter, held, dec2cc, memWrState>>
  BY DEF Typed, QueuesTyped, MemRead, filterVars, memVars
<1>2. r \in Request /\ cc2memRead' \in Seq(Request) /\ Len(cc2memRead') = Len(cc2memRead) - 1
      /\ Len(cc2memRead) > 0
  BY <1>1, TailIs
<1>3. memRd2comp' \in Seq(Request) /\ Len(memRd2comp') = Len(memRd2comp) + 1
  BY <1>1, <1>2, AppendIs
<1>4. nOut' = nOut /\ nComp' = nComp /\ nRead' = nRead + 1 /\ nCc' = nCc - 1 /\ nPop' = nPop /\ nCc > 0
  BY <1>1, <1>2, <1>3 DEF nOut, nComp, nRead, nCc, nPop, InHand, ToPop
<1>5. Compared' = Compared /\ held' = held /\ in2cc' = in2cc
  BY <1>1, ComparedIs DEF Compared
<1>6. /\ nOut \in Nat /\ nComp \in Nat /\ nRead \in Nat /\ nCc \in Nat /\ nPop \in Nat
      /\ Len(held) \in Nat /\ Len(in2cc) \in Nat /\ nRead = Len(memRd2comp) /\ nCc = Len(cc2memRead)
  BY Lengths DEF nRead, nCc
<1>7. ASSUME NEW s \in Seq(Request), NEW n \in Nat,
             Lies(memRd2comp, s, n + nComp), Lies(cc2memRead, s, n + nComp + nRead)
      PROVE  /\ Lies(memRd2comp', s, n + nComp) /\ Lies(cc2memRead', s, n + nComp + nRead')
             /\ s[n + nComp + nRead + 1] = r
  <2>. DEFINE m == n + nComp + nRead
              k == n + nComp
  <2>1. m \in Nat /\ k \in Nat /\ m = k + nRead
    BY <1>6
  <2>2. Lies(cc2memRead', s, m + 1) /\ s[m + 1] = r
    <3>. HIDE DEF m
    <3>. QED BY <1>1, <1>7, <2>1, LiesTail DEF m
  <2>3. m + 1 <= Len(s)
    <3>1. m + Len(cc2memRead) <= Len(s) /\ Len(s) \in Nat
      BY <1>7 DEF Lies
    <3>. HIDE DEF m
    <3>. QED BY <1>2, <1>6, <2>1, <3>1
  <2>4. k + Len(memRd2comp) + 1 <= Len(s) /\ s[k + Len(memRd2comp) + 1] = r
    <3>1. k + Len(memRd2comp) + 1 = m + 1
      BY <1>6, <2>1
    <3>. QED BY <2>2, <2>3, <3>1
  <2>5. Lies(memRd2comp', s, k)
    <3>. HIDE DEF k
    <3>. QED BY <1>1, <1>2, <1>7, <2>1, <2>4, LiesAppend DEF k
  <2>6. n + nComp + nRead' = m + 1
    BY <1>4, <1>6
  <2>. QED BY <2>2, <2>5, <2>6
<1>8. /\ Lies(memRd2comp', mdBuffer, nOut + nComp) /\ Lies(cc2memRead', mdBuffer, nOut + nComp + nRead')
  BY <1>1, <1>6, <1>7 DEF OrderInv, InOrder
<1>9. /\ Lies(memRd2comp', hashFilter, nPop + nComp) /\ Lies(cc2memRead', hashFilter, nPop + nComp + nRead')
      /\ hashFilter[nPop + nComp + nRead + 1] = r
  BY <1>1, <1>6, <1>7 DEF OrderInv, Filtered
<1>10. nOut' + nComp' + nRead' + nCc' = nOut + nComp + nRead + nCc
       /\ nPop' + nComp' + nRead' + nCc' = nPop + nComp + nRead + nCc
  BY <1>4, <1>6
<1>11. InOrder'
  BY <1>1, <1>4, <1>5, <1>8, <1>10 DEF OrderInv, InOrder
<1>12. Filtered'
  BY <1>1, <1>4, <1>5, <1>9, <1>10 DEF OrderInv, Filtered
<1>13. QueuesTyped'
  BY <1>1, <1>2, <1>3 DEF Typed, QueuesTyped
<1>. QED BY <1>1, <1>2, <1>4, <1>9, <1>11, <1>12, <1>13 DEF OrderInv

(* The request and the words that ht_compare joins. *)
Joined == [req |-> Head(memRd2comp),
           words |-> IF Head(memRd2comp).op = "flush" THEN EmptyBucket ELSE Head(memRdData)]

LEMMA CompareOrder ==
  ASSUME Typed, OrderInv, HtCompare
  PROVE  /\ QueuesTyped' /\ OrderInv' /\ nComp' = nComp + 1 /\ nRead' = nRead - 1 /\ nRead > 0
         /\ comp2memWr' = Append(comp2memWr, Joined) /\ Joined.req \in Request /\ Joined.words \in Words
         /\ hashFilter[nPop + nComp + 1] = Head(memRd2comp)
<1>. DEFINE r == Head(memRd2comp)
            T == [req : Request, words : Words]
<1>1. /\ memRd2comp' = Tail(memRd2comp) /\ memRd2comp # <<>>
      /\ mdBuffer \in Seq(Request) /\ memRd2comp \in Seq(Request) /\ hashFilter \in Seq(Request)
      /\ comp2memWr \in Seq(T) /\ memRdData \in Seq(Words)
      /\ UNCHANGED <<in2cc, mdBuffer, cc2memRead, memWr2out, hashFilter, held, dec2cc, memWrState>>
  BY DEF Typed, QueuesTyped, MemoryTyped, HtCompare, filterVars, memVars
<1>2. r \in Request /\ memRd2comp' \in Seq(Request) /\ Len(memRd2comp') = Len(memRd2comp) - 1
      /\ Len(memRd2comp) > 0
  BY <1>1, TailIs
<1>3. Joined.req = r /\ Joined.words \in Words /\ Joined \in T
  <2>1. r.op # "flush" => Head(memRdData) \in Words
    BY <1>1, TailIs DEF HtCompare
  <2>. QED BY <1>2, <2>1, EmptyIs DEF Joined
<1>4. comp2memWr' = Append(comp2memWr, Joined)
  BY DEF HtCompare, Joined
<1>5. comp2memWr' \in Seq(T) /\ Len(comp2memWr') = Len(comp2memWr) + 1
      /\ comp2memWr'[Len(comp2memWr) + 1] = Joined
      /\ \A i \in 1 .. Len(comp2memWr) : comp2memWr'[i] = comp2memWr[i]
  <2>. HIDE DEF T
  <2>. QED BY <1>1, <1>3, <1>4, AppendIs
<1>6. nOut' = nOut /\ nComp' = nComp + 1 /\ nRead' = nRead - 1 /\ nCc' = nCc /\ nPop' = nPop /\ nRead > 0
  BY <1>1, <1>2, <1>5 DEF nOut, nComp, nRead, nCc, nPop, InHand, ToPop
<1>7. Compared' = Append(Compared, r)
  <2>1. DOMAIN comp2memWr = 1 .. Len(comp2memWr) /\ DOMAIN comp2memWr' = 1 .. Len(comp2memWr) + 1
        /\ Len(comp2memWr) \in Nat
    BY <1>1, <1>5
  <2>2. Compared = [i \in 1 .. Len(comp2memWr) |-> comp2memWr[i].req]
    BY <2>1 DEF Compared
  <2>3. Compared' = [i \in 1 .. Len(comp2memWr) + 1 |-> comp2memWr'[i].req]
    BY <2>1 DEF Compared
  <2>4. Compared \in Seq(Request) /\ Len(Compared) = Len(comp2memWr)
    BY ComparedIs DEF nComp
  <2>. DEFINE q == Append(Compared, r)
  <2>5. /\ q \in Seq(Request) /\ Len(q) = Len(comp2memWr) + 1 /\ q[Len(comp2memWr) + 1] = r
        /\ \A i \in 1 .. Len(comp2memWr) : q[i] = Compared[i]
    BY <1>2, <2>4, AppendIs
  <2>6. \A i \in 1 .. Len(comp2memWr) + 1 : comp2memWr'[i].req = q[i]
    <3>. HIDE DEF q
    <3>. QED BY <1>3, <1>5, <2>1, <2>2, <2>5
  <2>7. \A i \in 1 .. Len(comp2memWr) + 1 : comp2memWr'[i].req \in Request
    <3>. HIDE DEF q
    <3>. QED BY <2>1, <2>5, <2>6
  <2>8. Compared' \in Seq(Request) /\ Len(Compared') = Len(comp2memWr) + 1
    BY <2>1, <2>3, <2>7
  <2>9. \A i \in 1 .. Len(Compared') : Compared'[i] = q[i]
    BY <2>3, <2>6, <2>8
  <2>. HIDE DEF q
  <2>10. Compared' = q
    BY <2>5, <2>8, <2>9, SeqEqual
  <2>. QED BY <2>10 DEF q
<1>8. /\ nOut \in Nat /\ nComp \in Nat /\ nRead \in Nat /\ nCc \in Nat /\ nPop \in Nat
      /\ nRead = Len(memRd2comp) /\ Compared \in Seq(Request) /\ Len(Compared) = nComp
  BY Lengths, ComparedIs DEF nRead
<1>9. ASSUME NEW s \in Seq(Request), NEW n \in Nat, Lies(Compared, s, n), Lies(memRd2comp, s, n + nComp)
      PROVE  /\ Lies(Compared', s, n) /\ Lies(memRd2comp', s, n + nComp')
             /\ s[n + nComp + 1] = r
  <2>. DEFINE m == n + nComp
  <2>1. m \in Nat
    BY <1>8
  <2>2. Lies(memRd2comp', s, m + 1) /\ s[m + 1] = r
    <3>. HIDE DEF m
    <3>. QED BY <1>1, <1>9, <2>1, LiesTail DEF m
  <2>3. m + 1 <= Len(s)
    <3>1. m + Len(memRd2comp) <= Len(s) /\ Len(s) \in Nat
      BY <1>9 DEF Lies
    <3>. HIDE DEF m
    <3>. QED BY <1>2, <1>8, <2>1, <3>1
  <2>4. Lies(Compared', s, n)
    <3>1. n + Len(Compared) + 1 = m + 1
      BY <1>8
    <3>. HIDE DEF m
    <3>. QED BY <1>2, <1>7, <1>8, <1>9, <2>2, <2>3, <3>1, LiesAppend
  <2>5. n + nComp' = m + 1
    BY <1>6, <1>8
  <2>. QED BY <2>2, <2>4, <2>5
<1>10. Lies(Compared', mdBuffer, nOut) /\ Lies(memRd2comp', mdBuffer, nOut + nComp')
  BY <1>1, <1>8, <1>9 DEF OrderInv, InOrder
<1>11. /\ Lies(Compared', hashFilter, nPop) /\ Lies(memRd2comp', hashFilter, nPop + nComp')
       /\ hashFilter[nPop + nComp + 1] = r
  BY <1>1, <1>8, <1>9 DEF OrderInv, Filtered
<1>12. /\ nOut' + nComp' + nRead' = nOut + nComp + nRead /\ nPop' + nComp' + nRead' = nPop + nComp + nRead
       /\ nCc' = nCc
  BY <1>6, <1>8
<1>13. InOrder'
  BY <1>1, <1>6, <1>10, <1>12 DEF OrderInv, InOrder
<1>14. Filtered'
  BY <1>1, <1>6, <1>11, <1>12 DEF OrderInv, Filtered
<1>15. QueuesTyped'
  BY <1>1, <1>2, <1>5 DEF Typed, QueuesTyped
<1>. QED BY <1>2, <1>3, <1>4, <1>6, <1>11, <1>13, <1>14, <1>15 DEF OrderInv

(* memWrite takes the oldest request that is not executed, and the oldest  *)
(* entry of the filter that is not popped. *)
LEMMA EvalOrder ==
  ASSUME Typed, OrderInv, NEW op, Evaluates(op), nOut' = nOut + 1, nPop' = nPop + 1,
         memWrState' \in {"flushWait", "flush"} => op = "flush"
  PROVE  /\ OrderInv' /\ nComp' = nComp - 1 /\ nRead' = nRead /\ nCc' = nCc /\ nComp > 0
         /\ mdBuffer[nOut + 1] = Head(comp2memWr).req /\ hashFilter[nPop + 1] = Head(comp2memWr).req
         /\ nOut = Len(memWr2out) /\ nPop = dec2cc /\ nOut + 1 <= Len(mdBuffer)
<1>1. /\ Compared \in Seq(Request) /\ Compared # <<>> /\ Compared' = Tail(Compared)
      /\ Len(comp2memWr') = Len(comp2memWr) - 1 /\ Len(Compared) = Len(comp2memWr)
      /\ Head(Compared) = Head(comp2memWr).req /\ Head(Compared).op = op
      /\ UNCHANGED <<in2cc, mdBuffer, cc2memRead, memRd2comp, hashFilter, held>>
  BY EvalQueues
<1>2. mdBuffer \in Seq(Request) /\ hashFilter \in Seq(Request) /\ memWrState = "idle"
  BY DEF Typed, QueuesTyped, Evaluates
<1>3. /\ nOut \in Nat /\ nComp \in Nat /\ nRead \in Nat /\ nCc \in Nat /\ nPop \in Nat
      /\ Len(held) \in Nat /\ Len(in2cc) \in Nat
  BY Lengths
<1>4. nComp' = nComp - 1 /\ nRead' = nRead /\ nCc' = nCc /\ nComp > 0
  <2>1. Len(comp2memWr) > 0
    BY <1>1, TailIs
  <2>. QED BY <1>1, <2>1 DEF nComp, nRead, nCc
<1>5. nOut = Len(memWr2out) /\ nPop = dec2cc
  BY <1>2, Lengths DEF nOut, nPop, InHand, ToPop
<1>6. Lies(Compared', mdBuffer, nOut + 1) /\ mdBuffer[nOut + 1] = Head(Compared)
  BY <1>1, <1>2, <1>3, LiesTail DEF OrderInv, InOrder
<1>7. Lies(Compared', hashFilter, nPop + 1) /\ hashFilter[nPop + 1] = Head(Compared)
  BY <1>1, <1>2, <1>3, LiesTail DEF OrderInv, Filtered
<1>8. nOut' + nComp' = nOut + nComp /\ nPop' + nComp' = nPop + nComp
  BY <1>3, <1>4
<1>9. InOrder'
  BY <1>1, <1>4, <1>6, <1>8 DEF OrderInv, InOrder
<1>10. Filtered'
  BY <1>1, <1>4, <1>7, <1>8 DEF OrderInv, Filtered
<1>11. nOut + 1 <= Len(mdBuffer)
  <2>1. Len(mdBuffer) = nOut + nComp + nRead + nCc + Len(held) + Len(in2cc)
    BY DEF OrderInv, InOrder
  <2>. QED BY <1>3, <1>4, <2>1
<1>. QED BY <1>1, <1>4, <1>5, <1>6, <1>7, <1>9, <1>10, <1>11 DEF OrderInv

LEMMA EvalTyped ==
  ASSUME Typed, NEW op, Evaluates(op), memWr2out' \in Seq(Answer), dec2cc' \in Nat
  PROVE  QueuesTyped'
BY EvalQueues DEF Typed, QueuesTyped

LEMMA OutputOrder ==
  ASSUME Typed, OrderInv, OutputLogic
  PROVE  QueuesTyped' /\ OrderInv'
<1>1. /\ mdBuffer' = Tail(mdBuffer) /\ memWr2out' = Tail(memWr2out) /\ memWr2out # <<>> /\ mdBuffer # <<>>
      /\ mdBuffer \in Seq(Request) /\ memRd2comp \in Seq(Request) /\ cc2memRead \in Seq(Request)
      /\ held \in Seq(Request) /\ in2cc \in Seq(Request) /\ memWr2out \in Seq(Answer)
      /\ UNCHANGED <<in2cc, cc2memRead, memRd2comp, comp2memWr, hashFilter, held, dec2cc, memWrState>>
  BY DEF Typed, QueuesTyped, OutputLogic, filterVars, memVars
<1>2. /\ mdBuffer' \in Seq(Request) /\ memWr2out' \in Seq(Answer) /\ Len(memWr2out') = Len(memWr2out) - 1
      /\ Len(mdBuffer') = Len(mdBuffer) - 1 /\ Len(memWr2out) > 0
      /\ \A i \in 1 .. Len(mdBuffer) - 1 : mdBuffer'[i] = mdBuffer[i + 1]
  BY <1>1, TailIs
<1>3. nOut' = nOut - 1 /\ nComp' = nComp /\ nRead' = nRead /\ nCc' = nCc /\ nPop' = nPop /\ nOut > 0
  BY <1>1, <1>2 DEF nOut, nComp, nRead, nCc, nPop, InHand, ToPop
<1>4. Compared' = Compared /\ Compared \in Seq(Request)
  BY <1>1, ComparedIs DEF Compared
<1>5. /\ nOut \in Nat /\ nComp \in Nat /\ nRead \in Nat /\ nCc \in Nat /\ Len(held) \in Nat
      /\ Len(in2cc) \in Nat /\ Len(mdBuffer) \in Nat
  BY Lengths
<1>6. Len(mdBuffer) = nOut + nComp + nRead + nCc + Len(held) + Len(in2cc)
  BY DEF OrderInv, InOrder
<1>7. ASSUME NEW q \in Seq(Request), NEW n \in Nat, n >= nOut, Lies(q, mdBuffer, n)
      PROVE  Lies(q, mdBuffer', n - 1)
  BY <1>1, <1>3, <1>5, <1>7, LiesBefore
<1>8. /\ nOut' + nComp' = (nOut + nComp) - 1 /\ nOut' + nComp' + nRead' = (nOut + nComp + nRead) - 1
      /\ nOut' + nComp' + nRead' + nCc' = (nOut + nComp + nRead + nCc) - 1
      /\ nOut + nComp \in Nat /\ nOut + nComp + nRead \in Nat /\ nOut + nComp + nRead + nCc \in Nat
      /\ nOut + nComp >= nOut /\ nOut + nComp + nRead >= nOut /\ nOut + nComp + nRead + nCc >= nOut
  BY <1>3, <1>5
<1>9. /\ nOut' + nComp' + nRead' + nCc' + Len(held') = (nOut + nComp + nRead + nCc + Len(held)) - 1
      /\ nOut + nComp + nRead + nCc + Len(held) \in Nat
      /\ nOut + nComp + nRead + nCc + Len(held) >= nOut
  <2>1. Len(held') = Len(held)
    BY <1>1
  <2>. QED BY <1>3, <1>5, <2>1
<1>10. /\ Lies(Compared', mdBuffer', nOut') /\ Lies(memRd2comp', mdBuffer', nOut' + nComp')
       /\ Lies(cc2memRead', mdBuffer', nOut' + nComp' + nRead')
       /\ Lies(held', mdBuffer', nOut' + nComp' + nRead' + nCc')
       /\ Lies(in2cc', mdBuffer', nOut' + nComp' + nRead' + nCc' + Len(held'))
  <2>1. Lies(Compared, mdBuffer, nOut) /\ Lies(memRd2comp, mdBuffer, nOut + nComp)
        /\ Lies(cc2memRead, mdBuffer, nOut + nComp + nRead)
        /\ Lies(held, mdBuffer, nOut + nComp + nRead + nCc)
        /\ Lies(in2cc, mdBuffer, nOut + nComp + nRead + nCc + Len(held))
    BY DEF OrderInv, InOrder
  <2>2. nOut >= nOut
    BY <1>5
  <2>. QED BY <1>1, <1>3, <1>4, <1>5, <1>7, <1>8, <1>9, <2>1, <2>2
<1>11. Len(mdBuffer') = nOut' + nComp' + nRead' + nCc' + Len(held') + Len(in2cc')
  <2>1. Len(held') = Len(held) /\ Len(in2cc') = Len(in2cc) /\ Len(mdBuffer') = Len(mdBuffer) - 1
    BY <1>1, <1>2
  <2>. QED BY <1>3, <1>5, <1>6, <2>1
<1>12. memWrState' \in {"flushWait", "flush"} => mdBuffer'[nOut'].op = "flush"
  <2>1. SUFFICES ASSUME memWrState \in {"flushWait", "flush"} PROVE mdBuffer'[nOut'].op = "flush"
    BY <1>1
  <2>2. mdBuffer[nOut].op = "flush"
    BY <2>1 DEF OrderInv, InOrder
  <2>3. nOut = Len(memWr2out) + 1
    BY <2>1 DEF nOut, InHand
  <2>4. nOut' \in 1 .. Len(mdBuffer) - 1 /\ nOut' + 1 = nOut
    <3>1. Len(memWr2out) \in Nat
      BY <1>1
    <3>. QED BY <1>2, <1>3, <1>5, <1>6, <2>3, <3>1
  <2>. QED BY <1>2, <2>2, <2>4
<1>13. InOrder'
  BY <1>10, <1>11, <1>12 DEF InOrder
<1>14. Filtered'
  BY <1>1, <1>3, <1>4 DEF OrderInv, Filtered
<1>15. QueuesTyped'
  BY <1>1, <1>2 DEF Typed, QueuesTyped
<1>. QED BY <1>13, <1>14, <1>15 DEF OrderInv

LEMMA StillOrder ==
  ASSUME OrderInv, nOut' = nOut, nPop' = nPop,
         memWrState' \in {"flushWait", "flush"} => memWrState \in {"flushWait", "flush"},
         UNCHANGED <<in2cc, mdBuffer, cc2memRead, memRd2comp, comp2memWr, hashFilter, held>>
  PROVE  OrderInv'
<1>1. nComp' = nComp /\ nRead' = nRead /\ nCc' = nCc /\ Compared' = Compared
  BY DEF nComp, nRead, nCc, Compared
<1>2. InOrder'
  BY <1>1 DEF OrderInv, InOrder
<1>3. Filtered'
  BY <1>1 DEF OrderInv, Filtered
<1>. QED BY <1>2, <1>3 DEF OrderInv

(* The evaluations keep the order. *)
LEMMA EvalKeeps ==
  ASSUME Typed, OrderInv, NEW op, Evaluates(op), NEW answer \in Answer, Reply(answer),
         \/ PopFilter /\ memWrState' = "idle"
         \/ dec2cc' = dec2cc /\ memWrState' = "setRest"
  PROVE  /\ QueuesTyped' /\ OrderInv' /\ nOut' = nOut + 1 /\ nPop' = nPop + 1
<1>1. memWr2out' \in Seq(Answer) /\ Len(memWr2out') = Len(memWr2out) + 1 /\ memWrState = "idle"
      /\ dec2cc \in Nat
  BY ReplyTyped DEF Typed, QueuesTyped, Evaluates
<1>2. nOut' = nOut + 1 /\ nPop' = nPop + 1 /\ dec2cc' \in Nat
  BY <1>1 DEF nOut, nPop, InHand, ToPop, PopFilter
<1>. QED BY <1>1, <1>2, EvalOrder, EvalTyped

LEMMA HandKeeps ==
  ASSUME Typed, OrderInv, NEW op, Evaluates(op), UNCHANGED <<memWr2out, dec2cc>>,
         memWrState' = "hung" \/ (memWrState' = "flushWait" /\ op = "flush")
  PROVE  /\ QueuesTyped' /\ OrderInv' /\ nOut' = nOut + 1 /\ nPop' = nPop + 1
<1>1. memWr2out \in Seq(Answer) /\ dec2cc \in Nat /\ memWrState = "idle"
  BY DEF Typed, QueuesTyped, Evaluates
<1>2. nOut' = nOut + 1 /\ nPop' = nPop + 1
  BY <1>1 DEF nOut, nPop, InHand, ToPop
<1>. QED BY <1>1, <1>2, EvalOrder, EvalTyped

LEMMA AnswersAre ==
  /\ [ok |-> FALSE] \in Answer /\ [ok |-> TRUE] \in Answer
  /\ \A class \in Classes, addr \in Addresses : [ok |-> TRUE, class |-> class, addr |-> addr] \in Answer
BY DEF Answer

LEMMA SetOrder ==
  ASSUME Typed, OrderInv, EvalSet
  PROVE  QueuesTyped' /\ OrderInv' /\ nOut' = nOut + 1 /\ nPop' = nPop + 1
<1>1. Head(comp2memWr).req.class \in Classes /\ SetAddress \in Addresses
  BY SetIs, RequestIs
<1>2. [ok |-> TRUE, class |-> Head(comp2memWr).req.class, addr |-> SetAddress] \in Answer
  BY <1>1, AnswersAre
<1>3. Reply([ok |-> TRUE, class |-> Head(comp2memWr).req.class, addr |-> SetAddress])
  BY SetIs
<1>4. Evaluates("set") /\ dec2cc' = dec2cc /\ memWrState' = "setRest"
  BY DEF EvalSet
<1>. QED BY <1>2, <1>3, <1>4, EvalKeeps

LEMMA DeleteOrder ==
  ASSUME Typed, OrderInv, EvalDelete
  PROVE  QueuesTyped' /\ OrderInv' /\ nOut' = nOut + 1 /\ nPop' = nPop + 1
<1>1. \E answer \in Answer : Reply(answer)
  BY DeleteIs, AnswersAre
<1>2. Evaluates("delete") /\ PopFilter /\ memWrState' = "idle"
  BY DEF EvalDelete, Evaluates
<1>. QED BY <1>1, <1>2, EvalKeeps

LEMMA GetOrder ==
  ASSUME Typed, OrderInv, EvalGet
  PROVE  QueuesTyped' /\ OrderInv' /\ nOut' = nOut + 1 /\ nPop' = nPop + 1
<1>1. GetAnswer \in Answer /\ Reply(GetAnswer)
  BY GetIs
<1>2. Evaluates("get") /\ PopFilter /\ memWrState' = "idle"
  BY DEF EvalGet, Evaluates
<1>. QED BY <1>1, <1>2, EvalKeeps

LEMMA FailOrder ==
  ASSUME Typed, OrderInv, EvalSetFails
  PROVE  QueuesTyped' /\ OrderInv' /\ nOut' = nOut + 1 /\ nPop' = nPop + 1
<1>1. [ok |-> FALSE] \in Answer /\ Reply([ok |-> FALSE])
  BY AnswersAre DEF EvalSetFails
<1>2. Evaluates("set") /\ PopFilter /\ memWrState' = "idle"
  BY DEF EvalSetFails, Evaluates
<1>. QED BY <1>1, <1>2, EvalKeeps

LEMMA SweepOrder ==
  ASSUME Typed, OrderInv, FlushSweep
  PROVE  QueuesTyped' /\ OrderInv' /\ nOut' = nOut /\ nPop' = nPop
<1>1. memWr2out' \in Seq(Answer) /\ Len(memWr2out') = Len(memWr2out) + 1 /\ Len(memWr2out) \in Nat
  BY ReplyTyped, AnswersAre, Lengths DEF Typed, FlushSweep
<1>2. /\ memWrState = "flush" /\ memWrState' = "idle" /\ dec2cc' = dec2cc + 1 /\ dec2cc \in Nat
      /\ UNCHANGED <<in2cc, mdBuffer, cc2memRead, memRd2comp, comp2memWr, hashFilter, held>>
  BY DEF Typed, QueuesTyped, FlushSweep, PopFilter
<1>3. nOut' = nOut /\ nPop' = nPop
  BY <1>1, <1>2 DEF nOut, nPop, InHand, ToPop
<1>4. OrderInv'
  BY <1>2, <1>3, StillOrder
<1>5. QueuesTyped'
  BY <1>1, <1>2 DEF Typed, QueuesTyped
<1>. QED BY <1>3, <1>4, <1>5

(* The steps that neither add, move nor answer a request. *)
Quiet == AccessRead \/ AccessWrite \/ (HostStep /\ UNCHANGED tableVars) \/ FlushWait \/ SetRest

LEMMA QuietOrder ==
  ASSUME Typed, OrderInv, Quiet \/ UNCHANGED vars
  PROVE  /\ QueuesTyped' /\ OrderInv' /\ nOut' = nOut /\ nPop' = nPop
         /\ UNCHANGED <<in2cc, mdBuffer, cc2memRead, memRd2comp, comp2memWr, hashFilter, held, memWr2out>>
<1>1. /\ UNCHANGED <<in2cc, mdBuffer, cc2memRead, memRd2comp, comp2memWr, hashFilter, held, memWr2out>>
      /\ \/ UNCHANGED <<dec2cc, memWrState>>
         \/ dec2cc' = dec2cc /\ memWrState = "flushWait" /\ memWrState' = "flush"
         \/ dec2cc' = dec2cc + 1 /\ memWrState = "setRest" /\ memWrState' = "idle"
  BY DEF Quiet, AccessRead, AccessWrite, FlushWait, SetRest, PopFilter, vars, tableVars, queues, filterVars, memVars
<1>2. dec2cc \in Nat
  BY Lengths
<1>3. nOut' = nOut /\ nPop' = nPop /\ dec2cc' \in Nat
  BY <1>1, <1>2 DEF nOut, nPop, InHand, ToPop
<1>4. OrderInv'
  BY <1>1, <1>3, StillOrder
<1>5. QueuesTyped'
  BY <1>1, <1>3 DEF Typed, QueuesTyped
<1>. QED BY <1>1, <1>3, <1>4, <1>5

LEMMA OrderStep ==
  ASSUME Typed, OrderInv, [Next]_vars
  PROVE  QueuesTyped' /\ OrderInv'
<1>1. ASSUME NEW r \in Asked, ClientAsks(r)
      PROVE  QueuesTyped' /\ OrderInv'
  BY <1>1, AskedAssumption, AskOrder DEF ClientAsks
<1>2. CASE EvalSetHangs
  <2>1. Evaluates("set") /\ UNCHANGED <<memWr2out, dec2cc>> /\ memWrState' = "hung"
    BY <1>2 DEF EvalSetHangs
  <2>. QED BY <2>1, HandKeeps
<1>3. CASE FlushStart
  <2>1. Evaluates("flush") /\ UNCHANGED <<memWr2out, dec2cc>> /\ memWrState' = "flushWait"
    BY <1>3 DEF FlushStart
  <2>. QED BY <2>1, HandKeeps
<1>. QED BY <1>1, <1>2, <1>3, AcceptOrder, ReleaseOrder, PopOrder, ReadOrder, CompareOrder, GetOrder,
       SetOrder, FailOrder, DeleteOrder, SweepOrder, OutputOrder, QuietOrder DEF Next, Internal, Quiet

(* What is read and judged. *)

(* The places of the filter, and what a flush or a write in one of them    *)
(* keeps out of the others. *)
LEMMA PlacesAre ==
  ASSUME Typed, OrderInv
  PROVE  /\ \A i \in 1 .. nComp : comp2memWr[i].req = hashFilter[nPop + i] /\ comp2memWr[i].req \in Request
                                  /\ nPop + i \in 1 .. Len(hashFilter)
         /\ \A i \in 1 .. nRead : memRd2comp[i] = hashFilter[(nPop + nComp) + i] /\ memRd2comp[i] \in Request
                                  /\ (nPop + nComp) + i \in 1 .. Len(hashFilter)
         /\ \A i, j \in 1 .. Len(hashFilter) : i < j => ~Blocks(hashFilter[i], hashFilter[j])
         /\ Len(hashFilter) = nPop + nComp + nRead + nCc
<1>1. nPop \in Nat /\ nComp \in Nat /\ nRead \in Nat /\ nCc \in Nat /\ Len(hashFilter) \in Nat
  BY Lengths
<1>2. /\ Len(hashFilter) = nPop + nComp + nRead + nCc
      /\ Lies(Compared, hashFilter, nPop) /\ Lies(memRd2comp, hashFilter, nPop + nComp)
      /\ \A i, j \in 1 .. Len(hashFilter) : i < j => ~Blocks(hashFilter[i], hashFilter[j])
  BY DEF OrderInv, Filtered
<1>3. Compared \in Seq(Request) /\ Len(Compared) = nComp /\ nRead = Len(memRd2comp)
      /\ memRd2comp \in Seq(Request) /\ DOMAIN comp2memWr = 1 .. nComp
  BY ComparedIs DEF nRead, nComp, Typed, QueuesTyped
<1>4. ASSUME NEW i \in 1 .. nComp
      PROVE  comp2memWr[i].req = hashFilter[nPop + i] /\ comp2memWr[i].req \in Request
             /\ nPop + i \in 1 .. Len(hashFilter)
  <2>1. Compared[i] = comp2memWr[i].req
    BY <1>3 DEF Compared
  <2>2. Compared[i] \in Request /\ hashFilter[nPop + i] = Compared[i]
    BY <1>2, <1>3 DEF Lies
  <2>3. nPop + i \in 1 .. Len(hashFilter)
    <3>1. Len(hashFilter) = nPop + nComp + nRead + nCc
      BY <1>2
    <3>. QED BY <1>1, <3>1
  <2>. QED BY <2>1, <2>2, <2>3
<1>5. ASSUME NEW i \in 1 .. nRead
      PROVE  memRd2comp[i] = hashFilter[(nPop + nComp) + i] /\ memRd2comp[i] \in Request
             /\ (nPop + nComp) + i \in 1 .. Len(hashFilter)
  <2>1. memRd2comp[i] \in Request /\ hashFilter[(nPop + nComp) + i] = memRd2comp[i]
    BY <1>2, <1>3 DEF Lies
  <2>2. (nPop + nComp) + i \in 1 .. Len(hashFilter)
    <3>1. Len(hashFilter) = nPop + nComp + nRead + nCc
      BY <1>2
    <3>. QED BY <1>1, <3>1
  <2>. QED BY <2>1, <2>2
<1>. QED BY <1>2, <1>4, <1>5

LEMMA ReadStep ==
  ASSUME Typed, OrderInv, ReadsCurrent, MemRead
  PROVE  ReadsCurrent'
<1>. DEFINE r == Head(cc2memRead)
<1>1. /\ memRd2comp' = Append(memRd2comp, r) /\ r \in Request /\ nRead' = nRead + 1 /\ nCc > 0
      /\ hashFilter[nPop + nComp + nRead + 1] = r
  BY ReadOrder
<1>2. /\ memRdCtrl' = IF r.op = "flush" THEN memRdCtrl ELSE Append(memRdCtrl, BucketOf[r.key])
      /\ UNCHANGED <<memRdData, comp2memWr, mem, memWrCtrl>>
  BY DEF MemRead, memVars
<1>3. /\ nPop \in Nat /\ nComp \in Nat /\ nRead \in Nat /\ nCc \in Nat /\ nRead = Len(memRd2comp)
      /\ Len(hashFilter) = nPop + nComp + nRead + nCc
  BY Lengths, PlacesAre DEF nRead
<1>4. memRd2comp \in Seq(Request) /\ memRdCtrl \in Seq(Buckets) /\ memRdData \in Seq(Words)
      /\ nData \in Nat /\ nCtrl \in Nat
  BY DEF Typed, QueuesTyped, MemoryTyped, nData, nCtrl
<1>5. /\ \A i \in 1 .. nRead : memRd2comp'[i] = memRd2comp[i]
      /\ memRd2comp'[nRead + 1] = r
  BY <1>1, <1>3, <1>4, AppendIs
<1>6. \A i \in 1 .. nRead : memRd2comp[i].op # "flush"
  <2>1. SUFFICES ASSUME NEW i \in 1 .. nRead, memRd2comp[i].op = "flush" PROVE FALSE
    OBVIOUS
  <2>2. memRd2comp[i] = hashFilter[(nPop + nComp) + i] /\ (nPop + nComp) + i \in 1 .. Len(hashFilter)
    BY PlacesAre
  <2>3. nPop + nComp + nRead + 1 \in 1 .. Len(hashFilter) /\ (nPop + nComp) + i < nPop + nComp + nRead + 1
    <3>1. Len(hashFilter) = nPop + nComp + nRead + nCc /\ nCc > 0
      BY <1>1, <1>3
    <3>. QED BY <1>3, <3>1
  <2>4. Blocks(memRd2comp[i], r)
    BY <2>1 DEF Blocks
  <2>. QED BY <1>1, <2>2, <2>3, <2>4, PlacesAre
<1>7. nData + nCtrl = nRead
  <2>1. nData + nCtrl <= nRead /\ \A i \in 1 .. nRead : memRd2comp[i].op = "flush" <=> i > nData + nCtrl
    BY DEF ReadsCurrent
  <2>2. ASSUME nData + nCtrl < nRead PROVE FALSE
    <3>1. nRead \in 1 .. nRead /\ nRead > nData + nCtrl
      BY <1>3, <1>4, <2>2
    <3>. QED BY <1>6, <2>1, <3>1
  <2>. QED BY <1>3, <1>4, <2>1, <2>2
<1>8. /\ nData' = nData /\ nComp' = nComp
      /\ Held' = Held
  BY <1>2, HeldSame DEF nData, nComp
<1>9. ASSUME NEW i \in 1 .. nData
      PROVE  memRdData'[i] = Held'[BucketOf[memRd2comp'[i].key]]
  <2>1. memRdData[i] = Held[BucketOf[memRd2comp[i].key]]
    BY DEF ReadsCurrent
  <2>2. i \in 1 .. nRead
    BY <1>3, <1>4, <1>7
  <2>3. memRd2comp[i] \in Request /\ memRd2comp[i].op # "flush"
    BY <1>6, <2>2, PlacesAre
  <2>4. BucketOf[memRd2comp[i].key] \in Buckets
    BY <2>3, RequestIs
  <2>5. memRd2comp'[i] = memRd2comp[i] /\ memRdData' = memRdData
    BY <1>2, <1>5, <2>2
  <2>. QED BY <1>8, <2>1, <2>4, <2>5
<1>10. ASSUME NEW i \in 1 .. nComp, comp2memWr[i].req.op # "flush"
       PROVE  comp2memWr'[i].words = Held'[BucketOf[comp2memWr'[i].req.key]]
  <2>1. comp2memWr[i].words = Held[BucketOf[comp2memWr[i].req.key]]
    BY <1>10 DEF ReadsCurrent
  <2>2. BucketOf[comp2memWr[i].req.key] \in Buckets
    BY <1>10, PlacesAre, RequestIs
  <2>. QED BY <1>2, <1>8, <2>1, <2>2
<1>11. CASE r.op = "flush"
  <2>1. nCtrl' = nCtrl /\ memRdCtrl' = memRdCtrl
    BY <1>2, <1>11 DEF nCtrl
  <2>2. \A i \in 1 .. nRead + 1 : memRd2comp'[i].op = "flush" <=> i > nData + nCtrl
    BY <1>3, <1>4, <1>5, <1>6, <1>7, <1>11
  <2>3. ASSUME NEW i \in 1 .. nCtrl
        PROVE  memRdCtrl[i] = BucketOf[memRd2comp'[nData + i].key]
    <3>1. nData + i \in 1 .. nRead
      BY <1>3, <1>4, <1>7
    <3>. QED BY <1>5, <3>1 DEF ReadsCurrent
  <2>4. nData + nCtrl <= nRead + 1
    BY <1>3, <1>7
  <2>. QED BY <1>1, <1>2, <1>8, <1>9, <1>10, <2>1, <2>2, <2>3, <2>4 DEF ReadsCurrent
<1>12. CASE r.op # "flush"
  <2>1. memRdCtrl' = Append(memRdCtrl, BucketOf[r.key]) /\ BucketOf[r.key] \in Buckets
    BY <1>1, <1>2, <1>12, RequestIs
  <2>2. /\ nCtrl' = nCtrl + 1 /\ memRdCtrl'[nCtrl + 1] = BucketOf[r.key]
        /\ \A i \in 1 .. nCtrl : memRdCtrl'[i] = memRdCtrl[i]
    BY <1>4, <2>1, AppendIs DEF nCtrl
  <2>3. ASSUME NEW i \in 1 .. nRead + 1
        PROVE  memRd2comp'[i].op = "flush" <=> i > nData + (nCtrl + 1)
    <3>1. memRd2comp'[i].op # "flush"
      <4>1. CASE i \in 1 .. nRead
        BY <1>5, <1>6, <4>1
      <4>2. CASE i = nRead + 1
        BY <1>5, <1>12, <4>2
      <4>. QED BY <1>3, <4>1, <4>2
    <3>2. ~(i > nData + (nCtrl + 1))
      <4>1. nRead \in Nat
        BY <1>3
      <4>. HIDE DEF nRead, nData, nCtrl
      <4>. QED BY <1>4, <1>7, <4>1
    <3>. QED BY <3>1, <3>2
  <2>4. ASSUME NEW i \in 1 .. nCtrl + 1
        PROVE  memRdCtrl'[i] = BucketOf[memRd2comp'[nData + i].key]
    <3>1. CASE i \in 1 .. nCtrl
      <4>1. nData + i \in 1 .. nRead
        BY <1>3, <1>4, <1>7, <3>1
      <4>2. memRdCtrl[i] = BucketOf[memRd2comp[nData + i].key]
        BY <3>1 DEF ReadsCurrent
      <4>. QED BY <1>5, <2>2, <3>1, <4>1, <4>2
    <3>2. CASE i = nCtrl + 1
      <4>1. nData + i = nRead + 1
        BY <1>3, <1>4, <1>7, <3>2
      <4>. QED BY <1>5, <2>2, <3>2, <4>1
    <3>. QED BY <1>4, <3>1, <3>2
  <2>5. nData + (nCtrl + 1) <= nRead + 1
    BY <1>3, <1>4, <1>7
  <2>. QED BY <1>1, <1>2, <1>8, <1>9, <1>10, <2>2, <2>3, <2>4, <2>5 DEF ReadsCurrent
<1>. QED BY <1>11, <1>12

LEMMA JoinStep ==
  ASSUME Typed, OrderInv, ReadsCurrent, HtCompare
  PROVE  ReadsCurrent'
<1>. DEFINE r == Head(memRd2comp)
<1>1. /\ comp2memWr' = Append(comp2memWr, Joined) /\ Joined.req \in Request /\ Joined.words \in Words
      /\ nComp' = nComp + 1 /\ nRead' = nRead - 1 /\ nRead > 0
      /\ hashFilter[nPop + nComp + 1] = r
  BY CompareOrder
<1>2. /\ memRd2comp' = Tail(memRd2comp) /\ memRd2comp # <<>>
      /\ memRdData' = IF r.op = "flush" THEN memRdData ELSE Tail(memRdData)
      /\ r.op # "flush" => memRdData # <<>>
      /\ UNCHANGED <<memRdCtrl, mem, memWrCtrl>>
  BY DEF HtCompare, memVars
<1>3. /\ nPop \in Nat /\ nComp \in Nat /\ nRead \in Nat /\ nCc \in Nat /\ nRead = Len(memRd2comp)
      /\ Len(hashFilter) = nPop + nComp + nRead + nCc
  BY Lengths, PlacesAre DEF nRead
<1>4. memRd2comp \in Seq(Request) /\ memRdCtrl \in Seq(Buckets) /\ memRdData \in Seq(Words)
      /\ nData \in Nat /\ nCtrl \in Nat /\ nComp = Len(comp2memWr)
  BY DEF Typed, QueuesTyped, MemoryTyped, nData, nCtrl, nComp
<1>5. r = memRd2comp[1] /\ \A i \in 1 .. nRead - 1 : memRd2comp'[i] = memRd2comp[i + 1]
  BY <1>2, <1>3, <1>4, TailIs
<1>6. Held' = Held /\ nCtrl' = nCtrl /\ memRdCtrl' = memRdCtrl
  BY <1>2, HeldSame DEF nCtrl
<1>7. /\ \A i \in 1 .. nComp : comp2memWr'[i] = comp2memWr[i]
      /\ comp2memWr'[nComp + 1] = Joined
  <2>. DEFINE T == [req : Request, words : Words]
  <2>1. comp2memWr \in Seq(T) /\ Joined \in T
    BY <1>1 DEF Typed, QueuesTyped, Joined
  <2>. HIDE DEF T
  <2>. QED BY <1>1, <1>4, <2>1, AppendIs
<1>8. /\ \A i \in 1 .. nRead : memRd2comp[i].op = "flush" <=> i > nData + nCtrl
      /\ nData + nCtrl <= nRead
      /\ \A i \in 1 .. nData : memRdData[i] = Held[BucketOf[memRd2comp[i].key]]
      /\ \A i \in 1 .. nCtrl : memRdCtrl[i] = BucketOf[memRd2comp[nData + i].key]
      /\ \A i \in 1 .. nComp : comp2memWr[i].req.op # "flush" =>
           comp2memWr[i].words = Held[BucketOf[comp2memWr[i].req.key]]
  BY DEF ReadsCurrent
<1>9. CASE r.op = "flush"
  <2>1. nRead = 1
    <3>1. ASSUME nRead > 1 PROVE FALSE
      <4>1. (nPop + nComp) + 2 \in 1 .. Len(hashFilter) /\ nPop + nComp + 1 \in 1 .. Len(hashFilter)
            /\ nPop + nComp + 1 < (nPop + nComp) + 2 /\ 2 \in 1 .. nRead
        BY <1>3, <3>1
      <4>2. Blocks(r, hashFilter[(nPop + nComp) + 2])
        BY <1>9 DEF Blocks
      <4>. QED BY <1>1, <4>1, <4>2, PlacesAre
    <3>. QED BY <1>1, <1>3, <3>1
  <2>2. nData + nCtrl = 0 /\ nData = 0 /\ nCtrl = 0
    <3>1. 1 \in 1 .. nRead /\ 1 > nData + nCtrl
      BY <1>5, <1>8, <1>9, <2>1
    <3>. QED BY <1>4, <3>1
  <2>3. nData' = 0 /\ nRead' = 0 /\ nCtrl' = 0 /\ nComp' = nComp + 1
    BY <1>1, <1>2, <1>6, <1>9, <2>1, <2>2 DEF nData
  <2>4. comp2memWr'[nComp + 1].req.op = "flush"
    BY <1>7, <1>9 DEF Joined
  <2>5. ASSUME NEW i \in 1 .. nComp + 1, comp2memWr'[i].req.op # "flush"
        PROVE  comp2memWr'[i].words = Held'[BucketOf[comp2memWr'[i].req.key]]
    <3>1. i \in 1 .. nComp
      BY <1>3, <2>4, <2>5
    <3>2. comp2memWr'[i] = comp2memWr[i]
      BY <1>7, <3>1
    <3>. QED BY <1>6, <1>8, <2>5, <3>1, <3>2
  <2>6. \A i \in 1 .. nRead' : FALSE
    BY <2>3
  <2>7. \A i \in 1 .. nData' : FALSE
    BY <2>3
  <2>8. \A i \in 1 .. nCtrl' : FALSE
    BY <2>3
  <2>9. nData' + nCtrl' <= nRead'
    BY <2>3
  <2>10. \A i \in 1 .. nComp' : comp2memWr'[i].req.op # "flush" =>
           comp2memWr'[i].words = Held'[BucketOf[comp2memWr'[i].req.key]]
    BY <2>3, <2>5
  <2>. QED BY <2>6, <2>7, <2>8, <2>9, <2>10 DEF ReadsCurrent
<1>10. CASE r.op # "flush"
  <2>1. memRdData' = Tail(memRdData) /\ memRdData # <<>>
    BY <1>2, <1>10
  <2>2. /\ nData' = nData - 1 /\ nData > 0 /\ Head(memRdData) = memRdData[1]
        /\ \A i \in 1 .. nData - 1 : memRdData'[i] = memRdData[i + 1]
    BY <1>4, <2>1, TailIs DEF nData
  <2>3. \A i \in 1 .. nRead - 1 : memRd2comp'[i].op = "flush" <=> i > (nData - 1) + nCtrl
    <3>1. SUFFICES ASSUME NEW i \in 1 .. nRead - 1
                   PROVE  memRd2comp'[i].op = "flush" <=> i > (nData - 1) + nCtrl
      OBVIOUS
    <3>2. i + 1 \in 1 .. nRead /\ memRd2comp'[i] = memRd2comp[i + 1]
      BY <1>3, <1>5
    <3>3. memRd2comp[i + 1].op = "flush" <=> i + 1 > nData + nCtrl
      BY <1>8, <3>2
    <3>4. i + 1 > nData + nCtrl <=> i > (nData - 1) + nCtrl
      BY <1>4
    <3>. QED BY <3>2, <3>3, <3>4
  <2>4. ASSUME NEW i \in 1 .. nData - 1
        PROVE  memRdData'[i] = Held'[BucketOf[memRd2comp'[i].key]]
    <3>1. i + 1 \in 1 .. nData /\ i \in 1 .. nRead - 1
      BY <1>3, <1>4, <1>8
    <3>2. memRdData[i + 1] = Held[BucketOf[memRd2comp[i + 1].key]]
      BY <1>8, <3>1
    <3>. QED BY <1>5, <1>6, <2>2, <3>1, <3>2
  <2>5. ASSUME NEW i \in 1 .. nCtrl
        PROVE  memRdCtrl[i] = BucketOf[memRd2comp'[(nData - 1) + i].key]
    <3>1. (nData - 1) + i \in 1 .. nRead - 1 /\ ((nData - 1) + i) + 1 = nData + i
      BY <1>3, <1>4, <1>8, <2>2
    <3>2. memRd2comp'[(nData - 1) + i] = memRd2comp[nData + i]
      BY <1>5, <3>1
    <3>. QED BY <1>8, <3>2
  <2>6. ASSUME NEW i \in 1 .. nComp + 1, comp2memWr'[i].req.op # "flush"
        PROVE  comp2memWr'[i].words = Held'[BucketOf[comp2memWr'[i].req.key]]
    <3>1. CASE i \in 1 .. nComp
      BY <1>6, <1>7, <1>8, <2>6, <3>1
    <3>2. CASE i = nComp + 1
      <4>1. comp2memWr'[i] = Joined /\ Joined.req = r /\ Joined.words = Head(memRdData)
        BY <1>7, <1>10, <3>2 DEF Joined
      <4>2. memRdData[1] = Held[BucketOf[memRd2comp[1].key]]
        BY <1>4, <1>8, <2>2
      <4>. QED BY <1>5, <1>6, <2>2, <4>1, <4>2
    <3>. QED BY <1>3, <3>1, <3>2
  <2>7. (nData - 1) + nCtrl <= nRead - 1
    BY <1>3, <1>4, <1>8
  <2>. QED BY <1>1, <1>6, <2>2, <2>3, <2>4, <2>5, <2>6, <2>7 DEF ReadsCurrent
<1>. QED BY <1>9, <1>10

LEMMA FetchStep ==
  ASSUME Typed, OrderInv, ReadsCurrent, AccessRead
  PROVE  ReadsCurrent'
<1>1. /\ memRdData' = Append(memRdData, mem[Head(memRdCtrl)]) /\ memRdCtrl' = Tail(memRdCtrl)
      /\ memRdCtrl # <<>> /\ memWrCtrl = <<>>
      /\ UNCHANGED <<memRd2comp, comp2memWr, mem, memWrCtrl>>
  BY DEF AccessRead, WriteFirst, memVars
<1>2. memRd2comp \in Seq(Request) /\ memRdCtrl \in Seq(Buckets) /\ memRdData \in Seq(Words)
      /\ nData \in Nat /\ nCtrl \in Nat /\ mem \in [Buckets -> Words] /\ nRead \in Nat
  <2>1. nRead \in Nat
    BY Lengths
  <2>2. memRd2comp \in Seq(Request) /\ memRdCtrl \in Seq(Buckets) /\ memRdData \in Seq(Words)
        /\ mem \in [Buckets -> Words]
    BY DEF Typed, QueuesTyped, MemoryTyped
  <2>3. nData \in Nat /\ nCtrl \in Nat
    BY <2>2 DEF nData, nCtrl
  <2>. QED BY <2>1, <2>2, <2>3
<1>3. \A b \in Buckets : Held[b] = mem[b]
  BY <1>1 DEF Held, Current, Pending
<1>4. Held' = Held /\ nComp' = nComp /\ nRead' = nRead
  BY <1>1, HeldSame DEF nComp, nRead
<1>5. /\ Head(memRdCtrl) = memRdCtrl[1] /\ memRdCtrl[1] \in Buckets /\ nCtrl > 0 /\ nCtrl' = nCtrl - 1
      /\ \A i \in 1 .. nCtrl - 1 : memRdCtrl'[i] = memRdCtrl[i + 1]
  BY <1>1, <1>2, TailIs DEF nCtrl
<1>6. mem[Head(memRdCtrl)] \in Words /\ mem[Head(memRdCtrl)] = Held[memRdCtrl[1]]
  BY <1>2, <1>3, <1>5
<1>7. /\ nData' = nData + 1 /\ memRdData'[nData + 1] = Held[memRdCtrl[1]]
      /\ \A i \in 1 .. nData : memRdData'[i] = memRdData[i]
  BY <1>1, <1>2, <1>6, AppendIs DEF nData
<1>8. /\ \A i \in 1 .. nRead : memRd2comp[i].op = "flush" <=> i > nData + nCtrl
      /\ nData + nCtrl <= nRead
      /\ \A i \in 1 .. nData : memRdData[i] = Held[BucketOf[memRd2comp[i].key]]
      /\ \A i \in 1 .. nCtrl : memRdCtrl[i] = BucketOf[memRd2comp[nData + i].key]
      /\ \A i \in 1 .. nComp : comp2memWr[i].req.op # "flush" =>
           comp2memWr[i].words = Held[BucketOf[comp2memWr[i].req.key]]
  BY DEF ReadsCurrent
<1>9. ASSUME NEW i \in 1 .. nData + 1
      PROVE  memRdData'[i] = Held[BucketOf[memRd2comp[i].key]]
  <2>1. CASE i \in 1 .. nData
    BY <1>7, <1>8, <2>1
  <2>2. CASE i = nData + 1
    <3>1. memRdCtrl[1] = BucketOf[memRd2comp[nData + 1].key]
      BY <1>2, <1>5, <1>8
    <3>. QED BY <1>7, <2>2, <3>1
  <2>. QED BY <1>2, <2>1, <2>2
<1>10. ASSUME NEW i \in 1 .. nCtrl - 1
       PROVE  memRdCtrl'[i] = BucketOf[memRd2comp[(nData + 1) + i].key]
  <2>1. i + 1 \in 1 .. nCtrl /\ nData + (i + 1) = (nData + 1) + i
    BY <1>2
  <2>2. memRdCtrl[i + 1] = BucketOf[memRd2comp[nData + (i + 1)].key]
    BY <1>8, <2>1
  <2>. QED BY <1>5, <2>1, <2>2
<1>11. (nData + 1) + (nCtrl - 1) = nData + nCtrl
  BY <1>2
<1>. QED BY <1>1, <1>4, <1>5, <1>7, <1>8, <1>9, <1>10, <1>11 DEF ReadsCurrent

(* A request that is judged changes no bucket but its own, and what was    *)
(* read for the others is none of it: the filter lets none through. *)
LEMMA EvalReads ==
  ASSUME Typed, OrderInv, ReadsCurrent, NEW op, Evaluates(op),
         \A b \in Buckets : \/ Held'[b] = Held[b]
                            \/ op \in {"set", "delete"} /\ b = BucketOf[Head(comp2memWr).req.key]
  PROVE  ReadsCurrent'
<1>. DEFINE first == Head(comp2memWr).req
<1>1. /\ comp2memWr # <<>> /\ nComp' = nComp - 1 /\ nRead' = nRead /\ nData' = nData /\ nCtrl' = nCtrl
      /\ \A i \in 1 .. nComp - 1 : comp2memWr'[i] = comp2memWr[i + 1]
      /\ first.op = op
      /\ UNCHANGED <<memRd2comp, memRdCtrl, memRdData>>
  BY EvalQueues DEF nComp, nRead, nData, nCtrl
<1>2. nComp \in Nat /\ nRead \in Nat /\ nPop \in Nat /\ nData \in Nat /\ nCtrl \in Nat /\ nComp > 0
  <2>1. Len(comp2memWr) > 0
    BY <1>1 DEF Typed, QueuesTyped
  <2>. QED BY <2>1, Lengths DEF nComp, nData, nCtrl, Typed, MemoryTyped
<1>3. /\ first = hashFilter[nPop + 1] /\ first \in Request /\ nPop + 1 \in 1 .. Len(hashFilter)
  <2>1. Head(comp2memWr) = comp2memWr[1] /\ 1 \in 1 .. nComp
    BY <1>1, <1>2, JudgedIs DEF Typed
  <2>. QED BY <2>1, PlacesAre
<1>4. ASSUME NEW k \in 1 .. Len(hashFilter), NEW r \in Request, k > nPop + 1, r = hashFilter[k], r.op # "flush"
      PROVE  Held'[BucketOf[r.key]] = Held[BucketOf[r.key]]
  <2>1. BucketOf[r.key] \in Buckets /\ Address(r) = BucketOf[r.key]
    BY <1>4, RequestIs
  <2>2. ~Blocks(first, r)
    BY <1>3, <1>4, PlacesAre
  <2>3. op \in {"set", "delete"} => BucketOf[first.key] # BucketOf[r.key]
    <3>1. op \in {"set", "delete"} => Address(first) = BucketOf[first.key]
      BY <1>1, <1>3, RequestIs
    <3>. QED BY <1>1, <2>1, <2>2, <3>1 DEF Blocks
  <2>. QED BY <2>1, <2>3
<1>5. ASSUME NEW i \in 1 .. nComp - 1, comp2memWr'[i].req.op # "flush"
      PROVE  comp2memWr'[i].words = Held'[BucketOf[comp2memWr'[i].req.key]]
  <2>1. i + 1 \in 1 .. nComp /\ comp2memWr'[i] = comp2memWr[i + 1]
    BY <1>1, <1>2
  <2>2. comp2memWr[i + 1].words = Held[BucketOf[comp2memWr[i + 1].req.key]]
    BY <1>5, <2>1 DEF ReadsCurrent
  <2>3. /\ comp2memWr[i + 1].req = hashFilter[nPop + (i + 1)] /\ comp2memWr[i + 1].req \in Request
        /\ nPop + (i + 1) \in 1 .. Len(hashFilter)
    BY <2>1, PlacesAre
  <2>4. nPop + (i + 1) > nPop + 1
    BY <1>2
  <2>. QED BY <1>4, <1>5, <2>1, <2>2, <2>3, <2>4
<1>6. ASSUME NEW i \in 1 .. nData
      PROVE  memRdData[i] = Held'[BucketOf[memRd2comp[i].key]]
  <2>1. i \in 1 .. nRead /\ ~(i > nData + nCtrl) /\ (nPop + nComp) + i > nPop + 1
    <3>1. nData + nCtrl <= nRead
      BY DEF ReadsCurrent
    <3>. QED BY <1>2, <3>1
  <2>2. memRd2comp[i].op # "flush" /\ memRdData[i] = Held[BucketOf[memRd2comp[i].key]]
    BY <2>1 DEF ReadsCurrent
  <2>3. /\ memRd2comp[i] = hashFilter[(nPop + nComp) + i] /\ memRd2comp[i] \in Request
        /\ (nPop + nComp) + i \in 1 .. Len(hashFilter)
    BY <2>1, PlacesAre
  <2>. QED BY <1>4, <2>1, <2>2, <2>3
<1>. QED BY <1>1, <1>5, <1>6 DEF ReadsCurrent

(* What is judged is what the bucket holds. *)
LEMMA JudgedIsHeld ==
  ASSUME Typed, OrderInv, ReadsCurrent, NEW op, Evaluates(op), op # "flush"
  PROVE  /\ Head(comp2memWr).req \in Request /\ Head(comp2memWr).req.op = op
         /\ Head(comp2memWr).req.key \in Keys /\ BucketOf[Head(comp2memWr).req.key] \in Buckets
         /\ Head(comp2memWr).words = Held[BucketOf[Head(comp2memWr).req.key]]
         /\ Head(comp2memWr).words \in Words
<1>1. comp2memWr # <<>> /\ Head(comp2memWr).req.op = op
  BY DEF Evaluates
<1>2. /\ Head(comp2memWr).req \in Request /\ Head(comp2memWr).words \in Words
      /\ Head(comp2memWr) = comp2memWr[1]
  BY <1>1, JudgedIs DEF Typed
<1>3. 1 \in 1 .. nComp
  BY <1>1 DEF nComp, Typed, QueuesTyped
<1>4. Head(comp2memWr).words = Held[BucketOf[Head(comp2memWr).req.key]]
  BY <1>1, <1>2, <1>3 DEF ReadsCurrent
<1>. QED BY <1>1, <1>2, <1>4, RequestIs

LEMMA SetHeld ==
  ASSUME Typed, OrderInv, ReadsCurrent, EvalSet
  PROVE  Held' = [Held EXCEPT ![BucketOf[Head(comp2memWr).req.key]] =
                    [Head(comp2memWr).words EXCEPT ![SetLocation] = SetEntry]]
<1>. DEFINE b == BucketOf[Head(comp2memWr).req.key]
            w == [Head(comp2memWr).words EXCEPT ![SetLocation] = SetEntry]
<1>1. w \in Words /\ Write({b}, w)
  BY SetIs
<1>2. Evaluates("set") /\ UNCHANGED mem
  BY DEF EvalSet, Evaluates
<1>3. b \in Buckets /\ {b} \in SUBSET Buckets
  BY <1>2, JudgedIsHeld
<1>. HIDE DEF b, w
<1>4. Held' = [c \in Buckets |-> IF c \in {b} THEN w ELSE Held[c]]
  BY <1>1, <1>2, <1>3, HeldWritten
<1>5. Held' = [Held EXCEPT ![b] = w]
  BY <1>3, <1>4, HeldTyped
<1>. QED BY <1>5 DEF b, w

LEMMA DeleteHeld ==
  ASSUME Typed, OrderInv, ReadsCurrent, EvalDelete
  PROVE  Held' = IF DeleteFound = {} THEN Held
                 ELSE [Held EXCEPT ![BucketOf[Head(comp2memWr).req.key]] =
                         [Head(comp2memWr).words EXCEPT ![DeleteLocation] = Free]]
<1>1. Evaluates("delete") /\ UNCHANGED mem
  BY DEF EvalDelete, Evaluates
<1>2. CASE DeleteFound = {}
  <2>1. UNCHANGED <<mem, memWrCtrl>>
    BY <1>1, <1>2, DeleteIs
  <2>. QED BY <1>2, <2>1, HeldSame
<1>3. CASE DeleteFound # {}
  <2>. DEFINE b == BucketOf[Head(comp2memWr).req.key]
              w == [Head(comp2memWr).words EXCEPT ![DeleteLocation] = Free]
  <2>1. w \in Words /\ Write({b}, w)
    BY <1>3, DeleteIs
  <2>2. b \in Buckets /\ {b} \in SUBSET Buckets
    BY <1>1, JudgedIsHeld
  <2>. HIDE DEF b, w
  <2>3. Held' = [c \in Buckets |-> IF c \in {b} THEN w ELSE Held[c]]
    BY <1>1, <2>1, <2>2, HeldWritten
  <2>4. Held' = [Held EXCEPT ![b] = w]
    BY <2>2, <2>3, HeldTyped
  <2>. QED BY <1>3, <2>4 DEF b, w
<1>. QED BY <1>2, <1>3

(* Behind a flush no bucket is read. *)
LEMMA SweepIs ==
  ASSUME Typed, OrderInv, ReadsCurrent, FlushSweep
  PROVE  /\ nComp = 0 /\ nRead = 0 /\ nData = 0 /\ nCtrl = 0
         /\ Held' = [b \in Buckets |-> EmptyBucket]
         /\ UNCHANGED <<comp2memWr, memRd2comp, memRdData, memRdCtrl>>
<1>1. memWrState = "flush" /\ UNCHANGED <<comp2memWr, memRd2comp, memRdData, memRdCtrl, mem>>
  BY DEF FlushSweep
<1>2. nComp \in Nat /\ nRead \in Nat /\ nCc \in Nat /\ nPop \in Nat /\ nPop > 0 /\ nData \in Nat /\ nCtrl \in Nat
  <2>1. dec2cc \in Nat /\ nPop = dec2cc + 1
    BY <1>1, Lengths DEF nPop, ToPop
  <2>. QED BY <2>1, Lengths DEF nData, nCtrl, Typed, MemoryTyped
<1>3. hashFilter[nPop].op = "flush"
  BY <1>1 DEF OrderInv, Filtered
<1>4. ASSUME NEW k \in 1 .. Len(hashFilter), k > nPop PROVE FALSE
  <2>1. Blocks(hashFilter[nPop], hashFilter[k])
    BY <1>3 DEF Blocks
  <2>2. nPop \in 1 .. Len(hashFilter) /\ Len(hashFilter) \in Nat
    BY <1>2, <1>4, Lengths
  <2>. QED BY <1>2, <1>4, <2>1, <2>2, PlacesAre
<1>5. nComp = 0
  <2>1. ASSUME nComp > 0 PROVE FALSE
    <3>1. 1 \in 1 .. nComp /\ nPop + 1 > nPop
      BY <1>2, <2>1
    <3>2. nPop + 1 \in 1 .. Len(hashFilter)
      BY <3>1, PlacesAre
    <3>. QED BY <1>4, <3>1, <3>2
  <2>. QED BY <1>2, <2>1
<1>6. nRead = 0
  <2>1. ASSUME nRead > 0 PROVE FALSE
    <3>1. 1 \in 1 .. nRead /\ (nPop + nComp) + 1 > nPop
      BY <1>2, <2>1
    <3>2. (nPop + nComp) + 1 \in 1 .. Len(hashFilter)
      BY <3>1, PlacesAre
    <3>. QED BY <1>4, <3>1, <3>2
  <2>. QED BY <1>2, <2>1
<1>7. nData = 0 /\ nCtrl = 0
  <2>1. nData + nCtrl <= nRead
    BY DEF ReadsCurrent
  <2>. QED BY <1>2, <1>6, <2>1
<1>8. Held' = [b \in Buckets |-> EmptyBucket]
  <2>1. Write(Buckets, EmptyBucket) /\ Buckets \in SUBSET Buckets /\ EmptyBucket \in Words
    BY EmptyIs DEF FlushSweep
  <2>2. Held' = [b \in Buckets |-> IF b \in Buckets THEN EmptyBucket ELSE Held[b]]
    BY <1>1, <2>1, HeldWritten
  <2>. QED BY <2>2
<1>. QED BY <1>1, <1>5, <1>6, <1>7, <1>8

(* The steps that leave the buckets, and what is read of them, alone. *)
LEMMA IdleReads ==
  ASSUME Typed, OrderInv, ReadsCurrent, Held' = Held,
         UNCHANGED <<memRd2comp, memRdCtrl, memRdData, comp2memWr>>
  PROVE  ReadsCurrent'
BY DEF ReadsCurrent, nComp, nRead, nData, nCtrl

LEMMA EvalSame ==
  ASSUME Typed, OrderInv, ReadsCurrent, NEW op, Evaluates(op), UNCHANGED memWrCtrl
  PROVE  ReadsCurrent' /\ Held' = Held
<1>1. Held' = Held
  BY HeldSame DEF Evaluates
<1>. QED BY <1>1, EvalReads

LEMMA ReadsStep ==
  ASSUME Typed, OrderInv, ReadsCurrent, [Next]_vars
  PROVE  ReadsCurrent'
<1>1. CASE EvalSet
  <2>1. Evaluates("set") /\ Head(comp2memWr).req.key \in Keys
        /\ BucketOf[Head(comp2memWr).req.key] \in Buckets
    BY <1>1, JudgedIsHeld DEF EvalSet
  <2>2. \A b \in Buckets : Held'[b] = Held[b] \/ b = BucketOf[Head(comp2memWr).req.key]
    BY <1>1, SetHeld, HeldTyped
  <2>. QED BY <2>1, <2>2, EvalReads
<1>2. CASE EvalDelete
  <2>1. Evaluates("delete")
    BY <1>2 DEF EvalDelete
  <2>2. \A b \in Buckets : Held'[b] = Held[b] \/ b = BucketOf[Head(comp2memWr).req.key]
    BY <1>2, DeleteHeld, HeldTyped
  <2>. QED BY <2>1, <2>2, EvalReads
<1>3. CASE EvalGet
  <2>1. Evaluates("get") /\ UNCHANGED memWrCtrl
    BY <1>3 DEF EvalGet
  <2>. QED BY <2>1, EvalSame
<1>4. CASE EvalSetFails \/ EvalSetHangs
  <2>1. Evaluates("set") /\ UNCHANGED memWrCtrl
    BY <1>4 DEF EvalSetFails, EvalSetHangs
  <2>. QED BY <2>1, EvalSame
<1>5. CASE FlushStart
  <2>1. Evaluates("flush") /\ UNCHANGED memWrCtrl
    BY <1>5 DEF FlushStart
  <2>. QED BY <2>1, EvalSame
<1>6. CASE FlushSweep
  <2>1. /\ nComp = 0 /\ nRead = 0 /\ nData = 0 /\ nCtrl = 0
        /\ UNCHANGED <<comp2memWr, memRd2comp, memRdData, memRdCtrl>>
    BY <1>6, SweepIs
  <2>2. nComp' = 0 /\ nRead' = 0 /\ nData' = 0 /\ nCtrl' = 0
    BY <2>1 DEF nComp, nRead, nData, nCtrl
  <2>3. (\A i \in 1 .. 0 : FALSE) /\ 0 + 0 <= 0
    OBVIOUS
  <2>. QED BY <2>2, <2>3 DEF ReadsCurrent
<1>7. CASE AccessWrite
  <2>1. Held' = Held /\ UNCHANGED <<memRd2comp, memRdCtrl, memRdData, comp2memWr>>
    BY <1>7, HeldSame DEF AccessWrite, queues
  <2>. QED BY <2>1, IdleReads
<1>8. CASE UNCHANGED <<memRd2comp, memRdCtrl, memRdData, comp2memWr, mem, memWrCtrl>>
  BY <1>8, HeldSame, IdleReads
<1>. QED BY <1>1, <1>2, <1>3, <1>4, <1>5, <1>6, <1>7, <1>8, ReadStep, JoinStep, FetchStep DEF Next, Internal,
       ClientAsks, InputLogic, CcAccept, CcRelease, CcPop, SetRest, FlushWait, OutputLogic, vars, tableVars,
       queues, memVars

(* One bin for a key. *)

(* A word of a bucket, with one bin changed. *)
Unique(words) ==
  \A i, j \in Bins : ~words[i].free /\ ~words[j].free /\ words[i].key = words[j].key => i = j

LEMMA UniqueSet ==
  ASSUME NEW words \in Words, Unique(words), NEW i \in Bins, NEW e \in Bin, ~e.free,
         \A j \in Bins : ~words[j].free /\ words[j].key = e.key => j = i
  PROVE  Unique([words EXCEPT ![i] = e])
BY DEF Unique, Words

LEMMA UniqueDelete ==
  ASSUME NEW words \in Words, Unique(words), NEW i \in Bins
  PROVE  Unique([words EXCEPT ![i] = Free])
BY DEF Unique, Words, Free

LEMMA SetEntryIs ==
  ASSUME Typed, OrderInv, ReadsCurrent, EvalSet, Unique(Head(comp2memWr).words)
  PROVE  /\ SetLocation \in Bins /\ SetEntry \in Bin /\ ~SetEntry.free
         /\ SetEntry.key = Head(comp2memWr).req.key
         /\ \A j \in Bins : ~Head(comp2memWr).words[j].free /\ Head(comp2memWr).words[j].key = SetEntry.key
              => j = SetLocation
<1>1. SetLocation \in Bins /\ SetEntry \in Bin
      /\ SetLocation \in IF SetReplace # {} THEN SetReplace ELSE SetFound
  BY SetIs
<1>2. ~SetEntry.free /\ SetEntry.key = Head(comp2memWr).req.key
  BY DEF SetEntry
<1>3. \A j \in Bins : ~Head(comp2memWr).words[j].free /\ Head(comp2memWr).words[j].key = SetEntry.key
        => j \in SetReplace
  BY <1>2 DEF SetReplace, MatchingBins
<1>4. CASE SetReplace = {}
  BY <1>1, <1>2, <1>3, <1>4
<1>5. CASE SetReplace # {}
  <2>1. ~Head(comp2memWr).words[SetLocation].free /\ Head(comp2memWr).words[SetLocation].key = SetEntry.key
    BY <1>1, <1>2, <1>5 DEF SetReplace, MatchingBins
  <2>. QED BY <1>1, <1>2, <2>1 DEF Unique
<1>. QED BY <1>4, <1>5

LEMMA BinStep ==
  ASSUME Typed, OrderInv, ReadsCurrent, OneBin, [Next]_vars
  PROVE  OneBin'
<1>0. \A b \in Buckets : Unique(Held[b])
  BY DEF OneBin, Unique
<1>. SUFFICES \A b \in Buckets : Unique(Held'[b])
  BY DEF OneBin, Unique
<1>1. CASE Held' = Held
  BY <1>0, <1>1
<1>2. CASE EvalSet
  <2>. DEFINE b == BucketOf[Head(comp2memWr).req.key]
              words == Head(comp2memWr).words
  <2>1. b \in Buckets /\ words = Held[b] /\ words \in Words
    BY <1>2, JudgedIsHeld DEF EvalSet
  <2>2. Held' = [Held EXCEPT ![b] = [words EXCEPT ![SetLocation] = SetEntry]]
    BY <1>2, SetHeld
  <2>3. Unique([words EXCEPT ![SetLocation] = SetEntry])
    BY <1>0, <1>2, <2>1, SetEntryIs, UniqueSet
  <2>. HIDE DEF b, words
  <2>. QED BY <1>0, <2>1, <2>2, <2>3, HeldTyped
<1>3. CASE EvalDelete
  <2>1. CASE DeleteFound = {}
    BY <1>0, <1>3, <2>1, DeleteHeld
  <2>2. CASE DeleteFound # {}
    <3>. DEFINE b == BucketOf[Head(comp2memWr).req.key]
                words == Head(comp2memWr).words
    <3>1. b \in Buckets /\ words = Held[b] /\ words \in Words
      BY <1>3, JudgedIsHeld DEF EvalDelete
    <3>2. Held' = [Held EXCEPT ![b] = [words EXCEPT ![DeleteLocation] = Free]]
      BY <1>3, <2>2, DeleteHeld
    <3>3. Unique([words EXCEPT ![DeleteLocation] = Free])
      BY <1>0, <1>3, <2>2, <3>1, DeleteIs, UniqueDelete
    <3>. HIDE DEF b, words
    <3>. QED BY <1>0, <3>1, <3>2, <3>3, HeldTyped
  <2>. QED BY <2>1, <2>2
<1>4. CASE FlushSweep
  <2>1. Unique(EmptyBucket)
    BY EmptyIs DEF Unique
  <2>. QED BY <1>4, <2>1, SweepIs
<1>5. CASE AccessWrite \/ UNCHANGED <<mem, memWrCtrl>>
  BY <1>1, <1>5, HeldSame
<1>. QED BY <1>2, <1>3, <1>4, <1>5 DEF Next, Internal, ClientAsks, InputLogic, CcAccept, CcRelease, CcPop,
       MemRead, AccessRead, HtCompare, EvalGet, EvalSetFails, EvalSetHangs, FlushStart, SetRest, FlushWait,
       OutputLogic, Evaluates, vars, tableVars, memVars

(* The invariant. *)

LEMMA InitInv == Init => TableInv
<1>. SUFFICES ASSUME Init PROVE TableInv
  OBVIOUS
<1>1. QueuesTyped
  BY DEF Init, TableInit, QueuesTyped
<1>2. MemoryTyped
  BY EmptyIs DEF Init, TableInit, MemoryTyped
<1>3. AddressesTyped
  <2>1. AllDram \in Seq(Dram) /\ AllFlash \in Seq(Flash)
    BY AddressAssumption DEF AllDram, AllFlash, Dram, Flash
  <2>. QED BY <2>1 DEF Init, HostInit, AddressesTyped
<1>4. /\ nOut = 0 /\ nComp = 0 /\ nRead = 0 /\ nCc = 0 /\ nPop = 0 /\ nData = 0 /\ nCtrl = 0
      /\ Len(held) = 0 /\ Len(in2cc) = 0 /\ Len(mdBuffer) = 0 /\ Len(hashFilter) = 0 /\ memWrState = "idle"
  BY DEF Init, TableInit, nOut, nComp, nRead, nCc, nPop, nData, nCtrl, InHand, ToPop
<1>5. Compared = <<>>
  BY DEF Init, TableInit, Compared
<1>6. Lies(<<>>, <<>>, 0)
  BY DEF Lies
<1>7. InOrder
  BY <1>4, <1>5, <1>6 DEF InOrder, Init, TableInit
<1>8. Filtered
  BY <1>4, <1>5, <1>6 DEF Filtered, Init, TableInit
<1>9. ReadsCurrent
  BY <1>4 DEF ReadsCurrent
<1>10. OneBin
  <2>1. \A b \in Buckets : Held[b] = EmptyBucket
    BY DEF Init, TableInit, Held, Current, Pending
  <2>. QED BY <2>1, EmptyIs DEF OneBin
<1>. QED BY <1>1, <1>2, <1>3, <1>7, <1>8, <1>9, <1>10 DEF TableInv, Typed

LEMMA StepInv == TableInv /\ [Next]_vars => TableInv'
<1>. SUFFICES ASSUME TableInv, [Next]_vars PROVE TableInv'
  OBVIOUS
<1>1. Typed /\ OrderInv /\ ReadsCurrent /\ OneBin
  BY DEF TableInv, OrderInv
<1>2. QueuesTyped' /\ OrderInv'
  BY <1>1, OrderStep
<1>3. MemoryTyped' /\ AddressesTyped'
  BY <1>1, MemoryStep, AddressesStep
<1>4. ReadsCurrent'
  BY <1>1, ReadsStep
<1>5. OneBin'
  BY <1>1, BinStep
<1>. QED BY <1>2, <1>3, <1>4, <1>5 DEF TableInv, OrderInv, Typed

LEMMA Inductive == Spec => []TableInv
BY InitInv, StepInv, PTL DEF Spec

(* The table that clients see is atomic. *)

(* What the steps of the atomic table are stated about. *)
Waiting == SubSeq(mdBuffer, Len(memWr2out) + 1, Len(mdBuffer))
Table == [k \in Keys |-> Entry(k)]
Answered == [i \in DOMAIN memWr2out |-> [req |-> mdBuffer[i], answer |-> memWr2out[i]]]

ValueIn(words, k) ==
  LET match == MatchingBins(words, k)
  IN  IF match = {} THEN [present |-> FALSE]
      ELSE [present |-> TRUE, class |-> words[Lowest(match)].class, addr |-> words[Lowest(match)].addr]

LEMMA RestIs ==
  ASSUME NEW s \in Seq(Request), NEW n \in Nat, n <= Len(s)
  PROVE  /\ SubSeq(s, n + 1, Len(s)) \in Seq(Request) /\ Len(SubSeq(s, n + 1, Len(s))) = Len(s) - n
         /\ \A i \in 1 .. Len(s) - n : SubSeq(s, n + 1, Len(s))[i] = s[n + i]
<1>1. n + 1 \in 1 .. Len(s) + 1 /\ Len(s) \in (n + 1) - 1 .. Len(s) /\ Len(s) \in Nat
  OBVIOUS
<1>2. /\ SubSeq(s, n + 1, Len(s)) \in Seq(Request) /\ Len(SubSeq(s, n + 1, Len(s))) = Len(s) - (n + 1) + 1
      /\ \A i \in 1 .. Len(s) - (n + 1) + 1 : SubSeq(s, n + 1, Len(s))[i] = s[(n + 1) + i - 1]
  BY <1>1, SubSeqProperties
<1>3. Len(s) - (n + 1) + 1 = Len(s) - n
  BY <1>1
<1>4. ASSUME NEW i \in 1 .. Len(s) - n
      PROVE  SubSeq(s, n + 1, Len(s))[i] = s[n + i]
  <2>1. SubSeq(s, n + 1, Len(s))[i] = s[(n + 1) + i - 1]
    BY <1>2, <1>3
  <2>2. (n + 1) + i - 1 = n + i
    BY <1>1
  <2>. QED BY <2>1, <2>2
<1>. QED BY <1>2, <1>3, <1>4

LEMMA RestTail ==
  ASSUME NEW s \in Seq(Request), NEW n \in Nat, n < Len(s)
  PROVE  /\ SubSeq(s, n + 1, Len(s)) # <<>> /\ Head(SubSeq(s, n + 1, Len(s))) = s[n + 1]
         /\ SubSeq(s, (n + 1) + 1, Len(s)) = Tail(SubSeq(s, n + 1, Len(s)))
<1>. DEFINE p == SubSeq(s, n + 1, Len(s))
            q == SubSeq(s, (n + 1) + 1, Len(s))
<1>0. Len(s) \in Nat /\ n + 1 \in Nat
  OBVIOUS
<1>1. p \in Seq(Request) /\ Len(p) = Len(s) - n /\ \A i \in 1 .. Len(s) - n : p[i] = s[n + i]
  BY RestIs
<1>2. q \in Seq(Request) /\ Len(q) = Len(s) - (n + 1) /\ \A i \in 1 .. Len(s) - (n + 1) : q[i] = s[(n + 1) + i]
  BY <1>0, RestIs
<1>. HIDE DEF p, q
<1>3. p # <<>> /\ Head(p) = s[n + 1]
  BY <1>0, <1>1, TailIs
<1>4. /\ Tail(p) \in Seq(Request) /\ Len(Tail(p)) = Len(q)
      /\ \A i \in 1 .. Len(p) - 1 : Tail(p)[i] = p[i + 1]
  BY <1>0, <1>1, <1>2, <1>3, TailIs
<1>5. ASSUME NEW i \in 1 .. Len(q) PROVE q[i] = Tail(p)[i]
  <2>1. i \in 1 .. Len(p) - 1 /\ i + 1 \in 1 .. Len(s) - n /\ n + (i + 1) = (n + 1) + i
        /\ i \in 1 .. Len(s) - (n + 1)
    BY <1>0, <1>1, <1>2
  <2>. QED BY <1>1, <1>2, <1>4, <2>1
<1>6. q = Tail(p)
  BY <1>2, <1>4, <1>5, SeqEqual
<1>. QED BY <1>3, <1>6 DEF p, q

LEMMA RestAppend ==
  ASSUME NEW s \in Seq(Request), NEW n \in Nat, n <= Len(s), NEW r \in Request
  PROVE  /\ SubSeq(Append(s, r), n + 1, Len(Append(s, r))) = Append(SubSeq(s, n + 1, Len(s)), r)
         /\ Len(SubSeq(Append(s, r), n + 1, Len(Append(s, r)))) = Len(SubSeq(s, n + 1, Len(s))) + 1
<1>. DEFINE t == Append(s, r)
            p == SubSeq(s, n + 1, Len(s))
            q == SubSeq(t, n + 1, Len(t))
<1>0. Len(s) \in Nat /\ t \in Seq(Request) /\ Len(t) = Len(s) + 1 /\ t[Len(s) + 1] = r
      /\ \A i \in 1 .. Len(s) : t[i] = s[i]
  BY AppendIs
<1>1. p \in Seq(Request) /\ Len(p) = Len(s) - n /\ \A i \in 1 .. Len(s) - n : p[i] = s[n + i]
  BY RestIs
<1>2. q \in Seq(Request) /\ Len(q) = Len(t) - n /\ \A i \in 1 .. Len(t) - n : q[i] = t[n + i]
  <2>1. n <= Len(t)
    BY <1>0
  <2>. HIDE DEF t
  <2>. QED BY <1>0, <2>1, RestIs
<1>. HIDE DEF p, q, t
<1>3. /\ Append(p, r) \in Seq(Request) /\ Len(Append(p, r)) = Len(p) + 1 /\ Append(p, r)[Len(p) + 1] = r
      /\ \A i \in 1 .. Len(p) : Append(p, r)[i] = p[i]
  BY <1>1, AppendIs
<1>4. Len(q) = Len(Append(p, r)) /\ Len(q) = Len(p) + 1
  BY <1>0, <1>1, <1>2, <1>3
<1>5. ASSUME NEW i \in 1 .. Len(q) PROVE q[i] = Append(p, r)[i]
  <2>1. q[i] = t[n + i]
    BY <1>2
  <2>2. CASE i \in 1 .. Len(p)
    <3>1. n + i \in 1 .. Len(s) /\ i \in 1 .. Len(s) - n
      BY <1>0, <1>1, <2>2
    <3>. QED BY <1>0, <1>1, <1>3, <2>1, <2>2, <3>1
  <2>3. CASE i = Len(p) + 1
    <3>1. n + i = Len(s) + 1
      BY <1>0, <1>1, <2>3
    <3>. QED BY <1>0, <1>3, <2>1, <2>3, <3>1
  <2>4. i \in 1 .. Len(p) \/ i = Len(p) + 1
    BY <1>0, <1>1, <1>4
  <2>. QED BY <2>2, <2>3, <2>4
<1>6. q = Append(p, r)
  BY <1>2, <1>3, <1>4, <1>5, SeqEqual
<1>. QED BY <1>4, <1>6 DEF p, q, t

(* The answered requests have their place in front of the others. *)
LEMMA InFront ==
  ASSUME Typed, OrderInv
  PROVE  /\ Len(memWr2out) \in Nat /\ Len(memWr2out) <= Len(mdBuffer) /\ mdBuffer \in Seq(Request)
         /\ memWr2out \in Seq(Answer)
<1>1. Len(mdBuffer) = nOut + nComp + nRead + nCc + Len(held) + Len(in2cc)
  BY DEF OrderInv, InOrder
<1>2. nOut >= Len(memWr2out)
  BY Lengths DEF nOut, InHand
<1>3. /\ nOut \in Nat /\ nComp \in Nat /\ nRead \in Nat /\ nCc \in Nat /\ Len(held) \in Nat
      /\ Len(in2cc) \in Nat /\ Len(mdBuffer) \in Nat /\ Len(memWr2out) \in Nat
  BY Lengths
<1>4. Len(memWr2out) <= Len(mdBuffer)
  BY <1>1, <1>2, <1>3
<1>. QED BY <1>3, <1>4 DEF Typed, QueuesTyped

LEMMA AskIs ==
  ASSUME Typed, OrderInv, NEW r \in Request, InputLogic(r)
  PROVE  Waiting' = Append(Waiting, r) /\ Len(Waiting') = Len(Waiting) + 1 /\ Answered' = Answered
<1>1. mdBuffer' = Append(mdBuffer, r) /\ memWr2out' = memWr2out
  BY DEF InputLogic
<1>2. Waiting' = SubSeq(Append(mdBuffer, r), Len(memWr2out) + 1, Len(Append(mdBuffer, r)))
  BY <1>1 DEF Waiting
<1>3. Waiting' = Append(Waiting, r) /\ Len(Waiting') = Len(Waiting) + 1
  <2>1. mdBuffer \in Seq(Request) /\ Len(memWr2out) \in Nat /\ Len(memWr2out) <= Len(mdBuffer)
    BY InFront
  <2>. DEFINE m == Len(memWr2out)
              p == SubSeq(mdBuffer, m + 1, Len(mdBuffer))
              q == SubSeq(Append(mdBuffer, r), m + 1, Len(Append(mdBuffer, r)))
  <2>2. q = Append(p, r) /\ Len(q) = Len(p) + 1
    <3>. HIDE DEF m
    <3>1. m \in Nat /\ m <= Len(mdBuffer)
      BY <2>1 DEF m
    <3>. QED BY <2>1, <3>1, RestAppend
  <2>. QED BY <1>2, <2>2 DEF Waiting
<1>4. \A i \in DOMAIN memWr2out : mdBuffer'[i] = mdBuffer[i]
  <2>1. \A i \in 1 .. Len(mdBuffer) : mdBuffer'[i] = mdBuffer[i]
    BY <1>1, InFront, AppendIs
  <2>2. \A i \in DOMAIN memWr2out : i \in 1 .. Len(mdBuffer)
    <3>1. Len(memWr2out) \in Nat /\ Len(memWr2out) <= Len(mdBuffer) /\ DOMAIN memWr2out = 1 .. Len(memWr2out)
          /\ Len(mdBuffer) \in Nat
      BY InFront
    <3>. QED BY <3>1
  <2>. QED BY <2>1, <2>2
<1>5. Answered' = Answered
  BY <1>1, <1>4 DEF Answered
<1>. QED BY <1>3, <1>5

(* An answer is of the request at the head of those that wait. *)
LEMMA ReplyIs ==
  ASSUME Typed, OrderInv, NEW answer \in Answer, Reply(answer), UNCHANGED mdBuffer,
         Len(memWr2out) < Len(mdBuffer)
  PROVE  /\ Waiting # <<>> /\ Waiting' = Tail(Waiting) /\ Head(Waiting) = mdBuffer[Len(memWr2out) + 1]
         /\ Answered' = Append(Answered, [req |-> Head(Waiting), answer |-> answer])
         /\ Len(Answered') = Len(Answered) + 1 /\ Answered'[Len(Answered')].answer = answer
<1>. DEFINE n == Len(memWr2out)
            pair == [req |-> Head(Waiting), answer |-> answer]
            T == [req : Request, answer : Answer]
<1>1. n \in Nat /\ mdBuffer \in Seq(Request) /\ memWr2out \in Seq(Answer) /\ n < Len(mdBuffer)
      /\ Len(mdBuffer) \in Nat
  BY InFront
<1>2. /\ memWr2out' \in Seq(Answer) /\ Len(memWr2out') = n + 1 /\ memWr2out'[n + 1] = answer
      /\ \A i \in 1 .. n : memWr2out'[i] = memWr2out[i]
  BY <1>1, AppendIs DEF Reply
<1>3. Waiting' = SubSeq(mdBuffer, (n + 1) + 1, Len(mdBuffer))
  BY <1>2 DEF Waiting
<1>4. Waiting # <<>> /\ Waiting' = Tail(Waiting) /\ Head(Waiting) = mdBuffer[n + 1]
  <2>1. Waiting = SubSeq(mdBuffer, n + 1, Len(mdBuffer))
    BY DEF Waiting
  <2>. HIDE DEF n
  <2>. QED BY <1>1, <1>3, <2>1, RestTail
<1>5. Answered = [i \in 1 .. n |-> [req |-> mdBuffer[i], answer |-> memWr2out[i]]]
  BY <1>1 DEF Answered
<1>6. Answered' = [i \in 1 .. n + 1 |-> [req |-> mdBuffer[i], answer |-> memWr2out'[i]]]
  BY <1>2 DEF Answered
<1>7. /\ \A i \in 1 .. n : mdBuffer[i] \in Request /\ memWr2out[i] \in Answer
      /\ mdBuffer[n + 1] \in Request
  BY <1>1, ElementIs
<1>8. Answered \in Seq(T) /\ Len(Answered) = n /\ pair \in T
  BY <1>1, <1>4, <1>5, <1>7
<1>9. Answered' \in Seq(T) /\ Len(Answered') = n + 1
  <2>1. \A i \in 1 .. n + 1 : mdBuffer[i] \in Request /\ memWr2out'[i] \in Answer
    BY <1>1, <1>2, <1>7
  <2>. QED BY <1>1, <1>6, <2>1
<1>10. \A i \in 1 .. n : Answered'[i] = Answered[i]
  BY <1>1, <1>2, <1>5, <1>6
<1>11. Answered'[n + 1] = pair
  BY <1>1, <1>2, <1>4, <1>6
<1>12. Answered' = Append(Answered, pair)
  <2>. HIDE DEF T, pair, n
  <2>1. /\ Append(Answered, pair) \in Seq(T) /\ Len(Append(Answered, pair)) = n + 1
        /\ Append(Answered, pair)[n + 1] = pair
        /\ \A i \in 1 .. n : Append(Answered, pair)[i] = Answered[i]
    BY <1>8, AppendIs
  <2>2. \A i \in 1 .. n + 1 : Answered'[i] = Append(Answered, pair)[i]
    BY <1>1, <1>10, <1>11, <2>1
  <2>. QED BY <1>9, <2>1, <2>2, SeqEqual
<1>. QED BY <1>4, <1>8, <1>9, <1>11, <1>12

LEMMA GiveIs ==
  ASSUME Typed, OrderInv, OutputLogic
  PROVE  Answered # <<>> /\ Answered' = Tail(Answered) /\ Waiting' = Waiting
<1>. DEFINE n == Len(memWr2out)
            T == [req : Request, answer : Answer]
<1>1. /\ mdBuffer' = Tail(mdBuffer) /\ memWr2out' = Tail(memWr2out) /\ memWr2out # <<>> /\ mdBuffer # <<>>
      /\ n \in Nat /\ n <= Len(mdBuffer) /\ mdBuffer \in Seq(Request) /\ memWr2out \in Seq(Answer)
  BY InFront DEF OutputLogic
<1>2. /\ mdBuffer' \in Seq(Request) /\ Len(mdBuffer') = Len(mdBuffer) - 1 /\ Len(mdBuffer) \in Nat
      /\ \A i \in 1 .. Len(mdBuffer) - 1 : mdBuffer'[i] = mdBuffer[i + 1]
  BY <1>1, TailIs
<1>3. /\ memWr2out' \in Seq(Answer) /\ Len(memWr2out') = n - 1 /\ n > 0
      /\ \A i \in 1 .. n - 1 : memWr2out'[i] = memWr2out[i + 1]
  BY <1>1, TailIs
<1>4. Waiting' = Waiting
  <2>. DEFINE m == n - 1
              k == Len(mdBuffer')
  <2>1. m \in Nat /\ m <= k /\ k \in Nat /\ k - m = Len(mdBuffer) - n /\ m + 1 = n
    BY <1>1, <1>2, <1>3
  <2>2. /\ Waiting \in Seq(Request) /\ Len(Waiting) = Len(mdBuffer) - n
        /\ \A i \in 1 .. Len(mdBuffer) - n : Waiting[i] = mdBuffer[n + i]
    BY <1>1, RestIs DEF Waiting
  <2>3. Waiting' = SubSeq(mdBuffer', m + 1, k)
    BY <1>3 DEF Waiting
  <2>. HIDE DEF m
  <2>4. /\ Waiting' \in Seq(Request) /\ Len(Waiting') = k - m
        /\ \A i \in 1 .. k - m : Waiting'[i] = mdBuffer'[m + i]
    BY <1>2, <2>1, <2>3, RestIs
  <2>. HIDE DEF k, n
  <2>5. ASSUME NEW i \in 1 .. Len(Waiting) PROVE Waiting'[i] = Waiting[i]
    <3>1. i \in 1 .. Len(mdBuffer) - n /\ i \in 1 .. k - m
      BY <2>1, <2>2
    <3>2. m + i \in 1 .. Len(mdBuffer) - 1 /\ (m + i) + 1 = n + i
      BY <1>1, <1>2, <2>1, <3>1
    <3>. QED BY <1>2, <2>2, <2>4, <3>1, <3>2
  <2>6. Len(Waiting') = Len(Waiting)
    BY <2>1, <2>2, <2>4
  <2>. QED BY <2>2, <2>4, <2>5, <2>6, SeqEqual
<1>5. Answered = [i \in 1 .. n |-> [req |-> mdBuffer[i], answer |-> memWr2out[i]]]
  BY <1>1 DEF Answered
<1>6. Answered' = [i \in 1 .. n - 1 |-> [req |-> mdBuffer'[i], answer |-> memWr2out'[i]]]
  BY <1>3 DEF Answered
<1>7. \A i \in 1 .. n : mdBuffer[i] \in Request /\ memWr2out[i] \in Answer
  <2>1. \A i \in 1 .. n : i \in 1 .. Len(mdBuffer)
    BY <1>1, <1>2
  <2>. QED BY <1>1, <2>1, ElementIs
<1>8. Answered \in Seq(T) /\ Len(Answered) = n /\ Answered # <<>>
  BY <1>1, <1>3, <1>5, <1>7
<1>9. ASSUME NEW i \in 1 .. n - 1 PROVE Answered'[i] = Answered[i + 1]
  <2>1. i + 1 \in 1 .. n /\ i \in 1 .. Len(mdBuffer) - 1
    BY <1>1, <1>2, <1>3
  <2>. QED BY <1>2, <1>3, <1>5, <1>6, <2>1
<1>10. Answered' \in Seq(T) /\ Len(Answered') = n - 1
  <2>1. n - 1 \in Nat /\ \A i \in 1 .. n - 1 : i + 1 \in 1 .. n
    BY <1>1, <1>3
  <2>2. \A i \in 1 .. n : Answered[i] \in T
    BY <1>5, <1>7
  <2>3. \A i \in 1 .. n - 1 : Answered'[i] \in T
    BY <1>9, <2>1, <2>2
  <2>. HIDE DEF T
  <2>. QED BY <1>6, <2>1, <2>3
<1>11. Answered' = Tail(Answered)
  <2>. HIDE DEF T, n
  <2>1. /\ Tail(Answered) \in Seq(T) /\ Len(Tail(Answered)) = n - 1
        /\ \A i \in 1 .. n - 1 : Tail(Answered)[i] = Answered[i + 1]
    BY <1>8, TailIs
  <2>. QED BY <1>9, <1>10, <2>1, SeqEqual
<1>. QED BY <1>4, <1>8, <1>11

(* The entry of a key, from the word of its bucket. *)
LEMMA TableIs == Table = [k \in Keys |-> ValueIn(Held[BucketOf[k]], k)]
<1>1. \A k \in Keys : Held[BucketOf[k]] = Current(BucketOf[k])
  BY DEF Held, Buckets
<1>. QED BY <1>1 DEF Table, Entry, ValueIn

LEMMA TableIsNext == Table' = [k \in Keys |-> ValueIn(Held'[BucketOf[k]], k)]
<1>1. (Table = [k \in Keys |-> ValueIn(Held[BucketOf[k]], k)])'
  BY TableIs, PTL
<1>. QED BY <1>1 DEF ValueIn, MatchingBins, Lowest

LEMMA ValueAbsent ==
  ASSUME NEW words, NEW k, MatchingBins(words, k) = {}
  PROVE  ValueIn(words, k) = [present |-> FALSE]
BY DEF ValueIn

LEMMA ValuePresent ==
  ASSUME NEW words \in Words, NEW k, Unique(words), NEW i \in MatchingBins(words, k)
  PROVE  /\ Lowest(MatchingBins(words, k)) = i /\ Highest(MatchingBins(words, k)) = i
         /\ ValueIn(words, k) = [present |-> TRUE, class |-> words[i].class, addr |-> words[i].addr]
<1>1. MatchingBins(words, k) = {i} /\ i \in Nat
  BY DEF MatchingBins, Unique, Bins
<1>2. Lowest({i}) = i /\ Highest({i}) = i
  BY <1>1, LowestIs, HighestIs
<1>. QED BY <1>1, <1>2 DEF ValueIn

(* A bin that changes is no matter to the keys that it does not hold. *)
LEMMA ValueSame ==
  ASSUME NEW words \in Words, NEW i \in Bins, NEW e \in Bin, NEW k,
         words[i].free \/ words[i].key # k, e.free \/ e.key # k
  PROVE  ValueIn([words EXCEPT ![i] = e], k) = ValueIn(words, k)
<1>. DEFINE new == [words EXCEPT ![i] = e]
            match == MatchingBins(words, k)
<1>1. \A j \in Bins : new[j] = IF j = i THEN e ELSE words[j]
  BY DEF Words
<1>2. MatchingBins(new, k) = match /\ i \notin match /\ match \subseteq Bins
  BY <1>1 DEF MatchingBins
<1>3. CASE match = {}
  BY <1>2, <1>3, ValueAbsent
<1>4. CASE match # {}
  <2>1. Lowest(match) \in match
    BY <1>2, <1>4, LowestIn
  <2>2. new[Lowest(match)] = words[Lowest(match)]
    BY <1>1, <1>2, <2>1
  <2>3. /\ ValueIn(new, k) = [present |-> TRUE, class |-> new[Lowest(MatchingBins(new, k))].class,
                              addr |-> new[Lowest(MatchingBins(new, k))].addr]
        /\ ValueIn(words, k) = [present |-> TRUE, class |-> words[Lowest(match)].class,
                                addr |-> words[Lowest(match)].addr]
    <3>. HIDE DEF new
    <3>. QED BY <1>2, <1>4 DEF ValueIn
  <2>4. ValueIn(new, k) = ValueIn(words, k)
    <3>. HIDE DEF new, match
    <3>. QED BY <1>2, <2>2, <2>3
  <2>. QED BY <2>4
<1>. QED BY <1>3, <1>4

LEMMA HeldUnique ==
  ASSUME OneBin
  PROVE  \A b \in Buckets : Unique(Held[b])
BY DEF OneBin, Unique

LEMMA KeyBucket == \A k \in Keys : BucketOf[k] \in Buckets
BY DEF Buckets

(* What the steps that write do to the table. *)
LEMMA SetTable ==
  ASSUME TableInv, EvalSet
  PROVE  LET r == Head(comp2memWr).req
         IN  /\ r.key \in Keys /\ r.class \in Classes /\ SetAddress \in Addresses
             /\ Table' = [Table EXCEPT ![r.key] = [present |-> TRUE, class |-> r.class, addr |-> SetAddress]]
             /\ Table[r.key].present => SetAddress = Table[r.key].addr
<1>. DEFINE r == Head(comp2memWr).req
            words == Head(comp2memWr).words
            b == BucketOf[r.key]
            new == [words EXCEPT ![SetLocation] = SetEntry]
<1>0. Typed /\ OrderInv /\ ReadsCurrent /\ OneBin
  BY DEF TableInv, OrderInv
<1>1. b \in Buckets /\ words = Held[b] /\ words \in Words /\ r \in Request /\ r.op = "set" /\ r.key \in Keys
  BY <1>0, JudgedIsHeld DEF EvalSet
<1>2. r.class \in Classes /\ SetAddress \in Addresses
  BY <1>0, <1>1, RequestIs, SetIs
<1>3. Unique(words)
  BY <1>0, <1>1, HeldUnique
<1>4. Held' = [Held EXCEPT ![b] = new] /\ Held \in [Buckets -> Words]
  BY <1>0, SetHeld, HeldTyped
<1>5. /\ SetLocation \in Bins /\ SetEntry \in Bin /\ ~SetEntry.free /\ SetEntry.key = r.key
      /\ \A j \in Bins : ~words[j].free /\ words[j].key = r.key => j = SetLocation
  BY <1>0, <1>3, SetEntryIs
<1>6. new \in Words /\ Unique(new) /\ new[SetLocation] = SetEntry
  BY <1>1, <1>3, <1>5, UniqueSet DEF Words
<1>7. ValueIn(new, r.key) = [present |-> TRUE, class |-> r.class, addr |-> SetAddress]
  <2>1. SetLocation \in MatchingBins(new, r.key)
    BY <1>5, <1>6 DEF MatchingBins
  <2>2. ValueIn(new, r.key) = [present |-> TRUE, class |-> SetEntry.class, addr |-> SetEntry.addr]
    <3>. HIDE DEF new
    <3>. QED BY <1>6, <2>1, ValuePresent
  <2>. QED BY <2>2 DEF SetEntry
<1>8. ASSUME NEW k \in Keys, k # r.key
      PROVE  ValueIn(Held'[BucketOf[k]], k) = ValueIn(Held[BucketOf[k]], k)
  <2>1. CASE BucketOf[k] = b
    <3>1. words[SetLocation].free \/ words[SetLocation].key # k
      <4>1. SetLocation \in IF SetReplace # {} THEN SetReplace ELSE SetFound
        BY <1>0, SetIs
      <4>. QED BY <1>8, <4>1 DEF SetReplace, SetFound, MatchingBins, FreeBins
    <3>2. ValueIn(new, k) = ValueIn(words, k)
      BY <1>1, <1>5, <1>8, <3>1, ValueSame
    <3>. QED BY <1>1, <1>4, <2>1, <3>2
  <2>2. CASE BucketOf[k] # b
    BY <1>4, <2>2, KeyBucket
  <2>. QED BY <2>1, <2>2
<1>9. ValueIn(Held'[b], r.key) = [present |-> TRUE, class |-> r.class, addr |-> SetAddress]
  BY <1>1, <1>4, <1>7
<1>10. Table' = [Table EXCEPT ![r.key] = [present |-> TRUE, class |-> r.class, addr |-> SetAddress]]
  <2>. HIDE DEF r, words, new
  <2>. QED BY <1>1, <1>8, <1>9, TableIs, TableIsNext
<1>11. ASSUME Table[r.key].present
       PROVE  SetAddress = Table[r.key].addr
  <2>1. Table[r.key] = ValueIn(words, r.key)
    BY <1>1, TableIs
  <2>2. SetReplace # {}
    <3>1. SetReplace = MatchingBins(words, r.key)
      BY DEF SetReplace
    <3>. QED BY <1>11, <2>1, <3>1, ValueAbsent
  <2>3. SetLocation \in MatchingBins(words, r.key)
    BY <1>0, <2>2, SetIs DEF SetReplace
  <2>4. ValueIn(words, r.key).addr = words[SetLocation].addr
    BY <1>1, <1>3, <2>3, ValuePresent
  <2>. QED BY <2>1, <2>2, <2>4 DEF SetAddress
<1>. QED BY <1>1, <1>2, <1>10, <1>11

LEMMA DeleteTable ==
  ASSUME TableInv, EvalDelete
  PROVE  LET r == Head(comp2memWr).req
         IN  /\ r.key \in Keys
             /\ Table' = [Table EXCEPT ![r.key] = [present |-> FALSE]]
             /\ Reply([ok |-> Table[r.key].present])
<1>. DEFINE r == Head(comp2memWr).req
            words == Head(comp2memWr).words
            b == BucketOf[r.key]
            new == [words EXCEPT ![DeleteLocation] = Free]
<1>0. Typed /\ OrderInv /\ ReadsCurrent /\ OneBin
  BY DEF TableInv, OrderInv
<1>1. b \in Buckets /\ words = Held[b] /\ words \in Words /\ r.key \in Keys
  BY <1>0, JudgedIsHeld DEF EvalDelete
<1>2. Unique(words) /\ Held \in [Buckets -> Words]
  BY <1>0, <1>1, HeldUnique, HeldTyped
<1>3. DeleteFound = MatchingBins(words, r.key)
  BY DEF DeleteFound
<1>4. Table[r.key] = ValueIn(words, r.key)
  BY <1>1, TableIs
<1>5. CASE DeleteFound = {}
  <2>1. Table[r.key] = [present |-> FALSE]
    BY <1>3, <1>4, <1>5, ValueAbsent
  <2>2. Held' = Held
    BY <1>0, <1>5, DeleteHeld
  <2>3. Table' = Table
    BY <2>2, TableIs, TableIsNext
  <2>4. Table' = [Table EXCEPT ![r.key] = [present |-> FALSE]]
    <3>. HIDE DEF r
    <3>. QED BY <2>1, <2>3, TableIs
  <2>5. Reply([ok |-> FALSE])
    BY <1>0, <1>5, DeleteIs
  <2>6. Table[r.key].present = FALSE
    BY <2>1
  <2>. QED BY <1>1, <2>4, <2>5, <2>6
<1>6. CASE DeleteFound # {}
  <2>1. DeleteLocation \in MatchingBins(words, r.key) /\ DeleteLocation \in Bins /\ Reply([ok |-> TRUE])
    BY <1>0, <1>3, <1>6, DeleteIs
  <2>2. Table[r.key].present = TRUE
    <3>1. ValueIn(words, r.key) =
            [present |-> TRUE, class |-> words[DeleteLocation].class, addr |-> words[DeleteLocation].addr]
      BY <1>1, <1>2, <2>1, ValuePresent
    <3>. QED BY <1>4, <3>1
  <2>3. Held' = [Held EXCEPT ![b] = new]
    BY <1>0, <1>6, DeleteHeld
  <2>4. \A j \in Bins : new[j] = IF j = DeleteLocation THEN Free ELSE words[j]
    BY <1>1, <2>1 DEF Words
  <2>5. MatchingBins(new, r.key) = {}
    <3>1. SUFFICES ASSUME NEW j \in MatchingBins(new, r.key) PROVE FALSE
      OBVIOUS
    <3>2. j \in Bins /\ ~new[j].free /\ new[j].key = r.key
      BY DEF MatchingBins
    <3>3. j # DeleteLocation /\ ~words[j].free /\ words[j].key = r.key
      BY <2>4, <3>2 DEF Free
    <3>. QED BY <1>2, <2>1, <3>2, <3>3 DEF Unique, MatchingBins
  <2>6. ValueIn(Held'[b], r.key) = [present |-> FALSE]
    BY <1>1, <1>2, <2>3, <2>5, ValueAbsent
  <2>7. ASSUME NEW k \in Keys, k # r.key
        PROVE  ValueIn(Held'[BucketOf[k]], k) = ValueIn(Held[BucketOf[k]], k)
    <3>1. CASE BucketOf[k] = b
      <4>1. words[DeleteLocation].key # k /\ Free \in Bin /\ Free.free
        BY <2>1, <2>7 DEF MatchingBins, Bin, Free
      <4>2. ValueIn(new, k) = ValueIn(words, k)
        BY <1>1, <2>1, <4>1, ValueSame
      <4>. QED BY <1>1, <1>2, <2>3, <3>1, <4>2
    <3>2. CASE BucketOf[k] # b
      BY <1>2, <2>3, <3>2, KeyBucket
    <3>. QED BY <3>1, <3>2
  <2>8. Table' = [Table EXCEPT ![r.key] = [present |-> FALSE]]
    <3>. HIDE DEF r, words, new
    <3>. QED BY <1>1, <2>6, <2>7, TableIs, TableIsNext
  <2>. QED BY <1>1, <2>1, <2>2, <2>8
<1>. QED BY <1>5, <1>6

LEMMA GetTable ==
  ASSUME TableInv, EvalGet
  PROVE  LET r == Head(comp2memWr).req
         IN  /\ r.key \in Keys
             /\ GetAnswer = IF Table[r.key].present
                            THEN [ok |-> TRUE, class |-> Table[r.key].class, addr |-> Table[r.key].addr]
                            ELSE [ok |-> FALSE]
<1>. DEFINE r == Head(comp2memWr).req
            words == Head(comp2memWr).words
<1>0. Typed /\ OrderInv /\ ReadsCurrent /\ OneBin
  BY DEF TableInv, OrderInv
<1>1. BucketOf[r.key] \in Buckets /\ words = Held[BucketOf[r.key]] /\ words \in Words /\ r.key \in Keys
  BY <1>0, JudgedIsHeld DEF EvalGet
<1>2. Unique(words)
  BY <1>0, <1>1, HeldUnique
<1>3. Table[r.key] = ValueIn(words, r.key)
  BY <1>1, TableIs
<1>4. CASE GetFound = {}
  <2>1. Table[r.key] = [present |-> FALSE]
    BY <1>3, <1>4, ValueAbsent DEF GetFound
  <2>2. ~Table[r.key].present /\ GetAnswer = [ok |-> FALSE]
    BY <1>4, <2>1 DEF GetAnswer
  <2>. QED BY <1>1, <2>2
<1>5. CASE GetFound # {}
  <2>. DEFINE i == Lowest(GetFound)
  <2>1. i \in MatchingBins(words, r.key)
    BY <1>0, <1>5, GetIs DEF GetFound
  <2>2. ValueIn(words, r.key) = [present |-> TRUE, class |-> words[i].class, addr |-> words[i].addr]
    <3>. HIDE DEF i
    <3>. QED BY <1>1, <1>2, <2>1, ValuePresent
  <2>3. GetAnswer = [ok |-> TRUE, class |-> words[i].class, addr |-> words[i].addr]
    BY <1>5 DEF GetAnswer
  <2>4. Table[r.key] = [present |-> TRUE, class |-> words[i].class, addr |-> words[i].addr]
    BY <1>3, <2>2
  <2>. HIDE DEF i
  <2>5. /\ Table[r.key].present
        /\ Table[r.key].class = words[i].class /\ Table[r.key].addr = words[i].addr
    BY <2>4
  <2>. QED BY <1>1, <2>3, <2>5
<1>. QED BY <1>4, <1>5

LEMMA SweepTable ==
  ASSUME TableInv, FlushSweep
  PROVE  Table' = [k \in Keys |-> [present |-> FALSE]]
<1>1. Held' = [b \in Buckets |-> EmptyBucket]
  BY SweepIs DEF TableInv, OrderInv
<1>2. \A k \in Keys : Held'[BucketOf[k]] = EmptyBucket
  BY <1>1, KeyBucket
<1>3. \A k \in Keys : MatchingBins(EmptyBucket, k) = {}
  BY EmptyIs DEF MatchingBins
<1>4. \A k \in Keys : ValueIn(EmptyBucket, k) = [present |-> FALSE]
  BY <1>3, ValueAbsent
<1>. QED BY <1>2, <1>4, TableIsNext

LEMMA TableSame ==
  ASSUME TableInv, AccessWrite \/ UNCHANGED <<mem, memWrCtrl>>
  PROVE  Table' = Table
<1>1. Held' = Held
  BY HeldSame DEF TableInv
<1>. QED BY <1>1, TableIs, TableIsNext

(* The steps of the atomic table. *)
LEMMA TableStutter ==
  ASSUME Waiting' = Waiting, Table' = Table, Answered' = Answered
  PROVE  UNCHANGED Atomic!vars
BY DEF Atomic!vars, Waiting, Table, Answered

LEMMA QueueSame ==
  ASSUME TableInv, AccessWrite \/ UNCHANGED <<mem, memWrCtrl>>, UNCHANGED <<mdBuffer, memWr2out>>
  PROVE  UNCHANGED Atomic!vars
<1>1. Table' = Table
  BY TableSame
<1>2. Waiting' = Waiting /\ Answered' = Answered
  BY DEF Waiting, Answered
<1>. QED BY <1>1, <1>2, TableStutter

LEMMA ExecuteIs ==
  ASSUME TableInv, NEW answer \in Answer, Reply(answer), UNCHANGED mdBuffer,
         Len(memWr2out) < Len(mdBuffer), NEW r, r = mdBuffer[Len(memWr2out) + 1],
         \/ r.op = "get" /\ Atomic!Get(r.key, answer)
         \/ r.op = "set" /\ Atomic!Set(r.key, r.class, answer)
         \/ r.op = "delete" /\ Atomic!Delete(r.key, answer)
         \/ r.op = "flush" /\ Atomic!Flush(answer)
  PROVE  Atomic!Execute
<1>1. /\ Waiting # <<>> /\ Waiting' = Tail(Waiting) /\ Head(Waiting) = r
      /\ Answered' = Append(Answered, [req |-> Head(Waiting), answer |-> answer])
      /\ Len(Answered') = Len(Answered) + 1 /\ Answered'[Len(Answered')].answer = answer
  BY ReplyIs DEF TableInv, OrderInv
<1>. QED BY <1>1 DEF Atomic!Execute, Waiting, Answered

(* The request that is evaluated is the first that waits. *)
LEMMA FirstIs ==
  ASSUME TableInv, NEW op, Evaluates(op)
  PROVE  /\ Head(comp2memWr).req = mdBuffer[Len(memWr2out) + 1] /\ Head(comp2memWr).req.op = op
         /\ Len(memWr2out) < Len(mdBuffer) /\ UNCHANGED mdBuffer
<1>0. Typed /\ OrderInv
  BY DEF TableInv, OrderInv
<1>1. /\ Compared \in Seq(Request) /\ Compared # <<>> /\ Len(Compared) = Len(comp2memWr)
      /\ Head(Compared) = Head(comp2memWr).req /\ Head(Compared).op = op /\ UNCHANGED mdBuffer
  BY <1>0, EvalQueues
<1>2. mdBuffer \in Seq(Request) /\ memWrState = "idle"
  BY <1>0 DEF Typed, QueuesTyped, Evaluates
<1>3. nOut = Len(memWr2out) /\ nOut \in Nat
  BY <1>0, <1>2, Lengths DEF nOut, InHand
<1>4. Lies(Compared, mdBuffer, nOut)
  BY <1>0 DEF OrderInv, InOrder
<1>5. mdBuffer[nOut + 1] = Head(Compared)
  BY <1>1, <1>2, <1>3, <1>4, LiesTail
<1>6. nOut < Len(mdBuffer)
  <2>1. nOut + Len(Compared) <= Len(mdBuffer)
    BY <1>4 DEF Lies
  <2>2. Len(Compared) \in Nat /\ Len(Compared) > 0 /\ Len(mdBuffer) \in Nat
    BY <1>1, <1>2, TailIs
  <2>. QED BY <1>3, <2>1, <2>2
<1>. QED BY <1>1, <1>3, <1>5, <1>6

LEMMA GetExecutes ==
  ASSUME TableInv, EvalGet
  PROVE  Atomic!Execute
<1>. DEFINE r == Head(comp2memWr).req
<1>1. r = mdBuffer[Len(memWr2out) + 1] /\ r.op = "get" /\ Len(memWr2out) < Len(mdBuffer) /\ UNCHANGED mdBuffer
  BY FirstIs DEF EvalGet
<1>2. GetAnswer \in Answer /\ Reply(GetAnswer)
  BY GetIs DEF TableInv
<1>3. /\ GetAnswer = IF Table[r.key].present
                     THEN [ok |-> TRUE, class |-> Table[r.key].class, addr |-> Table[r.key].addr]
                     ELSE [ok |-> FALSE]
  BY GetTable
<1>4. Table' = Table
  BY TableSame DEF EvalGet, Evaluates
<1>5. Atomic!Get(r.key, GetAnswer)
  BY <1>3, <1>4 DEF Atomic!Get, Atomic!Found, Atomic!Refused, Table
<1>. HIDE DEF r
<1>. QED BY <1>1, <1>2, <1>5, ExecuteIs

LEMMA SetExecutes ==
  ASSUME TableInv, EvalSet
  PROVE  Atomic!Execute
<1>. DEFINE r == Head(comp2memWr).req
            answer == [ok |-> TRUE, class |-> r.class, addr |-> SetAddress]
<1>1. r = mdBuffer[Len(memWr2out) + 1] /\ r.op = "set" /\ Len(memWr2out) < Len(mdBuffer) /\ UNCHANGED mdBuffer
  BY FirstIs DEF EvalSet
<1>2. /\ r.key \in Keys /\ r.class \in Classes /\ SetAddress \in Addresses
      /\ Table' = [Table EXCEPT ![r.key] = [present |-> TRUE, class |-> r.class, addr |-> SetAddress]]
      /\ Table[r.key].present => SetAddress = Table[r.key].addr
  BY SetTable
<1>3. answer \in Answer /\ Reply(answer)
  BY <1>2, SetIs, AnswersAre DEF TableInv
<1>. HIDE DEF r
<1>4. Atomic!Set(r.key, r.class, answer)
  BY <1>2 DEF Atomic!Set, Table, Addresses
<1>. HIDE DEF answer
<1>. QED BY <1>1, <1>3, <1>4, ExecuteIs

LEMMA FailExecutes ==
  ASSUME TableInv, EvalSetFails
  PROVE  Atomic!Execute
<1>. DEFINE r == Head(comp2memWr).req
<1>1. r = mdBuffer[Len(memWr2out) + 1] /\ r.op = "set" /\ Len(memWr2out) < Len(mdBuffer) /\ UNCHANGED mdBuffer
  BY FirstIs DEF EvalSetFails
<1>2. [ok |-> FALSE] \in Answer /\ Reply([ok |-> FALSE])
  BY AnswersAre DEF EvalSetFails
<1>3. Table' = Table
  BY TableSame DEF EvalSetFails, Evaluates
<1>4. Atomic!Set(r.key, r.class, [ok |-> FALSE])
  BY <1>3 DEF Atomic!Set, Atomic!Refused, Table
<1>. HIDE DEF r
<1>. QED BY <1>1, <1>2, <1>4, ExecuteIs

LEMMA DeleteExecutes ==
  ASSUME TableInv, EvalDelete
  PROVE  Atomic!Execute
<1>. DEFINE r == Head(comp2memWr).req
            answer == [ok |-> Table[r.key].present]
<1>1. r = mdBuffer[Len(memWr2out) + 1] /\ r.op = "delete" /\ Len(memWr2out) < Len(mdBuffer)
      /\ UNCHANGED mdBuffer
  BY FirstIs DEF EvalDelete
<1>2. r.key \in Keys /\ Table' = [Table EXCEPT ![r.key] = [present |-> FALSE]] /\ Reply(answer)
  BY DeleteTable
<1>3. answer \in Answer
  <2>1. ValueIn(Held[BucketOf[r.key]], r.key).present \in BOOLEAN
    BY DEF ValueIn
  <2>2. Table[r.key].present \in BOOLEAN
    BY <1>2, <2>1, TableIs
  <2>. HIDE DEF r
  <2>. QED BY <2>2 DEF Answer
<1>. HIDE DEF r
<1>4. Atomic!Delete(r.key, answer)
  BY <1>2 DEF Atomic!Delete, Atomic!Absent, Table
<1>. HIDE DEF answer
<1>. QED BY <1>1, <1>2, <1>3, <1>4, ExecuteIs

LEMMA SweepExecutes ==
  ASSUME TableInv, FlushSweep
  PROVE  Atomic!Execute
<1>0. Typed /\ OrderInv
  BY DEF TableInv, OrderInv
<1>. DEFINE r == mdBuffer[Len(memWr2out) + 1]
<1>1. r.op = "flush" /\ Len(memWr2out) < Len(mdBuffer) /\ UNCHANGED mdBuffer
  <2>1. memWrState = "flush" /\ UNCHANGED mdBuffer
    BY DEF FlushSweep
  <2>2. nOut = Len(memWr2out) + 1
    BY <2>1 DEF nOut, InHand
  <2>3. mdBuffer[nOut].op = "flush"
    BY <1>0, <2>1 DEF OrderInv, InOrder
  <2>4. Len(mdBuffer) = nOut + nComp + nRead + nCc + Len(held) + Len(in2cc)
    BY <1>0 DEF OrderInv, InOrder
  <2>5. /\ nOut \in Nat /\ nComp \in Nat /\ nRead \in Nat /\ nCc \in Nat /\ Len(held) \in Nat
        /\ Len(in2cc) \in Nat /\ Len(mdBuffer) \in Nat /\ Len(memWr2out) \in Nat
    BY <1>0, Lengths
  <2>6. Len(memWr2out) < Len(mdBuffer)
    BY <2>2, <2>4, <2>5
  <2>. QED BY <2>1, <2>2, <2>3, <2>6
<1>2. [ok |-> TRUE] \in Answer /\ Reply([ok |-> TRUE])
  BY AnswersAre DEF FlushSweep
<1>3. Table' = [k \in Keys |-> [present |-> FALSE]]
  BY SweepTable
<1>4. Atomic!Flush([ok |-> TRUE])
  BY <1>3 DEF Atomic!Flush, Atomic!Absent, Table
<1>. HIDE DEF r
<1>5. r = mdBuffer[Len(memWr2out) + 1]
  BY DEF r
<1>. QED BY <1>1, <1>2, <1>4, <1>5, ExecuteIs

LEMMA AtomicInit == Init => Atomic!Init
<1>. SUFFICES ASSUME Init PROVE Atomic!Init
  OBVIOUS
<1>1. mdBuffer = <<>> /\ memWr2out = <<>>
  BY DEF Init, TableInit
<1>2. Waiting = <<>>
  <2>1. Len(<<>>) = 0 /\ <<>> \in Seq(Request)
    OBVIOUS
  <2>2. SubSeq(<<>>, 0 + 1, 0) = <<>>
    OBVIOUS
  <2>. QED BY <1>1, <2>1, <2>2 DEF Waiting
<1>3. Answered = <<>>
  BY <1>1 DEF Answered
<1>4. \A k \in Keys : Held[BucketOf[k]] = EmptyBucket
  BY KeyBucket DEF Init, TableInit, Held, Current, Pending
<1>5. \A k \in Keys : ValueIn(EmptyBucket, k) = [present |-> FALSE]
  BY EmptyIs, ValueAbsent DEF MatchingBins
<1>6. Table = [k \in Keys |-> [present |-> FALSE]]
  BY <1>4, <1>5, TableIs
<1>. QED BY <1>2, <1>3, <1>6 DEF Atomic!Init, Atomic!Absent, Waiting, Table, Answered

LEMMA AtomicStep == TableInv /\ [Next]_vars => [Atomic!Next]_(Atomic!vars)
<1>. SUFFICES ASSUME TableInv, [Next]_vars PROVE Atomic!Next \/ UNCHANGED Atomic!vars
  OBVIOUS
<1>1. ASSUME NEW r \in Asked, ClientAsks(r) PROVE Atomic!Next
  <2>1. r \in Request /\ InputLogic(r)
    BY <1>1, AskedAssumption DEF ClientAsks
  <2>2. Waiting' = Append(Waiting, r) /\ Len(Waiting') = Len(Waiting) + 1 /\ Answered' = Answered
    BY <2>1, AskIs DEF TableInv, OrderInv
  <2>3. Table' = Table
    BY <2>1, TableSame DEF InputLogic, memVars
  <2>4. Atomic!Ask
    BY <2>1, <2>2, <2>3 DEF Atomic!Ask, Atomic!Request, Request, Waiting, Table, Answered
  <2>. QED BY <2>4 DEF Atomic!Next
<1>2. CASE EvalGet \/ EvalSet \/ EvalSetFails \/ EvalDelete \/ FlushSweep
  BY <1>2, GetExecutes, SetExecutes, FailExecutes, DeleteExecutes, SweepExecutes DEF Atomic!Next
<1>3. CASE OutputLogic
  <2>1. Answered # <<>> /\ Answered' = Tail(Answered) /\ Waiting' = Waiting
    BY <1>3, GiveIs DEF TableInv, OrderInv
  <2>2. Table' = Table
    BY <1>3, TableSame DEF OutputLogic, memVars
  <2>3. Atomic!Give
    BY <2>1, <2>2 DEF Atomic!Give, Waiting, Table, Answered
  <2>. QED BY <2>3 DEF Atomic!Next
<1>4. CASE AccessWrite
  BY <1>4, QueueSame DEF AccessWrite, queues
<1>5. CASE UNCHANGED <<mem, memWrCtrl, mdBuffer, memWr2out>>
  BY <1>5, QueueSame
<1>. QED BY <1>1, <1>2, <1>3, <1>4, <1>5 DEF Next, Internal, CcAccept, CcRelease, CcPop, MemRead, AccessRead,
       HtCompare, EvalSetHangs, FlushStart, SetRest, FlushWait, Evaluates, vars, tableVars, queues, memVars

(* The requests of all clients are executed one at a time, in the order in *)
(* which they came, each on the table that the one before it left, and the *)
(* answers leave in that order: though several are in work at once, reads  *)
(* pass writes on their way to the memory, and a flush sweeps all buckets  *)
(* (hashTable/concurrencyControl.cpp, memRead.cpp, memWrite.cpp). *)
THEOREM TableIsAtomic == Spec => AtomicTable
<1>1. TableInv /\ [Next]_vars => [Atomic!Next]_(Atomic!vars)
  BY AtomicStep
<1>. QED BY <1>1, AtomicInit, Inductive, PTL DEF Spec, AtomicTable, Atomic!Spec

(* Each address is in one place. *)

(* The bridge is empty while it is held in reset, and until the host has   *)
(* filled its pools anew; entries are free once the flush is over. *)
BridgeEmpty == assignDram = <<>> /\ assignFlash = <<>> /\ addressReturn = <<>>
AllFree == \A b \in Buckets : \A i \in Bins : Held[b][i].free

FlushPhases ==
  /\ flushReq \in BOOLEAN /\ flushAck \in BOOLEAN
  /\ flushReq <=> memWrState \in {"flushWait", "flush"}
  /\ flushReq => ~flushDone /\ BridgeEmpty
  /\ flushAck => memWrState = "flushWait"
  /\ flushAck \/ memWrState = "flush" => hostState \in {"acknowledged", "waitForDone"}
  /\ hostState \in {"acknowledged", "waitForDone"} => BridgeEmpty /\ (~flushReq => AllFree)
  /\ hostState = "waitForDone" => freeDram = AllDram /\ freeFlash = AllFlash

Times(q, a) == Cardinality({i \in DOMAIN q : q[i] = a})
EntriesOf(words, a) ==
  {e \in Buckets \X Bins : ~words[e[1]][e[2]].free /\ words[e[1]][e[2]].addr = a}

EntriesFinite == \A a \in Addresses : IsFiniteSet(EntriesOf(Held, a))
Accounted == hostState = "managing" /\ ~flushReq => \A a \in Addresses : PlacesOf(a) = 1

AddressInv == TableInv /\ FlushPhases /\ EntriesFinite /\ Accounted

(* How often an address is in a FIFO. *)
One(e, a) == IF e = a THEN 1 ELSE 0

LEMMA TimesType ==
  ASSUME NEW T, NEW q \in Seq(T), NEW a
  PROVE  /\ Times(q, a) \in Nat /\ IsFiniteSet({i \in DOMAIN q : q[i] = a})
         /\ Times(<<>>, a) = 0
<1>. DEFINE Q == {i \in DOMAIN q : q[i] = a}
<1>1. IsFiniteSet(1 .. Len(q)) /\ Q \in SUBSET (1 .. Len(q))
  BY FS_Interval
<1>2. IsFiniteSet(Q) /\ Cardinality(Q) \in Nat
  <2>. HIDE DEF Q
  <2>. QED BY <1>1, FS_Subset, FS_CardinalityType
<1>3. {i \in DOMAIN <<>> : <<>>[i] = a} = {}
  OBVIOUS
<1>. QED BY <1>2, <1>3, FS_EmptySet DEF Times

LEMMA TimesAppend ==
  ASSUME NEW T, NEW q \in Seq(T), NEW e \in T, NEW a
  PROVE  Times(Append(q, e), a) = Times(q, a) + One(e, a)
<1>. DEFINE Q == {i \in DOMAIN q : q[i] = a}
            R == {i \in DOMAIN Append(q, e) : Append(q, e)[i] = a}
            n == Len(q) + 1
<1>1. IsFiniteSet(Q) /\ n \notin Q /\ Cardinality(Q) \in Nat
  <2>1. n \notin Q
    OBVIOUS
  <2>2. IsFiniteSet(Q)
    BY TimesType
  <2>. QED BY <2>1, <2>2, FS_CardinalityType
<1>2. Times(Append(q, e), a) = Cardinality(R) /\ Times(q, a) = Cardinality(Q)
  BY DEF Times
<1>3. CASE e = a
  <2>1. R = Q \cup {n}
    BY <1>3
  <2>. HIDE DEF Q, R, n
  <2>. QED BY <1>1, <1>2, <1>3, <2>1, FS_AddElement DEF One
<1>4. CASE e # a
  <2>1. R = Q
    BY <1>4
  <2>. HIDE DEF Q, R, n
  <2>. QED BY <1>1, <1>2, <1>4, <2>1 DEF One
<1>. QED BY <1>3, <1>4

LEMMA TimesTail ==
  ASSUME NEW T, NEW q \in Seq(T), q # <<>>, NEW a
  PROVE  Times(q, a) = Times(Tail(q), a) + One(Head(q), a)
<1>. DEFINE Q == {i \in DOMAIN q : q[i] = a}
            R == {i \in DOMAIN Tail(q) : Tail(q)[i] = a}
            P == Q \ {1}
            f == [i \in R |-> i + 1]
<1>1. Tail(q) \in Seq(T) /\ DOMAIN Tail(q) = 1 .. Len(q) - 1 /\ DOMAIN q = 1 .. Len(q) /\ Len(q) \in Nat
      /\ Len(q) > 0
  OBVIOUS
<1>2. \A i \in 1 .. Len(q) - 1 : Tail(q)[i] = q[i + 1]
  BY <1>1
<1>3. f \in Bijection(R, P)
  <2>1. f \in [R -> P]
    <3>1. \A i \in R : i + 1 \in P
      BY <1>1, <1>2
    <3>. QED BY <3>1
  <2>2. \A i, j \in R : f[i] = f[j] => i = j
    BY <1>1
  <2>3. \A k \in P : \E i \in R : f[i] = k
    <3>1. SUFFICES ASSUME NEW k \in P PROVE k - 1 \in R /\ f[k - 1] = k
      OBVIOUS
    <3>2. k \in 2 .. Len(q) /\ q[k] = a
      BY <1>1
    <3>3. k - 1 \in R
      BY <1>1, <1>2, <3>2
    <3>. QED BY <3>2, <3>3
  <2>. HIDE DEF f, R, P
  <2>. QED BY <2>1, <2>2, <2>3 DEF Bijection, Injection, Surjection, IsInjective
<1>4. IsFiniteSet(R) /\ IsFiniteSet(Q) /\ Cardinality(R) \in Nat /\ Cardinality(Q) \in Nat
  BY <1>1, TimesType DEF Times
<1>5. Cardinality(P) = Cardinality(R)
  <2>. HIDE DEF R, P
  <2>. QED BY <1>3, <1>4, FS_Bijection DEF ExistsBijection
<1>6. 1 \in Q <=> Head(q) = a
  BY <1>1
<1>7. Cardinality(P) = IF 1 \in Q THEN Cardinality(Q) - 1 ELSE Cardinality(Q)
  <2>. HIDE DEF Q
  <2>. QED BY <1>4, FS_RemoveElement
<1>8. Times(q, a) = Cardinality(Q) /\ Times(Tail(q), a) = Cardinality(R)
  BY DEF Times
<1>. HIDE DEF P, Q, R
<1>. QED BY <1>4, <1>5, <1>6, <1>7, <1>8 DEF One

(* An address moves from one FIFO to another. *)
LEMMA TimesMove ==
  ASSUME NEW T, NEW q \in Seq(T), q # <<>>, NEW U, NEW r \in Seq(U), Head(q) \in U, NEW a
  PROVE  Times(Tail(q), a) + Times(Append(r, Head(q)), a) = Times(q, a) + Times(r, a)
<1>1. Times(q, a) = Times(Tail(q), a) + One(Head(q), a)
  BY TimesTail
<1>2. Times(Append(r, Head(q)), a) = Times(r, a) + One(Head(q), a)
  BY TimesAppend
<1>3. Times(q, a) \in Nat /\ Times(r, a) \in Nat /\ Times(Tail(q), a) \in Nat /\ One(Head(q), a) \in Nat
  BY TailIs, TimesType DEF One
<1>. QED BY <1>1, <1>2, <1>3

(* The places of an address, by part. *)
InFifos(a) ==
  Times(freeDram, a) + Times(freeFlash, a) + Times(assignDram, a) + Times(assignFlash, a)
    + Times(addressReturn, a)

LEMMA EntriesAre == \A a : EntriesWith(a) = EntriesOf(Held, a)
BY DEF EntriesWith, EntriesOf, Holds, Held

LEMMA PlacesOfIs == \A a : PlacesOf(a) = InFifos(a) + Cardinality(EntriesOf(Held, a))
BY EntriesAre DEF PlacesOf, InFifos, Times

LEMMA PlacesOfNext == \A a : PlacesOf(a)' = InFifos(a)' + Cardinality(EntriesOf(Held', a))
<1>1. (\A a : PlacesOf(a) = InFifos(a) + Cardinality(EntriesOf(Held, a)))'
  BY PlacesOfIs, PTL
<1>. QED BY <1>1 DEF EntriesOf

LEMMA FifosAre ==
  ASSUME AddressesTyped, NEW a
  PROVE  /\ Times(freeDram, a) \in Nat /\ Times(freeFlash, a) \in Nat /\ Times(assignDram, a) \in Nat
         /\ Times(assignFlash, a) \in Nat /\ Times(addressReturn, a) \in Nat
BY TimesType DEF AddressesTyped

(* One bin of a bucket changes. *)
Changed(H, G, b, i, e) ==
  \A c \in Buckets : \A j \in Bins : G[c][j] = IF c = b /\ j = i THEN e ELSE H[c][j]

Adds(S, R, x) == R = S \cup {x}
Drops(S, R, x) == R = S \ {x}

LEMMA EntriesChanged ==
  ASSUME NEW H, NEW G, NEW b \in Buckets, NEW i \in Bins, NEW e, NEW a, Changed(H, G, b, i, e)
  PROVE  /\ ~e.free /\ e.addr = a => Adds(EntriesOf(H, a), EntriesOf(G, a), <<b, i>>)
         /\ ~(~e.free /\ e.addr = a) => Drops(EntriesOf(H, a), EntriesOf(G, a), <<b, i>>)
         /\ <<b, i>> \in EntriesOf(H, a) <=> ~H[b][i].free /\ H[b][i].addr = a
BY DEF EntriesOf, Changed, Adds, Drops

LEMMA SizeChanged ==
  ASSUME NEW S, IsFiniteSet(S), NEW R, NEW x
  PROVE  /\ Cardinality(S) \in Nat
         /\ Adds(S, R, x) => IsFiniteSet(R) /\ Cardinality(R) = Cardinality(S) + IF x \in S THEN 0 ELSE 1
         /\ Drops(S, R, x) => IsFiniteSet(R) /\ Cardinality(R) = Cardinality(S) - IF x \in S THEN 1 ELSE 0
<1>1. Cardinality(S) \in Nat
  BY FS_CardinalityType
<1>2. Adds(S, R, x) => IsFiniteSet(R) /\ Cardinality(R) = Cardinality(S) + IF x \in S THEN 0 ELSE 1
  BY <1>1, FS_AddElement DEF Adds
<1>3. Drops(S, R, x) => IsFiniteSet(R) /\ Cardinality(R) = Cardinality(S) - IF x \in S THEN 1 ELSE 0
  BY <1>1, FS_RemoveElement DEF Drops
<1>. QED BY <1>1, <1>2, <1>3

(* A set that is not refused takes an address, or keeps the one it has;    *)
(* while the bridge is empty and all entries are free there is neither. *)
LEMMA SetNeedsAddress ==
  ASSUME TableInv, EvalSet
  PROVE  ~(BridgeEmpty /\ AllFree)
<1>1. Head(comp2memWr).words = Held[BucketOf[Head(comp2memWr).req.key]]
      /\ BucketOf[Head(comp2memWr).req.key] \in Buckets
  BY JudgedIsHeld DEF EvalSet, TableInv, OrderInv
<1>2. AllFree => SetReplace = {}
  BY <1>1 DEF AllFree, SetReplace, MatchingBins
<1>3. BridgeEmpty => PoolFor(Head(comp2memWr).req.class) = <<>>
  BY DEF BridgeEmpty, PoolFor
<1>. QED BY <1>2, <1>3 DEF EvalSet, SetFails

LEMMA DeleteNeedsEntry ==
  ASSUME TableInv, EvalDelete, AllFree
  PROVE  DeleteFound = {}
<1>1. Head(comp2memWr).words = Held[BucketOf[Head(comp2memWr).req.key]]
      /\ BucketOf[Head(comp2memWr).req.key] \in Buckets
  BY JudgedIsHeld DEF EvalDelete, TableInv, OrderInv
<1>. QED BY <1>1 DEF AllFree, DeleteFound, MatchingBins

LEMMA HeldStep ==
  ASSUME TableInv, [Next]_vars
  PROVE  Held' = Held \/ EvalSet \/ (EvalDelete /\ DeleteFound # {}) \/ FlushSweep
<1>1. CASE AccessWrite \/ UNCHANGED <<mem, memWrCtrl>>
  BY <1>1, HeldSame DEF TableInv
<1>2. CASE EvalDelete /\ DeleteFound = {}
  BY <1>2, DeleteHeld DEF TableInv, OrderInv
<1>. QED BY <1>1, <1>2 DEF Next, Internal, ClientAsks, InputLogic, CcAccept, CcRelease, CcPop, MemRead,
       AccessRead, HtCompare, EvalGet, EvalSetFails, EvalSetHangs, FlushStart, SetRest, FlushWait,
       OutputLogic, Evaluates, vars, tableVars, memVars

LEMMA PhasesStep ==
  ASSUME TableInv, FlushPhases, [Next]_vars
  PROVE  FlushPhases'
<1>1. CASE UNCHANGED <<hostVars, memWrState, Held>>
  BY <1>1 DEF FlushPhases, BridgeEmpty, AllFree, hostVars, bridgeVars
<1>2. CASE HostStep /\ UNCHANGED tableVars
  <2>1. Held' = Held /\ memWrState' = memWrState
    BY <1>2, HeldSame DEF TableInv, tableVars, memVars
  <2>2. CASE TopUpDram \/ TopUpFlash
    BY <2>1, <2>2 DEF FlushPhases, BridgeEmpty, AllFree, TopUpDram, TopUpFlash
  <2>3. CASE TakeBack
    BY <2>1, <2>3 DEF FlushPhases, BridgeEmpty, AllFree, TakeBack
  <2>4. CASE Acknowledge
    BY <2>1, <2>4 DEF FlushPhases, BridgeEmpty, AllFree, Acknowledge
  <2>5. CASE Refill
    BY <2>1, <2>5 DEF FlushPhases, BridgeEmpty, AllFree, Refill, bridgeVars
  <2>6. CASE SeeDone
    BY <2>1, <2>6 DEF FlushPhases, BridgeEmpty, AllFree, SeeDone, bridgeVars
  <2>. QED BY <1>2, <2>2, <2>3, <2>4, <2>5, <2>6 DEF HostStep
<1>3. CASE EvalSet
  <2>1. ~(BridgeEmpty /\ AllFree)
    BY <1>3, SetNeedsAddress
  <2>2. memWrState = "idle" /\ memWrState' = "setRest"
        /\ UNCHANGED <<freeDram, freeFlash, hostState, flushReq, flushAck, flushDone>>
    BY <1>3 DEF EvalSet, Evaluates
  <2>3. ~flushReq /\ hostState \notin {"acknowledged", "waitForDone"} /\ ~flushAck
    BY <2>1, <2>2 DEF FlushPhases
  <2>. QED BY <2>2, <2>3 DEF FlushPhases
<1>4. CASE EvalDelete
  <2>1. memWrState = "idle" /\ memWrState' = "idle"
        /\ UNCHANGED <<freeDram, freeFlash, hostState, flushReq, flushAck, flushDone, assignDram, assignFlash>>
    BY <1>4 DEF EvalDelete, Evaluates
  <2>2. ~flushReq
    BY <2>1 DEF FlushPhases
  <2>3. CASE DeleteFound = {}
    <3>1. Held' = Held /\ UNCHANGED addressReturn
      BY <1>4, <2>3, DeleteHeld, DeleteIs DEF TableInv, OrderInv
    <3>. QED BY <2>1, <3>1 DEF FlushPhases, BridgeEmpty, AllFree
  <2>4. CASE DeleteFound # {}
    <3>1. ~AllFree
      BY <1>4, <2>4, DeleteNeedsEntry
    <3>. QED BY <2>1, <2>2, <3>1 DEF FlushPhases
  <2>. QED BY <2>3, <2>4
<1>5. CASE FlushStart
  <2>1. memWrState = "idle" /\ memWrState' = "flushWait" /\ flushReq' = TRUE /\ flushDone' = FALSE
        /\ BridgeEmpty' /\ UNCHANGED <<freeDram, freeFlash, hostState, flushAck>>
    BY <1>5 DEF FlushStart, Evaluates, BridgeEmpty
  <2>2. ~flushReq /\ ~flushAck
    BY <2>1 DEF FlushPhases
  <2>. QED BY <2>1, <2>2 DEF FlushPhases
<1>6. CASE FlushWait
  BY <1>6 DEF FlushPhases, FlushWait, BridgeEmpty
<1>7. CASE FlushSweep
  <2>1. /\ memWrState = "flush" /\ memWrState' = "idle" /\ flushReq' = FALSE
        /\ UNCHANGED <<freeDram, freeFlash, hostState, flushAck, assignDram, assignFlash, addressReturn>>
    BY <1>7 DEF FlushSweep
  <2>2. Held' = [b \in Buckets |-> EmptyBucket]
    BY <1>7, SweepIs DEF TableInv, OrderInv
  <2>3. AllFree'
    BY <2>2, EmptyIs DEF AllFree
  <2>4. ~flushAck
    BY <1>7 DEF FlushPhases, FlushSweep
  <2>. QED BY <2>1, <2>3, <2>4 DEF FlushPhases, BridgeEmpty
<1>8. CASE EvalGet \/ EvalSetFails \/ EvalSetHangs \/ SetRest
  <2>1. /\ memWrState \in {"idle", "setRest"} /\ memWrState' \in {"idle", "hung"}
        /\ UNCHANGED <<hostVars, memWrCtrl, mem>>
    BY <1>8 DEF EvalGet, EvalSetFails, EvalSetHangs, SetRest, Evaluates, hostVars, bridgeVars
  <2>2. Held' = Held
    BY <2>1, HeldSame DEF TableInv
  <2>. QED BY <2>1, <2>2 DEF FlushPhases, BridgeEmpty, AllFree, hostVars, bridgeVars
<1>9. CASE UNCHANGED hostVars /\ UNCHANGED memWrState
  <2>1. CASE Held' = Held
    BY <1>1, <1>9, <2>1
  <2>. QED BY <1>3, <1>4, <1>7, <2>1, HeldStep
<1>. QED BY <1>2, <1>3, <1>4, <1>5, <1>6, <1>7, <1>8, <1>9 DEF Next, Internal, ClientAsks, InputLogic,
       CcAccept, CcRelease, CcPop, MemRead, AccessRead, AccessWrite, HtCompare, OutputLogic, vars, tableVars, memVars,
       hostVars, bridgeVars

(* What the steps that change entries do to those of an address. *)
LEMMA FiniteStep ==
  ASSUME TableInv, EntriesFinite, [Next]_vars
  PROVE  EntriesFinite'
<1>0. Typed /\ OrderInv /\ ReadsCurrent /\ OneBin
  BY DEF TableInv, OrderInv
<1>h. Held \in [Buckets -> Words]
  BY <1>0, HeldTyped
<1>. SUFFICES ASSUME NEW a \in Addresses PROVE IsFiniteSet(EntriesOf(Held', a))
  BY DEF EntriesFinite, EntriesOf, Addresses
<1>1. IsFiniteSet(EntriesOf(Held, a))
  BY DEF EntriesFinite
<1>2. CASE Held' = Held
  BY <1>1, <1>2
<1>3. ASSUME NEW b \in Buckets, NEW i \in Bins, NEW e \in Bin,
             Held' = [Held EXCEPT ![b] = [Held[b] EXCEPT ![i] = e]]
      PROVE  IsFiniteSet(EntriesOf(Held', a))
  <2>1. Changed(Held, Held', b, i, e)
    BY <1>h, <1>3 DEF Words, Changed
  <2>2. \/ Adds(EntriesOf(Held, a), EntriesOf(Held', a), <<b, i>>)
        \/ Drops(EntriesOf(Held, a), EntriesOf(Held', a), <<b, i>>)
    BY <2>1, EntriesChanged
  <2>. QED BY <1>1, <2>2, SizeChanged
<1>4. CASE EvalSet
  <2>1. BucketOf[Head(comp2memWr).req.key] \in Buckets
        /\ Head(comp2memWr).words = Held[BucketOf[Head(comp2memWr).req.key]]
    BY <1>0, <1>4, JudgedIsHeld DEF EvalSet
  <2>. QED BY <1>0, <1>3, <1>4, <2>1, SetHeld, SetIs
<1>5. CASE EvalDelete /\ DeleteFound # {}
  <2>1. BucketOf[Head(comp2memWr).req.key] \in Buckets
        /\ Head(comp2memWr).words = Held[BucketOf[Head(comp2memWr).req.key]]
    BY <1>0, <1>5, JudgedIsHeld DEF EvalDelete
  <2>2. Free \in Bin
    BY DEF Bin
  <2>. QED BY <1>0, <1>3, <1>5, <2>1, <2>2, DeleteHeld, DeleteIs
<1>6. CASE FlushSweep
  <2>1. Held' = [b \in Buckets |-> EmptyBucket]
    BY <1>0, <1>6, SweepIs
  <2>2. EntriesOf(Held', a) = {}
    BY <2>1, EmptyIs DEF EntriesOf
  <2>. QED BY <2>2, FS_EmptySet
<1>. QED BY <1>2, <1>4, <1>5, <1>6, HeldStep

(* Full pools have each address, once. *)
LEMMA PoolsTyped == AllDram \in Seq(Dram) /\ AllFlash \in Seq(Flash)
<1>1. NoDram \in Nat /\ NoFlash \in Nat
  BY AddressAssumption
<1>2. \A i \in 1 .. NoDram : AllDram[i] \in Dram
  BY <1>1 DEF AllDram, Dram
<1>3. \A i \in 1 .. NoFlash : AllFlash[i] \in Flash
  BY <1>1 DEF AllFlash, Flash
<1>4. AllDram \in [1 .. NoDram -> Dram]
  BY <1>2 DEF AllDram
<1>5. AllFlash \in [1 .. NoFlash -> Flash]
  BY <1>3 DEF AllFlash
<1>. QED BY <1>1, <1>4, <1>5, SeqDef

LEMMA FullPools ==
  ASSUME NEW a \in Addresses
  PROVE  Times(AllDram, a) + Times(AllFlash, a) = 1
<1>. DEFINE P == {i \in DOMAIN AllDram : AllDram[i] = a}
            Q == {i \in DOMAIN AllFlash : AllFlash[i] = a}
<1>1. NoDram \in Nat /\ NoFlash \in Nat
  BY AddressAssumption
<1>2. P = {i \in 1 .. NoDram : i = a} /\ Q = {i \in 1 .. NoFlash : NoDram + i = a}
  BY DEF AllDram, AllFlash
<1>3. Times(AllDram, a) = Cardinality(P) /\ Times(AllFlash, a) = Cardinality(Q)
  BY DEF Times
<1>4. CASE a \in Dram
  <2>1. P = {a} /\ Q = {}
    BY <1>1, <1>2, <1>4 DEF Dram
  <2>. HIDE DEF P, Q
  <2>. QED BY <1>3, <2>1, FS_Singleton, FS_EmptySet
<1>5. CASE a \in Flash
  <2>1. P = {} /\ Q = {a - NoDram}
    <3>1. a \in Nat /\ a > NoDram /\ a <= NoDram + NoFlash
      BY <1>1, <1>5 DEF Flash
    <3>. QED BY <1>1, <1>2, <3>1
  <2>. DEFINE x == a - NoDram
  <2>. HIDE DEF P, Q, x
  <2>2. Cardinality(Q) = 1
    BY <2>1, FS_Singleton DEF x
  <2>3. Cardinality(P) = 0
    BY <2>1, FS_EmptySet
  <2>. QED BY <1>3, <2>2, <2>3
<1>. QED BY <1>4, <1>5 DEF Addresses

LEMMA FullPlaces ==
  ASSUME freeDram = AllDram, freeFlash = AllFlash, BridgeEmpty, AllFree, NEW a \in Addresses
  PROVE  PlacesOf(a) = 1
<1>1. EntriesOf(Held, a) = {}
  BY DEF AllFree, EntriesOf
<1>2. Times(assignDram, a) = 0 /\ Times(assignFlash, a) = 0 /\ Times(addressReturn, a) = 0
  <2>1. <<>> \in Seq(Addresses)
    OBVIOUS
  <2>. QED BY <2>1, TimesType DEF BridgeEmpty
<1>3. Times(freeDram, a) \in Nat /\ Times(freeFlash, a) \in Nat
  <2>1. AllDram \in Seq(Dram) /\ AllFlash \in Seq(Flash)
    BY PoolsTyped
  <2>. QED BY <2>1, TimesType
<1>4. Times(freeDram, a) + Times(freeFlash, a) = 1
  BY FullPools
<1>5. InFifos(a) = 1
  BY <1>2, <1>3, <1>4 DEF InFifos
<1>. QED BY <1>1, <1>5, PlacesOfIs, FS_EmptySet

(* What the evaluation of a set and of a delete does to the entries. *)
LEMMA SetEntries ==
  ASSUME TableInv, EntriesFinite, EvalSet, NEW a \in Addresses
  PROVE  /\ Cardinality(EntriesOf(Held, a)) \in Nat
         /\ Cardinality(EntriesOf(Held', a)) =
              Cardinality(EntriesOf(Held, a)) + IF SetReplace = {} THEN One(SetAddress, a) ELSE 0
<1>. DEFINE b == BucketOf[Head(comp2memWr).req.key]
            S == EntriesOf(Held, a)
            R == EntriesOf(Held', a)
            place == <<b, SetLocation>>
<1>0. Typed /\ OrderInv /\ ReadsCurrent
  BY DEF TableInv, OrderInv
<1>1. b \in Buckets /\ Head(comp2memWr).words = Held[b] /\ Held \in [Buckets -> Words]
  BY <1>0, JudgedIsHeld, HeldTyped DEF EvalSet
<1>2. /\ SetLocation \in Bins /\ SetEntry \in Bin
      /\ SetLocation \in IF SetReplace # {} THEN SetReplace ELSE SetFound
  BY <1>0, SetIs
<1>3. Changed(Held, Held', b, SetLocation, SetEntry)
  BY <1>0, <1>1, <1>2, SetHeld DEF Changed, Words
<1>4. ~SetEntry.free /\ SetEntry.addr = SetAddress
  BY DEF SetEntry
<1>5. /\ SetAddress = a => Adds(S, R, place)
      /\ SetAddress # a => Drops(S, R, place)
      /\ place \in S <=> ~Held[b][SetLocation].free /\ Held[b][SetLocation].addr = a
  <2>. HIDE DEF b
  <2>1. /\ ~SetEntry.free /\ SetEntry.addr = a => Adds(EntriesOf(Held, a), EntriesOf(Held', a), <<b, SetLocation>>)
        /\ ~(~SetEntry.free /\ SetEntry.addr = a) => Drops(EntriesOf(Held, a), EntriesOf(Held', a), <<b, SetLocation>>)
        /\ <<b, SetLocation>> \in EntriesOf(Held, a) <=> ~Held[b][SetLocation].free /\ Held[b][SetLocation].addr = a
    <3>0. ASSUME NEW c \in Buckets, NEW i \in Bins, NEW e, Changed(Held, Held', c, i, e)
          PROVE  /\ ~e.free /\ e.addr = a => Adds(EntriesOf(Held, a), EntriesOf(Held', a), <<c, i>>)
                 /\ ~(~e.free /\ e.addr = a) => Drops(EntriesOf(Held, a), EntriesOf(Held', a), <<c, i>>)
                 /\ <<c, i>> \in EntriesOf(Held, a) <=> ~Held[c][i].free /\ Held[c][i].addr = a
      BY <3>0, EntriesChanged
    <3>1. b \in Buckets /\ SetLocation \in Bins
      BY <1>1, <1>2
    <3>. QED BY <1>3, <3>0, <3>1
  <2>. QED BY <1>4, <2>1
<1>6. IsFiniteSet(S)
  BY DEF EntriesFinite
<1>7. place \in S <=> SetReplace # {} /\ SetAddress = a
  <2>1. CASE SetReplace # {}
    <3>1. ~Held[b][SetLocation].free
      BY <1>1, <1>2, <2>1 DEF SetReplace, MatchingBins
    <3>2. SetAddress = Held[b][SetLocation].addr
      BY <1>1, <2>1 DEF SetAddress
    <3>. QED BY <1>5, <2>1, <3>1, <3>2
  <2>2. CASE SetReplace = {}
    <3>1. Held[b][SetLocation].free
      BY <1>1, <1>2, <2>2 DEF SetFound, FreeBins
    <3>. QED BY <1>5, <2>2, <3>1
  <2>. QED BY <2>1, <2>2
<1>. HIDE DEF S, R, place, b
<1>8. Cardinality(S) \in Nat /\ Cardinality(R) = Cardinality(S) + IF SetReplace = {} THEN One(SetAddress, a) ELSE 0
  BY <1>5, <1>6, <1>7, SizeChanged DEF One
<1>. QED BY <1>8 DEF S, R

LEMMA DeleteEntries ==
  ASSUME TableInv, EntriesFinite, EvalDelete, DeleteFound # {}, NEW a \in Addresses
  PROVE  LET address == Head(comp2memWr).words[DeleteLocation].addr
         IN  /\ Cardinality(EntriesOf(Held, a)) \in Nat /\ address \in Addresses
             /\ addressReturn' = Append(addressReturn, address)
             /\ Cardinality(EntriesOf(Held', a)) = Cardinality(EntriesOf(Held, a)) - One(address, a)
<1>. DEFINE b == BucketOf[Head(comp2memWr).req.key]
            address == Head(comp2memWr).words[DeleteLocation].addr
            S == EntriesOf(Held, a)
            R == EntriesOf(Held', a)
            place == <<b, DeleteLocation>>
<1>0. Typed /\ OrderInv /\ ReadsCurrent
  BY DEF TableInv, OrderInv
<1>1. b \in Buckets /\ Head(comp2memWr).words = Held[b] /\ Held \in [Buckets -> Words]
      /\ Head(comp2memWr).words \in Words
  BY <1>0, JudgedIsHeld, HeldTyped DEF EvalDelete
<1>2. DeleteLocation \in DeleteFound /\ DeleteLocation \in Bins
      /\ addressReturn' = Append(addressReturn, address)
  BY <1>0, DeleteIs
<1>3. Changed(Held, Held', b, DeleteLocation, Free)
  BY <1>0, <1>1, <1>2, DeleteHeld DEF Changed, Words
<1>4. ~Held[b][DeleteLocation].free /\ Held[b][DeleteLocation].addr = address
  BY <1>1, <1>2 DEF DeleteFound, MatchingBins
<1>5. address \in Addresses
  BY <1>1, <1>2, <1>4, BinIs
<1>6. Free.free
  BY DEF Free
<1>7. Drops(S, R, place) /\ (place \in S <=> address = a)
  <2>. HIDE DEF b, address
  <2>1. /\ ~(~Free.free /\ Free.addr = a) => Drops(EntriesOf(Held, a), EntriesOf(Held', a), <<b, DeleteLocation>>)
        /\ <<b, DeleteLocation>> \in EntriesOf(Held, a) <=> ~Held[b][DeleteLocation].free /\ Held[b][DeleteLocation].addr = a
    <3>0. ASSUME NEW c \in Buckets, NEW i \in Bins, NEW e, Changed(Held, Held', c, i, e)
          PROVE  /\ ~e.free /\ e.addr = a => Adds(EntriesOf(Held, a), EntriesOf(Held', a), <<c, i>>)
                 /\ ~(~e.free /\ e.addr = a) => Drops(EntriesOf(Held, a), EntriesOf(Held', a), <<c, i>>)
                 /\ <<c, i>> \in EntriesOf(Held, a) <=> ~Held[c][i].free /\ Held[c][i].addr = a
      BY <3>0, EntriesChanged
    <3>1. b \in Buckets /\ DeleteLocation \in Bins
      BY <1>1, <1>2
    <3>. QED BY <1>3, <3>0, <3>1
  <2>. QED BY <1>4, <1>6, <2>1
<1>8. IsFiniteSet(S)
  BY DEF EntriesFinite
<1>. HIDE DEF S, R, place, address
<1>9. Cardinality(S) \in Nat /\ Cardinality(R) = Cardinality(S) - One(address, a)
  BY <1>7, <1>8, SizeChanged DEF One
<1>. QED BY <1>2, <1>5, <1>9 DEF S, R, address

LEMMA AccountedStep ==
  ASSUME AddressInv, [Next]_vars, AddressesTyped', FlushPhases'
  PROVE  Accounted'
<1>. SUFFICES ASSUME hostState' = "managing", ~flushReq', NEW a \in Addresses
              PROVE  PlacesOf(a)' = 1
  BY DEF Accounted, Addresses
<1>0. Typed /\ OrderInv /\ ReadsCurrent /\ TableInv /\ FlushPhases /\ EntriesFinite /\ Accounted /\ AddressesTyped
  BY DEF AddressInv, TableInv, OrderInv, Typed
<1>. DEFINE c == Cardinality(EntriesOf(Held, a))
            d == Cardinality(EntriesOf(Held', a))
<1>1. PlacesOf(a)' = Times(freeDram', a) + Times(freeFlash', a) + Times(assignDram', a)
                       + Times(assignFlash', a) + Times(addressReturn', a) + d
  <2>1. PlacesOf(a)' = InFifos(a)' + d
    BY PlacesOfNext
  <2>. QED BY <2>1 DEF InFifos, Times
<1>2. PlacesOf(a) = Times(freeDram, a) + Times(freeFlash, a) + Times(assignDram, a)
                      + Times(assignFlash, a) + Times(addressReturn, a) + c
  BY PlacesOfIs DEF InFifos
<1>3. c \in Nat
  BY <1>0, FS_CardinalityType DEF EntriesFinite
<1>4. /\ Times(freeDram, a) \in Nat /\ Times(freeFlash, a) \in Nat /\ Times(assignDram, a) \in Nat
      /\ Times(assignFlash, a) \in Nat /\ Times(addressReturn, a) \in Nat
  BY <1>0, FifosAre
<1>5. /\ Times(freeDram', a) \in Nat /\ Times(freeFlash', a) \in Nat /\ Times(assignDram', a) \in Nat
      /\ Times(assignFlash', a) \in Nat /\ Times(addressReturn', a) \in Nat
  BY TimesType DEF AddressesTyped
<1>6. hostState = "managing" /\ ~flushReq => PlacesOf(a) = 1
  BY <1>0 DEF Accounted
<1>. HIDE DEF c, d
<1>7. CASE /\ UNCHANGED <<freeDram, freeFlash, assignDram, assignFlash, addressReturn>>
           /\ hostState = "managing" /\ ~flushReq /\ Held' = Held
  BY <1>1, <1>2, <1>6, <1>7 DEF c, d
<1>8. CASE HostStep /\ UNCHANGED tableVars
  <2>0. Held' = Held
    BY <1>0, <1>8, HeldSame DEF tableVars, memVars
  <2>c. d = c
    BY <2>0 DEF c, d
  <2>1. CASE TopUpDram
    <3>1. /\ freeDram # <<>> /\ freeDram' = Tail(freeDram) /\ assignDram' = Append(assignDram, Head(freeDram))
          /\ UNCHANGED <<freeFlash, assignFlash, addressReturn, hostState, flushReq>>
          /\ freeDram \in Seq(Dram) /\ assignDram \in Seq(Dram) /\ Head(freeDram) \in Dram
      BY <1>0, <2>1, TailIs DEF TopUpDram, AddressesTyped
    <3>2. Times(freeDram', a) + Times(assignDram', a) = Times(freeDram, a) + Times(assignDram, a)
      BY <3>1, TimesMove
    <3>3. Times(freeFlash', a) = Times(freeFlash, a) /\ Times(assignFlash', a) = Times(assignFlash, a)
          /\ Times(addressReturn', a) = Times(addressReturn, a) /\ PlacesOf(a) = 1
      BY <1>6, <3>1
    <3>. QED BY <1>1, <1>2, <1>3, <1>4, <1>5, <2>c, <3>2, <3>3
  <2>2. CASE TopUpFlash
    <3>1. /\ freeFlash # <<>> /\ freeFlash' = Tail(freeFlash)
          /\ assignFlash' = Append(assignFlash, Head(freeFlash))
          /\ UNCHANGED <<freeDram, assignDram, addressReturn, hostState, flushReq>>
          /\ freeFlash \in Seq(Flash) /\ assignFlash \in Seq(Flash) /\ Head(freeFlash) \in Flash
      BY <1>0, <2>2, TailIs DEF TopUpFlash, AddressesTyped
    <3>2. Times(freeFlash', a) + Times(assignFlash', a) = Times(freeFlash, a) + Times(assignFlash, a)
      BY <3>1, TimesMove
    <3>3. Times(freeDram', a) = Times(freeDram, a) /\ Times(assignDram', a) = Times(assignDram, a)
          /\ Times(addressReturn', a) = Times(addressReturn, a) /\ PlacesOf(a) = 1
      BY <1>6, <3>1
    <3>. QED BY <1>1, <1>2, <1>3, <1>4, <1>5, <2>c, <3>2, <3>3
  <2>3. CASE TakeBack
    <3>1. /\ addressReturn # <<>> /\ addressReturn' = Tail(addressReturn) /\ hostState = "managing"
          /\ UNCHANGED <<assignDram, assignFlash, flushReq>>
          /\ \/ /\ Head(addressReturn) \in Dram /\ freeDram' = Append(freeDram, Head(addressReturn))
                /\ freeFlash' = freeFlash
             \/ /\ Head(addressReturn) \in Flash /\ freeFlash' = Append(freeFlash, Head(addressReturn))
                /\ freeDram' = freeDram
          /\ addressReturn \in Seq(Addresses) /\ freeDram \in Seq(Dram) /\ freeFlash \in Seq(Flash)
      BY <1>0, <2>3 DEF TakeBack, AddressesTyped
    <3>2. Times(assignDram', a) = Times(assignDram, a) /\ Times(assignFlash', a) = Times(assignFlash, a)
          /\ PlacesOf(a) = 1
      BY <1>6, <3>1
    <3>3. CASE Head(addressReturn) \in Dram /\ freeDram' = Append(freeDram, Head(addressReturn))
               /\ freeFlash' = freeFlash
      <4>1. Times(addressReturn', a) + Times(freeDram', a) = Times(addressReturn, a) + Times(freeDram, a)
        BY <3>1, <3>3, TimesMove
      <4>2. Times(freeFlash', a) = Times(freeFlash, a)
        BY <3>3
      <4>. QED BY <1>1, <1>2, <1>3, <1>4, <1>5, <2>c, <3>2, <4>1, <4>2
    <3>4. CASE Head(addressReturn) \in Flash /\ freeFlash' = Append(freeFlash, Head(addressReturn))
               /\ freeDram' = freeDram
      <4>1. Times(addressReturn', a) + Times(freeFlash', a) = Times(addressReturn, a) + Times(freeFlash, a)
        BY <3>1, <3>4, TimesMove
      <4>2. Times(freeDram', a) = Times(freeDram, a)
        BY <3>4
      <4>. QED BY <1>1, <1>2, <1>3, <1>4, <1>5, <2>c, <3>2, <4>1, <4>2
    <3>. QED BY <3>1, <3>3, <3>4
  <2>4. CASE Acknowledge \/ Refill
    BY <2>4 DEF Acknowledge, Refill
  <2>5. CASE SeeDone
    <3>1. /\ hostState = "waitForDone" /\ flushReq' = flushReq
          /\ UNCHANGED <<freeDram, freeFlash, assignDram, assignFlash, addressReturn>>
      BY <2>5 DEF SeeDone, bridgeVars
    <3>2. freeDram = AllDram /\ freeFlash = AllFlash /\ BridgeEmpty /\ AllFree
      BY <1>0, <3>1 DEF FlushPhases
    <3>3. PlacesOf(a) = 1
      BY <3>2, FullPlaces
    <3>. QED BY <1>1, <1>2, <2>c, <3>1, <3>3
  <2>. QED BY <1>8, <2>1, <2>2, <2>3, <2>4, <2>5 DEF HostStep
<1>9. CASE EvalSet
  <2>1. /\ hostState = "managing" /\ ~flushReq
        /\ UNCHANGED <<freeDram, freeFlash, addressReturn>>
        /\ IF SetReplace # {} THEN UNCHANGED <<assignDram, assignFlash>>
           ELSE \/ /\ assignDram # <<>> /\ assignDram' = Tail(assignDram) /\ assignFlash' = assignFlash
                   /\ SetAddress = Head(assignDram)
                \/ /\ assignFlash # <<>> /\ assignFlash' = Tail(assignFlash) /\ assignDram' = assignDram
                   /\ SetAddress = Head(assignFlash)
    BY <1>9 DEF EvalSet, Evaluates, SetFails, PoolFor, SetAddress
  <2>2. d = c + IF SetReplace = {} THEN One(SetAddress, a) ELSE 0
    BY <1>0, <1>9, SetEntries DEF c, d
  <2>3. Times(freeDram', a) = Times(freeDram, a) /\ Times(freeFlash', a) = Times(freeFlash, a)
        /\ Times(addressReturn', a) = Times(addressReturn, a) /\ PlacesOf(a) = 1
    BY <1>6, <2>1
  <2>4. One(SetAddress, a) \in Nat
    BY DEF One
  <2>5. CASE SetReplace # {}
    <3>1. Times(assignDram', a) = Times(assignDram, a) /\ Times(assignFlash', a) = Times(assignFlash, a) /\ d = c
      BY <1>3, <2>1, <2>2, <2>5
    <3>. QED BY <1>1, <1>2, <2>3, <3>1
  <2>6. CASE SetReplace = {}
    <3>1. Times(assignDram', a) + Times(assignFlash', a) + One(SetAddress, a) =
            Times(assignDram, a) + Times(assignFlash, a)
      <4>1. CASE /\ assignDram # <<>> /\ assignDram' = Tail(assignDram) /\ assignFlash' = assignFlash
                 /\ SetAddress = Head(assignDram)
        <5>1. Times(assignDram, a) = Times(assignDram', a) + One(SetAddress, a)
          BY <1>0, <4>1, TimesTail DEF AddressesTyped
        <5>2. Times(assignFlash', a) = Times(assignFlash, a)
          BY <4>1
        <5>. QED BY <1>4, <1>5, <2>4, <5>1, <5>2
      <4>2. CASE /\ assignFlash # <<>> /\ assignFlash' = Tail(assignFlash) /\ assignDram' = assignDram
                 /\ SetAddress = Head(assignFlash)
        <5>1. Times(assignFlash, a) = Times(assignFlash', a) + One(SetAddress, a)
          BY <1>0, <4>2, TimesTail DEF AddressesTyped
        <5>2. Times(assignDram', a) = Times(assignDram, a)
          BY <4>2
        <5>. QED BY <1>4, <1>5, <2>4, <5>1, <5>2
      <4>. QED BY <2>1, <2>6, <4>1, <4>2
    <3>2. d = c + One(SetAddress, a)
      BY <2>2, <2>6
    <3>. QED BY <1>1, <1>2, <1>3, <1>4, <1>5, <2>3, <2>4, <3>1, <3>2
  <2>. QED BY <2>5, <2>6
<1>10. CASE EvalDelete
  <2>1. /\ hostState = "managing" /\ ~flushReq
        /\ UNCHANGED <<freeDram, freeFlash, assignDram, assignFlash>>
    BY <1>10 DEF EvalDelete, Evaluates
  <2>2. CASE DeleteFound = {}
    <3>1. Held' = Held /\ UNCHANGED addressReturn
      BY <1>0, <1>10, <2>2, DeleteHeld, DeleteIs
    <3>. QED BY <1>7, <2>1, <3>1
  <2>3. CASE DeleteFound # {}
    <3>. DEFINE address == Head(comp2memWr).words[DeleteLocation].addr
    <3>1. d = c - One(address, a) /\ addressReturn' = Append(addressReturn, address) /\ address \in Addresses
      BY <1>0, <1>10, <2>3, DeleteEntries DEF c, d
    <3>. HIDE DEF address
    <3>2. Times(addressReturn', a) = Times(addressReturn, a) + One(address, a)
      BY <1>0, <3>1, TimesAppend DEF AddressesTyped
    <3>3. One(address, a) \in Nat /\ PlacesOf(a) = 1
      BY <1>6, <2>1 DEF One
    <3>4. /\ Times(freeDram', a) = Times(freeDram, a) /\ Times(freeFlash', a) = Times(freeFlash, a)
          /\ Times(assignDram', a) = Times(assignDram, a) /\ Times(assignFlash', a) = Times(assignFlash, a)
      BY <2>1
    <3>5. d = c - One(address, a)
      BY <3>1
    <3>. QED BY <1>1, <1>2, <1>3, <1>4, <1>5, <3>2, <3>3, <3>4, <3>5
  <2>. QED BY <2>2, <2>3
<1>11. CASE FlushSweep
  BY <1>0, <1>11 DEF FlushPhases, FlushSweep
<1>12. CASE FlushStart
  BY <1>12 DEF FlushStart
<1>13. CASE UNCHANGED <<freeDram, freeFlash, assignDram, assignFlash, addressReturn, hostState, flushReq>>
  BY <1>7, <1>9, <1>10, <1>11, <1>13, <1>0, HeldStep
<1>. QED BY <1>8, <1>9, <1>10, <1>11, <1>12, <1>13 DEF Next, Internal, ClientAsks, InputLogic, CcAccept,
       CcRelease, CcPop, MemRead, AccessRead, AccessWrite, HtCompare, EvalGet, EvalSetFails, EvalSetHangs,
       SetRest, FlushWait, OutputLogic, Evaluates, vars, hostVars, bridgeVars

LEMMA AddressInit == Init => AddressInv
<1>. SUFFICES ASSUME Init PROVE AddressInv
  OBVIOUS
<1>1. TableInv
  BY InitInv
<1>2. AllFree /\ BridgeEmpty /\ freeDram = AllDram /\ freeFlash = AllFlash /\ hostState = "managing"
      /\ ~flushReq /\ ~flushAck /\ flushReq \in BOOLEAN /\ flushAck \in BOOLEAN /\ memWrState = "idle"
  <2>1. \A b \in Buckets : Held[b] = EmptyBucket
    BY DEF Init, TableInit, Held, Current, Pending
  <2>2. AllFree
    BY <2>1, EmptyIs DEF AllFree
  <2>. QED BY <2>2 DEF Init, TableInit, HostInit, BridgeEmpty
<1>3. FlushPhases
  BY <1>2 DEF FlushPhases
<1>4. Accounted
  BY <1>2, FullPlaces DEF Accounted
<1>5. EntriesFinite
  <2>1. \A a \in Addresses : EntriesOf(Held, a) = {}
    BY <1>2 DEF AllFree, EntriesOf
  <2>. QED BY <2>1, FS_EmptySet DEF EntriesFinite
<1>. QED BY <1>1, <1>3, <1>4, <1>5 DEF AddressInv

LEMMA AddressStep == AddressInv /\ [Next]_vars => AddressInv'
<1>. SUFFICES ASSUME AddressInv, [Next]_vars PROVE AddressInv'
  OBVIOUS
<1>1. TableInv'
  BY StepInv DEF AddressInv
<1>2. FlushPhases'
  BY PhasesStep DEF AddressInv
<1>3. EntriesFinite'
  BY FiniteStep DEF AddressInv
<1>4. Accounted'
  BY <1>1, <1>2, AccountedStep DEF TableInv, Typed
<1>. QED BY <1>1, <1>2, <1>3, <1>4 DEF AddressInv

(* Each address of a value is in one place at any time: in a pool of the   *)
(* host, on its way to or from the table, or in one entry; a flush brings  *)
(* all of them back to the pools, whatever the table and the host do while *)
(* it lasts (memWrite.cpp, memManager.cpp, pcie_mem_alloc.v).  It does not *)
(* claim anything of the time after the host has gone. *)
THEOREM NoAddressIsLost == Spec => []AddressesAccounted
<1>1. AddressInv => AddressesAccounted
  <2>1. SUFFICES ASSUME AddressInv, ~flushReq, hostState \in {"managing", "waitForDone"},
                        NEW a \in Dram \cup Flash
                 PROVE  PlacesOf(a) = 1
    BY DEF AddressesAccounted
  <2>2. a \in Addresses
    BY DEF Addresses
  <2>3. CASE hostState = "managing"
    BY <2>1, <2>2, <2>3 DEF AddressInv, Accounted
  <2>4. CASE hostState = "waitForDone"
    BY <2>1, <2>2, <2>4, FullPlaces DEF AddressInv, FlushPhases
  <2>. QED BY <2>1, <2>3, <2>4
<1>. QED BY <1>1, AddressInit, AddressStep, PTL DEF Spec
=============================================================================
