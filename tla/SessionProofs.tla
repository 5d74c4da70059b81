---------------------------- MODULE SessionProofs ----------------------------
(***************************************************************************)
(* Proofs about SessionSystem, for any number of sessions, ports, peers    *)
(* and any depth of the FIFOs:                                             *)
(*                                                                         *)
(*   IdsStayAccounted  every session id is in exactly one place.  The      *)
(*                     sum of the places moves with each FIFO access, so   *)
(*                     the lemmas about Count are what it rests on.        *)
(*   AnswersStayInOrder the answers of the two port tables come back in    *)
(*                     the order of the checks.  OrderInv gives each       *)
(*                     answer and each waiting check its turn in dst.      *)
(*   CamStaysMirrored  what the memory knows of a tuple, a session that is *)
(*                     valid, or on its way in or out, knows of the id.    *)
(*                     MirrorInv counts the claims on a tuple: there is    *)
(*                     one if it is in the memory and none otherwise,      *)
(*                     since LookupInv and InsertInv let only one insert   *)
(*                     be under way, of a tuple that was not found.        *)
(***************************************************************************)
EXTENDS SessionSystem, FiniteSetTheorems, TLAPS

(* What the variables hold; no FIFO holds more than its depth. *)
Fifo(T) == {q \in Seq(T) : Len(q) <= FifoDepth}

Turn == {"READ_LISTENING", "READ_USED"}
Answer == [port : Ports, open : BOOLEAN]
Source == {"RX", "TX_APP"}
Insertion == [op : {"INSERT"}, tuple : Tuple, id : Ids, source : Source]
Deletion == [op : {"DELETE"}, tuple : Tuple, id : Ids, source : Source]
Update == Insertion \cup Deletion
Entry == [id : Ids, tuple : Tuple]
SessionReply == {r \in [id : Ids \cup {None}, hit : BOOLEAN] : r.hit => r.id \in Ids}

CheckType ==
  /\ listening \subseteq Ports
  /\ checkReq \in Fifo(Ports)
  /\ listenCheck \in Fifo(0 .. Half - 1) /\ usedCheck \in Fifo(0 .. Half - 1)
  /\ listenRsp \in Fifo(Answer) /\ usedRsp \in Fifo(Answer) /\ checkRsp \in Fifo(Answer)
  /\ dst \in Fifo(Turn) /\ merge \in Turn \cup {"READ_DST"}

(* Every port that is asked for has a tuple that waits for it. *)
FreeType ==
  /\ used \subseteq 0 .. Half - 1
  /\ search \in [state : {"idle", "searching", "eval"}, port : 0 .. Half - 1, temp : BOOLEAN]
  /\ portReq \in 0 .. FifoDepth
  /\ portRsp \in Fifo(0 .. Half - 1)
  /\ openReqs \in Fifo(Peers) /\ openTuples \in Fifo(Peers)
  /\ Len(openTuples) = portReq + Len(portRsp) + IF search.state = "idle" THEN 0 ELSE 1

LookupType ==
  /\ rxReq \in Fifo([tuple : Tuple, allowCreation : BOOLEAN]) /\ appReq \in Fifo(Tuple)
  /\ rxRsp \in Fifo(SessionReply) /\ appRsp \in Fifo(SessionReply)
  /\ lup \in [state : {"LUP_REQ", "LUP_RSP", "UPD_RSP"},
              query : [tuple : Tuple \cup {NoTuple}, create : BOOLEAN, source : Source]]
  /\ lup.state # "LUP_REQ" => lup.query.tuple \in Tuple
  /\ camReq \in Fifo(Tuple) /\ camRsp \in Fifo(Ids \cup {None})

UpdateType ==
  /\ counter \in 0 .. MaxSessions /\ finIds \in Fifo(Ids) /\ freeIds \in Seq(Ids)
  /\ insertReq \in Fifo(Insertion) /\ insertRsp \in Fifo(Insertion)
  /\ updateReq \in Fifo(Update) /\ updateRsp \in Fifo(Update)
  /\ deleteReq \in Fifo(Deletion) /\ revInserts \in Fifo(Entry)
  /\ cam \in [Tuple -> Ids \cup {None}]
  /\ reverse \in [Ids -> Tuple \cup {NoTuple}]
  /\ tupleValid \in SUBSET {id \in Ids : reverse[id] \in Tuple}
  /\ releases \in Fifo(Ids) /\ releasePort \in Fifo(Ports)

RxType ==
  /\ packets \in Fifo(Packet)
  /\ mh \in [state : {"META", "LOOKUP"}, packet : Packet \cup {NoPacket}]
  /\ mh.state = "LOOKUP" => mh.packet \in Packet
  /\ fsm \in Fifo([id : Ids, kind : Kind])
  /\ answers \in Nat /\ alive \subseteq Ids

TypeOK == CheckType /\ FreeType /\ LookupType /\ UpdateType /\ RxType

-----------------------------------------------------------------------------
(* The answers of a table wait in the order of the checks; ports are the   *)
(* ports it was asked for, expected those of the segments. *)
Pairs(f, kind, turns, ports, expected) ==
  /\ \A i, j \in 1 .. Len(ports) : i < j => f[i] < f[j]
  /\ \A k \in 1 .. Len(turns) : turns[k] = kind <=> \E i \in 1 .. Len(ports) : f[i] = k
  /\ \A i \in 1 .. Len(ports) : ports[i] = expected[f[i]]
InTurn(kind, turns, ports, expected) ==
  \E f \in [1 .. Len(ports) -> 1 .. Len(turns)] : Pairs(f, kind, turns, ports, expected)

Turns == IF merge = "READ_DST" THEN dst ELSE <<merge>> \o dst

(* The answered ports and those that are still to be answered. *)
Asked(rsp, check, base) ==
  [i \in 1 .. Len(rsp) + Len(check) |->
     IF i <= Len(rsp) THEN rsp[i].port ELSE check[i - Len(rsp)] + base]
Expected ==
  [k \in 1 .. Len(Turns) |-> ByteSwap(packets[Len(checkRsp) + k].tuple.port)]

OrderInv ==
  /\ Len(packets) = Len(checkRsp) + Len(Turns) + Len(checkReq)
  /\ AnswersInOrder
  /\ \A i \in 1 .. Len(checkReq) : checkReq[i] = packets[Len(checkRsp) + Len(Turns) + i].tuple.port
  /\ InTurn("READ_LISTENING", Turns, Asked(listenRsp, listenCheck, 0), Expected)
  /\ InTurn("READ_USED", Turns, Asked(usedRsp, usedCheck, Half), Expected)

-----------------------------------------------------------------------------
(* What holds a tuple in the memory: its session, valid or about to be,    *)
(* or the deletion that is under way. *)
Elements(q) == {q[i] : i \in DOMAIN q}
OfTuple(op, t) == [op : {op}, tuple : {t}, id : Ids, source : Source]

Claims(t) ==
  (IF \E id \in tupleValid : reverse[id] = t THEN 1 ELSE 0)
  + Count(revInserts, [id : Ids, tuple : {t}])
  + Count(updateRsp, OfTuple("INSERT", t)) + Count(insertRsp, OfTuple("INSERT", t))
  + Count(deleteReq, OfTuple("DELETE", t)) + Count(updateReq, OfTuple("DELETE", t))

(* One tuple is looked up and inserted at a time. *)
LookupInv ==
  /\ Len(camReq) + Len(camRsp) = IF lup.state = "LUP_RSP" THEN 1 ELSE 0
  /\ \A t \in Elements(camReq) : t = lup.query.tuple
  /\ \A r \in Elements(camRsp) : r = None => cam[lup.query.tuple] = None

InsertInv ==
  /\ Count(insertReq, Insertion) + Count(updateReq, Insertion)
       + Count(updateRsp, Insertion) + Count(insertRsp, Insertion)
     = IF lup.state = "UPD_RSP" THEN 1 ELSE 0
  /\ \A u \in Elements(insertReq) \cup Elements(updateReq) :
       u \in Insertion => u.tuple = lup.query.tuple /\ cam[u.tuple] = None
  /\ \A u \in Elements(updateRsp) \cup Elements(insertRsp) :
       u \in Insertion => u.tuple = lup.query.tuple

MirrorInv ==
  /\ \A t \in Tuple : Claims(t) = IF cam[t] = None THEN 0 ELSE 1
  /\ \A id \in tupleValid : cam[reverse[id]] = id
  /\ \A e \in Elements(revInserts) : cam[e.tuple] = e.id
  /\ \A u \in Elements(updateRsp) \cup Elements(insertRsp) : u \in Insertion => cam[u.tuple] = u.id
  /\ \A u \in Elements(deleteReq) \cup Elements(updateReq) : u \in Deletion => cam[u.tuple] = u.id

-----------------------------------------------------------------------------
(* Counting the elements of a FIFO. *)
LEMMA CountType ==
  ASSUME NEW T, NEW q \in Seq(T), NEW S
  PROVE  /\ Count(q, S) \in Nat /\ IsFiniteSet({i \in DOMAIN q : q[i] \in S})
         /\ q = <<>> => Count(q, S) = 0
<1>. DEFINE Q == {i \in DOMAIN q : q[i] \in S}
<1>1. IsFiniteSet(1 .. Len(q))
  BY FS_Interval
<1>2. Q \in SUBSET (1 .. Len(q))
  OBVIOUS
<1>3. IsFiniteSet(Q) /\ Cardinality(Q) \in Nat
  <2>. HIDE DEF Q
  <2>. QED BY <1>1, <1>2, FS_Subset, FS_CardinalityType
<1>4. q = <<>> => Q = {}
  OBVIOUS
<1>. QED BY <1>3, <1>4, FS_EmptySet DEF Count

LEMMA CountAppend ==
  ASSUME NEW T, NEW q \in Seq(T), NEW e \in T, NEW S
  PROVE  Count(Append(q, e), S) = Count(q, S) + IF e \in S THEN 1 ELSE 0
<1>. DEFINE Q == {i \in DOMAIN q : q[i] \in S}
            R == {i \in DOMAIN Append(q, e) : Append(q, e)[i] \in S}
            n == Len(q) + 1
<1>1. IsFiniteSet(Q) /\ n \notin Q /\ Cardinality(Q) \in Nat
  <2>1. n \notin Q
    OBVIOUS
  <2>. QED BY <2>1, CountType DEF Count
<1>2. CASE e \in S
  <2>1. R = Q \cup {n}
    BY <1>2
  <2>2. Count(Append(q, e), S) = Cardinality(R) /\ Count(q, S) = Cardinality(Q)
    BY DEF Count
  <2>. HIDE DEF Q, R, n
  <2>. QED BY <1>1, <1>2, <2>1, <2>2, FS_AddElement
<1>3. CASE e \notin S
  <2>1. R = Q
    BY <1>3
  <2>2. Count(Append(q, e), S) = Cardinality(R) /\ Count(q, S) = Cardinality(Q)
    BY DEF Count
  <2>. HIDE DEF Q, R, n
  <2>. QED BY <1>1, <1>3, <2>1, <2>2
<1>. QED BY <1>2, <1>3

LEMMA CountTail ==
  ASSUME NEW T, NEW q \in Seq(T), q # <<>>, NEW S
  PROVE  Count(q, S) = Count(Tail(q), S) + IF Head(q) \in S THEN 1 ELSE 0
<1>. DEFINE Q == {i \in DOMAIN q : q[i] \in S}
            R == {i \in DOMAIN Tail(q) : Tail(q)[i] \in S}
            P == Q \ {1}
            f == [i \in R |-> i + 1]
<1>1. Tail(q) \in Seq(T) /\ DOMAIN Tail(q) = 1 .. Len(q) - 1 /\ DOMAIN q = 1 .. Len(q) /\ Len(q) \in Nat /\ Len(q) > 0
  OBVIOUS
<1>2. \A i \in 1 .. Len(q) - 1 : Tail(q)[i] = q[i + 1]
  BY <1>1
<1>3. f \in Bijection(R, P)
  <2>1. f \in [R -> P]
    <3>1. \A i \in R : i + 1 \in P
      BY <1>1, <1>2
    <3>. QED BY <3>1
  <2>2. \A a, b \in R : f[a] = f[b] => a = b
    BY <1>1
  <2>3. \A b \in P : \E a \in R : f[a] = b
    <3>1. SUFFICES ASSUME NEW b \in P PROVE b - 1 \in R /\ f[b - 1] = b
      OBVIOUS
    <3>2. b \in 2 .. Len(q) /\ q[b] \in S
      BY <1>1
    <3>3. b - 1 \in R
      BY <1>1, <1>2, <3>2
    <3>. QED BY <3>2, <3>3
  <2>. HIDE DEF f, R, P
  <2>. QED BY <2>1, <2>2, <2>3 DEF Bijection, Injection, Surjection, IsInjective
<1>4. IsFiniteSet(R) /\ IsFiniteSet(Q) /\ Cardinality(R) \in Nat /\ Cardinality(Q) \in Nat
  BY <1>1, CountType DEF Count
<1>5. Cardinality(P) = Cardinality(R)
  <2>. HIDE DEF R, P
  <2>. QED BY <1>3, <1>4, FS_Bijection DEF ExistsBijection
<1>6. 1 \in Q <=> Head(q) \in S
  BY <1>1
<1>7. Cardinality(P) = IF 1 \in Q THEN Cardinality(Q) - 1 ELSE Cardinality(Q)
  <2>. HIDE DEF Q
  <2>. QED BY <1>4, FS_RemoveElement
<1>8. Count(q, S) = Cardinality(Q) /\ Count(Tail(q), S) = Cardinality(R)
  BY DEF Count
<1>. HIDE DEF P, Q, R
<1>. QED BY <1>4, <1>5, <1>6, <1>7, <1>8

(* The number of elements of a set grows or shrinks by e. *)
Gets(q, r, S, e) ==
  /\ Count(r, S) \in Nat
  /\ e \in S => Count(r, S) = Count(q, S) + 1
  /\ e \notin S => Count(r, S) = Count(q, S)
Gives(q, r, S, e) ==
  /\ Count(r, S) \in Nat
  /\ e \in S => Count(r, S) = Count(q, S) - 1
  /\ e \notin S => Count(r, S) = Count(q, S)

LEMMA CountGets ==
  ASSUME NEW T, NEW q \in Seq(T), NEW r, NEW e \in T, r = Append(q, e), NEW S
  PROVE  Gets(q, r, S, e)
<1>1. r \in Seq(T)
  OBVIOUS
<1>2. Count(q, S) \in Nat /\ Count(r, S) \in Nat
  BY <1>1, CountType
<1>. QED BY <1>2, CountAppend DEF Gets

LEMMA CountGives ==
  ASSUME NEW T, NEW q \in Seq(T), NEW r, q # <<>>, r = Tail(q), NEW S
  PROVE  Head(q) \in T /\ Gives(q, r, S, Head(q))
<1>1. r \in Seq(T) /\ Head(q) \in T
  OBVIOUS
<1>2. Count(q, S) \in Nat /\ Count(r, S) \in Nat
  BY <1>1, CountType
<1>. QED BY <1>1, <1>2, CountTail DEF Gives

(* Writing and reading a FIFO. *)
LEMMA FifoAppend ==
  ASSUME NEW T, NEW q \in Fifo(T), Room(q), NEW e \in T
  PROVE  Append(q, e) \in Fifo(T) /\ Len(Append(q, e)) = Len(q) + 1
BY FifoAssumption DEF Fifo, Room

LEMMA FifoTail ==
  ASSUME NEW T, NEW q \in Fifo(T), q # <<>>
  PROVE  /\ Head(q) \in T /\ Tail(q) \in Fifo(T)
         /\ Len(q) \in Nat /\ Len(q) > 0 /\ Len(Tail(q)) = Len(q) - 1
BY FifoAssumption DEF Fifo

LEMMA FifoEmpty == \A T : <<>> \in Fifo(T)
BY FifoAssumption DEF Fifo

(* The numbers of ports. *)
LEMMA PortNumbers ==
  /\ Byte \in Nat \ {0} /\ Half \in Nat \ {0} /\ Half + Half = Byte * Byte
  /\ Ports = 0 .. Half + Half - 1 /\ MaxSessions \in Nat \ {0} /\ FifoDepth \in Nat
<1>1. PICK n \in 1 .. 128 : Byte = 2 * n
  BY ByteAssumption
<1>2. Byte * Byte = 2 * (2 * n * n) /\ 2 * n * n \in Nat /\ 2 * n * n > 0
  BY <1>1
<1>3. Half = 2 * n * n
  BY <1>2 DEF Half
<1>. QED BY <1>1, <1>2, <1>3, SessionLookupAssumption, FifoAssumption DEF Ports

LEMMA SwapType == \A p \in Ports : ByteSwap(p) \in Ports
<1>1. SUFFICES ASSUME NEW p \in Ports PROVE ByteSwap(p) \in Ports
  OBVIOUS
<1>. DEFINE r == p % Byte
            h == p \div Byte
<1>2. Byte \in Nat \ {0} /\ p \in Nat /\ p < Byte * Byte
  BY PortNumbers DEF Ports
<1>3. r \in 0 .. Byte - 1 /\ h \in Nat /\ p = Byte * h + r
  BY <1>2
<1>4. h <= Byte - 1
  <2>1. SUFFICES ASSUME h >= Byte PROVE FALSE
    BY <1>2, <1>3
  <2>. HIDE DEF h, r
  <2>2. Byte * h >= Byte * Byte
    BY <1>2, <1>3, <2>1
  <2>. QED BY <1>2, <1>3, <2>2
<1>5. r * Byte + h \in Nat /\ r * Byte + h < Byte * Byte
  <2>. HIDE DEF h, r
  <2>1. r * Byte <= (Byte - 1) * Byte /\ r * Byte \in Nat
    BY <1>2, <1>3
  <2>2. (Byte - 1) * Byte = Byte * Byte - Byte
    BY <1>2
  <2>. QED BY <1>2, <1>3, <1>4, <2>1, <2>2
<1>. QED BY <1>2, <1>5 DEF ByteSwap, Ports

-----------------------------------------------------------------------------
checkGroup == <<listening, checkVars>>
freeGroup == <<used, search, portReq, portRsp, openReqs, openTuples>>
updateGroup == <<idVars, updateVars, reverseVars, releasePort>>
rxGroup == <<packets, mh, fsm, answers, alive>>

LEMMA CheckMoves ==
  ASSUME [Next]_vars
  PROVE  \/ UNCHANGED checkGroup
         \/ \E p \in Packet : Arrive(p)
         \/ \E p \in Ports : Listening(p)
         \/ Meta \/ PortMove(CheckListening) \/ PortMove(CheckIn) \/ PortMove(CheckOut)
         \/ PortMove(CheckUsed)
<1>1. CASE Environment
  BY <1>1 DEF Environment, OpenReq, TimeOut, checkGroup, portVars
<1>2. CASE RxEngine \/ TxAppIf
  BY <1>2 DEF RxEngine, TxAppIf, Lookup, RxTcpFsm, OpenConn, LookupReply, PortReply, checkGroup, portVars
<1>3. CASE Search
  BY <1>3 DEF Search, PortMove, FreePortTable, SearchLook, SearchEval, SearchStart, Release, checkGroup
<1>4. CASE LookupMove(SessionIdManager) \/ LookupMove(LookupReplyHandler)
           \/ LookupMove(UpdateRequestSender) \/ LookupMove(UpdateReply)
           \/ LookupMove(CamLookup) \/ LookupMove(CamUpdate)
  BY <1>4 DEF LookupMove, checkGroup, portVars
<1>5. CASE Reverse
  BY <1>5 DEF Reverse, ReverseLookupTableInterface, ReverseInsert, ReverseRelease, checkGroup, portVars
<1>6. CASE UNCHANGED vars
  BY <1>6 DEF vars, checkGroup, portVars
<1>. QED BY <1>1, <1>2, <1>3, <1>4, <1>5, <1>6 DEF Next, Step, Others

LEMMA FreeMoves ==
  ASSUME [Next]_vars
  PROVE  \/ UNCHANGED freeGroup
         \/ \E p \in Peers : OpenReq(p)
         \/ OpenConn \/ PortReply
         \/ PortMove(SearchLook) \/ PortMove(SearchEval) \/ PortMove(SearchStart)
         \/ PortMove(Release)
<1>1. CASE Environment
  BY <1>1 DEF Environment, Arrive, Listening, Listen, TimeOut, freeGroup, portVars, freeVars, appVars
<1>2. CASE RxEngine \/ LookupReply
  BY <1>2 DEF RxEngine, Meta, Lookup, RxTcpFsm, LookupReply, freeGroup, portVars, freeVars, appVars
<1>3. CASE Search
  BY <1>3 DEF Search, PortMove, FreePortTable, CheckUsed, freeGroup, freeVars, appVars
<1>4. CASE PortMove(CheckListening) \/ PortMove(CheckIn) \/ PortMove(CheckOut)
  BY <1>4 DEF PortMove, CheckListening, CheckIn, CheckOut, ReadDst, ReadListening, ReadUsed,
       freeGroup, freeVars, appVars
<1>5. CASE LookupMove(SessionIdManager) \/ LookupMove(LookupReplyHandler)
           \/ LookupMove(UpdateRequestSender) \/ LookupMove(UpdateReply)
           \/ LookupMove(CamLookup) \/ LookupMove(CamUpdate)
  BY <1>5 DEF LookupMove, freeGroup, portVars, freeVars, appVars
<1>6. CASE Reverse
  BY <1>6 DEF Reverse, ReverseLookupTableInterface, ReverseInsert, ReverseRelease, freeGroup,
       portVars, freeVars, appVars
<1>7. CASE UNCHANGED vars
  BY <1>7 DEF vars, freeGroup, portVars, freeVars, appVars
<1>. QED BY <1>1, <1>2, <1>3, <1>4, <1>5, <1>6, <1>7 DEF Next, Step, Others, TxAppIf

LEMMA LookupMoves ==
  ASSUME [Next]_vars
  PROVE  \/ UNCHANGED lookupVars
         \/ Meta \/ Lookup \/ LookupReply \/ PortReply
         \/ LookupReplyHandler \/ CamLookup
<1>1. CASE Environment
  BY <1>1 DEF Environment, Arrive, Listening, OpenReq, TimeOut, sessionVars
<1>2. CASE RxTcpFsm \/ OpenConn
  BY <1>2 DEF RxTcpFsm, OpenConn, sessionVars
<1>3. CASE Search \/ PortMove(CheckListening) \/ PortMove(CheckIn) \/ PortMove(CheckOut)
  BY <1>3 DEF Search, PortMove, sessionVars
<1>5. CASE LookupMove(SessionIdManager) \/ LookupMove(UpdateRequestSender)
           \/ LookupMove(UpdateReply) \/ LookupMove(CamUpdate)
  BY <1>5 DEF LookupMove, SessionIdManager, IdReturned, IdCounted, UpdateRequestSender,
       SendInsert, SendDelete, UpdateReply, CamUpdate
<1>6. CASE Reverse
  BY <1>6 DEF Reverse, ReverseLookupTableInterface, ReverseInsert, ReverseRelease
<1>7. CASE UNCHANGED vars
  BY <1>7 DEF vars, sessionVars
<1>. QED BY <1>1, <1>2, <1>3, <1>5, <1>6, <1>7
     DEF Next, Step, Others, RxEngine, TxAppIf, LookupMove

LEMMA UpdateMoves ==
  ASSUME [Next]_vars
  PROVE  \/ UNCHANGED updateGroup
         \/ RxTcpFsm \/ (\E i \in Ids : TimeOut(i))
         \/ PortMove(Release)
         \/ LookupMove(IdReturned) \/ LookupMove(IdCounted)
         \/ LookupMove(Create) \/ LookupMove(InsertAnswer)
         \/ LookupMove(SendInsert) \/ LookupMove(SendDelete)
         \/ LookupMove(UpdateReply) \/ LookupMove(CamUpdate)
         \/ ReverseInsert \/ ReverseRelease
<1>1. CASE Environment
  BY <1>1 DEF Environment, Arrive, Listening, Listen, OpenReq, sessionVars, updateGroup, portVars, freeVars
<1>2. CASE Meta \/ Lookup \/ TxAppIf
  BY <1>2 DEF Meta, Lookup, TxAppIf, OpenConn, LookupReply, PortReply, sessionVars, updateGroup,
       portVars, freeVars
<1>3. CASE Search
  BY <1>3 DEF Search, PortMove, FreePortTable, SearchLook, SearchEval, CheckUsed, SearchStart,
       sessionVars, updateGroup, freeVars
<1>4. CASE PortMove(CheckListening) \/ PortMove(CheckIn) \/ PortMove(CheckOut)
  BY <1>4 DEF PortMove, CheckListening, CheckIn, CheckOut, ReadDst, ReadListening, ReadUsed,
       sessionVars, updateGroup, freeVars
<1>5. CASE LookupMove(AskApp) \/ LookupMove(AskRx) \/ LookupMove(LookupAnswer)
  BY <1>5 DEF LookupMove, AskApp, AskRx, Ask, LookupAnswer, updateGroup, portVars, freeVars
<1>6. CASE LookupMove(CamLookup)
  BY <1>6 DEF LookupMove, CamLookup, updateGroup, portVars, freeVars
<1>7. CASE UNCHANGED vars
  BY <1>7 DEF vars, sessionVars, updateGroup, portVars, freeVars
<1>. QED BY <1>1, <1>2, <1>3, <1>4, <1>5, <1>6, <1>7
     DEF Next, Step, Others, RxEngine, LookupMove, SessionIdManager, UpdateRequestSender,
         LookupReplyHandler, Reverse, ReverseLookupTableInterface

LEMMA RxMoves ==
  ASSUME [Next]_vars
  PROVE  \/ UNCHANGED rxGroup
         \/ \E p \in Packet : Arrive(p)
         \/ \E i \in Ids : TimeOut(i)
         \/ Meta \/ Lookup \/ RxTcpFsm \/ LookupReply
<1>1. CASE Environment
  BY <1>1 DEF Environment, Listening, OpenReq, rxGroup, rxVars, appVars
<1>2. CASE OpenConn \/ PortReply
  BY <1>2 DEF OpenConn, PortReply, rxGroup, rxVars, appVars
<1>3. CASE Search \/ PortMove(CheckListening) \/ PortMove(CheckIn) \/ PortMove(CheckOut)
  BY <1>3 DEF Search, PortMove, rxGroup, rxVars, appVars
<1>4. CASE LookupMove(SessionIdManager) \/ LookupMove(LookupReplyHandler)
           \/ LookupMove(UpdateRequestSender) \/ LookupMove(UpdateReply)
           \/ LookupMove(CamLookup) \/ LookupMove(CamUpdate) \/ Reverse
  BY <1>4 DEF LookupMove, Reverse, rxGroup, rxVars, appVars
<1>5. CASE UNCHANGED vars
  BY <1>5 DEF vars, rxGroup, rxVars, appVars
<1>. QED BY <1>1, <1>2, <1>3, <1>4, <1>5 DEF Next, Step, Others, RxEngine, TxAppIf

-----------------------------------------------------------------------------
LEMMA CheckTypeStep ==
  ASSUME TypeOK, [Next]_vars
  PROVE  CheckType'
<1>. USE DEF CheckType
<1>t. CheckType
  BY DEF TypeOK
<1>1. CASE UNCHANGED checkGroup
  BY <1>1, <1>t DEF checkGroup, checkVars
<1>2. ASSUME NEW p \in Packet, Arrive(p) PROVE CheckType'
  <2>1. p.tuple.port \in Ports
    BY DEF Packet, Tuple
  <2>2. checkReq' \in Fifo(Ports)
    BY <1>2, <1>t, <2>1, FifoAppend DEF Arrive
  <2>. QED BY <1>2, <1>t, <2>2 DEF Arrive
<1>3. ASSUME NEW p \in Ports, Listening(p) PROVE CheckType'
  BY <1>3, <1>t DEF Listening, Listen, checkVars
<1>4. CASE Meta
  <2>1. checkRsp' \in Fifo(Answer)
    BY <1>4, <1>t, FifoTail DEF Meta
  <2>. QED BY <1>4, <1>t, <2>1 DEF Meta
<1>5. CASE PortMove(CheckListening)
  <2>1. Head(listenCheck) \in 0 .. Half - 1 /\ listenCheck' \in Fifo(0 .. Half - 1)
    BY <1>5, <1>t, FifoTail DEF PortMove, CheckListening
  <2>2. [port |-> Head(listenCheck), open |-> Head(listenCheck) \in listening] \in Answer
    BY <2>1, PortNumbers DEF Answer
  <2>3. listenRsp' \in Fifo(Answer)
    BY <1>5, <1>t, <2>2, FifoAppend DEF PortMove, CheckListening
  <2>. QED BY <1>5, <1>t, <2>1, <2>3 DEF PortMove, CheckListening
<1>6. CASE PortMove(CheckUsed)
  <2>1. Head(usedCheck) \in 0 .. Half - 1 /\ usedCheck' \in Fifo(0 .. Half - 1)
    BY <1>6, <1>t, FifoTail DEF PortMove, CheckUsed
  <2>2. [port |-> Head(usedCheck) + Half, open |-> Head(usedCheck) \in used] \in Answer
    BY <2>1, PortNumbers DEF Answer
  <2>3. usedRsp' \in Fifo(Answer)
    BY <1>6, <1>t, <2>2, FifoAppend DEF PortMove, CheckUsed
  <2>. QED BY <1>6, <1>t, <2>1, <2>3 DEF PortMove, CheckUsed
<1>7. CASE PortMove(CheckIn)
  <2>. DEFINE p == ByteSwap(Head(checkReq))
  <2>1. Head(checkReq) \in Ports /\ checkReq' \in Fifo(Ports)
    BY <1>7, <1>t, FifoTail DEF PortMove, CheckIn
  <2>2. p \in 0 .. Half + Half - 1
    BY <2>1, SwapType, PortNumbers
  <2>. HIDE DEF p
  <2>3. CASE p < Half
    <3>1. p \in 0 .. Half - 1
      BY <2>2, <2>3, PortNumbers
    <3>2. /\ listenCheck' = Append(listenCheck, p) /\ Room(listenCheck)
          /\ dst' = Append(dst, "READ_LISTENING") /\ Room(dst)
          /\ UNCHANGED <<listening, usedCheck, listenRsp, usedRsp, merge, checkRsp>>
      BY <1>7, <2>2, <2>3, PortNumbers DEF PortMove, CheckIn, p
    <3>3. listenCheck' \in Fifo(0 .. Half - 1) /\ dst' \in Fifo(Turn)
      BY <1>t, <3>1, <3>2, FifoAppend DEF Turn
    <3>. QED BY <1>t, <2>1, <3>2, <3>3
  <2>4. CASE p >= Half
    <3>1. p - Half \in 0 .. Half - 1
      BY <2>2, <2>4, PortNumbers
    <3>2. /\ usedCheck' = Append(usedCheck, p - Half) /\ Room(usedCheck)
          /\ dst' = Append(dst, "READ_USED") /\ Room(dst)
          /\ UNCHANGED <<listening, listenCheck, listenRsp, usedRsp, merge, checkRsp>>
      BY <1>7, <2>2, <2>4, PortNumbers DEF PortMove, CheckIn, p
    <3>3. usedCheck' \in Fifo(0 .. Half - 1) /\ dst' \in Fifo(Turn)
      BY <1>t, <3>1, <3>2, FifoAppend DEF Turn
    <3>. QED BY <1>t, <2>1, <3>2, <3>3
  <2>. QED BY <2>2, <2>3, <2>4, PortNumbers
<1>8. CASE PortMove(CheckOut)
  <2>1. CASE ReadDst
    <3>1. merge' \in Turn /\ dst' \in Fifo(Turn)
      BY <1>t, <2>1, FifoTail DEF ReadDst
    <3>. QED BY <1>t, <2>1, <3>1 DEF ReadDst
  <2>2. CASE ReadListening
    <3>1. Head(listenRsp) \in Answer /\ listenRsp' \in Fifo(Answer)
      BY <1>t, <2>2, FifoTail DEF ReadListening
    <3>2. checkRsp' \in Fifo(Answer)
      BY <1>t, <2>2, <3>1, FifoAppend DEF ReadListening
    <3>. QED BY <1>t, <2>2, <3>1, <3>2 DEF ReadListening
  <2>3. CASE ReadUsed
    <3>1. Head(usedRsp) \in Answer /\ usedRsp' \in Fifo(Answer)
      BY <1>t, <2>3, FifoTail DEF ReadUsed
    <3>2. checkRsp' \in Fifo(Answer)
      BY <1>t, <2>3, <3>1, FifoAppend DEF ReadUsed
    <3>. QED BY <1>t, <2>3, <3>1, <3>2 DEF ReadUsed
  <2>. QED BY <1>8, <2>1, <2>2, <2>3 DEF PortMove, CheckOut
<1>. QED BY <1>1, <1>2, <1>3, <1>4, <1>5, <1>6, <1>7, <1>8, CheckMoves

LEMMA FreeTypeStep ==
  ASSUME TypeOK, [Next]_vars
  PROVE  FreeType'
<1>. USE DEF FreeType
<1>t. FreeType
  BY DEF TypeOK
<1>u. /\ Len(portRsp) \in Nat /\ Len(openTuples) \in Nat /\ portReq \in Nat /\ FifoDepth \in Nat
  BY <1>t, PortNumbers DEF Fifo
<1>1. CASE UNCHANGED freeGroup
  BY <1>1, <1>t DEF freeGroup
<1>2. ASSUME NEW p \in Peers, OpenReq(p) PROVE FreeType'
  <2>1. openReqs' \in Fifo(Peers)
    BY <1>2, <1>t, FifoAppend DEF OpenReq
  <2>. QED BY <1>2, <1>t, <2>1 DEF OpenReq, portVars, freeVars
<1>3. CASE OpenConn
  <2>1. Head(openReqs) \in Peers /\ openReqs' \in Fifo(Peers)
    BY <1>3, <1>t, FifoTail DEF OpenConn, TakesRequest
  <2>2. openTuples' \in Fifo(Peers) /\ Len(openTuples') = Len(openTuples) + 1
    BY <1>3, <1>t, <2>1, FifoAppend DEF OpenConn
  <2>3. portReq' = portReq + 1 /\ portReq' \in 0 .. FifoDepth
    BY <1>3, <1>t, <1>u DEF OpenConn, TakesRequest
  <2>. QED BY <1>3, <1>t, <1>u, <2>1, <2>2, <2>3 DEF OpenConn
<1>4. CASE PortReply
  <2>1. portRsp' \in Fifo(0 .. Half - 1) /\ Len(portRsp') = Len(portRsp) - 1 /\ Len(portRsp) > 0
    BY <1>4, <1>t, FifoTail DEF PortReply
  <2>2. openTuples # <<>>
    BY <1>t, <1>u, <2>1
  <2>3. openTuples' \in Fifo(Peers) /\ Len(openTuples') = Len(openTuples) - 1
    BY <1>4, <1>t, <2>2, FifoTail DEF PortReply
  <2>. QED BY <1>4, <1>t, <1>u, <2>1, <2>3 DEF PortReply
<1>5. CASE PortMove(SearchLook)
  <2>. DEFINE b == search.port \in used
  <2>0. b \in BOOLEAN /\ search' = [search EXCEPT !.state = "eval", !.temp = b]
    BY <1>5 DEF PortMove, SearchLook
  <2>. HIDE DEF b
  <2>1. search' \in [state : {"idle", "searching", "eval"}, port : 0 .. Half - 1, temp : BOOLEAN]
        /\ search.state # "idle" /\ search'.state # "idle"
    BY <1>5, <1>t, <2>0 DEF PortMove, SearchLook
  <2>. QED BY <1>5, <1>t, <2>1 DEF PortMove, SearchLook, appVars
<1>6. CASE PortMove(SearchEval)
  <2>1. (search.port + 1) % Half \in 0 .. Half - 1 /\ search.port \in 0 .. Half - 1
    <3>. DEFINE n == search.port + 1
    <3>1. n \in Nat /\ Half \in Nat \ {0}
      BY <1>t, PortNumbers
    <3>. HIDE DEF n
    <3>2. n % Half \in 0 .. Half - 1
      BY <3>1
    <3>. QED BY <1>t, <3>2 DEF n
  <2>2. search' \in [state : {"idle", "searching", "eval"}, port : 0 .. Half - 1, temp : BOOLEAN]
    BY <1>6, <1>t, <2>1 DEF PortMove, SearchEval
  <2>3. CASE search.temp
    BY <1>6, <1>t, <2>2, <2>3 DEF PortMove, SearchEval, appVars
  <2>4. CASE ~search.temp
    <3>0. Room(portRsp) /\ portRsp' = Append(portRsp, search.port)
      BY <1>6, <2>4 DEF PortMove, SearchEval
    <3>1. /\ portRsp' \in Fifo(0 .. Half - 1) /\ Len(portRsp') = Len(portRsp) + 1
      <4>1. portRsp \in Fifo(0 .. Half - 1) /\ search.port \in 0 .. Half - 1
        BY <1>t
      <4>. QED BY <4>1, <3>0, FifoAppend
    <3>2. used' \subseteq 0 .. Half - 1
      BY <1>6, <1>t, <2>1, <2>4 DEF PortMove, SearchEval
    <3>3. UNCHANGED <<portReq, openReqs, openTuples>> /\ search.state = "eval" /\ search'.state = "idle"
      BY <1>6, <2>4 DEF PortMove, SearchEval, appVars
    <3>. QED BY <1>t, <1>u, <2>2, <3>1, <3>2, <3>3
  <2>. QED BY <2>3, <2>4
<1>7. CASE PortMove(SearchStart)
  <2>1. search' \in [state : {"idle", "searching", "eval"}, port : 0 .. Half - 1, temp : BOOLEAN]
    BY <1>7, <1>t DEF PortMove, SearchStart
  <2>2. search.state = "idle" /\ search'.state = "searching" /\ portReq' = portReq - 1 /\ portReq > 0
    BY <1>7, <1>t DEF PortMove, SearchStart
  <2>3. portReq' \in 0 .. FifoDepth
    BY <1>t, <1>u, <2>2
  <2>4. UNCHANGED <<used, portRsp, openReqs, openTuples>>
    BY <1>7 DEF PortMove, SearchStart, appVars
  <2>. QED BY <1>t, <1>u, <2>1, <2>2, <2>3, <2>4
<1>8. CASE PortMove(Release)
  BY <1>8, <1>t DEF PortMove, Release, appVars
<1>. QED BY <1>1, <1>2, <1>3, <1>4, <1>5, <1>6, <1>7, <1>8, FreeMoves

LEMMA LookupTypeStep ==
  ASSUME TypeOK, [Next]_vars
  PROVE  LookupType'
<1>. USE DEF LookupType
<1>t. LookupType
  BY DEF TypeOK
<1>. DEFINE Query == [tuple : Tuple \cup {NoTuple}, create : BOOLEAN, source : Source]
            Lup == [state : {"LUP_REQ", "LUP_RSP", "UPD_RSP"}, query : Query]
<1>n. NoQuery \in Query
  BY DEF NoQuery, Source
<1>1. CASE UNCHANGED lookupVars
  BY <1>1, <1>t DEF lookupVars
<1>2. CASE Meta
  <2>1. packets # <<>> /\ packets \in Fifo(Packet)
    BY <1>2 DEF Meta, TypeOK, RxType
  <2>2. Head(packets) \in Packet
    BY <2>1, FifoTail
  <2>3. [tuple |-> Head(packets).tuple, allowCreation |-> Head(packets).kind = "SYN"]
          \in [tuple : Tuple, allowCreation : BOOLEAN]
    BY <2>2 DEF Packet
  <2>4. rxReq' \in Fifo([tuple : Tuple, allowCreation : BOOLEAN])
    <3>. DEFINE r == [tuple |-> Head(packets).tuple, allowCreation |-> Head(packets).kind = "SYN"]
    <3>1. rxReq' = rxReq \/ (Room(rxReq) /\ rxReq' = Append(rxReq, r))
      BY <1>2 DEF Meta
    <3>2. rxReq \in Fifo([tuple : Tuple, allowCreation : BOOLEAN])
      BY <1>t
    <3>3. r \in [tuple : Tuple, allowCreation : BOOLEAN]
      BY <2>3
    <3>. HIDE DEF r
    <3>4. Room(rxReq) => Append(rxReq, r) \in Fifo([tuple : Tuple, allowCreation : BOOLEAN])
      BY <3>2, <3>3, FifoAppend
    <3>. QED BY <3>1, <3>2, <3>4
  <2>. QED BY <1>2, <1>t, <2>4 DEF Meta
<1>3. CASE Lookup
  <2>1. rxRsp' \in Fifo(SessionReply)
    BY <1>3, <1>t, FifoTail DEF Lookup
  <2>. QED BY <1>3, <1>t, <2>1 DEF Lookup
<1>4. CASE LookupReply
  <2>1. appRsp' \in Fifo(SessionReply)
    BY <1>4, <1>t, FifoTail DEF LookupReply
  <2>. QED BY <1>4, <1>t, <2>1 DEF LookupReply
<1>5. CASE PortReply
  <2>1. portRsp # <<>> /\ portRsp \in Fifo(0 .. Half - 1) /\ Len(portRsp) \in Nat
    BY <1>5 DEF PortReply, TypeOK, FreeType, Fifo
  <2>2. openTuples \in Fifo(Peers) /\ openTuples # <<>>
    BY SMTT(30), <2>1, PortNumbers DEF TypeOK, FreeType, Fifo
  <2>3. Head(portRsp) \in 0 .. Half - 1 /\ Head(openTuples) \in Peers
    BY <2>1, <2>2, FifoTail
  <2>4. Head(portRsp) + Half \in Ports
    BY <2>3, PortNumbers
  <2>5. [port |-> ByteSwap(Head(portRsp) + Half), peer |-> Head(openTuples)] \in Tuple
    BY <2>3, <2>4, SwapType DEF Tuple
  <2>6. appReq' \in Fifo(Tuple)
    BY <1>5, <1>t, <2>5, FifoAppend DEF PortReply
  <2>. QED BY <1>5, <1>t, <2>6 DEF PortReply
<1>6. CASE AskApp
  <2>1. Head(appReq) \in Tuple /\ appReq' \in Fifo(Tuple)
    BY <1>6, <1>t, FifoTail DEF AskApp
  <2>2. camReq' \in Fifo(Tuple)
    BY <1>6, <1>t, <2>1, FifoAppend DEF AskApp, Ask
  <2>3. lup' \in Lup /\ lup'.query.tuple \in Tuple
    BY <1>6, <2>1 DEF AskApp, Ask, Source
  <2>. QED BY <1>6, <1>t, <2>1, <2>2, <2>3 DEF AskApp, Ask
<1>7. CASE AskRx
  <2>1. Head(rxReq) \in [tuple : Tuple, allowCreation : BOOLEAN] /\ rxReq' \in Fifo([tuple : Tuple, allowCreation : BOOLEAN])
    BY <1>7, <1>t, FifoTail DEF AskRx
  <2>2. camReq' \in Fifo(Tuple)
    BY <1>7, <1>t, <2>1, FifoAppend DEF AskRx, Ask
  <2>3. lup' \in Lup /\ lup'.query.tuple \in Tuple
    BY <1>7, <2>1 DEF AskRx, Ask, Source
  <2>. QED BY <1>7, <1>t, <2>1, <2>2, <2>3 DEF AskRx, Ask
<1>8. CASE Create
  <2>1. camRsp' \in Fifo(Ids \cup {None})
    BY <1>8, <1>t, FifoTail DEF Create
  <2>2. lup' \in Lup /\ lup'.query = lup.query /\ lup.query.tuple \in Tuple
    BY <1>8, <1>t DEF Create, Created
  <2>. QED BY <1>8, <1>t, <2>1, <2>2 DEF Create
<1>9. CASE LookupAnswer
  <2>1. Head(camRsp) \in Ids \cup {None} /\ camRsp' \in Fifo(Ids \cup {None})
    BY <1>9, <1>t, FifoTail DEF LookupAnswer
  <2>. DEFINE r == [id |-> Head(camRsp), hit |-> Head(camRsp) # None]
  <2>2. r \in SessionReply
    BY <2>1 DEF SessionReply
  <2>3. Reply(lup.query.source, r) /\ UNCHANGED <<rxReq, appReq, camReq>>
        /\ lup' = [state |-> "LUP_REQ", query |-> NoQuery]
    BY <1>9 DEF LookupAnswer
  <2>. HIDE DEF r
  <2>4. rxRsp' \in Fifo(SessionReply) /\ appRsp' \in Fifo(SessionReply)
    <3>1. rxRsp \in Fifo(SessionReply) /\ appRsp \in Fifo(SessionReply)
      BY <1>t
    <3>2. CASE Room(rxRsp) /\ rxRsp' = Append(rxRsp, r) /\ appRsp' = appRsp
      BY <2>2, <3>1, <3>2, FifoAppend
    <3>3. CASE Room(appRsp) /\ appRsp' = Append(appRsp, r) /\ rxRsp' = rxRsp
      BY <2>2, <3>1, <3>3, FifoAppend
    <3>. QED BY <2>3, <3>2, <3>3 DEF Reply
  <2>. QED BY <1>t, <1>n, <2>1, <2>3, <2>4
<1>10. CASE InsertAnswer
  <2>1. Head(insertRsp) \in Insertion
    BY <1>10, FifoTail DEF InsertAnswer, TypeOK, UpdateType
  <2>. DEFINE r == [id |-> Head(insertRsp).id, hit |-> TRUE]
  <2>2. r \in SessionReply
    BY <2>1 DEF SessionReply, Insertion
  <2>3. Reply(Head(insertRsp).source, r) /\ UNCHANGED <<rxReq, appReq, camReq, camRsp>>
        /\ lup' = [state |-> "LUP_REQ", query |-> NoQuery]
    BY <1>10 DEF InsertAnswer
  <2>. HIDE DEF r
  <2>4. rxRsp' \in Fifo(SessionReply) /\ appRsp' \in Fifo(SessionReply)
    <3>1. rxRsp \in Fifo(SessionReply) /\ appRsp \in Fifo(SessionReply)
      BY <1>t
    <3>2. CASE Room(rxRsp) /\ rxRsp' = Append(rxRsp, r) /\ appRsp' = appRsp
      BY <2>2, <3>1, <3>2, FifoAppend
    <3>3. CASE Room(appRsp) /\ appRsp' = Append(appRsp, r) /\ rxRsp' = rxRsp
      BY <2>2, <3>1, <3>3, FifoAppend
    <3>. QED BY <2>3, <3>2, <3>3 DEF Reply
  <2>. QED BY <1>t, <1>n, <2>3, <2>4
<1>11. CASE CamLookup
  <2>1. Head(camReq) \in Tuple /\ camReq' \in Fifo(Tuple)
    BY <1>11, <1>t, FifoTail DEF CamLookup
  <2>2. cam[Head(camReq)] \in Ids \cup {None}
    BY <2>1 DEF TypeOK, UpdateType
  <2>3. camRsp' \in Fifo(Ids \cup {None})
    BY <1>11, <1>t, <2>2, FifoAppend DEF CamLookup
  <2>. QED BY <1>11, <1>t, <2>1, <2>3 DEF CamLookup
<1>. QED BY <1>1, <1>2, <1>3, <1>4, <1>5, <1>6, <1>7, <1>8, <1>9, <1>10, <1>11, LookupMoves
         DEF LookupReplyHandler

LEMMA RxTypeStep ==
  ASSUME TypeOK, [Next]_vars
  PROVE  RxType'
<1>. USE DEF RxType
<1>t. RxType
  BY DEF TypeOK
<1>1. CASE UNCHANGED rxGroup
  BY <1>1, <1>t DEF rxGroup
<1>2. ASSUME NEW p \in Packet, Arrive(p) PROVE RxType'
  <2>1. packets' \in Fifo(Packet)
    BY <1>2, <1>t, FifoAppend DEF Arrive
  <2>. QED BY <1>2, <1>t, <2>1 DEF Arrive, appVars
<1>3. ASSUME NEW i \in Ids, TimeOut(i) PROVE RxType'
  BY <1>3, <1>t DEF TimeOut, rxVars, appVars
<1>4. CASE Meta
  <2>1. packets' \in Fifo(Packet) /\ Head(packets) \in Packet
    BY <1>4, <1>t, FifoTail DEF Meta
  <2>. QED BY <1>4, <1>t, <2>1 DEF Meta, appVars
<1>5. CASE Lookup
  <2>1. rxRsp \in Fifo(SessionReply) /\ rxRsp # <<>>
    BY <1>5 DEF Lookup, TypeOK, LookupType
  <2>2. Head(rxRsp) \in SessionReply
    BY <2>1, FifoTail
  <2>3. mh.packet.kind \in Kind
    BY <1>5, <1>t DEF Lookup, Packet
  <2>4. Head(rxRsp).hit => [id |-> Head(rxRsp).id, kind |-> mh.packet.kind] \in [id : Ids, kind : Kind]
    BY <2>2, <2>3 DEF SessionReply
  <2>5. fsm' \in Fifo([id : Ids, kind : Kind])
    <3>1. fsm \in Fifo([id : Ids, kind : Kind])
      BY <1>t
    <3>2. CASE Head(rxRsp).hit
      <4>1. Room(fsm) /\ fsm' = Append(fsm, [id |-> Head(rxRsp).id, kind |-> mh.packet.kind])
        BY <1>5, <3>2 DEF Lookup
      <4>. QED BY <2>4, <3>1, <3>2, <4>1, FifoAppend
    <3>3. CASE ~Head(rxRsp).hit
      BY <1>5, <3>1, <3>3 DEF Lookup
    <3>. QED BY <3>2, <3>3
  <2>. QED BY <1>5, <1>t, <2>5 DEF Lookup, appVars
<1>6. CASE RxTcpFsm
  <2>1. Head(fsm) \in [id : Ids, kind : Kind] /\ fsm' \in Fifo([id : Ids, kind : Kind])
    BY <1>6, <1>t, FifoTail DEF RxTcpFsm
  <2>2. alive' \subseteq Ids
    BY <1>6, <1>t, <2>1 DEF RxTcpFsm
  <2>. QED BY <1>6, <1>t, <2>1, <2>2 DEF RxTcpFsm, appVars
<1>7. CASE LookupReply
  <2>1. Head(appRsp) \in SessionReply
    BY <1>7, FifoTail DEF LookupReply, TypeOK, LookupType
  <2>2. alive' \subseteq Ids /\ answers' \in Nat
    BY <1>7, <1>t, <2>1 DEF LookupReply, SessionReply
  <2>. QED BY <1>7, <1>t, <2>2 DEF LookupReply, rxVars
<1>. QED BY <1>1, <1>2, <1>3, <1>4, <1>5, <1>6, <1>7, RxMoves

LEMMA UpdateTypeStep ==
  ASSUME TypeOK, [Next]_vars
  PROVE  UpdateType'
<1>. USE DEF UpdateType
<1>t. UpdateType
  BY DEF TypeOK
<1>i. \A i \in Insertion \cup Deletion : i \in Update /\ i.id \in Ids /\ i.tuple \in Tuple
  BY DEF Update, Insertion, Deletion
<1>1. CASE UNCHANGED updateGroup
  BY <1>1, <1>t DEF updateGroup, idVars, updateVars, reverseVars
<1>2. CASE RxTcpFsm
  <2>1. fsm \in Fifo([id : Ids, kind : Kind]) /\ fsm # <<>>
    BY <1>2 DEF RxTcpFsm, TypeOK, RxType
  <2>0. Head(fsm) \in [id : Ids, kind : Kind]
    BY <2>1, FifoTail
  <2>2. Head(fsm).id \in Ids
    BY <2>0
  <2>3. releases' = releases \/ (Room(releases) /\ releases' = Append(releases, Head(fsm).id))
    BY <1>2 DEF RxTcpFsm
  <2>4. releases' \in Fifo(Ids)
    <3>1. Room(releases) => Append(releases, Head(fsm).id) \in Fifo(Ids)
      BY <1>t, <2>2, FifoAppend
    <3>. QED BY <1>t, <2>3, <3>1
  <2>. QED BY <1>2, <1>t, <2>4 DEF RxTcpFsm, portVars, freeVars, idVars, updateVars
<1>3. ASSUME NEW i \in Ids, TimeOut(i) PROVE UpdateType'
  <2>1. releases' \in Fifo(Ids)
    BY <1>3, <1>t, FifoAppend DEF TimeOut
  <2>. QED BY <1>3, <1>t, <2>1 DEF TimeOut, portVars, freeVars, idVars, updateVars
<1>4. CASE PortMove(Release)
  <2>1. releasePort' \in Fifo(Ports)
    BY <1>4, <1>t, FifoTail DEF PortMove, Release
  <2>. QED BY <1>4, <1>t, <2>1 DEF PortMove, Release, sessionVars, idVars, updateVars, reverseVars
<1>5. CASE LookupMove(IdReturned)
  <2>1. finIds' \in Fifo(Ids) /\ Head(finIds) \in Ids
    BY <1>5, <1>t, FifoTail DEF LookupMove, IdReturned
  <2>2. freeIds' \in Seq(Ids)
    BY <1>5, <1>t, <2>1 DEF LookupMove, IdReturned
  <2>. QED BY <1>5, <1>t, <2>1, <2>2
           DEF LookupMove, IdReturned, updateVars, reverseVars, portVars, freeVars
<1>6. CASE LookupMove(IdCounted)
  <2>1. counter \in Ids /\ counter' \in 0 .. MaxSessions
    BY <1>6, <1>t, PortNumbers DEF LookupMove, IdCounted, Ids
  <2>2. freeIds' \in Seq(Ids)
    BY <1>6, <1>t, <2>1 DEF LookupMove, IdCounted
  <2>. QED BY <1>6, <1>t, <2>1, <2>2
           DEF LookupMove, IdCounted, updateVars, reverseVars, portVars, freeVars
<1>7. CASE LookupMove(Create)
  <2>1. freeIds # <<>> /\ Head(freeIds) \in Ids /\ freeIds' \in Seq(Ids)
    BY <1>7, <1>t DEF LookupMove, Create, Creates
  <2>2. lup.query.tuple \in Tuple /\ lup.query.source \in Source
    BY <1>7 DEF LookupMove, Create, TypeOK, LookupType
  <2>. DEFINE u == [op |-> "INSERT", tuple |-> lup.query.tuple,
                    id |-> Head(freeIds), source |-> lup.query.source]
  <2>3. u \in Insertion
    BY <2>1, <2>2 DEF Insertion
  <2>4. insertReq' \in Fifo(Insertion)
    <3>1. Room(insertReq) /\ insertReq' = Append(insertReq, u)
      BY <1>7 DEF LookupMove, Create
    <3>. HIDE DEF u
    <3>. QED BY <1>t, <2>3, <3>1, FifoAppend
  <2>. QED BY <1>7, <1>t, <2>1, <2>4 DEF LookupMove, Create, reverseVars, portVars, freeVars
<1>8. CASE LookupMove(InsertAnswer)
  <2>1. Head(insertRsp) \in Insertion /\ insertRsp' \in Fifo(Insertion)
    BY <1>8, <1>t, FifoTail DEF LookupMove, InsertAnswer
  <2>2. lup.query.tuple \in Tuple
    BY <1>8 DEF LookupMove, InsertAnswer, TypeOK, LookupType
  <2>3. [id |-> Head(insertRsp).id, tuple |-> lup.query.tuple] \in Entry
    BY <2>1, <2>2 DEF Insertion, Entry
  <2>4. revInserts' \in Fifo(Entry)
    BY <1>8, <1>t, <2>3, FifoAppend DEF LookupMove, InsertAnswer
  <2>. QED BY <1>8, <1>t, <2>1, <2>4 DEF LookupMove, InsertAnswer, idVars, portVars, freeVars
<1>9. CASE LookupMove(SendInsert)
  <2>1. Head(insertReq) \in Insertion /\ insertReq' \in Fifo(Insertion)
    BY <1>9, <1>t, FifoTail DEF LookupMove, SendInsert
  <2>2. updateReq' \in Fifo(Update)
    BY <1>9, <1>t, <1>i, <2>1, FifoAppend DEF LookupMove, SendInsert
  <2>. QED BY <1>9, <1>t, <2>1, <2>2 DEF LookupMove, SendInsert, idVars, reverseVars, portVars, freeVars
<1>10. CASE LookupMove(SendDelete)
  <2>1. Head(deleteReq) \in Deletion /\ deleteReq' \in Fifo(Deletion)
    BY <1>10, <1>t, FifoTail DEF LookupMove, SendDelete
  <2>2. updateReq' \in Fifo(Update) /\ finIds' \in Fifo(Ids)
    BY <1>10, <1>t, <1>i, <2>1, FifoAppend DEF LookupMove, SendDelete
  <2>. QED BY <1>10, <1>t, <2>1, <2>2 DEF LookupMove, SendDelete, reverseVars, portVars, freeVars
<1>11. CASE LookupMove(UpdateReply)
  <2>1. Head(updateRsp) \in Update /\ updateRsp' \in Fifo(Update)
    BY <1>11, <1>t, FifoTail DEF LookupMove, UpdateReply
  <2>2. Head(updateRsp).op = "INSERT" => Head(updateRsp) \in Insertion
    BY <2>1 DEF Update, Insertion, Deletion
  <2>3. insertRsp' \in Fifo(Insertion)
    <3>1. CASE Head(updateRsp).op = "INSERT"
      BY <1>11, <1>t, <2>2, <3>1, FifoAppend DEF LookupMove, UpdateReply
    <3>2. CASE Head(updateRsp).op # "INSERT"
      BY <1>11, <1>t, <3>2 DEF LookupMove, UpdateReply
    <3>. QED BY <3>1, <3>2
  <2>. QED BY <1>11, <1>t, <2>1, <2>3 DEF LookupMove, UpdateReply, idVars, reverseVars, portVars, freeVars
<1>12. CASE LookupMove(CamUpdate)
  <2>1. Head(updateReq) \in Update /\ updateReq' \in Fifo(Update)
    BY <1>12, <1>t, FifoTail DEF LookupMove, CamUpdate
  <2>2. updateRsp' \in Fifo(Update)
    BY <1>12, <1>t, <2>1, FifoAppend DEF LookupMove, CamUpdate
  <2>3. cam' \in [Tuple -> Ids \cup {None}]
    BY <1>12, <1>t, <1>i, <2>1 DEF LookupMove, CamUpdate, Update
  <2>. QED BY <1>12, <1>t, <2>1, <2>2, <2>3 DEF LookupMove, CamUpdate, idVars, reverseVars, portVars, freeVars
<1>13. CASE ReverseInsert
  <2>1. Head(revInserts) \in Entry /\ revInserts' \in Fifo(Entry)
    BY <1>13, <1>t, FifoTail DEF ReverseInsert
  <2>2. Head(revInserts).id \in Ids /\ Head(revInserts).tuple \in Tuple
    BY <2>1 DEF Entry
  <2>3. reverse' \in [Ids -> Tuple \cup {NoTuple}]
    BY <1>13, <1>t, <2>2 DEF ReverseInsert
  <2>4. \A id \in tupleValid' : id \in Ids /\ reverse'[id] \in Tuple
    BY <1>13, <1>t, <2>2 DEF ReverseInsert
  <2>. QED BY <1>13, <1>t, <2>1, <2>3, <2>4 DEF ReverseInsert, idVars, updateVars, portVars, freeVars
<1>14. CASE ReverseRelease
  <2>1. Head(releases) \in Ids /\ releases' \in Fifo(Ids)
    BY <1>14, <1>t, FifoTail DEF ReverseRelease
  <2>2. CASE Head(releases) \in tupleValid
    <3>. DEFINE id == Head(releases)
                u == [op |-> "DELETE", tuple |-> reverse[id], id |-> id, source |-> "RX"]
    <3>1. reverse[id] \in Tuple
      BY <1>t, <2>2
    <3>2. reverse[id].port \in Ports /\ u \in Deletion
      BY <2>1, <3>1 DEF Tuple, Deletion, Source
    <3>3. /\ Room(releasePort) /\ releasePort' = Append(releasePort, reverse[id].port)
          /\ Room(deleteReq) /\ deleteReq' = Append(deleteReq, u)
      BY <1>14, <2>2 DEF ReverseRelease, Delete
    <3>. HIDE DEF u
    <3>4. releasePort' \in Fifo(Ports) /\ deleteReq' \in Fifo(Deletion)
      BY <1>t, <3>2, <3>3, FifoAppend
    <3>. QED BY <1>14, <1>t, <2>1, <3>4 DEF ReverseRelease, idVars
  <2>3. CASE Head(releases) \notin tupleValid
    BY <1>14, <1>t, <2>1, <2>3 DEF ReverseRelease, idVars
  <2>. QED BY <2>2, <2>3
<1>. QED BY <1>1, <1>2, <1>3, <1>4, <1>5, <1>6, <1>7, <1>8, <1>9, <1>10, <1>11, <1>12, <1>13, <1>14,
            UpdateMoves

LEMMA InitType == Init => TypeOK
<1>1. SUFFICES ASSUME Init PROVE TypeOK
  OBVIOUS
<1>2. CheckType
  BY <1>1, FifoEmpty DEF Init, PortInit, CheckType
<1>3. FreeType
  BY <1>1, FifoEmpty, PortNumbers DEF Init, PortInit, FreeType
<1>4. LookupType
  BY <1>1, FifoEmpty DEF Init, SessionInit, LookupType, NoQuery, Source
<1>5. UpdateType
  BY <1>1, FifoEmpty, PortNumbers DEF Init, SessionInit, PortInit, UpdateType
<1>6. RxType
  BY <1>1, FifoEmpty DEF Init, RxType
<1>. QED BY <1>2, <1>3, <1>4, <1>5, <1>6 DEF TypeOK

LEMMA TypeStep == TypeOK /\ [Next]_vars => TypeOK'
BY CheckTypeStep, FreeTypeStep, LookupTypeStep, UpdateTypeStep, RxTypeStep DEF TypeOK

-----------------------------------------------------------------------------
(* A step moves an id from one place to the next. *)
Places(id) == Spare(id) + UnderWay(id) + (IF id \in tupleValid THEN 1 ELSE 0)

LEMMA IdsStep ==
  ASSUME TypeOK, IdsAccounted, [Next]_vars, NEW id \in Ids
  PROVE  Places(id)' = 1
<1>. DEFINE I == Updates("INSERT", id)
            D == Updates("DELETE", id)
            E == [id : {id}, tuple : Tuple]
<1>t. UpdateType
  BY DEF TypeOK
<1>s. /\ finIds \in Seq(Ids) /\ freeIds \in Seq(Ids) /\ counter \in Nat /\ id \in Nat
      /\ insertReq \in Seq(Insertion) /\ insertRsp \in Seq(Insertion)
      /\ updateReq \in Seq(Update) /\ updateRsp \in Seq(Update)
      /\ deleteReq \in Seq(Deletion) /\ revInserts \in Seq(Entry)
  BY <1>t, PortNumbers DEF UpdateType, Fifo, Ids
<1>. DEFINE nFin == Count(finIds, {id})
            nFree == Count(freeIds, {id})
            nNew == IF id >= counter THEN 1 ELSE 0
            nReq == Count(insertReq, I)
            nUpd == Count(updateReq, I)
            nRsp == Count(updateRsp, I)
            nIns == Count(insertRsp, I)
            nRev == Count(revInserts, E)
            nDel == Count(deleteReq, D)
            nValid == IF id \in tupleValid THEN 1 ELSE 0
            Sum == nFin + nFree + nNew + (nReq + nUpd + nRsp + nIns + nRev + nDel) + nValid
<1>n. /\ nFin \in Nat /\ nFree \in Nat /\ nNew \in Nat /\ nReq \in Nat /\ nUpd \in Nat
      /\ nRsp \in Nat /\ nIns \in Nat /\ nRev \in Nat /\ nDel \in Nat /\ nValid \in Nat
  <2>. HIDE DEF I, D, E
  <2>. QED BY <1>s, CountType
<1>0. Sum = 1
  BY DEF IdsAccounted, Spare, UnderWay
<1>g. SUFFICES Sum' = 1
  BY DEF Places, Spare, UnderWay
<1>i. /\ \A u \in Insertion : (u \in I <=> u.id = id) /\ u \notin D
      /\ \A u \in Deletion : (u \in D <=> u.id = id) /\ u \notin I
      /\ \A u \in Entry : u \in E <=> u.id = id
      /\ \A u \in Insertion \cup Deletion : u \in Update
  BY DEF Updates, Insertion, Deletion, Entry, Source, Update
<1>. HIDE DEF I, D, E, nFin, nFree, nNew, nReq, nUpd, nRsp, nIns, nRev, nDel, nValid
<1>1. CASE UNCHANGED updateGroup \/ RxTcpFsm \/ (\E i \in Ids : TimeOut(i)) \/ PortMove(Release)
  <2>1. UNCHANGED <<finIds, freeIds, counter, insertReq, updateReq, updateRsp, insertRsp, revInserts,
                    deleteReq, tupleValid>>
    BY <1>1 DEF updateGroup, idVars, updateVars, reverseVars, RxTcpFsm, TimeOut, PortMove, Release,
                sessionVars
  <2>u. UNCHANGED <<nFin, nFree, nNew, nReq, nUpd, nRsp, nIns, nRev, nDel, nValid>>
    BY <2>1 DEF nFin, nFree, nNew, nReq, nUpd, nRsp, nIns, nRev, nDel, nValid
  <2>. QED BY <1>0, <1>n, <2>u
<1>2. CASE LookupMove(IdReturned)
  <2>1. /\ finIds # <<>> /\ finIds' = Tail(finIds) /\ freeIds' = Append(freeIds, Head(finIds))
        /\ UNCHANGED <<counter, insertReq, updateReq, updateRsp, insertRsp, revInserts, deleteReq, tupleValid>>
    BY <1>2 DEF LookupMove, IdReturned, updateVars, reverseVars
  <2>u. UNCHANGED <<nNew, nReq, nUpd, nRsp, nIns, nRev, nDel, nValid>>
    BY <2>1 DEF nNew, nReq, nUpd, nRsp, nIns, nRev, nDel, nValid
  <2>2. Gives(finIds, finIds', {id}, Head(finIds)) /\ Head(finIds) \in Ids
    BY <1>s, <2>1, CountGives
  <2>3. Gets(freeIds, freeIds', {id}, Head(finIds))
    BY <1>s, <2>1, <2>2, CountGets
  <2>m. \/ nFin' = nFin - 1 /\ nFree' = nFree + 1
        \/ nFin' = nFin /\ nFree' = nFree
    BY <1>n, <2>2, <2>3 DEF Gets, Gives, nFin, nFree
  <2>. QED BY <1>0, <1>n, <2>u, <2>m
<1>3. CASE LookupMove(IdCounted)
  <2>1. /\ counter' = counter + 1 /\ freeIds' = Append(freeIds, counter) /\ counter \in Ids
        /\ UNCHANGED <<finIds, insertReq, updateReq, updateRsp, insertRsp, revInserts, deleteReq, tupleValid>>
    BY <1>3, <1>s, PortNumbers DEF LookupMove, IdCounted, updateVars, reverseVars, Ids
  <2>u. UNCHANGED <<nFin, nReq, nUpd, nRsp, nIns, nRev, nDel, nValid>>
    BY <2>1 DEF nFin, nReq, nUpd, nRsp, nIns, nRev, nDel, nValid
  <2>2. Gets(freeIds, freeIds', {id}, counter)
    BY <1>s, <2>1, CountGets
  <2>m. \/ nNew' = nNew - 1 /\ nFree' = nFree + 1
        \/ nNew' = nNew /\ nFree' = nFree
    BY <2>1, <1>n, <1>s, <2>2 DEF Gets, Gives, nNew, nFree
  <2>. QED BY <1>0, <1>n, <2>u, <2>m
<1>4. CASE LookupMove(Create)
  <2>. DEFINE u == [op |-> "INSERT", tuple |-> lup.query.tuple,
                    id |-> Head(freeIds), source |-> lup.query.source]
  <2>1. /\ freeIds # <<>> /\ freeIds' = Tail(freeIds) /\ insertReq' = Append(insertReq, u)
        /\ UNCHANGED <<finIds, counter, updateReq, updateRsp, insertRsp, revInserts, deleteReq, tupleValid>>
    BY <1>4 DEF LookupMove, Create, Creates, reverseVars
  <2>u. UNCHANGED <<nFin, nNew, nUpd, nRsp, nIns, nRev, nDel, nValid>>
    BY <2>1 DEF nFin, nNew, nUpd, nRsp, nIns, nRev, nDel, nValid
  <2>2. u \in Insertion /\ u.id = Head(freeIds)
    <3>1. Head(freeIds) \in Ids
      BY <1>s, <2>1
    <3>2. lup.query.tuple \in Tuple /\ lup.query.source \in Source
      BY <1>4 DEF LookupMove, Create, TypeOK, LookupType
    <3>. QED BY <3>1, <3>2 DEF Insertion
  <2>. HIDE DEF u
  <2>3. Gives(freeIds, freeIds', {id}, Head(freeIds))
    BY <1>s, <2>1, CountGives
  <2>4. Gets(insertReq, insertReq', I, u)
    BY <1>s, <2>1, <2>2, CountGets
  <2>m. \/ nFree' = nFree - 1 /\ nReq' = nReq + 1
        \/ nFree' = nFree /\ nReq' = nReq
    BY <1>n, <1>i, <2>2, <2>3, <2>4 DEF Gets, Gives, nFree, nReq
  <2>. QED BY <1>0, <1>n, <2>u, <2>m
<1>5. CASE LookupMove(InsertAnswer)
  <2>. DEFINE u == Head(insertRsp)
              e == [id |-> u.id, tuple |-> lup.query.tuple]
  <2>1. /\ insertRsp # <<>> /\ insertRsp' = Tail(insertRsp) /\ revInserts' = Append(revInserts, e)
        /\ UNCHANGED <<finIds, freeIds, counter, insertReq, updateReq, updateRsp, deleteReq, tupleValid>>
    BY <1>5 DEF LookupMove, InsertAnswer, idVars
  <2>u. UNCHANGED <<nFin, nFree, nNew, nReq, nUpd, nRsp, nDel, nValid>>
    BY <2>1 DEF nFin, nFree, nNew, nReq, nUpd, nRsp, nDel, nValid
  <2>2. u \in Insertion /\ e \in Entry /\ e.id = u.id
    <3>1. u \in Insertion
      BY <1>s, <2>1
    <3>2. lup.query.tuple \in Tuple
      BY <1>5 DEF LookupMove, InsertAnswer, TypeOK, LookupType
    <3>. QED BY <3>1, <3>2 DEF Insertion, Entry
  <2>. HIDE DEF e
  <2>3. Gives(insertRsp, insertRsp', I, u)
    BY <1>s, <2>1, CountGives
  <2>4. Gets(revInserts, revInserts', E, e)
    BY <1>s, <2>1, <2>2, CountGets
  <2>m. \/ nIns' = nIns - 1 /\ nRev' = nRev + 1
        \/ nIns' = nIns /\ nRev' = nRev
    BY <1>n, <1>i, <2>2, <2>3, <2>4 DEF Gets, Gives, nIns, nRev
  <2>. QED BY <1>0, <1>n, <2>u, <2>m
<1>6. CASE LookupMove(SendInsert)
  <2>. DEFINE u == Head(insertReq)
  <2>1. /\ insertReq # <<>> /\ insertReq' = Tail(insertReq) /\ updateReq' = Append(updateReq, u)
        /\ UNCHANGED <<finIds, freeIds, counter, updateRsp, insertRsp, revInserts, deleteReq, tupleValid>>
    BY <1>6 DEF LookupMove, SendInsert, idVars, reverseVars
  <2>u. UNCHANGED <<nFin, nFree, nNew, nRsp, nIns, nRev, nDel, nValid>>
    BY <2>1 DEF nFin, nFree, nNew, nRsp, nIns, nRev, nDel, nValid
  <2>2. u \in Insertion /\ u \in Update
    BY <1>s, <1>i, <2>1
  <2>3. Gives(insertReq, insertReq', I, u)
    BY <1>s, <2>1, CountGives
  <2>4. Gets(updateReq, updateReq', I, u)
    BY <1>s, <2>1, <2>2, CountGets
  <2>m. \/ nReq' = nReq - 1 /\ nUpd' = nUpd + 1
        \/ nReq' = nReq /\ nUpd' = nUpd
    BY <1>n, <2>3, <2>4 DEF Gets, Gives, nReq, nUpd
  <2>. QED BY <1>0, <1>n, <2>u, <2>m
<1>7. CASE LookupMove(SendDelete)
  <2>. DEFINE u == Head(deleteReq)
  <2>1. /\ deleteReq # <<>> /\ deleteReq' = Tail(deleteReq) /\ updateReq' = Append(updateReq, u)
        /\ finIds' = Append(finIds, u.id)
        /\ UNCHANGED <<freeIds, counter, insertReq, updateRsp, insertRsp, revInserts, tupleValid>>
    BY <1>7 DEF LookupMove, SendDelete, reverseVars
  <2>u. UNCHANGED <<nFree, nNew, nReq, nRsp, nIns, nRev, nValid>>
    BY <2>1 DEF nFree, nNew, nReq, nRsp, nIns, nRev, nValid
  <2>2. u \in Deletion /\ u \in Update /\ u.id \in Ids
    <3>1. u \in Deletion
      BY <1>s, <2>1
    <3>. QED BY <1>i, <3>1 DEF Deletion
  <2>3. Gives(deleteReq, deleteReq', D, u)
    BY <1>s, <2>1, CountGives
  <2>4. Gets(updateReq, updateReq', I, u)
    BY <1>s, <2>1, <2>2, CountGets
  <2>5. Gets(finIds, finIds', {id}, u.id)
    BY <1>s, <2>1, <2>2, CountGets
  <2>m. \/ nDel' = nDel - 1 /\ nFin' = nFin + 1 /\ nUpd' = nUpd
        \/ nDel' = nDel /\ nFin' = nFin /\ nUpd' = nUpd
    BY <1>n, <1>i, <2>2, <2>3, <2>4, <2>5 DEF Gets, Gives, nFin, nUpd, nDel
  <2>. QED BY <1>0, <1>n, <2>u, <2>m
<1>8. CASE LookupMove(UpdateReply)
  <2>. DEFINE u == Head(updateRsp)
  <2>1. /\ updateRsp # <<>> /\ updateRsp' = Tail(updateRsp)
        /\ insertRsp' = IF u.op = "INSERT" THEN Append(insertRsp, u) ELSE insertRsp
        /\ UNCHANGED <<finIds, freeIds, counter, insertReq, updateReq, revInserts, deleteReq, tupleValid>>
    BY <1>8 DEF LookupMove, UpdateReply, idVars, reverseVars
  <2>u. UNCHANGED <<nFin, nFree, nNew, nReq, nUpd, nRev, nDel, nValid>>
    BY <2>1 DEF nFin, nFree, nNew, nReq, nUpd, nRev, nDel, nValid
  <2>2. u \in Update
    BY <1>s, <2>1
  <2>3. Gives(updateRsp, updateRsp', I, u)
    BY <1>s, <2>1, CountGives
  <2>4. Gets(insertRsp, insertRsp', I, u)
    <3>1. CASE u \in Insertion
      <4>1. u.op = "INSERT" BY <3>1 DEF Insertion
      <4>. QED BY <1>s, <2>1, <3>1, <4>1, CountGets
    <3>2. CASE u \in Deletion
      <4>1. u.op # "INSERT" /\ u \notin I BY <1>i, <3>2 DEF Deletion
      <4>2. insertRsp' = insertRsp BY <2>1, <4>1
      <4>. QED BY <1>n, <4>1, <4>2 DEF Gets, nIns
    <3>. QED BY <2>2, <3>1, <3>2 DEF Update
  <2>m. \/ nRsp' = nRsp - 1 /\ nIns' = nIns + 1
        \/ nRsp' = nRsp /\ nIns' = nIns
    BY <1>n, <2>3, <2>4 DEF Gets, Gives, nRsp, nIns
  <2>. QED BY <1>0, <1>n, <2>u, <2>m
<1>9. CASE LookupMove(CamUpdate)
  <2>. DEFINE u == Head(updateReq)
  <2>1. /\ updateReq # <<>> /\ updateReq' = Tail(updateReq) /\ updateRsp' = Append(updateRsp, u)
        /\ UNCHANGED <<finIds, freeIds, counter, insertReq, insertRsp, revInserts, deleteReq, tupleValid>>
    BY <1>9 DEF LookupMove, CamUpdate, idVars, reverseVars
  <2>u. UNCHANGED <<nFin, nFree, nNew, nReq, nIns, nRev, nDel, nValid>>
    BY <2>1 DEF nFin, nFree, nNew, nReq, nIns, nRev, nDel, nValid
  <2>2. u \in Update
    BY <1>s, <2>1
  <2>3. Gives(updateReq, updateReq', I, u)
    BY <1>s, <2>1, CountGives
  <2>4. Gets(updateRsp, updateRsp', I, u)
    BY <1>s, <2>1, <2>2, CountGets
  <2>m. \/ nUpd' = nUpd - 1 /\ nRsp' = nRsp + 1
        \/ nUpd' = nUpd /\ nRsp' = nRsp
    BY <1>n, <2>3, <2>4 DEF Gets, Gives, nUpd, nRsp
  <2>. QED BY <1>0, <1>n, <2>u, <2>m
<1>10. CASE ReverseInsert
  <2>. DEFINE e == Head(revInserts)
  <2>1. /\ revInserts # <<>> /\ revInserts' = Tail(revInserts) /\ tupleValid' = tupleValid \cup {e.id}
        /\ UNCHANGED <<finIds, freeIds, counter, insertReq, updateReq, updateRsp, insertRsp, deleteReq>>
    BY <1>10 DEF ReverseInsert, idVars, updateVars
  <2>u. UNCHANGED <<nFin, nFree, nNew, nReq, nUpd, nRsp, nIns, nDel>>
    BY <2>1 DEF nFin, nFree, nNew, nReq, nUpd, nRsp, nIns, nDel
  <2>2. e \in Entry
    BY <1>s, <2>1
  <2>3. Gives(revInserts, revInserts', E, e)
    BY <1>s, <2>1, CountGives
  <2>4. e \in E <=> e.id = id
    BY <1>i, <2>2
  <2>. HIDE DEF e
  <2>5. nRev >= 1 => nValid = 0
    BY <1>0, <1>n
  <2>6. IF e.id = id THEN nRev' = nRev - 1 /\ nRev' \in Nat ELSE nRev' = nRev
    BY <2>3, <2>4 DEF Gives, nRev
  <2>7. IF e.id = id THEN nValid' = 1 ELSE nValid' = nValid
    BY <2>1 DEF nValid
  <2>m. \/ nRev' = nRev - 1 /\ nValid' = nValid + 1
        \/ nRev' = nRev /\ nValid' = nValid
    BY <1>n, <2>5, <2>6, <2>7
  <2>. QED BY <1>0, <1>n, <2>u, <2>m
<1>11. CASE ReverseRelease
  <2>. DEFINE r == Head(releases)
              u == [op |-> "DELETE", tuple |-> reverse[r], id |-> r, source |-> "RX"]
  <2>1. /\ tupleValid' = tupleValid \ {r}
        /\ deleteReq' = IF r \in tupleValid THEN Append(deleteReq, u) ELSE deleteReq
        /\ UNCHANGED <<finIds, freeIds, counter, insertReq, updateReq, updateRsp, insertRsp, revInserts>>
    BY <1>11 DEF ReverseRelease, Delete, idVars
  <2>u. UNCHANGED <<nFin, nFree, nNew, nReq, nUpd, nRsp, nIns, nRev>>
    BY <2>1 DEF nFin, nFree, nNew, nReq, nUpd, nRsp, nIns, nRev
  <2>2. CASE r \in tupleValid
    <3>1. u \in Deletion /\ u.id = r
      BY <1>t, <2>2 DEF UpdateType, Deletion, Source
    <3>. HIDE DEF u
    <3>2. Gets(deleteReq, deleteReq', D, u)
      BY <1>s, <2>1, <2>2, <3>1, CountGets
    <3>3. u \in D <=> r = id
      BY <1>i, <3>1
    <3>. HIDE DEF r
    <3>m. \/ nValid' = nValid - 1 /\ nDel' = nDel + 1
          \/ nValid' = nValid /\ nDel' = nDel
      BY <2>1, <1>n, <2>2, <3>2, <3>3 DEF Gets, Gives, nValid, nDel
    <3>. QED BY <1>0, <1>n, <2>u, <3>m
  <2>3. CASE r \notin tupleValid
    <3>1. UNCHANGED <<nDel, nValid>>
      BY <2>1, <2>3 DEF nDel, nValid
    <3>. QED BY <1>0, <1>n, <2>u, <3>1
  <2>. QED BY <2>2, <2>3
<1>. QED BY <1>1, <1>2, <1>3, <1>4, <1>5, <1>6, <1>7, <1>8, <1>9, <1>10, <1>11, UpdateMoves

LEMMA InitIds == Init => IdsAccounted
<1>1. SUFFICES ASSUME Init, NEW id \in Ids PROVE Places(id) = 1
  BY DEF IdsAccounted, Places
<1>2. \A S : Count(<<>>, S) = 0
  <2>1. <<>> \in Seq(Ids)
    OBVIOUS
  <2>. QED BY <2>1, CountType
<1>3. id >= counter /\ id \notin tupleValid
  BY <1>1 DEF Init, SessionInit, Ids
<1>. QED BY <1>1, <1>2, <1>3 DEF Init, SessionInit, Places, Spare, UnderWay

-----------------------------------------------------------------------------
(* The order of the answers to port checks. *)
LEMMA ElementType ==
  ASSUME NEW T, NEW q \in Seq(T), NEW i \in 1 .. Len(q)
  PROVE  q[i] \in T
OBVIOUS

LEMMA HeadType ==
  ASSUME NEW T, NEW q \in Seq(T), q # <<>>
  PROVE  Head(q) \in T
OBVIOUS

LEMMA SameSequence ==
  ASSUME NEW T, NEW a \in Seq(T), NEW b \in Seq(T), Len(a) = Len(b),
         \A i \in 1 .. Len(a) : a[i] = b[i]
  PROVE  a = b
OBVIOUS

LEMMA FirstTurn ==
  ASSUME NEW t, NEW q \in Seq(Turn), t \in Turn
  PROVE  /\ <<t>> \o q # <<>> /\ Head(<<t>> \o q) = t /\ Tail(<<t>> \o q) = q
         /\ \A u \in Turn : <<t>> \o Append(q, u) = Append(<<t>> \o q, u)
<1>1. <<t>> \in Seq(Turn) /\ Len(<<t>>) = 1 /\ <<t>>[1] = t
  OBVIOUS
<1>2. <<t>> \o q \in Seq(Turn) /\ Len(<<t>> \o q) = 1 + Len(q)
  BY <1>1
<1>3. /\ <<t>> \o q # <<>> /\ Head(<<t>> \o q) = t
      /\ Tail(<<t>> \o q) \in Seq(Turn) /\ Len(Tail(<<t>> \o q)) = Len(q)
  BY <1>1, <1>2
<1>4. ASSUME NEW i \in 1 .. Len(q) PROVE Tail(<<t>> \o q)[i] = q[i]
  BY <1>1, <1>2
<1>5. Tail(<<t>> \o q) = q
  BY <1>3, <1>4, SameSequence
<1>6. ASSUME NEW u \in Turn PROVE <<t>> \o Append(q, u) = Append(<<t>> \o q, u)
  <2>. DEFINE a == <<t>> \o Append(q, u)
              b == Append(<<t>> \o q, u)
  <2>1. Append(q, u) \in Seq(Turn) /\ Len(Append(q, u)) = Len(q) + 1
    OBVIOUS
  <2>2. a \in Seq(Turn) /\ Len(a) = Len(q) + 2 /\ b \in Seq(Turn) /\ Len(b) = Len(q) + 2
    BY <1>1, <1>2, <2>1
  <2>3. ASSUME NEW i \in 1 .. Len(q) + 2 PROVE a[i] = b[i]
    <3>1. CASE i = 1
      BY <1>1, <1>2, <2>1, <3>1
    <3>2. CASE i = Len(q) + 2
      BY <1>1, <1>2, <2>1, <3>2
    <3>3. CASE i \in 2 .. Len(q) + 1
      BY <1>1, <1>2, <2>1, <3>3
    <3>. QED BY <3>1, <3>2, <3>3
  <2>. HIDE DEF a, b
  <2>4. a = b
    BY <2>2, <2>3, SameSequence
  <2>. QED BY <2>4 DEF a, b
<1>. QED BY <1>3, <1>5, <1>6

LEMMA AskedType ==
  ASSUME NEW rsp \in Seq(Answer), NEW base \in {0, Half}, NEW check \in Seq(0 .. Half - 1)
  PROVE  /\ Asked(rsp, check, base) \in Seq(Ports)
         /\ Len(Asked(rsp, check, base)) = Len(rsp) + Len(check)
<1>. DEFINE a == Asked(rsp, check, base)
            n == Len(rsp) + Len(check)
<1>1. n \in Nat /\ DOMAIN a = 1 .. n
  BY DEF Asked
<1>2. ASSUME NEW i \in 1 .. n PROVE a[i] \in Ports
  <2>1. CASE i <= Len(rsp)
    <3>1. rsp[i] \in Answer
      BY <2>1
    <3>. QED BY <2>1, <3>1 DEF Asked, Answer
  <2>2. CASE ~(i <= Len(rsp))
    <3>0. i - Len(rsp) \in 1 .. Len(check)
      BY <2>2
    <3>1. check[i - Len(rsp)] \in 0 .. Half - 1
      BY <3>0, ElementType
    <3>2. a[i] = check[i - Len(rsp)] + base
      BY <2>2 DEF Asked
    <3>. QED BY SMTT(30), <3>1, <3>2, PortNumbers
  <2>. QED BY <2>1, <2>2
<1>3. a \in [1 .. n -> Ports]
  BY <1>1, <1>2 DEF Asked
<1>. HIDE DEF a, n
<1>4. a \in Seq(Ports) /\ Len(a) = n
  BY <1>1, <1>3
<1>. QED BY <1>4 DEF a, n

LEMMA AskedMore ==
  ASSUME NEW rsp \in Seq(Answer), NEW base \in {0, Half}, NEW check \in Seq(0 .. Half - 1),
         NEW p \in 0 .. Half - 1
  PROVE  Asked(rsp, Append(check, p), base) = Append(Asked(rsp, check, base), p + base)
<1>. DEFINE a == Asked(rsp, Append(check, p), base)
            b == Append(Asked(rsp, check, base), p + base)
<1>1. /\ Append(check, p) \in Seq(0 .. Half - 1) /\ p + base \in Ports
      /\ Len(Append(check, p)) = Len(check) + 1 /\ Len(rsp) \in Nat /\ Len(check) \in Nat
  BY PortNumbers
<1>2. a \in Seq(Ports) /\ Len(a) = Len(rsp) + Len(check) + 1
  <2>1. a \in Seq(Ports) /\ Len(a) = Len(rsp) + Len(Append(check, p))
    BY <1>1, AskedType
  <2>. QED BY <1>1, <2>1
<1>3. /\ Asked(rsp, check, base) \in Seq(Ports)
      /\ Len(Asked(rsp, check, base)) = Len(rsp) + Len(check)
  BY AskedType
<1>4. b \in Seq(Ports) /\ Len(b) = Len(a)
  <2>. HIDE DEF a
  <2>. QED BY <1>1, <1>2, <1>3
<1>5. ASSUME NEW i \in 1 .. Len(a) PROVE a[i] = b[i]
  <2>1. CASE i = Len(a)
    <3>1. b[i] = p + base
      <4>. HIDE DEF a
      <4>. QED BY <1>1, <1>2, <1>3, <2>1
    <3>2. i - Len(rsp) = Len(check) + 1 /\ ~(i <= Len(rsp)) /\ i \in 1 .. Len(rsp) + Len(Append(check, p))
      <4>. HIDE DEF a
      <4>. QED BY <1>1, <1>2, <2>1
    <3>3. a[i] = Append(check, p)[i - Len(rsp)] + base
      <4>. HIDE DEF b
      <4>. QED BY <3>2 DEF Asked
    <3>4. Append(check, p)[Len(check) + 1] = p
      OBVIOUS
    <3>. HIDE DEF a, b
    <3>. QED BY <3>1, <3>2, <3>3, <3>4
  <2>2. CASE i < Len(a)
    <3>1. b[i] = Asked(rsp, check, base)[i]
      BY <1>2, <1>3, <2>2
    <3>2. /\ i \in 1 .. Len(rsp) + Len(Append(check, p)) /\ i \in 1 .. Len(rsp) + Len(check)
          /\ ~(i <= Len(rsp)) => i - Len(rsp) \in 1 .. Len(check)
      <4>. HIDE DEF a, b
      <4>. QED BY <1>1, <1>2, <2>2
    <3>3. ~(i <= Len(rsp)) => Append(check, p)[i - Len(rsp)] = check[i - Len(rsp)]
      BY <3>2
    <3>4. a[i] = Asked(rsp, check, base)[i]
      BY <3>2, <3>3 DEF Asked
    <3>. HIDE DEF a, b
    <3>. QED BY <3>1, <3>4
  <2>3. i = Len(a) \/ i < Len(a)
    <3>. HIDE DEF a
    <3>. QED BY <1>1, <1>2
  <2>. QED BY <2>1, <2>2, <2>3
<1>. HIDE DEF a, b
<1>6. a = b
  BY <1>2, <1>4, <1>5, SameSequence
<1>. QED BY <1>6 DEF a, b

LEMMA AskedLess ==
  ASSUME NEW rsp \in Seq(Answer), NEW base \in {0, Half}, NEW check \in Seq(0 .. Half - 1),
         rsp # <<>>
  PROVE  /\ Asked(Tail(rsp), check, base) = Tail(Asked(rsp, check, base))
         /\ Head(Asked(rsp, check, base)) = Head(rsp).port
<1>. DEFINE a == Asked(Tail(rsp), check, base)
            b == Asked(rsp, check, base)
<1>1. Tail(rsp) \in Seq(Answer) /\ Len(Tail(rsp)) = Len(rsp) - 1 /\ Len(rsp) \in Nat \ {0}
  OBVIOUS
<1>2. a \in Seq(Ports) /\ Len(a) = Len(rsp) - 1 + Len(check)
  BY <1>1, AskedType
<1>3. b \in Seq(Ports) /\ Len(b) = Len(rsp) + Len(check)
  BY AskedType
<1>4. b # <<>> /\ Tail(b) \in Seq(Ports) /\ Len(Tail(b)) = Len(b) - 1
  <2>. HIDE DEF b
  <2>. QED BY <1>1, <1>3
<1>5. ASSUME NEW i \in 1 .. Len(a) PROVE a[i] = Tail(b)[i]
  <2>1. Tail(b)[i] = b[i + 1]
    <3>. HIDE DEF a, b
    <3>. QED BY <1>1, <1>2, <1>3, <1>4
  <2>2. CASE i <= Len(rsp) - 1
    BY <1>1, <1>2, <2>1, <2>2 DEF Asked
  <2>3. CASE ~(i <= Len(rsp) - 1)
    BY <1>1, <1>2, <2>1, <2>3 DEF Asked
  <2>. QED BY <2>2, <2>3
<1>6. a = Tail(b)
  <2>. HIDE DEF a, b
  <2>. QED BY <1>1, <1>2, <1>3, <1>4, <1>5, SameSequence
<1>7. Head(b) = b[1] /\ b[1] = rsp[1].port
  BY <1>1, <1>3, <1>4 DEF Asked
<1>. QED BY <1>1, <1>6, <1>7

LEMMA AskedAnswered ==
  ASSUME NEW rsp \in Seq(Answer), NEW base \in {0, Half}, NEW check \in Seq(0 .. Half - 1),
         check # <<>>, NEW r \in Answer, r.port = Head(check) + base
  PROVE  Asked(Append(rsp, r), Tail(check), base) = Asked(rsp, check, base)
<1>. DEFINE a == Asked(Append(rsp, r), Tail(check), base)
            b == Asked(rsp, check, base)
<1>1. /\ Append(rsp, r) \in Seq(Answer) /\ Len(Append(rsp, r)) = Len(rsp) + 1 /\ Len(rsp) \in Nat
      /\ Tail(check) \in Seq(0 .. Half - 1) /\ Len(Tail(check)) = Len(check) - 1
      /\ Len(check) \in Nat \ {0}
  OBVIOUS
<1>2. a \in Seq(Ports) /\ Len(a) = Len(rsp) + Len(check)
  <2>1. a \in Seq(Ports) /\ Len(a) = Len(Append(rsp, r)) + Len(Tail(check))
    BY <1>1, AskedType
  <2>. QED BY <1>1, <2>1
<1>3. b \in Seq(Ports) /\ Len(b) = Len(rsp) + Len(check)
  BY AskedType
<1>4. ASSUME NEW i \in 1 .. Len(a) PROVE a[i] = b[i]
  <2>1. CASE i <= Len(rsp)
    BY <1>1, <1>2, <2>1 DEF Asked
  <2>2. CASE i = Len(rsp) + 1
    BY <1>1, <1>2, <2>2 DEF Asked
  <2>3. CASE i > Len(rsp) + 1
    <3>1. i - (Len(rsp) + 1) \in 1 .. Len(Tail(check))
      BY <1>1, <1>2, <2>3
    <3>2. Tail(check)[i - (Len(rsp) + 1)] = check[i - Len(rsp)]
      BY <1>1, <3>1
    <3>. QED BY <1>1, <1>2, <2>3, <3>2 DEF Asked
  <2>. QED BY <1>1, <1>2, <2>1, <2>2, <2>3
<1>. HIDE DEF a, b
<1>5. a = b
  BY <1>2, <1>3, <1>4, SameSequence
<1>. QED BY <1>5 DEF a, b

LEMMA AppendAt ==
  ASSUME NEW T, NEW q \in Seq(T), NEW e
  PROVE  /\ Append(q, e)[Len(q) + 1] = e
         /\ \A i \in 1 .. Len(q) : Append(q, e)[i] = q[i]
  OBVIOUS

LEMMA TurnAdded ==
  ASSUME NEW kind, NEW turns \in Seq(Turn), NEW ports \in Seq(Ports), NEW expected \in Seq(Ports),
         Len(expected) = Len(turns), InTurn(kind, turns, ports, expected),
         NEW t \in Turn, NEW p \in Ports
  PROVE  /\ t = kind => InTurn(kind, Append(turns, t), Append(ports, p), Append(expected, p))
         /\ t # kind => InTurn(kind, Append(turns, t), ports, Append(expected, p))
<1>. DEFINE m == Len(ports)
            n == Len(turns)
<1>1. PICK f \in [1 .. m -> 1 .. n] :
        /\ \A i, j \in 1 .. m : i < j => f[i] < f[j]
        /\ \A k \in 1 .. n : turns[k] = kind <=> \E i \in 1 .. m : f[i] = k
        /\ \A i \in 1 .. m : ports[i] = expected[f[i]]
  BY DEF InTurn, Pairs
<1>2. m \in Nat /\ n \in Nat
  OBVIOUS
<1>3. CASE t = kind
  <2>. DEFINE g == [i \in 1 .. m + 1 |-> IF i = m + 1 THEN n + 1 ELSE f[i]]
  <2>1. g \in [1 .. m + 1 -> 1 .. n + 1]
    BY <1>1, <1>2
  <2>0. g[m + 1] = n + 1 /\ \A i \in 1 .. m : g[i] = f[i] /\ f[i] \in 1 .. n /\ i \in 1 .. m + 1
    BY <1>1, <1>2
  <2>2. ASSUME NEW i \in 1 .. m + 1, NEW j \in 1 .. m + 1, i < j PROVE g[i] < g[j]
    <3>1. i \in 1 .. m
      BY <1>2, <2>2
    <3>2. CASE j = m + 1
      <4>. HIDE DEF g
      <4>. QED BY <1>2, <2>0, <3>1, <3>2
    <3>3. CASE j # m + 1
      <4>1. j \in 1 .. m
        <5>. HIDE DEF m
        <5>. QED BY <1>2, <3>3
      <4>. HIDE DEF g
      <4>. QED BY <1>1, <2>0, <2>2, <3>1, <4>1
    <3>. QED BY <3>2, <3>3
  <2>3. ASSUME NEW k \in 1 .. n + 1
        PROVE  Append(turns, t)[k] = kind <=> \E i \in 1 .. m + 1 : g[i] = k
    <3>1. CASE k = n + 1
      <4>1. Append(turns, t)[k] = t /\ m + 1 \in 1 .. m + 1
        BY <1>2, <3>1
      <4>. QED BY <1>3, <2>0, <3>1, <4>1
    <3>2. CASE k # n + 1
      <4>1. k \in 1 .. n /\ Append(turns, t)[k] = turns[k]
        BY <1>2, <3>2
      <4>2. ASSUME NEW i \in 1 .. m + 1, g[i] = k PROVE i \in 1 .. m
        <5>. HIDE DEF g, m, n
        <5>. QED BY <1>2, <2>0, <3>2, <4>2
      <4>. HIDE DEF g
      <4>. QED BY <1>1, <2>0, <4>1, <4>2
    <3>. QED BY <3>1, <3>2
  <2>4. ASSUME NEW i \in 1 .. m + 1
        PROVE  Append(ports, p)[i] = Append(expected, p)[g[i]]
    <3>1. CASE i = m + 1
      <4>. HIDE DEF g
      <4>1. Append(ports, p)[m + 1] = p /\ Append(expected, p)[n + 1] = p
        BY AppendAt
      <4>. HIDE DEF m, n
      <4>. QED BY <2>0, <3>1, <4>1
    <3>2. CASE i # m + 1
      <4>1. i \in 1 .. m /\ g[i] = f[i] /\ f[i] \in 1 .. n
        BY <1>1, <1>2, <3>2
      <4>2. Append(expected, p)[f[i]] = expected[f[i]] /\ Append(ports, p)[i] = ports[i]
        BY <1>2, <4>1
      <4>. QED BY <1>1, <4>1, <4>2
    <3>. QED BY <3>1, <3>2
  <2>5. Len(Append(turns, t)) = n + 1 /\ Len(Append(ports, p)) = m + 1
    OBVIOUS
  <2>6. InTurn(kind, Append(turns, t), Append(ports, p), Append(expected, p))
    <3>1. Pairs(g, kind, Append(turns, t), Append(ports, p), Append(expected, p))
      <4>. HIDE DEF g, m, n
      <4>. QED BY <2>2, <2>3, <2>4, <2>5 DEF Pairs
    <3>. HIDE DEF g, m, n
    <3>. QED BY <2>1, <2>5, <3>1 DEF InTurn
  <2>. QED BY <1>3, <2>6
<1>4. CASE t # kind
  <2>1. f \in [1 .. m -> 1 .. n + 1]
    BY <1>1, <1>2
  <2>3. ASSUME NEW k \in 1 .. n + 1
        PROVE  Append(turns, t)[k] = kind <=> \E i \in 1 .. m : f[i] = k
    <3>1. CASE k = n + 1
      <4>1. Append(turns, t)[k] = t
        BY <1>2, <3>1
      <4>2. \A i \in 1 .. m : f[i] # k
        BY <1>1, <1>2, <3>1
      <4>. QED BY <1>4, <4>1, <4>2
    <3>2. CASE k # n + 1
      <4>1. k \in 1 .. n /\ Append(turns, t)[k] = turns[k]
        BY <1>2, <3>2
      <4>. QED BY <1>1, <4>1
    <3>. QED BY <3>1, <3>2
  <2>4. ASSUME NEW i \in 1 .. m PROVE ports[i] = Append(expected, p)[f[i]]
    <3>1. f[i] \in 1 .. n
      BY <1>1
    <3>. QED BY <1>1, <1>2, <3>1
  <2>5. Len(Append(turns, t)) = n + 1
    OBVIOUS
  <2>. HIDE DEF m, n
  <2>. QED BY ZenonT(60), <1>1, <1>4, <2>1, <2>3, <2>4, <2>5 DEF InTurn, Pairs, m
<1>. QED BY <1>3, <1>4

LEMMA TurnTaken ==
  ASSUME NEW kind, NEW turns \in Seq(Turn), NEW ports \in Seq(Ports), NEW expected \in Seq(Ports),
         Len(expected) = Len(turns), InTurn(kind, turns, ports, expected), turns # <<>>
  PROVE  /\ Head(turns) = kind =>
              /\ ports # <<>> => Head(ports) = Head(expected)
              /\ ports # <<>> => InTurn(kind, Tail(turns), Tail(ports), Tail(expected))
         /\ Head(turns) # kind => InTurn(kind, Tail(turns), ports, Tail(expected))
<1>. DEFINE m == Len(ports)
            n == Len(turns)
<1>1. PICK f \in [1 .. m -> 1 .. n] :
        /\ \A i, j \in 1 .. m : i < j => f[i] < f[j]
        /\ \A k \in 1 .. n : turns[k] = kind <=> \E i \in 1 .. m : f[i] = k
        /\ \A i \in 1 .. m : ports[i] = expected[f[i]]
  BY DEF InTurn, Pairs
<1>2. m \in Nat /\ n \in Nat \ {0} /\ Head(turns) = turns[1]
  OBVIOUS
<1>3. /\ Tail(turns) \in Seq(Turn) /\ Len(Tail(turns)) = n - 1
      /\ \A k \in 1 .. n - 1 : Tail(turns)[k] = turns[k + 1]
      /\ \A k \in 1 .. n - 1 : Tail(expected)[k] = expected[k + 1]
  OBVIOUS
<1>4. CASE Head(turns) = kind /\ ports # <<>>
  <2>1. f[1] = 1 /\ m >= 1
    <3>1. m >= 1
      BY <1>2, <1>4
    <3>2. PICK i \in 1 .. m : f[i] = 1
      BY <1>1, <1>2, <1>4
    <3>3. i = 1
      BY <1>1, <1>2, <3>1, <3>2
    <3>. QED BY <3>1, <3>2, <3>3
  <2>. DEFINE g == [i \in 1 .. m - 1 |-> f[i + 1] - 1]
  <2>2. \A i \in 1 .. m - 1 : f[i + 1] \in 2 .. n
    BY <1>1, <1>2, <2>1
  <2>3. g \in [1 .. m - 1 -> 1 .. n - 1]
    BY <1>2, <2>2
  <2>4. \A i, j \in 1 .. m - 1 : i < j => g[i] < g[j]
    BY <1>1, <1>2, <2>2
  <2>5. ASSUME NEW k \in 1 .. n - 1
        PROVE  Tail(turns)[k] = kind <=> \E i \in 1 .. m - 1 : g[i] = k
    <3>1. k + 1 \in 1 .. n /\ Tail(turns)[k] = turns[k + 1]
      BY <1>2, <1>3
    <3>2. ASSUME turns[k + 1] = kind PROVE \E i \in 1 .. m - 1 : g[i] = k
      <4>1. PICK i \in 1 .. m : f[i] = k + 1
        BY <1>1, <3>1, <3>2
      <4>2. i - 1 \in 1 .. m - 1
        BY <1>2, <2>1, <4>1
      <4>3. g[i - 1] = k
        BY <1>2, <4>1, <4>2
      <4>. QED BY <4>2, <4>3
    <3>3. ASSUME NEW i \in 1 .. m - 1, g[i] = k PROVE turns[k + 1] = kind
      <4>1. i + 1 \in 1 .. m /\ f[i + 1] = k + 1
        BY <1>2, <2>2, <3>3
      <4>. QED BY <1>1, <3>1, <4>1
    <3>. QED BY <3>1, <3>2, <3>3
  <2>6. ASSUME NEW i \in 1 .. m - 1 PROVE Tail(ports)[i] = Tail(expected)[g[i]]
    <3>1. i + 1 \in 1 .. m /\ Tail(ports)[i] = ports[i + 1]
      BY <1>2, <1>4
    <3>2. g[i] = f[i + 1] - 1 /\ g[i] \in 1 .. n - 1 /\ f[i + 1] \in 2 .. n
      BY <2>2, <2>3
    <3>3. Tail(expected)[g[i]] = expected[f[i + 1]]
      BY <1>2, <1>3, <3>2
    <3>. QED BY <1>1, <3>1, <3>3
  <2>7. Len(Tail(ports)) = m - 1 /\ Head(ports) = ports[1] /\ Head(expected) = expected[1]
    BY <1>2, <1>4
  <2>8. Head(ports) = Head(expected)
    BY <1>1, <1>2, <2>1, <2>7
  <2>9. InTurn(kind, Tail(turns), Tail(ports), Tail(expected))
    <3>1. Pairs(g, kind, Tail(turns), Tail(ports), Tail(expected))
      <4>. HIDE DEF g, m, n
      <4>. QED BY <1>3, <2>4, <2>5, <2>6, <2>7 DEF Pairs
    <3>. HIDE DEF g, m, n
    <3>. QED BY <1>3, <2>3, <2>7, <3>1 DEF InTurn
  <2>. QED BY <1>4, <2>8, <2>9
<1>5. CASE Head(turns) # kind
  <2>1. \A i \in 1 .. m : f[i] \in 2 .. n
    BY <1>1, <1>2, <1>5
  <2>. DEFINE g == [i \in 1 .. m |-> f[i] - 1]
  <2>2. g \in [1 .. m -> 1 .. n - 1]
    BY <1>2, <2>1
  <2>3. \A i, j \in 1 .. m : i < j => g[i] < g[j]
    BY <1>1, <1>2, <2>1
  <2>4. ASSUME NEW k \in 1 .. n - 1
        PROVE  Tail(turns)[k] = kind <=> \E i \in 1 .. m : g[i] = k
    <3>1. k + 1 \in 1 .. n /\ Tail(turns)[k] = turns[k + 1]
      BY <1>2, <1>3
    <3>2. \A i \in 1 .. m : g[i] = k <=> f[i] = k + 1
      <4>1. ASSUME NEW i \in 1 .. m PROVE g[i] = k <=> f[i] = k + 1
        <5>1. f[i] \in 2 .. n /\ g[i] = f[i] - 1
          BY <2>1
        <5>. QED BY <1>2, <5>1
      <4>. QED BY <4>1
    <3>. QED BY <1>1, <3>1, <3>2
  <2>5. ASSUME NEW i \in 1 .. m PROVE ports[i] = Tail(expected)[g[i]]
    <3>1. g[i] = f[i] - 1 /\ g[i] \in 1 .. n - 1 /\ f[i] \in 2 .. n
      BY <2>1, <2>2
    <3>2. Tail(expected)[g[i]] = expected[f[i]]
      BY <1>2, <1>3, <3>1
    <3>. QED BY <1>1, <3>2
  <2>. HIDE DEF g, n
  <2>. QED BY ZenonT(60), <1>3, <1>5, <2>2, <2>3, <2>4, <2>5 DEF InTurn, Pairs
<1>6. CASE Head(turns) = kind /\ ports = <<>>
  BY <1>6
<1>. QED BY <1>4, <1>5, <1>6

LEMMA TurnAnswered ==
  ASSUME NEW turns \in Seq(Turn), turns # <<>>, NEW ports \in Seq(Ports), ports # <<>>,
         NEW expected \in Seq(Ports), Len(expected) = Len(turns),
         InTurn(Head(turns), turns, ports, expected)
  PROVE  /\ Head(ports) = Head(expected)
         /\ InTurn(Head(turns), Tail(turns), Tail(ports), Tail(expected))
BY TurnTaken

LEMMA OrderMoves ==
  ASSUME [Next]_vars
  PROVE  \/ UNCHANGED <<checkVars, packets>>
         \/ \E p \in Packet : Arrive(p)
         \/ Meta \/ PortMove(CheckListening) \/ PortMove(CheckUsed) \/ PortMove(CheckIn)
         \/ PortMove(ReadDst) \/ PortMove(ReadListening) \/ PortMove(ReadUsed)
<1>1. CASE UNCHANGED checkGroup
  <2>1. CASE UNCHANGED rxGroup
    BY <1>1, <2>1 DEF checkGroup, rxGroup
  <2>2. CASE Lookup \/ RxTcpFsm \/ LookupReply \/ \E i \in Ids : TimeOut(i)
    BY <1>1, <2>2 DEF checkGroup, Lookup, RxTcpFsm, LookupReply, TimeOut, rxVars
  <2>. QED BY <2>1, <2>2, RxMoves
<1>2. CASE \E p \in Ports : Listening(p)
  BY <1>2 DEF Listening, Listen, rxVars
<1>3. CASE PortMove(CheckOut)
  BY <1>3 DEF PortMove, CheckOut
<1>. QED BY <1>1, <1>2, <1>3, CheckMoves

OrderTyped ==
  /\ packets \in Seq(Packet) /\ checkRsp \in Seq(Answer) /\ checkReq \in Seq(Ports)
  /\ listenRsp \in Seq(Answer) /\ listenCheck \in Seq(0 .. Half - 1)
  /\ usedRsp \in Seq(Answer) /\ usedCheck \in Seq(0 .. Half - 1)
  /\ dst \in Seq(Turn) /\ Turns \in Seq(Turn)
  /\ Expected \in Seq(Ports) /\ Len(Expected) = Len(Turns)
AllCounted == Len(packets) = Len(checkRsp) + Len(Turns) + Len(checkReq)

LEMMA OrderTypes == CheckType /\ RxType /\ AllCounted => OrderTyped
<1>. SUFFICES ASSUME CheckType, RxType, AllCounted PROVE OrderTyped
  OBVIOUS
<1>. USE DEF AllCounted
<1>1. /\ packets \in Seq(Packet) /\ checkRsp \in Seq(Answer) /\ checkReq \in Seq(Ports)
      /\ listenRsp \in Seq(Answer) /\ listenCheck \in Seq(0 .. Half - 1)
      /\ usedRsp \in Seq(Answer) /\ usedCheck \in Seq(0 .. Half - 1)
      /\ dst \in Seq(Turn)
  BY DEF CheckType, RxType, Fifo
<1>2. Turns \in Seq(Turn)
  <2>1. CASE merge = "READ_DST"
    BY <1>1, <2>1 DEF Turns
  <2>2. CASE merge # "READ_DST"
    <3>1. <<merge>> \in Seq(Turn)
      BY <2>2 DEF CheckType
    <3>. QED BY <1>1, <2>2, <3>1 DEF Turns
  <2>. QED BY <2>1, <2>2
<1>. DEFINE n == Len(Turns)
<1>3. n \in Nat /\ Len(checkRsp) \in Nat /\ Len(checkReq) \in Nat
  BY <1>1, <1>2
<1>4. ASSUME NEW k \in 1 .. n PROVE Expected[k] \in Ports
  <2>1. Len(checkRsp) + k \in 1 .. Len(packets)
    BY <1>3
  <2>2. packets[Len(checkRsp) + k] \in Packet
    BY <1>1, <2>1, ElementType
  <2>3. packets[Len(checkRsp) + k].tuple.port \in Ports
    BY <2>2 DEF Packet, Tuple
  <2>. QED BY <2>3, SwapType DEF Expected
<1>5. Expected \in [1 .. n -> Ports]
  BY <1>4 DEF Expected
<1>6. Expected \in Seq(Ports) /\ Len(Expected) = n
  <2>. HIDE DEF n
  <2>. QED BY <1>3, <1>5
<1>. QED BY <1>1, <1>2, <1>6 DEF OrderTyped

LEMMA OrderStep ==
  ASSUME TypeOK, OrderInv, [Next]_vars
  PROVE  OrderInv'
<1>. DEFINE c == Len(checkRsp)
            n == Len(Turns)
            r == Len(checkReq)
            L == Asked(listenRsp, listenCheck, 0)
            U == Asked(usedRsp, usedCheck, Half)
            Waits == \A i \in 1 .. r : checkReq[i] = packets[c + n + i].tuple.port
            Good == /\ AllCounted /\ AnswersInOrder /\ Waits
                    /\ InTurn("READ_LISTENING", Turns, L, Expected)
                    /\ InTurn("READ_USED", Turns, U, Expected)
<1>t. CheckType /\ RxType /\ CheckType' /\ RxType'
  BY TypeStep DEF TypeOK
<1>o. Good
  BY DEF OrderInv, AllCounted
<1>g. SUFFICES Good'
  BY DEF OrderInv, AllCounted
<1>s. OrderTyped
  BY <1>o, <1>t, OrderTypes
<1>e. AllCounted' => OrderTyped'
  <2>1. (CheckType /\ RxType /\ AllCounted => OrderTyped)'
    BY OrderTypes, PTL
  <2>. QED BY <1>t, <2>1
<1>n. c \in Nat /\ n \in Nat /\ r \in Nat /\ Len(packets) = c + n + r
  BY <1>s, <1>o DEF OrderTyped, AllCounted
<1>p. /\ L \in Seq(Ports) /\ U \in Seq(Ports)
      /\ Len(L) = Len(listenRsp) + Len(listenCheck) /\ Len(U) = Len(usedRsp) + Len(usedCheck)
  BY <1>s, AskedType DEF OrderTyped
<1>1. CASE UNCHANGED <<checkVars, packets>>
  BY <1>1, <1>o DEF checkVars, AnswersInOrder, Turns, Expected, AllCounted
<1>2. ASSUME NEW p \in Packet, Arrive(p) PROVE Good'
  <2>1. /\ packets' = Append(packets, p) /\ checkReq' = Append(checkReq, p.tuple.port)
        /\ checkRsp' = checkRsp /\ Turns' = Turns
    BY <1>2 DEF Arrive, Turns
  <2>a. UNCHANGED <<L, U>>
    BY <1>2 DEF Arrive
  <2>2. r' = r + 1 /\ c' = c /\ n' = n /\ Len(packets') = Len(packets) + 1
    BY <1>s, <2>1 DEF OrderTyped
  <2>3. \A i \in 1 .. Len(packets) : packets'[i] = packets[i]
    BY <1>s, <2>1 DEF OrderTyped
  <2>4. AnswersInOrder'
    <3>1. \A i \in DOMAIN checkRsp : i \in 1 .. Len(packets)
      BY <1>n, <1>s DEF OrderTyped
    <3>. QED BY <1>o, <2>1, <2>3, <3>1 DEF AnswersInOrder
  <2>5. Waits'
    <3>1. ASSUME NEW i \in 1 .. r' PROVE checkReq'[i] = packets'[c + n + i].tuple.port
      <4>1. CASE i = r + 1
        <5>1. checkReq'[r + 1] = p.tuple.port /\ packets'[Len(packets) + 1] = p
          BY <1>s, <2>1 DEF OrderTyped
        <5>2. c + n + i = Len(packets) + 1
          <6>. HIDE DEF c, n, r
          <6>. QED BY <1>n, <4>1
        <5>. QED BY <4>1, <5>1, <5>2
      <4>2. CASE i # r + 1
        <5>1. i \in 1 .. r /\ c + n + i \in 1 .. Len(packets)
          <6>. HIDE DEF c, n, r
          <6>. QED BY <1>n, <2>2, <4>2
        <5>2. checkReq'[i] = checkReq[i]
          BY <1>s, <2>1, <5>1 DEF OrderTyped
        <5>. QED BY <1>o, <2>3, <5>1, <5>2
      <4>. QED BY <4>1, <4>2
    <3>. QED BY <2>2, <3>1
  <2>6. AllCounted'
    <3>1. Len(packets') = c' + n' + r'
      <4>. HIDE DEF c, n, r
      <4>. QED BY <1>n, <2>2
    <3>. QED BY <3>1 DEF AllCounted
  <2>7. Expected' = Expected
    <3>1. ASSUME NEW k \in 1 .. n PROVE Expected'[k] = Expected[k]
      <4>1. c + k \in 1 .. Len(packets)
        <5>. HIDE DEF c, n, r
        <5>. QED BY <1>n
      <4>. QED BY <2>1, <2>2, <2>3, <4>1 DEF Expected
    <3>. QED BY <1>e, <1>s, <2>1, <2>6, <3>1, SameSequence DEF OrderTyped
  <2>. HIDE DEF L, U, Waits
  <2>. QED BY <1>o, <2>1, <2>a, <2>4, <2>5, <2>6, <2>7
<1>3. CASE Meta
  <2>1. /\ packets # <<>> /\ packets' = Tail(packets) /\ checkRsp # <<>> /\ checkRsp' = Tail(checkRsp)
        /\ checkReq' = checkReq /\ Turns' = Turns
    BY <1>3 DEF Meta, Turns
  <2>a. UNCHANGED <<L, U>>
    BY <1>3 DEF Meta
  <2>2. /\ r' = r /\ c' = c - 1 /\ c \in Nat \ {0} /\ n' = n /\ Len(packets') = Len(packets) - 1
        /\ Len(packets) \in Nat
    BY <1>s, <2>1 DEF OrderTyped
  <2>3. /\ \A i \in 1 .. Len(packets) - 1 : packets'[i] = packets[i + 1]
        /\ \A i \in 1 .. c - 1 : checkRsp'[i] = checkRsp[i + 1]
    BY <1>s, <2>1 DEF OrderTyped
  <2>4. AnswersInOrder'
    <3>1. DOMAIN checkRsp' = 1 .. c - 1 /\ DOMAIN checkRsp = 1 .. c
      BY <1>s, <2>1, <2>2 DEF OrderTyped
    <3>2. ASSUME NEW i \in 1 .. c - 1 PROVE i + 1 \in 1 .. c /\ i \in 1 .. Len(packets) - 1
      <4>. HIDE DEF c, n, r
      <4>. QED BY <1>n, <2>2
    <3>. QED BY <1>o, <2>3, <3>1, <3>2 DEF AnswersInOrder
  <2>5. Waits'
    <3>1. ASSUME NEW i \in 1 .. r PROVE checkReq[i] = packets'[c' + n + i].tuple.port
      <4>1. c' + n + i \in 1 .. Len(packets) - 1 /\ c' + n + i + 1 = c + n + i
        <5>. HIDE DEF c, n, r
        <5>. QED BY <1>n, <2>2
      <4>. QED BY <1>o, <2>3, <4>1
    <3>. QED BY <2>1, <2>2, <3>1
  <2>6. AllCounted'
    <3>1. Len(packets') = c' + n' + r'
      <4>. HIDE DEF c, n, r
      <4>. QED BY <1>n, <2>2
    <3>. QED BY <3>1 DEF AllCounted
  <2>7. Expected' = Expected
    <3>1. ASSUME NEW k \in 1 .. n PROVE Expected'[k] = Expected[k]
      <4>1. c' + k \in 1 .. Len(packets) - 1 /\ c' + k + 1 = c + k
        <5>. HIDE DEF c, n, r
        <5>. QED BY <1>n, <2>2
      <4>. QED BY <2>1, <2>3, <4>1 DEF Expected
    <3>. QED BY <1>e, <1>s, <2>1, <2>6, <3>1, SameSequence DEF OrderTyped
  <2>. HIDE DEF L, U, Waits
  <2>. QED BY <1>o, <2>1, <2>a, <2>4, <2>5, <2>6, <2>7
<1>4. CASE PortMove(CheckListening)
  <2>. DEFINE a == [port |-> Head(listenCheck), open |-> Head(listenCheck) \in listening]
  <2>1. /\ listenCheck # <<>> /\ listenRsp' = Append(listenRsp, a) /\ listenCheck' = Tail(listenCheck)
        /\ UNCHANGED <<packets, checkRsp, checkReq, usedRsp, usedCheck, dst, merge>>
    BY <1>4 DEF PortMove, CheckListening, rxVars
  <2>2. a \in Answer /\ a.port = Head(listenCheck) + 0
    <3>1. Head(listenCheck) \in 0 .. Half - 1
      BY <1>s, <2>1, HeadType DEF OrderTyped
    <3>. QED BY <3>1, PortNumbers DEF Answer
  <2>. HIDE DEF a
  <2>3. L' = L
    BY <1>s, <2>1, <2>2, AskedAnswered DEF OrderTyped
  <2>4. U' = U /\ Turns' = Turns /\ Expected' = Expected
    BY <2>1 DEF Turns, Expected
  <2>5. (AllCounted /\ AnswersInOrder /\ Waits)'
    <3>. HIDE DEF L, U
    <3>. QED BY <1>o, <2>1, <2>4 DEF AllCounted, AnswersInOrder
  <2>. HIDE DEF L, U, Waits
  <2>. QED BY <1>o, <2>3, <2>4, <2>5
<1>5. CASE PortMove(CheckUsed)
  <2>. DEFINE a == [port |-> Head(usedCheck) + Half, open |-> Head(usedCheck) \in used]
  <2>1. /\ usedCheck # <<>> /\ usedRsp' = Append(usedRsp, a) /\ usedCheck' = Tail(usedCheck)
        /\ UNCHANGED <<packets, checkRsp, checkReq, listenRsp, listenCheck, dst, merge>>
    BY <1>5 DEF PortMove, CheckUsed, rxVars
  <2>2. a \in Answer /\ a.port = Head(usedCheck) + Half
    <3>1. Head(usedCheck) \in 0 .. Half - 1
      BY <1>s, <2>1, HeadType DEF OrderTyped
    <3>. QED BY <3>1, PortNumbers DEF Answer
  <2>. HIDE DEF a
  <2>3. U' = U
    BY <1>s, <2>1, <2>2, AskedAnswered DEF OrderTyped
  <2>4. L' = L /\ Turns' = Turns /\ Expected' = Expected
    BY <2>1 DEF Turns, Expected
  <2>5. (AllCounted /\ AnswersInOrder /\ Waits)'
    <3>. HIDE DEF L, U
    <3>. QED BY <1>o, <2>1, <2>4 DEF AllCounted, AnswersInOrder
  <2>. HIDE DEF L, U, Waits
  <2>. QED BY <1>o, <2>3, <2>4, <2>5
<1>6. CASE PortMove(CheckIn)
  <2>. DEFINE p == ByteSwap(Head(checkReq))
              k == IF p < Half THEN "READ_LISTENING" ELSE "READ_USED"
  <2>1. /\ checkReq # <<>> /\ checkReq' = Tail(checkReq) /\ dst' = Append(dst, k)
        /\ IF p < Half THEN listenCheck' = Append(listenCheck, p) /\ usedCheck' = usedCheck
                       ELSE usedCheck' = Append(usedCheck, p - Half) /\ listenCheck' = listenCheck
        /\ UNCHANGED <<packets, checkRsp, listenRsp, usedRsp, merge>>
    <3>1. Head(checkReq) \in Ports
      BY <1>6, <1>s DEF OrderTyped, PortMove, CheckIn
    <3>2. p \in 0 .. Half + Half - 1
      BY <3>1, SwapType, PortNumbers
    <3>3. p < Half <=> ~(p >= Half)
      BY <3>2, PortNumbers
    <3>. QED BY <1>6, <3>3 DEF PortMove, CheckIn, rxVars
  <2>2. p \in Ports /\ k \in Turn /\ p \in 0 .. Half + Half - 1
    <3>1. Head(checkReq) \in Ports
      BY <1>s, <2>1 DEF OrderTyped
    <3>. QED BY <3>1, SwapType, PortNumbers DEF Turn
  <2>3. Head(checkReq) = checkReq[1] /\ p = ByteSwap(checkReq[1])
    BY <1>s, <2>1 DEF OrderTyped
  <2>. HIDE DEF p, k
  <2>4. Turns' = Append(Turns, k)
    <3>1. CASE merge = "READ_DST"
      BY <2>1, <3>1 DEF Turns
    <3>2. CASE merge # "READ_DST"
      <4>1. merge \in Turn /\ dst \in Seq(Turn)
        BY <1>s, <1>t, <3>2 DEF OrderTyped, CheckType
      <4>. QED BY <2>1, <2>2, <3>2, <4>1, FirstTurn DEF Turns
    <3>. QED BY <3>1, <3>2
  <2>5. /\ r' = r - 1 /\ r \in Nat \ {0} /\ c' = c /\ n' = n + 1
        /\ \A i \in 1 .. r - 1 : checkReq'[i] = checkReq[i + 1]
    BY <1>s, <2>1, <2>2, <2>4 DEF OrderTyped
  <2>6. AllCounted'
    <3>1. Len(packets') = c' + n' + r'
      <4>. HIDE DEF c, n, r
      <4>. QED BY <1>n, <2>1, <2>5
    <3>. QED BY <3>1 DEF AllCounted
  <2>7. Waits'
    <3>1. ASSUME NEW i \in 1 .. r - 1 PROVE checkReq'[i] = packets[c + n' + i].tuple.port
      <4>1. i + 1 \in 1 .. r /\ c + n' + i = c + n + (i + 1)
        <5>. HIDE DEF c, n, r
        <5>. QED BY <1>n, <2>5
      <4>. QED BY <1>o, <2>5, <4>1
    <3>. QED BY <2>1, <2>5, <3>1
  <2>8. Expected' = Append(Expected, p)
    <3>1. /\ Append(Expected, p) \in Seq(Ports) /\ Len(Append(Expected, p)) = n + 1
          /\ Append(Expected, p)[n + 1] = p
          /\ \A j \in 1 .. n : Append(Expected, p)[j] = Expected[j]
      BY <1>s, <2>2 DEF OrderTyped
    <3>2. ASSUME NEW j \in 1 .. n + 1 PROVE Expected'[j] = Append(Expected, p)[j]
      <4>1. CASE j = n + 1
        <5>1. 1 \in 1 .. r /\ c + (n + 1) = c + n + 1
          <6>. HIDE DEF c, n, r
          <6>. QED BY <1>n, <2>5
        <5>2. checkReq[1] = packets[c + (n + 1)].tuple.port
          BY <1>o, <5>1
        <5>3. n + 1 \in 1 .. n'
          <6>. HIDE DEF c, n, r
          <6>. QED BY <1>n, <2>5
        <5>. QED BY <2>1, <2>3, <3>1, <4>1, <5>2, <5>3 DEF Expected
      <4>2. CASE j # n + 1
        <5>1. j \in 1 .. n /\ j \in 1 .. n'
          <6>. HIDE DEF c, n, r
          <6>. QED BY <1>n, <2>5, <4>2
        <5>. QED BY <2>1, <3>1, <5>1 DEF Expected
      <4>. QED BY <4>1, <4>2
    <3>3. Expected' \in Seq(Ports) /\ Len(Expected') = n + 1
      BY <1>e, <2>5, <2>6 DEF OrderTyped
    <3>. HIDE DEF n
    <3>. QED BY <3>1, <3>2, <3>3, SameSequence
  <2>9. IF p < Half THEN L' = Append(L, p) /\ U' = U ELSE U' = Append(U, p) /\ L' = L
    <3>1. CASE p < Half
      <4>1. p \in 0 .. Half - 1 /\ p + 0 = p
        BY <2>2, <3>1, PortNumbers
      <4>. QED BY ZenonT(60), <1>s, <2>1, <3>1, <4>1, AskedMore DEF OrderTyped
    <3>2. CASE ~(p < Half)
      <4>1. p - Half \in 0 .. Half - 1 /\ (p - Half) + Half = p
        BY <2>2, <3>2, PortNumbers
      <4>. QED BY ZenonT(60), <1>s, <2>1, <3>2, <4>1, AskedMore DEF OrderTyped
    <3>. QED BY <3>1, <3>2
  <2>10. /\ Turns \in Seq(Turn) /\ Expected \in Seq(Ports) /\ Len(Expected) = Len(Turns)
         /\ InTurn("READ_LISTENING", Turns, L, Expected)
         /\ InTurn("READ_USED", Turns, U, Expected)
    BY <1>o, <1>s DEF OrderTyped
  <2>11. AnswersInOrder'
    <3>. HIDE DEF L, U, Waits
    <3>. QED BY <1>o, <2>1 DEF AnswersInOrder
  <2>. HIDE DEF L, U, Waits, n, r, c
  <2>12. InTurn("READ_LISTENING", Turns', L', Expected')
    BY <1>p, <2>2, <2>4, <2>8, <2>9, <2>10, TurnAdded DEF k
  <2>13. InTurn("READ_USED", Turns', U', Expected')
    BY <1>p, <2>2, <2>4, <2>8, <2>9, <2>10, TurnAdded DEF k
  <2>. QED BY <2>6, <2>7, <2>11, <2>12, <2>13
<1>7. CASE PortMove(ReadDst)
  <2>1. /\ merge = "READ_DST" /\ dst # <<>> /\ merge' = Head(dst) /\ dst' = Tail(dst)
        /\ UNCHANGED <<packets, checkRsp, checkReq, listenRsp, listenCheck, usedRsp, usedCheck>>
    BY <1>7 DEF PortMove, ReadDst, rxVars
  <2>2. Turns' = Turns
    <3>1. Head(dst) \in Turn /\ <<Head(dst)>> \o Tail(dst) = dst
      BY <1>s, <2>1 DEF OrderTyped
    <3>. QED BY <2>1, <3>1 DEF Turns, Turn
  <2>3. L' = L /\ U' = U /\ Expected' = Expected
    BY <2>1, <2>2 DEF Expected
  <2>4. (AllCounted /\ AnswersInOrder /\ Waits)'
    <3>. HIDE DEF L, U
    <3>. QED BY <1>o, <2>1, <2>2 DEF AllCounted, AnswersInOrder
  <2>. HIDE DEF L, U, Waits
  <2>. QED BY <1>o, <2>2, <2>3, <2>4
<1>8. CASE PortMove(ReadListening) \/ PortMove(ReadUsed)
  <2>. DEFINE rsp == IF merge = "READ_LISTENING" THEN listenRsp ELSE usedRsp
  <2>1. /\ merge \in Turn /\ rsp # <<>> /\ checkRsp' = Append(checkRsp, Head(rsp))
        /\ merge' = "READ_DST"
        /\ IF merge = "READ_LISTENING"
           THEN listenRsp' = Tail(listenRsp) /\ UNCHANGED usedRsp
           ELSE usedRsp' = Tail(usedRsp) /\ UNCHANGED listenRsp
        /\ UNCHANGED <<packets, checkReq, listenCheck, usedCheck, dst>>
    BY <1>8 DEF PortMove, ReadListening, ReadUsed, rxVars, Turn
  <2>2. /\ Turns # <<>> /\ Head(Turns) = merge /\ Turns' = Tail(Turns)
    <3>1. Turns = <<merge>> \o dst /\ Turns' = dst
      BY <2>1 DEF Turns, Turn
    <3>2. <<merge>> \o dst # <<>> /\ Head(<<merge>> \o dst) = merge /\ Tail(<<merge>> \o dst) = dst
      BY <1>s, <2>1, FirstTurn DEF OrderTyped
    <3>. QED BY <3>1, <3>2
  <2>3. /\ rsp \in Seq(Answer) /\ Head(rsp) \in Answer
    BY <1>s, <2>1 DEF OrderTyped
  <2>4. /\ IF merge = "READ_LISTENING"
           THEN L' = Tail(L) /\ Head(L) = Head(rsp).port /\ U' = U
           ELSE U' = Tail(U) /\ Head(U) = Head(rsp).port /\ L' = L
        /\ IF merge = "READ_LISTENING" THEN L # <<>> ELSE U # <<>>
    <3>1. CASE merge = "READ_LISTENING"
      <4>1. Len(listenRsp) \in Nat \ {0} /\ Len(listenCheck) \in Nat
        BY <1>s, <2>1, <3>1 DEF OrderTyped
      <4>2. L # <<>>
        <5>. HIDE DEF L
        <5>. QED BY <1>p, <4>1
      <4>. QED BY <1>s, <2>1, <3>1, <4>2, AskedLess DEF OrderTyped
    <3>2. CASE merge # "READ_LISTENING"
      <4>1. Len(usedRsp) \in Nat \ {0} /\ Len(usedCheck) \in Nat
        BY <1>s, <2>1, <3>2 DEF OrderTyped
      <4>2. U # <<>>
        <5>. HIDE DEF U
        <5>. QED BY <1>p, <4>1
      <4>. QED BY <1>s, <2>1, <3>2, <4>2, AskedLess DEF OrderTyped
    <3>. QED BY <3>1, <3>2
  <2>. HIDE DEF rsp
  <2>5. /\ c' = c + 1 /\ r' = r /\ n' = n - 1 /\ n \in Nat \ {0}
        /\ checkRsp'[c + 1] = Head(rsp) /\ \A i \in 1 .. c : checkRsp'[i] = checkRsp[i]
        /\ DOMAIN checkRsp' = 1 .. c + 1 /\ DOMAIN checkRsp = 1 .. c
    BY <1>s, <2>1, <2>2, <2>3 DEF OrderTyped
  <2>6. AllCounted'
    <3>1. Len(packets') = c' + n' + r'
      <4>. HIDE DEF c, n, r
      <4>. QED BY <1>n, <2>1, <2>5
    <3>. QED BY <3>1 DEF AllCounted
  <2>7. Waits'
    <3>1. ASSUME NEW i \in 1 .. r PROVE checkReq[i] = packets[c' + n' + i].tuple.port
      <4>1. c' + n' + i = c + n + i
        <5>. HIDE DEF c, n, r
        <5>. QED BY <1>n, <2>5
      <4>. QED BY <1>o, <4>1
    <3>. QED BY <2>1, <2>5, <3>1
  <2>8. Expected' = Tail(Expected) /\ Head(Expected) = Expected[1]
    <3>1. /\ Tail(Expected) \in Seq(Ports) /\ Len(Tail(Expected)) = n - 1
          /\ \A j \in 1 .. n - 1 : Tail(Expected)[j] = Expected[j + 1]
          /\ Head(Expected) = Expected[1]
      BY <1>s, <2>5 DEF OrderTyped
    <3>2. ASSUME NEW j \in 1 .. n - 1 PROVE Expected'[j] = Tail(Expected)[j]
      <4>1. j \in 1 .. n' /\ j + 1 \in 1 .. n /\ c' + j = c + (j + 1)
        <5>. HIDE DEF c, n, r
        <5>. QED BY <1>n, <2>5
      <4>. QED BY <2>1, <3>1, <4>1 DEF Expected
    <3>3. Expected' \in Seq(Ports) /\ Len(Expected') = n - 1
      BY <1>e, <2>5, <2>6 DEF OrderTyped
    <3>. HIDE DEF n
    <3>. QED BY <3>1, <3>2, <3>3, SameSequence
  <2>9. /\ Turns \in Seq(Turn) /\ Expected \in Seq(Ports) /\ Len(Expected) = Len(Turns)
        /\ InTurn("READ_LISTENING", Turns, L, Expected)
        /\ InTurn("READ_USED", Turns, U, Expected)
    BY <1>o, <1>s DEF OrderTyped
  <2>10. /\ InTurn("READ_LISTENING", Turns', L', Expected') /\ InTurn("READ_USED", Turns', U', Expected')
         /\ Head(rsp).port = Head(Expected)
    <3>. HIDE DEF L, U, Waits, n, r, c
    <3>1. CASE merge = "READ_LISTENING"
      <4>0. Head(Turns) = "READ_LISTENING" /\ L # <<>> /\ Turns # <<>>
        BY <2>2, <2>4, <3>1
      <4>1. /\ Head(L) = Head(Expected)
            /\ InTurn("READ_LISTENING", Tail(Turns), Tail(L), Tail(Expected))
        BY <1>p, <2>9, <4>0, TurnAnswered
      <4>2. InTurn("READ_USED", Tail(Turns), U, Tail(Expected))
        BY <1>p, <2>2, <2>9, <3>1, TurnTaken
      <4>. QED BY <2>2, <2>4, <2>8, <3>1, <4>1, <4>2
    <3>2. CASE merge = "READ_USED"
      <4>0. Head(Turns) = "READ_USED" /\ U # <<>> /\ Turns # <<>>
        BY <2>2, <2>4, <3>2
      <4>1. /\ Head(U) = Head(Expected)
            /\ InTurn("READ_USED", Tail(Turns), Tail(U), Tail(Expected))
        BY <1>p, <2>9, <4>0, TurnAnswered
      <4>2. InTurn("READ_LISTENING", Tail(Turns), L, Tail(Expected))
        BY <1>p, <2>2, <2>9, <3>2, TurnTaken
      <4>. QED BY <2>2, <2>4, <2>8, <3>2, <4>1, <4>2
    <3>. QED BY <2>1, <3>1, <3>2 DEF Turn
  <2>11. AnswersInOrder'
    <3>1. Expected[1] = ByteSwap(packets[c + 1].tuple.port)
      BY <2>5 DEF Expected
    <3>. HIDE DEF c
    <3>2. ASSUME NEW i \in 1 .. c + 1, i # c + 1 PROVE i \in 1 .. c
      BY <1>n, <3>2
    <3>. QED BY <1>o, <2>1, <2>5, <2>8, <2>10, <3>1, <3>2 DEF AnswersInOrder
  <2>. HIDE DEF L, U, Waits, n, r, c
  <2>. QED BY <2>6, <2>7, <2>10, <2>11
<1>. QED BY <1>1, <1>2, <1>3, <1>4, <1>5, <1>6, <1>7, <1>8, OrderMoves

LEMMA InitOrder == Init => OrderInv
<1>1. SUFFICES ASSUME Init PROVE OrderInv
  OBVIOUS
<1>2. Turns = <<>> /\ Len(Asked(listenRsp, listenCheck, 0)) = 0 /\ Len(Asked(usedRsp, usedCheck, Half)) = 0
  <2>1. <<>> \in Seq(Answer) /\ <<>> \in Seq(0 .. Half - 1) /\ Len(<<>>) = 0
    OBVIOUS
  <2>2. \A b \in {0, Half} : Len(Asked(<<>>, <<>>, b)) = 0 + 0
    BY ZenonT(60), <2>1, AskedType
  <2>. QED BY <1>1, <2>2 DEF Init, PortInit, Turns
<1>3. ASSUME NEW kind, NEW ports, Len(ports) = 0 PROVE InTurn(kind, <<>>, ports, Expected)
  <2>1. <<>> \in [1 .. 0 -> 1 .. 0] /\ Len(<<>>) = 0
    OBVIOUS
  <2>2. Pairs(<<>>, kind, <<>>, ports, Expected)
    BY <1>3 DEF Pairs
  <2>. QED BY <1>3, <2>1, <2>2 DEF InTurn
<1>. QED BY <1>1, <1>2, <1>3 DEF Init, PortInit, OrderInv, AnswersInOrder

-----------------------------------------------------------------------------
(* One lookup at a time, and one insertion. *)
LEMMA Left ==
  ASSUME NEW T, NEW q \in Seq(T), q # <<>>, NEW r, r = Tail(q)
  PROVE  /\ Head(q) \in T /\ Head(q) \in Elements(q) /\ Elements(r) \subseteq Elements(q)
         /\ r \in Seq(T) /\ Len(q) = Len(r) + 1 /\ Len(r) \in Nat
<1>1. Len(q) \in Nat \ {0} /\ Tail(q) \in Seq(T) /\ Len(Tail(q)) = Len(q) - 1 /\ Head(q) = q[1]
  OBVIOUS
<1>2. \A i \in 1 .. Len(q) - 1 : Tail(q)[i] = q[i + 1] /\ i + 1 \in 1 .. Len(q)
  OBVIOUS
<1>3. 1 \in DOMAIN q /\ q[1] \in T
  BY <1>1
<1>4. ASSUME NEW u \in Elements(r) PROVE u \in Elements(q)
  <2>1. PICK i \in 1 .. Len(q) - 1 : u = q[i + 1] /\ i + 1 \in 1 .. Len(q)
    BY <1>1, <1>2 DEF Elements
  <2>. QED BY <1>1, <2>1 DEF Elements
<1>. QED BY <1>1, <1>3, <1>4 DEF Elements

LEMMA Entered ==
  ASSUME NEW T, NEW q \in Seq(T), NEW e \in T
  PROVE  /\ Elements(Append(q, e)) = Elements(q) \cup {e}
         /\ Len(Append(q, e)) = Len(q) + 1 /\ Len(q) \in Nat
<1>. DEFINE r == Append(q, e)
<1>1. Len(q) \in Nat /\ r \in Seq(T) /\ Len(r) = Len(q) + 1 /\ DOMAIN q = 1 .. Len(q)
  OBVIOUS
<1>2. DOMAIN r = DOMAIN q \cup {Len(q) + 1} /\ r[Len(q) + 1] = e
  BY <1>1
<1>3. \A i \in DOMAIN q : r[i] = q[i]
  BY <1>1
<1>4. Elements(r) = Elements(q) \cup {e}
  <2>. HIDE DEF r
  <2>. QED BY <1>2, <1>3 DEF Elements
<1>. QED BY <1>1, <1>4

LEMMA Found ==
  ASSUME NEW T, NEW q \in Seq(T), NEW S
  PROVE  /\ Elements(q) \subseteq T
         /\ Len(q) = 0 => Elements(q) = {}
         /\ Count(q, S) \in Nat
         /\ Count(q, S) = 0 <=> \A u \in Elements(q) : u \notin S
<1>. DEFINE Q == {i \in DOMAIN q : q[i] \in S}
<1>1. Elements(q) \subseteq T /\ (Len(q) = 0 => Elements(q) = {})
  BY DEF Elements
<1>2. IsFiniteSet(Q) /\ Count(q, S) \in Nat
  BY CountType DEF Count
<1>3. Count(q, S) = 0 <=> Q = {}
  <2>1. Count(q, S) = Cardinality(Q)
    BY DEF Count
  <2>. HIDE DEF Q
  <2>. QED BY <1>2, <2>1, FS_EmptySet
<1>4. Q = {} <=> \A u \in Elements(q) : u \notin S
  BY DEF Elements
<1>. QED BY <1>1, <1>2, <1>3, <1>4

mirrorGroup == <<lup, camReq, camRsp, insertReq, deleteReq, updateReq, updateRsp, insertRsp, cam,
                 revInserts, reverse, tupleValid>>

LEMMA MirrorMoves ==
  ASSUME TypeOK, [Next]_vars
  PROVE  \/ UNCHANGED mirrorGroup
         \/ AskApp \/ AskRx \/ LookupMove(Create) \/ LookupAnswer \/ LookupMove(InsertAnswer)
         \/ CamLookup \/ LookupMove(SendInsert) \/ LookupMove(SendDelete)
         \/ LookupMove(UpdateReply) \/ LookupMove(CamUpdate) \/ ReverseInsert \/ ReverseRelease
<1>1. CASE UNCHANGED updateGroup
  <2>1. CASE UNCHANGED lookupVars
    BY <1>1, <2>1 DEF updateGroup, updateVars, reverseVars, lookupVars, mirrorGroup
  <2>2. CASE Meta \/ Lookup \/ LookupReply \/ PortReply
    BY <1>1, <2>2 DEF updateGroup, updateVars, reverseVars, mirrorGroup, Meta, Lookup, LookupReply, PortReply
  <2>3. CASE LookupReplyHandler
    <3>1. CASE Create
      <4>1. freeIds # <<>> /\ Tail(freeIds) = freeIds
        BY <1>1, <3>1 DEF Create, Creates, updateGroup, idVars
      <4>2. freeIds \in Seq(Ids)
        BY DEF TypeOK, UpdateType
      <4>. QED BY <4>1, <4>2, Left
    <3>2. CASE InsertAnswer
      <4>1. insertRsp # <<>> /\ Tail(insertRsp) = insertRsp
        BY <1>1, <3>2 DEF InsertAnswer, updateGroup, updateVars
      <4>2. insertRsp \in Seq(Insertion)
        BY DEF TypeOK, UpdateType, Fifo
      <4>. QED BY <4>1, <4>2, Left
    <3>. QED BY <2>3, <3>1, <3>2 DEF LookupReplyHandler
  <2>. QED BY <2>1, <2>2, <2>3, LookupMoves
<1>2. CASE RxTcpFsm \/ (\E i \in Ids : TimeOut(i)) \/ PortMove(Release)
           \/ LookupMove(IdReturned) \/ LookupMove(IdCounted)
  BY <1>2 DEF RxTcpFsm, TimeOut, PortMove, Release, LookupMove, IdReturned, IdCounted, mirrorGroup,
              sessionVars, idVars, lookupVars, updateVars, reverseVars
<1>. QED BY <1>1, <1>2, UpdateMoves

LEMMA InsertStep ==
  ASSUME TypeOK, TypeOK', LookupInv, InsertInv, [Next]_vars
  PROVE  LookupInv' /\ InsertInv'
<1>. DEFINE nReq == Count(insertReq, Insertion)
            nUpd == Count(updateReq, Insertion)
            nRsp == Count(updateRsp, Insertion)
            nIns == Count(insertRsp, Insertion)
            Sum == nReq + nUpd + nRsp + nIns
            Asking == Len(camReq) + Len(camRsp)
<1>s. /\ camReq \in Seq(Tuple) /\ camRsp \in Seq(Ids \cup {None})
      /\ insertReq \in Seq(Insertion) /\ insertRsp \in Seq(Insertion)
      /\ updateReq \in Seq(Update) /\ updateRsp \in Seq(Update) /\ deleteReq \in Seq(Deletion)
      /\ freeIds \in Seq(Ids)
  BY DEF TypeOK, UpdateType, LookupType, Fifo
<1>q. /\ insertReq' \in Seq(Insertion) /\ insertRsp' \in Seq(Insertion)
      /\ updateReq' \in Seq(Update) /\ updateRsp' \in Seq(Update)
      /\ camReq' \in Seq(Tuple) /\ camRsp' \in Seq(Ids \cup {None})
  BY DEF TypeOK, UpdateType, LookupType, Fifo
<1>n. nReq \in Nat /\ nUpd \in Nat /\ nRsp \in Nat /\ nIns \in Nat
  BY <1>s, CountType
<1>m. nReq' \in Nat /\ nUpd' \in Nat /\ nRsp' \in Nat /\ nIns' \in Nat
  BY <1>q, CountType
<1>k. Len(camReq) \in Nat /\ Len(camRsp) \in Nat
  BY <1>s
<1>c. Asking = (IF lup.state = "LUP_RSP" THEN 1 ELSE 0) /\ Sum = IF lup.state = "UPD_RSP" THEN 1 ELSE 0
  BY DEF LookupInv, InsertInv
<1>d. \A u \in Insertion : u \notin Deletion /\ u \in Update /\ u.op = "INSERT"
  BY DEF Insertion, Deletion, Update
<1>f. \A u \in Deletion : u \notin Insertion /\ u \in Update /\ u.op # "INSERT"
  BY DEF Insertion, Deletion, Update
<1>h. \A u \in Update : u \in Insertion \/ u \in Deletion
  BY DEF Update
(* Without an insertion under way, the FIFOs hold none. *)
<1>z. Sum' = 0 => \A u \in Elements(insertReq)' \cup Elements(updateReq)' \cup Elements(updateRsp)'
                            \cup Elements(insertRsp)' : u \notin Insertion
  <2>1. \A a, b, c, d \in Nat : a + b + c + d = 0 => a = 0 /\ b = 0 /\ c = 0 /\ d = 0
    OBVIOUS
  <2>2. Sum' = 0 => nReq' = 0 /\ nUpd' = 0 /\ nRsp' = 0 /\ nIns' = 0
    BY <1>m, <2>1
  <2>. QED BY <1>q, <2>2, Found
<1>. HIDE DEF nReq, nUpd, nRsp, nIns
<1>1. CASE UNCHANGED mirrorGroup
  BY <1>1 DEF mirrorGroup, LookupInv, InsertInv, Elements
<1>2. CASE AskApp \/ AskRx
  <2>. DEFINE t == lup'.query.tuple
  <2>1. /\ lup.state = "LUP_REQ" /\ lup'.state = "LUP_RSP" /\ camReq' = Append(camReq, t)
        /\ UNCHANGED <<camRsp, insertReq, updateReq, updateRsp, insertRsp, cam>>
    BY <1>2 DEF AskApp, AskRx, Ask, updateVars
  <2>2. t \in Tuple
    BY <2>1 DEF TypeOK, LookupType
  <2>. HIDE DEF t
  <2>3. Len(camReq') = Len(camReq) + 1 /\ Elements(camReq') = Elements(camReq) \cup {t}
    BY <1>s, <2>1, <2>2, Entered
  <2>4. Len(camReq) = 0 /\ Len(camRsp) = 0
    BY <1>c, <1>k, <2>1
  <2>5. Elements(camReq) = {} /\ Elements(camRsp) = {}
    BY <1>s, <2>4, Found
  <2>6. LookupInv'
    BY <2>1, <2>3, <2>4, <2>5 DEF LookupInv, t, Elements
  <2>7. Sum' = 0
    <3>1. UNCHANGED <<nReq, nUpd, nRsp, nIns>>
      BY <2>1 DEF nReq, nUpd, nRsp, nIns
    <3>. QED BY <1>c, <2>1, <3>1
  <2>8. Sum' = IF lup'.state = "UPD_RSP" THEN 1 ELSE 0
    BY <2>1, <2>7
  <2>9. InsertInv'
    BY <1>z, <2>7, <2>8 DEF InsertInv, nReq, nUpd, nRsp, nIns
  <2>. QED BY <2>6, <2>9
<1>3. CASE LookupMove(Create)
  <2>. DEFINE u == [op |-> "INSERT", tuple |-> lup.query.tuple,
                    id |-> Head(freeIds), source |-> lup.query.source]
  <2>1. /\ lup.state = "LUP_RSP" /\ lup'.state = "UPD_RSP" /\ lup'.query = lup.query
        /\ camRsp # <<>> /\ camRsp' = Tail(camRsp) /\ Head(camRsp) = None
        /\ insertReq' = Append(insertReq, u) /\ freeIds # <<>>
        /\ UNCHANGED <<camReq, updateReq, updateRsp, insertRsp, cam>>
    BY <1>3 DEF LookupMove, Create, Creates, Created
  <2>2. u \in Insertion /\ u.tuple = lup.query.tuple
    <3>1. lup.query.tuple \in Tuple /\ lup.query.source \in Source
      BY <2>1 DEF TypeOK, LookupType
    <3>2. Head(freeIds) \in Ids
      BY <1>s, <2>1, HeadType
    <3>. QED BY <3>1, <3>2 DEF Insertion
  <2>. HIDE DEF u
  <2>3. /\ Head(camRsp) \in Elements(camRsp) /\ Elements(camRsp') \subseteq Elements(camRsp)
        /\ Len(camRsp) = Len(camRsp') + 1 /\ Len(camRsp') \in Nat
    BY <1>s, <2>1, Left
  <2>4. cam[lup.query.tuple] = None
    BY <2>1, <2>3 DEF LookupInv
  <2>5. LookupInv'
    <3>1. Len(camReq') + Len(camRsp') = 0
      BY <1>c, <1>k, <2>1, <2>3
    <3>2. Elements(camReq)' = Elements(camReq)
      BY <2>1 DEF Elements
    <3>. QED BY <2>1, <2>3, <2>4, <3>1, <3>2 DEF LookupInv
  <2>6. Gets(insertReq, insertReq', Insertion, u)
    BY <1>s, <2>1, <2>2, CountGets
  <2>7. Sum' = 1
    <3>1. nReq' = nReq + 1
      BY <2>2, <2>6 DEF Gets, nReq
    <3>2. UNCHANGED <<nUpd, nRsp, nIns>>
      BY <2>1 DEF nUpd, nRsp, nIns
    <3>. QED BY <1>c, <1>n, <2>1, <3>1, <3>2
  <2>8. Elements(insertReq') = Elements(insertReq) \cup {u}
    BY <1>s, <2>1, <2>2, Entered
  <2>9. Elements(updateReq)' = Elements(updateReq) /\ Elements(updateRsp)' = Elements(updateRsp)
        /\ Elements(insertRsp)' = Elements(insertRsp)
    BY <2>1 DEF Elements
  <2>. QED BY <2>1, <2>2, <2>4, <2>5, <2>7, <2>8, <2>9 DEF InsertInv, nReq, nUpd, nRsp, nIns
<1>4. CASE LookupAnswer
  <2>1. /\ lup.state = "LUP_RSP" /\ lup'.state = "LUP_REQ"
        /\ camRsp # <<>> /\ camRsp' = Tail(camRsp)
        /\ UNCHANGED <<camReq, insertReq, updateReq, updateRsp, insertRsp, cam>>
    BY <1>4 DEF LookupAnswer, updateVars
  <2>2. Len(camRsp) = Len(camRsp') + 1 /\ Len(camRsp') \in Nat
    BY <1>s, <2>1, Left
  <2>3. Len(camReq') = 0 /\ Len(camRsp') = 0
    BY <1>c, <1>k, <2>1, <2>2
  <2>4. Elements(camReq') = {} /\ Elements(camRsp') = {}
    BY <1>q, <2>3, Found
  <2>5. LookupInv'
    BY <2>1, <2>3, <2>4 DEF LookupInv
  <2>6. Sum' = 0
    <3>1. UNCHANGED <<nReq, nUpd, nRsp, nIns>>
      BY <2>1 DEF nReq, nUpd, nRsp, nIns
    <3>. QED BY <1>c, <2>1, <3>1
  <2>. QED BY <1>z, <2>1, <2>5, <2>6 DEF InsertInv, nReq, nUpd, nRsp, nIns
<1>5. CASE LookupMove(InsertAnswer)
  <2>1. /\ lup.state = "UPD_RSP" /\ lup'.state = "LUP_REQ"
        /\ insertRsp # <<>> /\ insertRsp' = Tail(insertRsp)
        /\ UNCHANGED <<camReq, camRsp, insertReq, updateReq, updateRsp, cam>>
    BY <1>5 DEF LookupMove, InsertAnswer
  <2>2. Len(camReq) = 0 /\ Len(camRsp) = 0
    BY <1>c, <1>k, <2>1
  <2>3. LookupInv'
    <3>1. Elements(camReq') = {} /\ Elements(camRsp') = {}
      BY <1>s, <2>1, <2>2, Found
    <3>. QED BY <2>1, <2>2, <3>1 DEF LookupInv
  <2>4. Gives(insertRsp, insertRsp', Insertion, Head(insertRsp)) /\ Head(insertRsp) \in Insertion
    BY <1>s, <2>1, CountGives
  <2>5. Sum' = 0
    <3>1. nIns' = nIns - 1 /\ nIns' \in Nat
      BY <2>4 DEF Gives, nIns
    <3>2. UNCHANGED <<nReq, nUpd, nRsp>>
      BY <2>1 DEF nReq, nUpd, nRsp
    <3>. QED BY <1>c, <1>n, <2>1, <3>1, <3>2
  <2>. QED BY <1>z, <2>1, <2>3, <2>5 DEF InsertInv, nReq, nUpd, nRsp, nIns
<1>6. CASE CamLookup
  <2>1. /\ camReq # <<>> /\ camReq' = Tail(camReq) /\ camRsp' = Append(camRsp, cam[Head(camReq)])
        /\ UNCHANGED <<lup, insertReq, updateReq, updateRsp, insertRsp, cam>>
    BY <1>6 DEF CamLookup, updateVars
  <2>2. /\ Head(camReq) \in Elements(camReq) /\ Elements(camReq') \subseteq Elements(camReq)
        /\ Len(camReq) = Len(camReq') + 1 /\ Len(camReq') \in Nat /\ Head(camReq) \in Tuple
    BY <1>s, <2>1, Left
  <2>3. cam[Head(camReq)] \in Ids \cup {None}
    BY <2>2 DEF TypeOK, UpdateType
  <2>4. /\ Elements(camRsp') = Elements(camRsp) \cup {cam[Head(camReq)]}
        /\ Len(camRsp') = Len(camRsp) + 1
    <3>. DEFINE T == Ids \cup {None}
                a == cam[Head(camReq)]
    <3>1. camRsp \in Seq(T) /\ a \in T /\ camRsp' = Append(camRsp, a)
      BY <1>s, <2>1, <2>3
    <3>. HIDE DEF T, a
    <3>2. Elements(camRsp') = Elements(camRsp) \cup {a} /\ Len(camRsp') = Len(camRsp) + 1
      BY <3>1, Entered
    <3>. QED BY <3>2 DEF a
  <2>5. LookupInv'
    <3>1. Len(camReq') + Len(camRsp') = Len(camReq) + Len(camRsp)
      BY <1>k, <2>2, <2>4
    <3>. QED BY <1>c, <2>1, <2>2, <2>4, <3>1 DEF LookupInv
  <2>6. InsertInv'
    BY <2>1 DEF InsertInv, Elements
  <2>. QED BY <2>5, <2>6
<1>7. CASE LookupMove(SendInsert)
  <2>. DEFINE u == Head(insertReq)
  <2>1. /\ insertReq # <<>> /\ insertReq' = Tail(insertReq) /\ updateReq' = Append(updateReq, u)
        /\ UNCHANGED <<lup, camReq, camRsp, updateRsp, insertRsp, cam>>
    BY <1>7 DEF LookupMove, SendInsert, lookupVars
  <2>2. u \in Insertion /\ u \in Elements(insertReq) /\ Elements(insertReq') \subseteq Elements(insertReq)
    BY <1>s, <2>1, Left
  <2>3. Elements(updateReq') = Elements(updateReq) \cup {u}
    BY <1>d, <1>s, <2>1, <2>2, Entered
  <2>4. Gives(insertReq, insertReq', Insertion, u)
    BY <1>s, <2>1, CountGives
  <2>5. Gets(updateReq, updateReq', Insertion, u)
    BY <1>d, <1>s, <2>1, <2>2, CountGets
  <2>6. Sum' = Sum
    <3>1. nReq' = nReq - 1 /\ nUpd' = nUpd + 1
      BY <2>2, <2>4, <2>5 DEF Gives, Gets, nReq, nUpd
    <3>2. UNCHANGED <<nRsp, nIns>>
      BY <2>1 DEF nRsp, nIns
    <3>. QED BY <1>n, <3>1, <3>2
  <2>7. LookupInv'
    BY <2>1 DEF LookupInv, Elements
  <2>8. Elements(updateRsp)' = Elements(updateRsp) /\ Elements(insertRsp)' = Elements(insertRsp)
    BY <2>1 DEF Elements
  <2>. HIDE DEF u
  <2>. QED BY <1>c, <2>1, <2>2, <2>3, <2>6, <2>7, <2>8 DEF InsertInv, nReq, nUpd, nRsp, nIns
<1>8. CASE LookupMove(SendDelete)
  <2>. DEFINE u == Head(deleteReq)
  <2>1. /\ deleteReq # <<>> /\ updateReq' = Append(updateReq, u)
        /\ UNCHANGED <<lup, camReq, camRsp, insertReq, updateRsp, insertRsp, cam>>
    BY <1>8 DEF LookupMove, SendDelete, lookupVars
  <2>2. u \in Deletion
    BY <1>s, <2>1, HeadType
  <2>. HIDE DEF u
  <2>3. Elements(updateReq') = Elements(updateReq) \cup {u}
    BY <1>f, <1>s, <2>1, <2>2, Entered
  <2>4. Gets(updateReq, updateReq', Insertion, u)
    BY <1>f, <1>s, <2>1, <2>2, CountGets
  <2>5. Sum' = Sum
    <3>1. nUpd' = nUpd
      BY <1>f, <2>2, <2>4 DEF Gets, nUpd
    <3>2. UNCHANGED <<nReq, nRsp, nIns>>
      BY <2>1 DEF nReq, nRsp, nIns
    <3>. QED BY <3>1, <3>2
  <2>6. LookupInv'
    BY <2>1 DEF LookupInv, Elements
  <2>7. Elements(updateRsp)' = Elements(updateRsp) /\ Elements(insertRsp)' = Elements(insertRsp)
        /\ Elements(insertReq)' = Elements(insertReq)
    BY <2>1 DEF Elements
  <2>. QED BY <1>c, <1>f, <2>1, <2>2, <2>3, <2>5, <2>6, <2>7 DEF InsertInv, nReq, nUpd, nRsp, nIns
<1>9. CASE LookupMove(UpdateReply)
  <2>. DEFINE u == Head(updateRsp)
  <2>1. /\ updateRsp # <<>> /\ updateRsp' = Tail(updateRsp)
        /\ insertRsp' = IF u.op = "INSERT" THEN Append(insertRsp, u) ELSE insertRsp
        /\ UNCHANGED <<lup, camReq, camRsp, insertReq, updateReq, cam>>
    BY <1>9 DEF LookupMove, UpdateReply, lookupVars
  <2>2. u \in Update /\ u \in Elements(updateRsp) /\ Elements(updateRsp') \subseteq Elements(updateRsp)
    BY <1>s, <2>1, Left
  <2>3. Gives(updateRsp, updateRsp', Insertion, u)
    BY <1>s, <2>1, CountGives
  <2>. HIDE DEF u
  <2>4. LookupInv'
    BY <2>1 DEF LookupInv, Elements
  <2>5. Elements(updateReq)' = Elements(updateReq) /\ Elements(insertReq)' = Elements(insertReq)
    BY <2>1 DEF Elements
  <2>6. UNCHANGED <<nReq, nUpd>>
    BY <2>1 DEF nReq, nUpd
  <2>7. CASE u \in Insertion
    <3>1. insertRsp' = Append(insertRsp, u)
      BY <1>d, <2>1, <2>7
    <3>2. Elements(insertRsp') = Elements(insertRsp) \cup {u}
      BY <1>s, <2>7, <3>1, Entered
    <3>3. Gets(insertRsp, insertRsp', Insertion, u)
      BY <1>s, <2>7, <3>1, CountGets
    <3>4. nRsp' = nRsp - 1 /\ nIns' = nIns + 1
      BY <2>3, <2>7, <3>3 DEF Gives, Gets, nRsp, nIns
    <3>5. Sum' = Sum
      BY <1>n, <2>6, <3>4
    <3>. QED BY <1>c, <2>1, <2>2, <2>4, <2>5, <2>7, <3>2, <3>5 DEF InsertInv, nReq, nUpd, nRsp, nIns
  <2>8. CASE u \in Deletion
    <3>1. insertRsp' = insertRsp
      BY <1>f, <2>1, <2>8
    <3>2. Elements(insertRsp)' = Elements(insertRsp)
      BY <3>1 DEF Elements
    <3>3. nRsp' = nRsp /\ nIns' = nIns
      BY <1>f, <2>3, <2>8, <3>1 DEF Gives, nRsp, nIns
    <3>4. Sum' = Sum
      BY <2>6, <3>3
    <3>. QED BY <1>c, <2>1, <2>2, <2>4, <2>5, <3>2, <3>4 DEF InsertInv, nReq, nUpd, nRsp, nIns
  <2>. QED BY <1>h, <2>2, <2>7, <2>8
<1>10. CASE LookupMove(CamUpdate)
  <2>. DEFINE u == Head(updateReq)
  <2>1. /\ updateReq # <<>> /\ updateReq' = Tail(updateReq) /\ updateRsp' = Append(updateRsp, u)
        /\ cam' = [cam EXCEPT ![u.tuple] = IF u.op = "INSERT" THEN u.id ELSE None]
        /\ UNCHANGED <<lup, camReq, camRsp, insertReq, insertRsp>>
    BY <1>10 DEF LookupMove, CamUpdate, lookupVars
  <2>2. u \in Update /\ u \in Elements(updateReq) /\ Elements(updateReq') \subseteq Elements(updateReq)
    BY <1>s, <2>1, Left
  <2>3. Gives(updateReq, updateReq', Insertion, u)
    BY <1>s, <2>1, CountGives
  <2>4. Gets(updateRsp, updateRsp', Insertion, u)
    BY <1>s, <2>1, <2>2, CountGets
  <2>5. Elements(updateRsp') = Elements(updateRsp) \cup {u}
    BY <1>s, <2>1, <2>2, Entered
  <2>. HIDE DEF u
  <2>6. Elements(insertRsp)' = Elements(insertRsp) /\ Elements(insertReq)' = Elements(insertReq)
        /\ Elements(camReq)' = Elements(camReq) /\ Elements(camRsp)' = Elements(camRsp)
    BY <2>1 DEF Elements
  <2>7. UNCHANGED <<nReq, nIns>>
    BY <2>1 DEF nReq, nIns
  <2>t. cam \in [Tuple -> Ids \cup {None}]
    BY DEF TypeOK, UpdateType
  <2>8. CASE u \in Insertion
    <3>1. nUpd' = nUpd - 1 /\ nUpd' \in Nat /\ nRsp' = nRsp + 1
      BY <2>3, <2>4, <2>8 DEF Gives, Gets, nUpd, nRsp
    <3>2. lup.state = "UPD_RSP" /\ Sum' = Sum /\ nReq' = 0 /\ nUpd' = 0
      BY <1>c, <1>n, <2>7, <3>1
    <3>3. LookupInv'
      <4>1. Len(camReq) = 0 /\ Len(camRsp) = 0
        BY <1>c, <1>k, <3>2
      <4>2. Elements(camReq) = {} /\ Elements(camRsp) = {}
        BY <1>s, <4>1, Found
      <4>. QED BY <2>1, <2>6, <3>2, <4>1, <4>2 DEF LookupInv
    <3>4. \A w \in Elements(insertReq)' \cup Elements(updateReq)' : w \notin Insertion
      BY <1>q, <3>2, Found DEF nReq, nUpd
    <3>5. u.tuple = lup.query.tuple
      BY <2>2, <2>8 DEF InsertInv
    <3>. QED BY <1>c, <2>1, <2>5, <2>6, <3>2, <3>3, <3>4, <3>5 DEF InsertInv, nReq, nUpd, nRsp, nIns
  <2>9. CASE u \in Deletion
    <3>1. nUpd' = nUpd /\ nRsp' = nRsp
      BY <1>f, <2>3, <2>4, <2>9 DEF Gives, Gets, nUpd, nRsp
    <3>2. Sum' = Sum
      BY <2>7, <3>1
    <3>3. \A t \in Tuple : cam[t] = None => cam'[t] = None
      BY <1>f, <2>1, <2>9, <2>t
    <3>4. LookupInv'
      <4>1. Elements(camRsp) # {} => lup.query.tuple \in Tuple
        <5>1. Elements(camRsp) # {} => Len(camRsp) # 0
          BY <1>s, Found
        <5>2. Len(camRsp) # 0 => lup.state = "LUP_RSP"
          BY <1>c, <1>k
        <5>. QED BY <5>1, <5>2 DEF TypeOK, LookupType
      <4>. QED BY <2>1, <2>6, <3>3, <4>1 DEF LookupInv
    <3>5. \A w \in Insertion : w.tuple \in Tuple
      BY DEF Insertion
    <3>. QED BY <1>c, <1>f, <2>1, <2>2, <2>5, <2>6, <2>9, <3>2, <3>3, <3>4, <3>5
         DEF InsertInv, nReq, nUpd, nRsp, nIns
  <2>. QED BY <1>h, <2>2, <2>8, <2>9
<1>11. CASE ReverseInsert \/ ReverseRelease
  <2>1. UNCHANGED <<lup, camReq, camRsp, insertReq, updateReq, updateRsp, insertRsp, cam>>
    BY <1>11 DEF ReverseInsert, ReverseRelease, lookupVars, updateVars
  <2>. QED BY <2>1 DEF LookupInv, InsertInv, Elements
<1>. QED BY <1>1, <1>2, <1>3, <1>4, <1>5, <1>6, <1>7, <1>8, <1>9, <1>10, <1>11, MirrorMoves

(* Who claims a tuple, and what that says of the FIFOs. *)
NoClaims(t) ==
  /\ \A id \in tupleValid : reverse[id] # t
  /\ \A e \in Elements(revInserts) : e.tuple # t
  /\ \A u \in Elements(updateRsp) \cup Elements(insertRsp) : u \in Insertion => u.tuple # t
  /\ \A u \in Elements(deleteReq) \cup Elements(updateReq) : u \in Deletion => u.tuple # t

LEMMA OfTupleType ==
  ASSUME NEW t
  PROVE  /\ \A u \in Insertion : (u \in OfTuple("INSERT", t) <=> u.tuple = t) /\ u \notin OfTuple("DELETE", t)
         /\ \A u \in Deletion : (u \in OfTuple("DELETE", t) <=> u.tuple = t) /\ u \notin OfTuple("INSERT", t)
         /\ \A e \in Entry : e \in [id : Ids, tuple : {t}] <=> e.tuple = t
BY DEF OfTuple, Insertion, Deletion, Entry

LEMMA Unclaimed ==
  TypeOK => \A t \in Tuple : Claims(t) = 0 => NoClaims(t)
<1>. SUFFICES ASSUME TypeOK, NEW t \in Tuple, Claims(t) = 0 PROVE NoClaims(t)
  OBVIOUS
<1>. DEFINE I == OfTuple("INSERT", t)
            D == OfTuple("DELETE", t)
            R == [id : Ids, tuple : {t}]
            nValid == IF \E id \in tupleValid : reverse[id] = t THEN 1 ELSE 0
            nRev == Count(revInserts, R)
            nRsp == Count(updateRsp, I)
            nIns == Count(insertRsp, I)
            nDel == Count(deleteReq, D)
            nUpd == Count(updateReq, D)
<1>s. /\ insertRsp \in Seq(Insertion) /\ updateReq \in Seq(Update) /\ updateRsp \in Seq(Update)
      /\ deleteReq \in Seq(Deletion) /\ revInserts \in Seq(Entry)
  BY DEF TypeOK, UpdateType, Fifo
<1>1. /\ nValid \in Nat /\ nRev \in Nat /\ nRsp \in Nat /\ nIns \in Nat /\ nDel \in Nat /\ nUpd \in Nat
  <2>. HIDE DEF I, D, R
  <2>. QED BY <1>s, CountType
<1>2. nValid + nRev + nRsp + nIns + nDel + nUpd = 0
  BY DEF Claims
<1>3. nValid = 0 /\ nRev = 0 /\ nRsp = 0 /\ nIns = 0 /\ nDel = 0 /\ nUpd = 0
  <2>1. \A a, b, c, d, e, f \in Nat :
          a + b + c + d + e + f = 0 => a = 0 /\ b = 0 /\ c = 0 /\ d = 0 /\ e = 0 /\ f = 0
    OBVIOUS
  <2>. HIDE DEF nValid, nRev, nRsp, nIns, nDel, nUpd
  <2>. QED BY <1>1, <1>2, <2>1
<1>4. \A id \in tupleValid : reverse[id] # t
  BY <1>3
<1>5. /\ \A e \in Elements(revInserts) : e \in Entry /\ e \notin R
      /\ \A u \in Elements(updateRsp) \cup Elements(insertRsp) : u \notin I
      /\ \A u \in Elements(deleteReq) \cup Elements(updateReq) : u \notin D
  <2>. HIDE DEF I, D, R
  <2>. QED BY <1>s, <1>3, Found
<1>. HIDE DEF nValid, nRev, nRsp, nIns, nDel, nUpd
<1>. QED BY <1>4, <1>5, OfTupleType DEF NoClaims

(* An id in the FIFO to the reverse table is not valid yet. *)
LEMMA NotValidYet ==
  ASSUME TypeOK, IdsAccounted, NEW e \in Elements(revInserts)
  PROVE  e \in Entry /\ e.id \in Ids /\ e.tuple \in Tuple /\ e.id \notin tupleValid
<1>. DEFINE id == e.id
            I == Updates("INSERT", id)
            D == Updates("DELETE", id)
            E == [id : {id}, tuple : Tuple]
<1>s. /\ finIds \in Seq(Ids) /\ freeIds \in Seq(Ids) /\ counter \in Nat
      /\ insertReq \in Seq(Insertion) /\ insertRsp \in Seq(Insertion)
      /\ updateReq \in Seq(Update) /\ updateRsp \in Seq(Update)
      /\ deleteReq \in Seq(Deletion) /\ revInserts \in Seq(Entry)
  BY PortNumbers DEF TypeOK, UpdateType, Fifo
<1>1. e \in Entry
  BY <1>s, Found
<1>2. id \in Ids /\ e.tuple \in Tuple /\ e \in E
  BY <1>1 DEF Entry
<1>. DEFINE nFin == Count(finIds, {id})
            nFree == Count(freeIds, {id})
            nNew == IF id >= counter THEN 1 ELSE 0
            nReq == Count(insertReq, I)
            nUpd == Count(updateReq, I)
            nRsp == Count(updateRsp, I)
            nIns == Count(insertRsp, I)
            nRev == Count(revInserts, E)
            nDel == Count(deleteReq, D)
            nValid == IF id \in tupleValid THEN 1 ELSE 0
<1>3. nFin + nFree + nNew + (nReq + nUpd + nRsp + nIns + nRev + nDel) + nValid = 1
  BY <1>2 DEF IdsAccounted, Spare, UnderWay
<1>4. /\ nFin \in Nat /\ nFree \in Nat /\ nNew \in Nat /\ nReq \in Nat /\ nUpd \in Nat
      /\ nRsp \in Nat /\ nIns \in Nat /\ nRev \in Nat /\ nDel \in Nat /\ nValid \in Nat
  <2>. HIDE DEF I, D, E, id
  <2>. QED BY <1>s, CountType
<1>5. nRev # 0
  <2>. HIDE DEF E
  <2>. QED BY <1>s, <1>2, Found
<1>6. nValid = 0
  <2>. HIDE DEF nFin, nFree, nNew, nReq, nUpd, nRsp, nIns, nRev, nDel, nValid
  <2>. QED BY <1>3, <1>4, <1>5
<1>. QED BY <1>1, <1>2, <1>6

LEMMA ClaimsStep ==
  ASSUME TypeOK, IdsAccounted, InsertInv, MirrorInv, [Next]_vars, NEW t \in Tuple
  PROVE  Claims(t)' = IF cam'[t] = None THEN 0 ELSE 1
<1>. DEFINE I == OfTuple("INSERT", t)
            D == OfTuple("DELETE", t)
            R == [id : Ids, tuple : {t}]
            nValid == IF \E id \in tupleValid : reverse[id] = t THEN 1 ELSE 0
            nRev == Count(revInserts, R)
            nRsp == Count(updateRsp, I)
            nIns == Count(insertRsp, I)
            nDel == Count(deleteReq, D)
            nUpd == Count(updateReq, D)
            nCam == IF cam[t] = None THEN 0 ELSE 1
            Sum == nValid + nRev + nRsp + nIns + nDel + nUpd
<1>s. /\ insertReq \in Seq(Insertion) /\ insertRsp \in Seq(Insertion)
      /\ updateReq \in Seq(Update) /\ updateRsp \in Seq(Update)
      /\ deleteReq \in Seq(Deletion) /\ revInserts \in Seq(Entry)
      /\ cam \in [Tuple -> Ids \cup {None}] /\ reverse \in [Ids -> Tuple \cup {NoTuple}]
      /\ tupleValid \subseteq Ids
  BY DEF TypeOK, UpdateType, Fifo
<1>n. /\ nValid \in Nat /\ nRev \in Nat /\ nRsp \in Nat /\ nIns \in Nat /\ nDel \in Nat /\ nUpd \in Nat
      /\ nCam \in Nat
  <2>. HIDE DEF I, D, R
  <2>. QED BY <1>s, CountType
<1>0. Sum = nCam
  BY DEF MirrorInv, Claims
<1>g. SUFFICES Sum' = nCam'
  BY DEF Claims
<1>i. /\ \A u \in Insertion : (u \in I <=> u.tuple = t) /\ u \notin D /\ u \in Update /\ u.op = "INSERT"
      /\ \A u \in Deletion : (u \in D <=> u.tuple = t) /\ u \notin I /\ u \in Update /\ u.op # "INSERT"
      /\ \A u \in Update : u \in Insertion \/ u \in Deletion
      /\ \A e \in Entry : e \in R <=> e.tuple = t
  <2>1. /\ \A u \in Insertion : u \in Update /\ u.op = "INSERT"
        /\ \A u \in Deletion : u \in Update /\ u.op # "INSERT"
        /\ \A u \in Update : u \in Insertion \/ u \in Deletion
    BY DEF Insertion, Deletion, Update
  <2>. QED BY <2>1, OfTupleType
<1>. HIDE DEF I, D, R, nValid, nRev, nRsp, nIns, nDel, nUpd, nCam
<1>1. CASE \/ UNCHANGED mirrorGroup
           \/ AskApp \/ AskRx \/ LookupMove(Create) \/ LookupAnswer \/ CamLookup
  <2>1. UNCHANGED <<tupleValid, reverse, revInserts, updateRsp, insertRsp, deleteReq, updateReq, cam>>
    BY <1>1 DEF mirrorGroup, AskApp, AskRx, Ask, LookupMove, Create, LookupAnswer, CamLookup,
                updateVars, reverseVars
  <2>u. UNCHANGED <<nValid, nRev, nRsp, nIns, nDel, nUpd, nCam>>
    BY <2>1 DEF nValid, nRev, nRsp, nIns, nDel, nUpd, nCam
  <2>. QED BY <1>0, <2>u
<1>2. CASE LookupMove(InsertAnswer)
  <2>. DEFINE u == Head(insertRsp)
              e == [id |-> u.id, tuple |-> lup.query.tuple]
  <2>1. /\ insertRsp # <<>> /\ insertRsp' = Tail(insertRsp) /\ revInserts' = Append(revInserts, e)
        /\ lup.state = "UPD_RSP"
        /\ UNCHANGED <<tupleValid, reverse, updateRsp, deleteReq, updateReq, cam>>
    BY <1>2 DEF LookupMove, InsertAnswer
  <2>u. UNCHANGED <<nValid, nRsp, nDel, nUpd, nCam>>
    BY <2>1 DEF nValid, nRsp, nDel, nUpd, nCam
  <2>2. u \in Insertion /\ u \in Elements(insertRsp)
    BY <1>s, <2>1, Left
  <2>3. e \in Entry /\ e.tuple = u.tuple
    <3>1. lup.query.tuple \in Tuple /\ u.tuple = lup.query.tuple
      BY <2>1, <2>2 DEF TypeOK, LookupType, InsertInv
    <3>. QED BY <2>2, <3>1 DEF Entry, Insertion
  <2>. HIDE DEF e
  <2>4. Gives(insertRsp, insertRsp', I, u)
    BY <1>s, <2>1, CountGives
  <2>5. Gets(revInserts, revInserts', R, e)
    BY <1>s, <2>1, <2>3, CountGets
  <2>6. \/ nIns' = nIns - 1 /\ nRev' = nRev + 1
        \/ nIns' = nIns /\ nRev' = nRev
    BY <1>i, <2>2, <2>3, <2>4, <2>5 DEF Gives, Gets, nIns, nRev
  <2>. QED BY <1>0, <1>n, <2>u, <2>6
<1>3. CASE LookupMove(SendInsert)
  <2>. DEFINE u == Head(insertReq)
  <2>1. /\ insertReq # <<>> /\ updateReq' = Append(updateReq, u)
        /\ UNCHANGED <<tupleValid, reverse, revInserts, updateRsp, insertRsp, deleteReq, cam>>
    BY <1>3 DEF LookupMove, SendInsert, reverseVars
  <2>u. UNCHANGED <<nValid, nRev, nRsp, nIns, nDel, nCam>>
    BY <2>1 DEF nValid, nRev, nRsp, nIns, nDel, nCam
  <2>2. u \in Insertion
    BY <1>s, <2>1, HeadType
  <2>. HIDE DEF u
  <2>3. Gets(updateReq, updateReq', D, u)
    BY <1>i, <1>s, <2>1, <2>2, CountGets
  <2>4. nUpd' = nUpd
    BY <1>i, <2>2, <2>3 DEF Gets, nUpd
  <2>. QED BY <1>0, <2>u, <2>4
<1>4. CASE LookupMove(SendDelete)
  <2>. DEFINE u == Head(deleteReq)
  <2>1. /\ deleteReq # <<>> /\ deleteReq' = Tail(deleteReq) /\ updateReq' = Append(updateReq, u)
        /\ UNCHANGED <<tupleValid, reverse, revInserts, updateRsp, insertRsp, cam>>
    BY <1>4 DEF LookupMove, SendDelete, reverseVars
  <2>u. UNCHANGED <<nValid, nRev, nRsp, nIns, nCam>>
    BY <2>1 DEF nValid, nRev, nRsp, nIns, nCam
  <2>2. u \in Deletion
    BY <1>s, <2>1, HeadType
  <2>3. Gives(deleteReq, deleteReq', D, u)
    BY <1>s, <2>1, CountGives
  <2>. HIDE DEF u
  <2>4. Gets(updateReq, updateReq', D, u)
    BY <1>i, <1>s, <2>1, <2>2, CountGets
  <2>5. \/ nDel' = nDel - 1 /\ nUpd' = nUpd + 1
        \/ nDel' = nDel /\ nUpd' = nUpd
    BY <2>3, <2>4 DEF Gives, Gets, nDel, nUpd
  <2>. QED BY <1>0, <1>n, <2>u, <2>5
<1>5. CASE LookupMove(UpdateReply)
  <2>. DEFINE u == Head(updateRsp)
  <2>1. /\ updateRsp # <<>> /\ updateRsp' = Tail(updateRsp)
        /\ insertRsp' = IF u.op = "INSERT" THEN Append(insertRsp, u) ELSE insertRsp
        /\ UNCHANGED <<tupleValid, reverse, revInserts, deleteReq, updateReq, cam>>
    BY <1>5 DEF LookupMove, UpdateReply, reverseVars
  <2>u. UNCHANGED <<nValid, nRev, nDel, nUpd, nCam>>
    BY <2>1 DEF nValid, nRev, nDel, nUpd, nCam
  <2>2. u \in Update
    BY <1>s, <2>1, HeadType
  <2>3. Gives(updateRsp, updateRsp', I, u)
    BY <1>s, <2>1, CountGives
  <2>. HIDE DEF u
  <2>4. \/ nRsp' = nRsp - 1 /\ nIns' = nIns + 1
        \/ nRsp' = nRsp /\ nIns' = nIns
    <3>1. CASE u \in Insertion
      <4>1. insertRsp' = Append(insertRsp, u)
        BY <1>i, <2>1, <3>1
      <4>2. Gets(insertRsp, insertRsp', I, u)
        BY <1>s, <3>1, <4>1, CountGets
      <4>. QED BY <2>3, <4>2 DEF Gives, Gets, nRsp, nIns
    <3>2. CASE u \in Deletion
      <4>1. insertRsp' = insertRsp /\ u \notin I
        BY <1>i, <2>1, <3>2
      <4>. QED BY <2>3, <4>1 DEF Gives, nRsp, nIns
    <3>. QED BY <1>i, <2>2, <3>1, <3>2
  <2>5. nValid' = nValid /\ nRev' = nRev /\ nDel' = nDel /\ nUpd' = nUpd /\ nCam' = nCam
    BY <2>u
  <2>6. CASE nRsp' = nRsp - 1 /\ nIns' = nIns + 1
    BY <1>0, <1>n, <2>5, <2>6
  <2>7. CASE nRsp' = nRsp /\ nIns' = nIns
    BY <1>0, <1>n, <2>5, <2>7
  <2>. QED BY <2>4, <2>6, <2>7
<1>6. CASE LookupMove(CamUpdate)
  <2>. DEFINE u == Head(updateReq)
  <2>1. /\ updateReq # <<>> /\ updateReq' = Tail(updateReq) /\ updateRsp' = Append(updateRsp, u)
        /\ cam' = [cam EXCEPT ![u.tuple] = IF u.op = "INSERT" THEN u.id ELSE None]
        /\ UNCHANGED <<tupleValid, reverse, revInserts, insertRsp, deleteReq>>
    BY <1>6 DEF LookupMove, CamUpdate, reverseVars
  <2>u. UNCHANGED <<nValid, nRev, nIns, nDel>>
    BY <2>1 DEF nValid, nRev, nIns, nDel
  <2>2. u \in Update /\ u \in Elements(updateReq)
    BY <1>s, <2>1, Left
  <2>3. Gives(updateReq, updateReq', D, u)
    BY <1>s, <2>1, CountGives
  <2>. HIDE DEF u
  <2>4. Gets(updateRsp, updateRsp', I, u)
    BY <1>s, <2>1, <2>2, CountGets
  <2>5. CASE u \in Insertion
    <3>1. nUpd' = nUpd
      BY <1>i, <2>3, <2>5 DEF Gives, nUpd
    <3>2. u.id # None /\ u.tuple \in Tuple
      BY <2>5, SessionLookupAssumption DEF Insertion, Ids
    <3>3. cam[u.tuple] = None
      BY <2>2, <2>5 DEF InsertInv
    <3>4. CASE u.tuple = t
      <4>1. nRsp' = nRsp + 1
        BY <1>i, <2>4, <2>5, <3>4 DEF Gets, nRsp
      <4>2. nCam = 0 /\ nCam' = 1
        BY <1>i, <1>s, <2>1, <2>5, <3>2, <3>3, <3>4 DEF nCam
      <4>. QED BY <1>0, <1>n, <2>u, <3>1, <4>1, <4>2
    <3>5. CASE u.tuple # t
      <4>1. nRsp' = nRsp
        BY <1>i, <2>4, <2>5, <3>5 DEF Gets, nRsp
      <4>2. nCam' = nCam
        BY <1>s, <2>1, <3>2, <3>5 DEF nCam
      <4>. QED BY <1>0, <2>u, <3>1, <4>1, <4>2
    <3>. QED BY <3>4, <3>5
  <2>6. CASE u \in Deletion
    <3>1. nRsp' = nRsp
      BY <1>i, <2>4, <2>6 DEF Gets, nRsp
    <3>2. u.id # None /\ u.tuple \in Tuple
      BY <2>6, SessionLookupAssumption DEF Deletion, Ids
    <3>3. cam[u.tuple] = u.id
      BY <2>2, <2>6 DEF MirrorInv
    <3>4. CASE u.tuple = t
      <4>1. nUpd' = nUpd - 1
        BY <1>i, <2>3, <2>6, <3>4 DEF Gives, nUpd
      <4>2. nCam = 1 /\ nCam' = 0
        BY <1>i, <1>s, <2>1, <2>6, <3>2, <3>3, <3>4 DEF nCam
      <4>. QED BY <1>0, <1>n, <2>u, <3>1, <4>1, <4>2
    <3>5. CASE u.tuple # t
      <4>1. nUpd' = nUpd
        BY <1>i, <2>3, <2>6, <3>5 DEF Gives, nUpd
      <4>2. nCam' = nCam
        BY <1>s, <2>1, <3>2, <3>5 DEF nCam
      <4>. QED BY <1>0, <2>u, <3>1, <4>1, <4>2
    <3>. QED BY <3>4, <3>5
  <2>. QED BY <1>i, <2>2, <2>5, <2>6
<1>7. CASE ReverseInsert
  <2>. DEFINE e == Head(revInserts)
  <2>1. /\ revInserts # <<>> /\ revInserts' = Tail(revInserts) /\ tupleValid' = tupleValid \cup {e.id}
        /\ reverse' = [reverse EXCEPT ![e.id] = e.tuple]
        /\ UNCHANGED <<updateRsp, insertRsp, deleteReq, updateReq, cam>>
    BY <1>7 DEF ReverseInsert, updateVars
  <2>u. UNCHANGED <<nRsp, nIns, nDel, nUpd, nCam>>
    BY <2>1 DEF nRsp, nIns, nDel, nUpd, nCam
  <2>2. e \in Elements(revInserts)
    BY <1>s, <2>1, Left
  <2>3. e \in Entry /\ e.id \in Ids /\ e.tuple \in Tuple /\ e.id \notin tupleValid
    BY <2>2, NotValidYet
  <2>4. Gives(revInserts, revInserts', R, e)
    BY <1>s, <2>1, CountGives
  <2>. HIDE DEF e
  <2>5. reverse'[e.id] = e.tuple /\ \A id \in tupleValid : reverse'[id] = reverse[id]
    BY <1>s, <2>1, <2>3
  <2>6. CASE e.tuple = t
    <3>1. nRev' = nRev - 1 /\ nRev' \in Nat
      BY <1>i, <2>3, <2>4, <2>6 DEF Gives, nRev
    <3>2. nValid' = 1
      BY <2>1, <2>5, <2>6 DEF nValid
    <3>3. nCam \in 0 .. 1
      BY DEF nCam
    <3>4. nRev >= 1
      BY <1>n, <3>1
    <3>5. nValid = 0
      BY <1>0, <1>n, <3>3, <3>4
    <3>6. nRev' = nRev - 1 /\ nValid' = nValid + 1
      BY <3>1, <3>2, <3>5
    <3>7. nRsp' = nRsp /\ nIns' = nIns /\ nDel' = nDel /\ nUpd' = nUpd /\ nCam' = nCam
      BY <2>u
    <3>. QED BY <1>0, <1>n, <3>6, <3>7
  <2>7. CASE e.tuple # t
    <3>1. nRev' = nRev
      BY <1>i, <2>3, <2>4, <2>7 DEF Gives, nRev
    <3>2. nValid' = nValid
      BY <2>1, <2>5, <2>7 DEF nValid
    <3>. QED BY <1>0, <2>u, <3>1, <3>2
  <2>. QED BY <2>6, <2>7
<1>8. CASE ReverseRelease
  <2>. DEFINE r == Head(releases)
              u == [op |-> "DELETE", tuple |-> reverse[r], id |-> r, source |-> "RX"]
  <2>1. /\ tupleValid' = tupleValid \ {r}
        /\ deleteReq' = IF r \in tupleValid THEN Append(deleteReq, u) ELSE deleteReq
        /\ UNCHANGED <<reverse, revInserts, updateRsp, insertRsp, updateReq, cam>>
    BY <1>8 DEF ReverseRelease, Delete
  <2>u. UNCHANGED <<nRev, nRsp, nIns, nUpd, nCam>>
    BY <2>1 DEF nRev, nRsp, nIns, nUpd, nCam
  <2>2. CASE r \in tupleValid
    <3>1. u \in Deletion /\ u.tuple = reverse[r]
      BY <2>2 DEF TypeOK, UpdateType, Deletion, Source
    <3>. HIDE DEF u, r
    <3>2. Gets(deleteReq, deleteReq', D, u)
      BY <1>s, <2>1, <2>2, <3>1, CountGets
    <3>3. CASE reverse[r] = t
      <4>1. nDel' = nDel + 1
        BY <1>i, <3>1, <3>2, <3>3 DEF Gets, nDel
      <4>2. nValid = 1
        BY <2>2, <3>3 DEF nValid
      <4>3. \A id \in tupleValid : reverse[id] = t => id = r
        BY <2>2, <3>3 DEF MirrorInv
      <4>4. nValid' = 0
        BY <2>1, <4>3 DEF nValid
      <4>. QED BY <1>0, <1>n, <2>u, <4>1, <4>2, <4>4
    <3>4. CASE reverse[r] # t
      <4>1. nDel' = nDel
        BY <1>i, <3>1, <3>2, <3>4 DEF Gets, nDel
      <4>2. nValid' = nValid
        BY <2>1, <3>4 DEF nValid
      <4>. QED BY <1>0, <2>u, <4>1, <4>2
    <3>. QED BY <3>3, <3>4
  <2>3. CASE r \notin tupleValid
    <3>1. UNCHANGED <<nDel, nValid>>
      BY <2>1, <2>3 DEF nDel, nValid
    <3>. QED BY <1>0, <2>u, <3>1
  <2>. QED BY <2>2, <2>3
<1>. QED BY <1>1, <1>2, <1>3, <1>4, <1>5, <1>6, <1>7, <1>8, MirrorMoves

LEMMA MirrorStep ==
  ASSUME TypeOK, TypeOK', IdsAccounted, InsertInv, MirrorInv, [Next]_vars
  PROVE  MirrorInv'
<1>. DEFINE Valid == \A id \in tupleValid : cam[reverse[id]] = id
            Reversed == \A e \in Elements(revInserts) : cam[e.tuple] = e.id
            Inserted == \A u \in Elements(updateRsp) \cup Elements(insertRsp) :
                          u \in Insertion => cam[u.tuple] = u.id
            Deleting == \A u \in Elements(deleteReq) \cup Elements(updateReq) :
                          u \in Deletion => cam[u.tuple] = u.id
<1>s. /\ insertReq \in Seq(Insertion) /\ insertRsp \in Seq(Insertion)
      /\ updateReq \in Seq(Update) /\ updateRsp \in Seq(Update)
      /\ deleteReq \in Seq(Deletion) /\ revInserts \in Seq(Entry)
      /\ cam \in [Tuple -> Ids \cup {None}] /\ reverse \in [Ids -> Tuple \cup {NoTuple}]
      /\ tupleValid \subseteq Ids
  BY DEF TypeOK, UpdateType, Fifo
<1>c. (\A t \in Tuple : Claims(t) = IF cam[t] = None THEN 0 ELSE 1)'
  BY ClaimsStep
<1>u. (TypeOK => \A t \in Tuple : Claims(t) = 0 => NoClaims(t))'
  BY Unclaimed, PTL
<1>m. Valid /\ Reversed /\ Inserted /\ Deleting
  BY DEF MirrorInv
<1>g. SUFFICES Valid' /\ Reversed' /\ Inserted' /\ Deleting'
  BY <1>c DEF MirrorInv
<1>i. /\ \A u \in Insertion : u \notin Deletion /\ u \in Update /\ u.op = "INSERT" /\ u.tuple \in Tuple
      /\ \A u \in Deletion : u \notin Insertion /\ u \in Update /\ u.op # "INSERT" /\ u.tuple \in Tuple
      /\ \A u \in Update : u \in Insertion \/ u \in Deletion
  BY DEF Insertion, Deletion, Update
<1>1. CASE \/ UNCHANGED mirrorGroup
           \/ AskApp \/ AskRx \/ LookupMove(Create) \/ LookupAnswer \/ CamLookup
  <2>1. UNCHANGED <<tupleValid, reverse, revInserts, updateRsp, insertRsp, deleteReq, updateReq, cam>>
    BY <1>1 DEF mirrorGroup, AskApp, AskRx, Ask, LookupMove, Create, LookupAnswer, CamLookup,
                updateVars, reverseVars
  <2>. QED BY <1>m, <2>1 DEF Elements
<1>2. CASE LookupMove(InsertAnswer)
  <2>. DEFINE u == Head(insertRsp)
              e == [id |-> u.id, tuple |-> lup.query.tuple]
  <2>1. /\ insertRsp # <<>> /\ insertRsp' = Tail(insertRsp) /\ revInserts' = Append(revInserts, e)
        /\ lup.state = "UPD_RSP"
        /\ UNCHANGED <<tupleValid, reverse, updateRsp, deleteReq, updateReq, cam>>
    BY <1>2 DEF LookupMove, InsertAnswer
  <2>2. u \in Insertion /\ u \in Elements(insertRsp) /\ Elements(insertRsp') \subseteq Elements(insertRsp)
    BY <1>s, <2>1, Left
  <2>3. e \in Entry /\ e.tuple = u.tuple /\ e.id = u.id
    <3>1. lup.query.tuple \in Tuple /\ u.tuple = lup.query.tuple
      BY <2>1, <2>2 DEF TypeOK, LookupType, InsertInv
    <3>. QED BY <2>2, <3>1 DEF Entry, Insertion
  <2>4. cam[e.tuple] = e.id
    BY <1>m, <2>2, <2>3
  <2>. HIDE DEF e
  <2>5. Elements(revInserts') = Elements(revInserts) \cup {e}
    BY <1>s, <2>1, <2>3, Entered
  <2>6. /\ Elements(updateRsp)' = Elements(updateRsp) /\ Elements(deleteReq)' = Elements(deleteReq)
        /\ Elements(updateReq)' = Elements(updateReq)
    BY <2>1 DEF Elements
  <2>. QED BY <1>m, <2>1, <2>2, <2>4, <2>5, <2>6
<1>3. CASE LookupMove(SendInsert)
  <2>. DEFINE u == Head(insertReq)
  <2>1. /\ insertReq # <<>> /\ updateReq' = Append(updateReq, u)
        /\ UNCHANGED <<tupleValid, reverse, revInserts, updateRsp, insertRsp, deleteReq, cam>>
    BY <1>3 DEF LookupMove, SendInsert, reverseVars
  <2>2. u \in Insertion
    BY <1>s, <2>1, HeadType
  <2>. HIDE DEF u
  <2>3. Elements(updateReq') = Elements(updateReq) \cup {u}
    BY <1>i, <1>s, <2>1, <2>2, Entered
  <2>4. /\ Elements(updateRsp)' = Elements(updateRsp) /\ Elements(deleteReq)' = Elements(deleteReq)
        /\ Elements(insertRsp)' = Elements(insertRsp) /\ Elements(revInserts)' = Elements(revInserts)
    BY <2>1 DEF Elements
  <2>. QED BY <1>i, <1>m, <2>1, <2>2, <2>3, <2>4
<1>4. CASE LookupMove(SendDelete)
  <2>. DEFINE u == Head(deleteReq)
  <2>1. /\ deleteReq # <<>> /\ deleteReq' = Tail(deleteReq) /\ updateReq' = Append(updateReq, u)
        /\ UNCHANGED <<tupleValid, reverse, revInserts, updateRsp, insertRsp, cam>>
    BY <1>4 DEF LookupMove, SendDelete, reverseVars
  <2>2. u \in Deletion /\ u \in Elements(deleteReq) /\ Elements(deleteReq') \subseteq Elements(deleteReq)
    BY <1>s, <2>1, Left
  <2>3. Elements(updateReq') = Elements(updateReq) \cup {u}
    BY <1>i, <1>s, <2>1, <2>2, Entered
  <2>. HIDE DEF u
  <2>4. /\ Elements(updateRsp)' = Elements(updateRsp) /\ Elements(revInserts)' = Elements(revInserts)
        /\ Elements(insertRsp)' = Elements(insertRsp)
    BY <2>1 DEF Elements
  <2>. QED BY <1>m, <2>1, <2>2, <2>3, <2>4
<1>5. CASE LookupMove(UpdateReply)
  <2>. DEFINE u == Head(updateRsp)
  <2>1. /\ updateRsp # <<>> /\ updateRsp' = Tail(updateRsp)
        /\ insertRsp' = IF u.op = "INSERT" THEN Append(insertRsp, u) ELSE insertRsp
        /\ UNCHANGED <<tupleValid, reverse, revInserts, deleteReq, updateReq, cam>>
    BY <1>5 DEF LookupMove, UpdateReply, reverseVars
  <2>2. u \in Update /\ u \in Elements(updateRsp) /\ Elements(updateRsp') \subseteq Elements(updateRsp)
    BY <1>s, <2>1, Left
  <2>. HIDE DEF u
  <2>3. Elements(insertRsp') \subseteq Elements(insertRsp) \cup {u}
    <3>1. CASE u \in Insertion
      <4>1. insertRsp' = Append(insertRsp, u)
        BY <1>i, <2>1, <3>1
      <4>2. Elements(insertRsp') = Elements(insertRsp) \cup {u}
        BY <1>s, <3>1, <4>1, Entered
      <4>. QED BY <4>2
    <3>2. CASE u \in Deletion
      <4>1. insertRsp' = insertRsp
        BY <1>i, <2>1, <3>2
      <4>. QED BY <4>1 DEF Elements
    <3>. QED BY <1>i, <2>2, <3>1, <3>2
  <2>4. /\ Elements(updateReq)' = Elements(updateReq) /\ Elements(revInserts)' = Elements(revInserts)
        /\ Elements(deleteReq)' = Elements(deleteReq)
    BY <2>1 DEF Elements
  <2>. QED BY <1>m, <2>1, <2>2, <2>3, <2>4
<1>6. CASE LookupMove(CamUpdate)
  <2>. DEFINE u == Head(updateReq)
  <2>1. /\ updateReq # <<>> /\ updateReq' = Tail(updateReq) /\ updateRsp' = Append(updateRsp, u)
        /\ cam' = [cam EXCEPT ![u.tuple] = IF u.op = "INSERT" THEN u.id ELSE None]
        /\ UNCHANGED <<tupleValid, reverse, revInserts, insertRsp, deleteReq>>
    BY <1>6 DEF LookupMove, CamUpdate, reverseVars
  <2>2. u \in Update /\ u \in Elements(updateReq) /\ Elements(updateReq') \subseteq Elements(updateReq)
    BY <1>s, <2>1, Left
  <2>3. Elements(updateRsp') = Elements(updateRsp) \cup {u}
    BY <1>s, <2>1, <2>2, Entered
  <2>. HIDE DEF u
  <2>4. /\ Elements(insertRsp)' = Elements(insertRsp) /\ Elements(revInserts)' = Elements(revInserts)
        /\ Elements(deleteReq)' = Elements(deleteReq)
    BY <2>1 DEF Elements
  <2>5. u.tuple \in Tuple /\ \A t \in Tuple : t # u.tuple => cam'[t] = cam[t]
    BY <1>i, <1>s, <2>1, <2>2
  <2>6. /\ \A id \in tupleValid : reverse[id] \in Tuple
        /\ \A e \in Elements(revInserts) : e.tuple \in Tuple
    <3>1. \A id \in tupleValid : reverse[id] \in Tuple
      BY DEF TypeOK, UpdateType
    <3>2. \A e \in Elements(revInserts) : e \in Entry
      BY <1>s, Found
    <3>. QED BY <3>1, <3>2 DEF Entry
  <2>7. CASE u \in Insertion
    <3>1. Claims(u.tuple) = 0
      BY <2>2, <2>5, <2>7 DEF InsertInv, MirrorInv
    <3>2. NoClaims(u.tuple)
      BY <2>5, <3>1, Unclaimed
    <3>3. cam'[u.tuple] = u.id
      BY <1>i, <1>s, <2>1, <2>5, <2>7
    <3>4. Valid' /\ Reversed'
      BY <1>m, <2>1, <2>4, <2>5, <2>6, <3>2 DEF NoClaims
    <3>5. Inserted'
      BY <1>i, <1>m, <2>3, <2>4, <2>5, <3>2, <3>3 DEF NoClaims
    <3>6. Deleting'
      BY <1>i, <1>m, <2>2, <2>4, <2>5, <3>2 DEF NoClaims
    <3>. QED BY <3>4, <3>5, <3>6
  <2>8. CASE u \in Deletion
    <3>. PICK t \in Tuple : t = u.tuple
      BY <2>5
    <3>1. cam'[t] = None
      BY <1>i, <1>s, <2>1, <2>5, <2>8
    <3>2. Claims(t)' = 0
      BY <1>c, <3>1
    <3>n. NoClaims(t)'
      BY <1>u, <3>2
    <3>4. /\ \A id \in tupleValid : reverse[id] # t
          /\ \A e \in Elements(revInserts) : e.tuple # t
          /\ \A w \in Elements(updateRsp)' \cup Elements(insertRsp)' : w \in Insertion => w.tuple # t
          /\ \A w \in Elements(deleteReq)' \cup Elements(updateReq)' : w \in Deletion => w.tuple # t
      BY <2>1, <2>4, <3>n DEF NoClaims
    <3>5. Valid' /\ Reversed'
      BY <1>m, <2>1, <2>4, <2>5, <2>6, <3>4
    <3>6. Inserted'
      BY <1>i, <1>m, <2>3, <2>4, <2>5, <2>8, <3>4
    <3>7. Deleting'
      BY <1>i, <1>m, <2>2, <2>4, <2>5, <3>4
    <3>. QED BY <3>5, <3>6, <3>7
  <2>. QED BY <1>i, <2>2, <2>7, <2>8
<1>7. CASE ReverseInsert
  <2>. DEFINE e == Head(revInserts)
  <2>1. /\ revInserts # <<>> /\ revInserts' = Tail(revInserts) /\ tupleValid' = tupleValid \cup {e.id}
        /\ reverse' = [reverse EXCEPT ![e.id] = e.tuple]
        /\ UNCHANGED <<updateRsp, insertRsp, deleteReq, updateReq, cam>>
    BY <1>7 DEF ReverseInsert, updateVars
  <2>2. e \in Elements(revInserts) /\ Elements(revInserts') \subseteq Elements(revInserts)
    BY <1>s, <2>1, Left
  <2>3. e.id \in Ids /\ e.id \notin tupleValid
    BY <2>2, NotValidYet
  <2>. HIDE DEF e
  <2>4. reverse'[e.id] = e.tuple /\ \A id \in tupleValid : reverse'[id] = reverse[id]
    BY <1>s, <2>1, <2>3
  <2>5. /\ Elements(updateRsp)' = Elements(updateRsp) /\ Elements(deleteReq)' = Elements(deleteReq)
        /\ Elements(insertRsp)' = Elements(insertRsp) /\ Elements(updateReq)' = Elements(updateReq)
    BY <2>1 DEF Elements
  <2>. QED BY <1>m, <2>1, <2>2, <2>4, <2>5
<1>8. CASE ReverseRelease
  <2>. DEFINE r == Head(releases)
              u == [op |-> "DELETE", tuple |-> reverse[r], id |-> r, source |-> "RX"]
  <2>1. /\ tupleValid' = tupleValid \ {r}
        /\ deleteReq' = IF r \in tupleValid THEN Append(deleteReq, u) ELSE deleteReq
        /\ UNCHANGED <<reverse, revInserts, updateRsp, insertRsp, updateReq, cam>>
    BY <1>8 DEF ReverseRelease, Delete
  <2>2. Elements(deleteReq') \subseteq Elements(deleteReq) \cup (IF r \in tupleValid THEN {u} ELSE {})
    <3>1. CASE r \in tupleValid
      <4>1. u \in Deletion
        BY <3>1 DEF TypeOK, UpdateType, Deletion, Source
      <4>. HIDE DEF u, r
      <4>2. Elements(deleteReq') = Elements(deleteReq) \cup {u}
        BY <1>s, <2>1, <3>1, <4>1, Entered
      <4>. QED BY <3>1, <4>2
    <3>2. CASE r \notin tupleValid
      BY <2>1, <3>2 DEF Elements
    <3>. QED BY <3>1, <3>2
  <2>3. r \in tupleValid => cam[u.tuple] = u.id
    BY <1>m
  <2>. HIDE DEF u, r
  <2>4. /\ Elements(updateRsp)' = Elements(updateRsp) /\ Elements(revInserts)' = Elements(revInserts)
        /\ Elements(insertRsp)' = Elements(insertRsp) /\ Elements(updateReq)' = Elements(updateReq)
    BY <2>1 DEF Elements
  <2>. QED BY <1>m, <2>1, <2>2, <2>3, <2>4
<1>. QED BY <1>1, <1>2, <1>3, <1>4, <1>5, <1>6, <1>7, <1>8, MirrorMoves

LEMMA InitMirror == Init => LookupInv /\ InsertInv /\ MirrorInv
<1>1. SUFFICES ASSUME Init PROVE LookupInv /\ InsertInv /\ MirrorInv
  OBVIOUS
<1>2. Elements(<<>>) = {} /\ Len(<<>>) = 0 /\ \A S : Count(<<>>, S) = 0
  <2>1. <<>> \in Seq(Ids) /\ Len(<<>>) = 0
    OBVIOUS
  <2>. QED BY <2>1, CountType, Found
<1>3. LookupInv /\ InsertInv
  BY <1>1, <1>2 DEF Init, SessionInit, LookupInv, InsertInv
<1>4. MirrorInv
  BY <1>1, <1>2 DEF Init, SessionInit, MirrorInv, Claims
<1>. QED BY <1>3, <1>4

LEMMA Mirrors == TypeOK /\ MirrorInv => CamMirrors
<1>1. SUFFICES ASSUME TypeOK, MirrorInv PROVE CamMirrors
  OBVIOUS
<1>2. ASSUME NEW t \in Tuple, cam[t] # None
      PROVE  \/ cam[t] \in tupleValid /\ reverse[cam[t]] = t
             \/ \E q \in {updateRsp, insertRsp, revInserts, deleteReq, updateReq} :
                  \E i \in DOMAIN q : q[i].id = cam[t] /\ q[i].tuple = t
  <2>s. /\ insertRsp \in Seq(Insertion) /\ updateReq \in Seq(Update) /\ updateRsp \in Seq(Update)
        /\ deleteReq \in Seq(Deletion) /\ revInserts \in Seq(Entry)
    BY <1>1 DEF TypeOK, UpdateType, Fifo
  <2>1. Claims(t) # 0
    BY <1>1, <1>2 DEF MirrorInv
  <2>2. ~NoClaims(t)
    <3>1. SUFFICES ASSUME NoClaims(t) PROVE Claims(t) = 0
      BY <2>1
    <3>2. \A id \in tupleValid : reverse[id] # t
      BY <3>1 DEF NoClaims
    <3>3. \A e \in Elements(revInserts) : e \notin [id : Ids, tuple : {t}]
      BY <2>s, <3>1, Found, OfTupleType DEF NoClaims
    <3>4. \A u \in Elements(updateRsp) \cup Elements(insertRsp) : u \notin OfTuple("INSERT", t)
      <4>1. \A u \in OfTuple("INSERT", t) : u \in Insertion /\ u.tuple = t
        BY <1>2 DEF OfTuple, Insertion
      <4>. QED BY <3>1, <4>1 DEF NoClaims
    <3>5. \A u \in Elements(deleteReq) \cup Elements(updateReq) : u \notin OfTuple("DELETE", t)
      <4>1. \A u \in OfTuple("DELETE", t) : u \in Deletion /\ u.tuple = t
        BY <1>2 DEF OfTuple, Deletion
      <4>. QED BY <3>1, <4>1 DEF NoClaims
    <3>6. /\ Count(revInserts, [id : Ids, tuple : {t}]) = 0
          /\ Count(updateRsp, OfTuple("INSERT", t)) = 0 /\ Count(insertRsp, OfTuple("INSERT", t)) = 0
          /\ Count(deleteReq, OfTuple("DELETE", t)) = 0 /\ Count(updateReq, OfTuple("DELETE", t)) = 0
      <4>. DEFINE I == OfTuple("INSERT", t)
                  D == OfTuple("DELETE", t)
                  R == [id : Ids, tuple : {t}]
      <4>1. /\ \A e \in Elements(revInserts) : e \notin R
            /\ \A u \in Elements(updateRsp) : u \notin I
            /\ \A u \in Elements(insertRsp) : u \notin I
            /\ \A u \in Elements(deleteReq) : u \notin D
            /\ \A u \in Elements(updateReq) : u \notin D
        BY <3>3, <3>4, <3>5
      <4>. HIDE DEF I, D, R
      <4>2. Count(revInserts, R) = 0
        BY <2>s, <4>1, Found
      <4>3. Count(updateRsp, I) = 0
        BY <2>s, <4>1, Found
      <4>4. Count(insertRsp, I) = 0
        BY <2>s, <4>1, Found
      <4>5. Count(deleteReq, D) = 0
        BY <2>s, <4>1, Found
      <4>6. Count(updateReq, D) = 0
        BY <2>s, <4>1, Found
      <4>. QED BY <4>2, <4>3, <4>4, <4>5, <4>6 DEF I, D, R
    <3>. QED BY <3>2, <3>6 DEF Claims
  <2>3. \/ \E id \in tupleValid : reverse[id] = t
        \/ \E q \in {updateRsp, insertRsp, revInserts, deleteReq, updateReq} :
             \E u \in Elements(q) : u.id = cam[t] /\ u.tuple = t
    BY <1>1, <2>2 DEF NoClaims, MirrorInv
  <2>4. ASSUME NEW id \in tupleValid, reverse[id] = t PROVE cam[t] = id
    BY <1>1, <2>4 DEF MirrorInv
  <2>. QED BY <2>3, <2>4 DEF Elements
<1>3. \A id \in tupleValid : cam[reverse[id]] = id
  BY <1>1 DEF MirrorInv
<1>. QED BY <1>2, <1>3 DEF CamMirrors

(* Every variable keeps its type, and no FIFO holds more than its depth;   *)
(* a port that is asked for always finds the tuple that it is for.         *)
THEOREM TypeCorrect == Spec => []TypeOK
<1>. QED BY InitType, TypeStep, PTL DEF Spec

(* No session id is lost and none is given to two connections, for any     *)
(* number of sessions and ports and in every order in which lookups,       *)
(* insertions, deletions and releases meet (session_lookup_controller.cpp). *)
THEOREM IdsStayAccounted == Spec => []IdsAccounted
<1>1. TypeOK /\ IdsAccounted /\ [Next]_vars => IdsAccounted'
  <2>1. SUFFICES ASSUME TypeOK, IdsAccounted, [Next]_vars, NEW id \in Ids PROVE Places(id)' = 1
    BY DEF IdsAccounted, Places
  <2>. QED BY <2>1, IdsStep
<1>. QED BY <1>1, InitIds, TypeCorrect, PTL DEF Spec

(* The answer of the port table that rxMetadataHandler takes for a segment *)
(* is the one for its port, for any depth of the FIFOs between the two     *)
(* tables, the multiplexer and the receive engine (port_table.cpp). *)
THEOREM AnswersStayInOrder == Spec => []AnswersInOrder
<1>1. OrderInv => AnswersInOrder
  BY DEF OrderInv
<1>2. TypeOK /\ OrderInv /\ [Next]_vars => OrderInv'
  BY OrderStep
<1>. QED BY <1>1, <1>2, InitOrder, TypeCorrect, PTL DEF Spec

(* The memory of the lookups and the reverse table agree up to what is     *)
(* under way between them: no tuple has two sessions, and a valid session  *)
(* is always found by its tuple (session_lookup_controller.cpp). *)
THEOREM CamStaysMirrored == Spec => []CamMirrors
<1>. DEFINE Inv == IdsAccounted /\ LookupInv /\ InsertInv /\ MirrorInv
<1>1. Init => Inv
  BY InitIds, InitMirror
<1>2. TypeOK /\ TypeOK' /\ Inv /\ [Next]_vars => Inv'
  <2>1. SUFFICES ASSUME TypeOK, TypeOK', Inv, [Next]_vars PROVE Inv'
    OBVIOUS
  <2>2. LookupInv' /\ InsertInv'
    BY <2>1, InsertStep
  <2>3. MirrorInv'
    BY <2>1, MirrorStep
  <2>4. ASSUME NEW id \in Ids PROVE Places(id)' = 1
    BY <2>1, IdsStep
  <2>5. IdsAccounted'
    BY <2>4 DEF IdsAccounted, Places
  <2>. QED BY <2>2, <2>3, <2>5
<1>3. TypeOK /\ Inv => CamMirrors
  BY Mirrors
<1>. QED BY <1>1, <1>2, <1>3, TypeCorrect, PTL DEF Spec
=============================================================================
