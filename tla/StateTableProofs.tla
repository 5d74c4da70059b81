-------------------------- MODULE StateTableProofs --------------------------
(***************************************************************************)
(* Proofs about StateTableSystem, for any set of sessions, any depth of    *)
(* the streams and any traffic.                                            *)
(***************************************************************************)
EXTENDS StateTableSystem, TLAPS

LEMMA TailFacts ==
  ASSUME NEW S, NEW q \in Seq(S), q # <<>>
  PROVE  /\ Head(q) \in S /\ Head(q) = q[1]
         /\ Tail(q) \in Seq(S) /\ Len(Tail(q)) = Len(q) - 1
         /\ \A i \in 1..Len(Tail(q)) : Tail(q)[i] = q[i + 1]
         /\ Len(q) \in Nat \ {0}
  OBVIOUS

LEMMA AppendFacts ==
  ASSUME NEW S, NEW q \in Seq(S), NEW e \in S
  PROVE  /\ Append(q, e) \in Seq(S) /\ Len(Append(q, e)) = Len(q) + 1
         /\ \A i \in 1..Len(q) : Append(q, e)[i] = q[i]
         /\ Append(q, e)[Len(q) + 1] = e
         /\ Append(q, e) # <<>>
         /\ Len(q) \in Nat
  OBVIOUS

LEMMA ElementType ==
  ASSUME NEW S, NEW q \in Seq(S), NEW i \in 1..Len(q)
  PROVE  q[i] \in S
  OBVIOUS

LEMMA OneElement ==
  ASSUME NEW S, NEW e \in S
  PROVE  <<e>> \in Seq(S) /\ Len(<<e>>) = 1 /\ <<e>>[1] = e /\ <<e>> # <<>>
  OBVIOUS

(* What the writers write is a state. *)
LEMMA WrittenStates ==
  ASSUME NEW st \in SessionState
  PROVE  /\ RxMayWrite(st) \subseteq SessionState
         /\ AppCloseWrites(st) \in SessionState
  BY DEF RxMayWrite, AppCloseWrites, SessionState

LEMMA QueryTypes ==
  ASSUME NEW s \in Sessions, NEW st \in SessionState
  PROVE  /\ ReadOf(s) \in Query /\ ReadOf(s).session = s /\ ~ReadOf(s).write
         /\ WriteOf(s, st) \in Query /\ WriteOf(s, st).session = s
         /\ WriteOf(s, st).write /\ WriteOf(s, st).state = st
  BY DEF ReadOf, WriteOf, Query, SessionState


-----------------------------------------------------------------------------
(* Type correctness *)

ServedOK ==
  /\ stateTable' \in [Sessions -> SessionState]
  /\ rxLock' \in Sessions \cup {None} /\ txLock' \in Sessions \cup {None}
  /\ rxSeen' \in SessionState /\ txSeen' \in SessionState
  /\ rxRsp' \in Seq(SessionState) /\ txRsp' \in Seq(SessionState)
  /\ release' \in Seq(Sessions)

LEMMA ServeTypes ==
  ASSUME TypeOK, NEW a \in Query,
         ServeTx(a) \/ ServeRx(a) \/ ServeClose(a.session) \/ Defer
  PROVE  ServedOK
<1> USE DEF TypeOK, Query, ServedOK
<1>0. "CLOSED" \in SessionState
  BY DEF SessionState
<1>a. a.session \in Sessions /\ a.state \in SessionState /\ stateTable[a.session] \in SessionState
  OBVIOUS
<1>b. /\ Append(rxRsp, stateTable[a.session]) \in Seq(SessionState)
      /\ Append(txRsp, stateTable[a.session]) \in Seq(SessionState)
      /\ Append(release, a.session) \in Seq(Sessions)
  BY <1>a, AppendFacts
<1>1. CASE ServeTx(a)
  <2>1. CASE a.write
    BY <1>0, <1>a, <1>1, <2>1 DEF ServeTx
  <2>2. CASE ~a.write
    BY <1>0, <1>a, <1>b, <1>1, <2>2 DEF ServeTx
  <2> QED
    BY <2>1, <2>2
<1>2. CASE ServeRx(a)
  <2>1. CASE a.write
    BY <1>0, <1>a, <1>b, <1>2, <2>1 DEF ServeRx
  <2>2. CASE ~a.write
    BY <1>0, <1>a, <1>b, <1>2, <2>2 DEF ServeRx
  <2> QED
    BY <2>1, <2>2
<1>3. CASE ServeClose(a.session)
  BY <1>0, <1>3 DEF ServeClose, locks
<1>4. CASE Defer
  BY <1>4 DEF Defer, locks
<1> QED
  BY <1>1, <1>2, <1>3, <1>4

LEMMA TypeInit == Init => TypeOK
  BY DEF Init, TableInit, TypeOK, SessionState

LEMMA TypeStep == TypeOK /\ [Next]_vars => TypeOK'
<1> SUFFICES ASSUME TypeOK, [Next]_vars
             PROVE  TypeOK'
  OBVIOUS
<1> USE DEF TypeOK, ServedOK
<1>1. CASE TakeTx /\ UNCHANGED <<rxFsm, txClose, streamQ>>
  <2> DEFINE a == Head(txReq)
  <2>1. a \in Query /\ Tail(txReq) \in Seq(Query)
    BY <1>1, TailFacts DEF TakeTx, TxTurn
  <2>2. txWait' = txWait \/ txWait' = <<a>>
    BY <1>1 DEF TakeTx
  <2>4. ServeTx(a) \/ Defer
    BY <1>1 DEF TakeTx
  <2> HIDE DEF a
  <2>3. txWait' \in Seq(Query) /\ Len(txWait') <= 1
    <3>1. <<a>> \in Seq(Query) /\ Len(<<a>>) = 1
      BY <2>1, OneElement
    <3>2. CASE txWait' = txWait
      BY <3>2
    <3>3. CASE txWait' = <<a>>
      BY <3>1, <3>3
    <3> QED
      BY <2>2, <3>2, <3>3
  <2> HIDE DEF TypeOK, ServedOK
  <2>5. ServedOK
    BY <2>1, <2>4, ServeTypes
  <2> QED
    BY <1>1, <2>1, <2>3, <2>5 DEF TakeTx, TypeOK, ServedOK
<1>2. CASE TakeQuery /\ UNCHANGED <<rxFsm, txClose, streamQ>>
  <2>1. Head(queryReq) \in Sessions /\ Tail(queryReq) \in Seq(Sessions)
    BY <1>2, TailFacts DEF TakeQuery, QueryTurn
  <2>2. queryRsp' \in Seq(SessionState)
    BY <1>2, <2>1, AppendFacts DEF TakeQuery
  <2> QED
    BY <1>2, <2>1, <2>2 DEF TakeQuery, locks, waits
<1>3. CASE TakeRx /\ UNCHANGED <<rxFsm, txClose, streamQ>>
  <2> DEFINE a == Head(rxReq)
  <2>1. a \in Query /\ Tail(rxReq) \in Seq(Query)
    BY <1>3, TailFacts DEF TakeRx, RxTurn
  <2>2. rxWait' = rxWait \/ rxWait' = <<a>>
    BY <1>3 DEF TakeRx
  <2>4. ServeRx(a) \/ Defer
    BY <1>3 DEF TakeRx
  <2> HIDE DEF a
  <2>3. rxWait' \in Seq(Query) /\ Len(rxWait') <= 1
    <3>1. <<a>> \in Seq(Query) /\ Len(<<a>>) = 1
      BY <2>1, OneElement
    <3>2. CASE rxWait' = rxWait
      BY <3>2
    <3>3. CASE rxWait' = <<a>>
      BY <3>1, <3>3
    <3> QED
      BY <2>2, <3>2, <3>3
  <2> HIDE DEF TypeOK, ServedOK
  <2>5. ServedOK
    BY <2>1, <2>4, ServeTypes
  <2> QED
    BY <1>3, <2>1, <2>3, <2>5 DEF TakeRx, TypeOK, ServedOK
<1>4. CASE TakeClose /\ UNCHANGED <<rxFsm, txClose, streamQ>>
  <2> DEFINE s == Head(timerReq)
  <2>1. s \in Sessions /\ Tail(timerReq) \in Seq(Sessions)
    BY <1>4, TailFacts DEF TakeClose, CloseTurn
  <2>2. (ServeClose(s) /\ UNCHANGED closeWait) \/ (Defer /\ closeWait' = s)
    BY <1>4 DEF TakeClose
  <2>3. ReadOf(s) \in Query /\ ReadOf(s).session = s
    BY <2>1 DEF ReadOf, Query, SessionState
  <2> HIDE DEF s
  <2> QED
    BY <1>4, <2>1, <2>2, <2>3, ServeTypes DEF TakeClose
<1>5. CASE RetryTx /\ UNCHANGED <<rxFsm, txClose, streamQ>>
  <2>1. txWait[1] \in Query /\ ServeTx(txWait[1])
    BY <1>5 DEF RetryTx
  <2> QED
    BY <1>5, <2>1, ServeTypes DEF RetryTx
<1>6. CASE RetryRx /\ UNCHANGED <<rxFsm, txClose, streamQ>>
  <2>1. rxWait[1] \in Query /\ ServeRx(rxWait[1])
    BY <1>6 DEF RetryRx
  <2> QED
    BY <1>6, <2>1, ServeTypes DEF RetryRx
<1>7. CASE RetryClose /\ UNCHANGED <<rxFsm, txClose, streamQ>>
  <2>1. closeWait \in Sessions /\ ServeClose(closeWait)
    BY <1>7 DEF RetryClose
  <2>2. ReadOf(closeWait) \in Query /\ ReadOf(closeWait).session = closeWait
    BY <2>1 DEF ReadOf, Query, SessionState
  <2> QED
    BY <1>7, <2>1, <2>2, ServeTypes DEF RetryClose
<1>8. ASSUME NEW s \in Sessions,
             RxLoad(s) \/ TxOpen(s) \/ TxCloseRequest(s)
      PROVE  TypeOK'
  <2>1. /\ Append(rxReq, ReadOf(s)) \in Seq(Query)
        /\ Append(txReq, WriteOf(s, "SYN_SENT")) \in Seq(Query)
        /\ Append(txReq, ReadOf(s)) \in Seq(Query)
    BY QueryTypes, AppendFacts DEF SessionState
  <2> QED
    BY <1>8, <2>1 DEF RxLoad, TxOpen, TxCloseRequest, locks, waits
<1>9. ASSUME NEW s \in Sessions, StreamRequest(s) \/ TimerRelease(s)
      PROVE  TypeOK'
  <2>1. Append(queryReq, s) \in Seq(Sessions) /\ Append(timerReq, s) \in Seq(Sessions)
    BY AppendFacts
  <2> QED
    BY <1>9, <2>1 DEF StreamRequest, TimerRelease, locks, waits
<1>10. CASE RxTransition
  <2>1. Head(rxRsp) \in SessionState /\ Tail(rxRsp) \in Seq(SessionState)
    BY <1>10, TailFacts DEF RxTransition
  <2>2. PICK st \in SessionState : rxReq' = Append(rxReq, WriteOf(rxFsm, st))
    BY <1>10, <2>1, WrittenStates DEF RxTransition
  <2>3. rxReq' \in Seq(Query)
    BY <1>10, <2>2, QueryTypes, AppendFacts DEF RxTransition
  <2> QED
    BY <1>10, <2>1, <2>3 DEF RxTransition, locks, waits
<1>11. CASE TxCloseConn
  <2>1. Head(txRsp) \in SessionState /\ Tail(txRsp) \in Seq(SessionState)
    BY <1>11, TailFacts DEF TxCloseConn
  <2>2. txReq' \in Seq(Query)
    BY <1>11, <2>1, WrittenStates, QueryTypes, AppendFacts DEF TxCloseConn
  <2> QED
    BY <1>11, <2>1, <2>2 DEF TxCloseConn, locks, waits
<1>12. CASE StreamReply
  BY <1>12, TailFacts DEF StreamReply, locks, waits
<1>13. CASE LookupTakesRelease
  BY <1>13, TailFacts DEF LookupTakesRelease, locks, waits
<1>14. CASE UNCHANGED vars
  BY <1>14 DEF vars, tableVars, locks, waits
<1> QED
  BY <1>1, <1>2, <1>3, <1>4, <1>5, <1>6, <1>7, <1>8, <1>9, <1>10, <1>11,
     <1>12, <1>13, <1>14
  DEF Next, Table, TableStep, Clients

(* Every variable keeps its type, in every behaviour. *)
THEOREM TypeCorrect == Spec => []TypeOK
  BY TypeInit, TypeStep, PTL DEF Spec


-----------------------------------------------------------------------------
(* The inductive invariant *)

LEMMA InvInit == Init => IInv
  BY TypeInit DEF Init, TableInit, IInv, RxProtocol, TxProtocol,
                  LocksDisjoint, ReadStaysCurrent

(* Serving or deferring the request of rx_engine at the head of the port. *)
LEMMA TakeRxInv ==
  ASSUME IInv, TypeOK', TakeRx, UNCHANGED <<rxFsm, txClose, streamQ>>
  PROVE  IInv'
<1> DEFINE a == Head(rxReq)
<1>1. /\ rxReq # <<>> /\ rxWait = <<>> /\ rxReq' = Tail(rxReq)
      /\ UNCHANGED <<txWait, closeWait, txReq, queryReq, timerReq, queryRsp>>
  BY DEF TakeRx, RxTurn
<1>2. /\ a \in Query /\ a = rxReq[1] /\ Len(rxReq) \in Nat \ {0}
      /\ Tail(rxReq) \in Seq(Query) /\ Len(Tail(rxReq)) = Len(rxReq) - 1
      /\ \A i \in 1..Len(Tail(rxReq)) : Tail(rxReq)[i] = rxReq[i + 1]
  BY <1>1, TailFacts DEF IInv, TypeOK
<1>3. a.session \in Sessions /\ a.session # None /\ a.write \in BOOLEAN
  BY <1>2, SessionsAssumption DEF Query
<1> DEFINE Entry(i) == IF rxReq[i].write
                       THEN /\ i = 1 /\ rxLock = rxReq[i].session
                            /\ rxReq[i].state \in RxMayWrite(rxSeen)
                       ELSE i = Len(rxReq) /\ rxFsm = rxReq[i].session
<1>e. \A i \in 1..Len(rxReq) : Entry(i)
  BY DEF IInv, RxProtocol
<1>p. /\ rxLock = None => rxRsp = <<>>
      /\ rxLock # None => rxRsp = <<>> /\ rxReq[1].write
  BY <1>1 DEF IInv, RxProtocol
<1>4. /\ a.write => rxLock = a.session /\ a.state \in RxMayWrite(rxSeen)
      /\ ~a.write => Len(rxReq) = 1 /\ rxFsm = a.session /\ rxLock = None
      /\ rxRsp = <<>>
  <2>0. 1 \in 1..Len(rxReq)
    BY <1>2
  <2> HIDE DEF Entry
  <2>1. Entry(1)
    BY <2>0, <1>e
  <2> USE DEF Entry
  <2>2. a.write = rxReq[1].write /\ a.session = rxReq[1].session /\ a.state = rxReq[1].state
    BY <1>2
  <2>3. CASE rxReq[1].write
    BY <2>1, <2>2, <2>3, <1>p
  <2>4. CASE ~rxReq[1].write
    BY <2>1, <2>2, <2>4, <1>p
  <2> QED
    BY <2>3, <2>4
<1>5. ~a.write => rxReq' = <<>>
  BY <1>1, <1>2, <1>4
<1>6. \A i \in 1..Len(rxReq') : /\ ~rxReq'[i].write /\ i = Len(rxReq')
                               /\ rxFsm = rxReq'[i].session
  <2> SUFFICES ASSUME NEW i \in 1..Len(Tail(rxReq))
               PROVE  /\ ~Tail(rxReq)[i].write /\ i = Len(Tail(rxReq))
                      /\ rxFsm = Tail(rxReq)[i].session
    BY <1>1
  <2>1. i + 1 \in 1..Len(rxReq) /\ i + 1 # 1 /\ Tail(rxReq)[i] = rxReq[i + 1]
    BY <1>2
  <2>2. Entry(i + 1)
    BY <1>e, <2>1
  <2> QED
    BY <1>2, <2>1, <2>2
<1> HIDE DEF Entry
<1>7. CASE a.session = txLock
  <2>1. Defer /\ rxWait' = <<a>>
    BY <1>7 DEF TakeRx
  <2>2. ~a.write
    BY <1>3, <1>4, <1>7 DEF IInv, LocksDisjoint
  <2>3. rxWait'[1] = a
    BY <2>1
  <2>4. RxProtocol'
    BY <1>1, <1>4, <1>5, <1>6, <2>1, <2>2, <2>3 DEF RxProtocol, Defer, locks
  <2>5. TxProtocol' /\ LocksDisjoint' /\ ReadStaysCurrent'
    BY <1>1, <2>1 DEF IInv, TxProtocol, LocksDisjoint, ReadStaysCurrent, Defer, locks
  <2> QED
    BY <2>4, <2>5 DEF IInv
<1>8. CASE a.session # txLock /\ a.write
  <2>1. /\ stateTable' = [stateTable EXCEPT ![a.session] = a.state]
        /\ rxLock' = None /\ rxSeen' = "CLOSED" /\ rxWait' = <<>>
        /\ UNCHANGED <<rxRsp, txLock, txSeen, txRsp>>
    BY <1>1, <1>8 DEF TakeRx, ServeRx
  <2>2. RxProtocol'
    BY <1>1, <1>4, <1>6, <2>1 DEF RxProtocol
  <2>3. TxProtocol' /\ LocksDisjoint' /\ ReadStaysCurrent'
    BY <1>1, <1>8, <2>1 DEF IInv, TypeOK, TxProtocol, LocksDisjoint, ReadStaysCurrent
  <2> QED
    BY <2>2, <2>3 DEF IInv
<1>9. CASE a.session # txLock /\ ~a.write
  <2>1. /\ rxRsp' = Append(rxRsp, stateTable[a.session])
        /\ rxLock' = a.session /\ rxSeen' = stateTable[a.session]
        /\ UNCHANGED <<rxWait, stateTable, release, txLock, txSeen, txRsp>>
    BY <1>9 DEF TakeRx, ServeRx
  <2>2. rxRsp' = <<rxSeen'>>
    BY <1>4, <1>9, <2>1
  <2>3. RxProtocol'
    BY <1>1, <1>3, <1>4, <1>5, <1>6, <1>9, <2>1, <2>2 DEF RxProtocol
  <2>4. TxProtocol' /\ LocksDisjoint' /\ ReadStaysCurrent'
    BY <1>1, <1>9, <2>1 DEF IInv, TxProtocol, LocksDisjoint, ReadStaysCurrent
  <2> QED
    BY <2>3, <2>4 DEF IInv
<1> QED
  BY <1>3, <1>7, <1>8, <1>9


(* The same for tx_app_if, whose pending writes may come without a lock. *)
LEMMA TakeTxInv ==
  ASSUME IInv, TypeOK', TakeTx, UNCHANGED <<rxFsm, txClose, streamQ>>
  PROVE  IInv'
<1> DEFINE a == Head(txReq)
           Entry(i) == IF txReq[i].write
                       THEN \/ txReq[i].state = "SYN_SENT" /\ (i # 1 \/ txLock = None)
                            \/ /\ i = 1 /\ txLock = txReq[i].session
                               /\ txReq[i].state = AppCloseWrites(txSeen)
                       ELSE i = Len(txReq) /\ txClose = txReq[i].session
<1>1. /\ txReq # <<>> /\ txWait = <<>> /\ txReq' = Tail(txReq)
      /\ UNCHANGED <<rxWait, closeWait, rxReq, queryReq, timerReq, queryRsp>>
  BY DEF TakeTx, TxTurn
<1>2. /\ a \in Query /\ a = txReq[1] /\ Len(txReq) \in Nat \ {0}
      /\ Tail(txReq) \in Seq(Query) /\ Len(Tail(txReq)) = Len(txReq) - 1
      /\ \A i \in 1..Len(Tail(txReq)) : Tail(txReq)[i] = txReq[i + 1]
  BY <1>1, TailFacts DEF IInv, TypeOK
<1>3. a.session \in Sessions /\ a.session # None /\ a.write \in BOOLEAN
  BY <1>2, SessionsAssumption DEF Query
<1>e. \A i \in 1..Len(txReq) : Entry(i)
  BY DEF IInv, TxProtocol
<1>p. /\ txLock = None => txRsp = <<>>
      /\ txLock # None => txRsp = <<>> /\ txReq[1].write
  BY <1>1 DEF IInv, TxProtocol
<1>4. /\ a.write => txLock \in {None, a.session}
      /\ a.write /\ txLock = None => a.state = "SYN_SENT"
      /\ ~a.write => Len(txReq) = 1 /\ txClose = a.session /\ txLock = None
      /\ txRsp = <<>>
  <2>0. 1 \in 1..Len(txReq)
    BY <1>2
  <2> HIDE DEF Entry
  <2>1. Entry(1)
    BY <2>0, <1>e
  <2> USE DEF Entry
  <2>2. a.write = txReq[1].write /\ a.session = txReq[1].session /\ a.state = txReq[1].state
    BY <1>2
  <2>3. CASE txReq[1].write
    BY <2>1, <2>2, <2>3, <1>p, <1>3
  <2>4. CASE ~txReq[1].write
    BY <2>1, <2>2, <2>4, <1>p
  <2> QED
    BY <2>3, <2>4
<1>5. ~a.write => txReq' = <<>>
  BY <1>1, <1>2, <1>4
<1>6. \A i \in 1..Len(txReq') :
        IF txReq'[i].write
        THEN txReq'[i].state = "SYN_SENT"
        ELSE i = Len(txReq') /\ txClose = txReq'[i].session
  <2> SUFFICES ASSUME NEW i \in 1..Len(Tail(txReq))
               PROVE  IF Tail(txReq)[i].write
                      THEN Tail(txReq)[i].state = "SYN_SENT"
                      ELSE i = Len(Tail(txReq)) /\ txClose = Tail(txReq)[i].session
    BY <1>1
  <2>1. i + 1 \in 1..Len(txReq) /\ i + 1 # 1 /\ Tail(txReq)[i] = txReq[i + 1]
    BY <1>2
  <2>2. Entry(i + 1)
    BY <1>e, <2>1
  <2>3. CASE txReq[i + 1].write
    <3>1. txReq[i + 1].state = "SYN_SENT"
      BY <2>1, <2>2, <2>3
    <3> QED
      BY <2>1, <2>3, <3>1
  <2>4. CASE ~txReq[i + 1].write
    <3>1. i + 1 = Len(txReq) /\ txClose = txReq[i + 1].session
      BY <2>2, <2>4
    <3>2. Len(Tail(txReq)) = Len(txReq) - 1 /\ Len(txReq) \in Nat /\ i \in Nat
      BY <1>2
    <3>3. i = Len(Tail(txReq))
      BY <3>1, <3>2
    <3> QED
      BY <2>1, <2>4, <3>1, <3>3
  <2> QED
    BY <2>1, <2>3, <2>4
<1> HIDE DEF Entry
<1>7. CASE a.session = rxLock
  <2>1. Defer /\ txWait' = <<a>>
    BY <1>7 DEF TakeTx
  <2>2. txLock = None
    BY <1>3, <1>4, <1>7 DEF IInv, LocksDisjoint
  <2>3. txWait'[1] = a
    BY <2>1
  <2>4. TxProtocol'
    BY <1>1, <1>4, <1>5, <1>6, <2>1, <2>2, <2>3 DEF TxProtocol, Defer, locks
  <2>5. RxProtocol' /\ LocksDisjoint' /\ ReadStaysCurrent'
    BY <1>1, <2>1 DEF IInv, RxProtocol, LocksDisjoint, ReadStaysCurrent, Defer, locks
  <2> QED
    BY <2>4, <2>5 DEF IInv
<1>8. CASE a.session # rxLock /\ a.write
  <2>1. /\ stateTable' = [stateTable EXCEPT ![a.session] = a.state]
        /\ txLock' = None /\ txSeen' = "CLOSED" /\ txWait' = <<>>
        /\ UNCHANGED <<txRsp, rxLock, rxSeen, rxRsp>>
    BY <1>1, <1>8 DEF TakeTx, ServeTx
  <2>2. TxProtocol'
    BY <1>1, <1>4, <1>6, <2>1 DEF TxProtocol
  <2>3. RxProtocol' /\ LocksDisjoint' /\ ReadStaysCurrent'
    BY <1>1, <1>8, <2>1 DEF IInv, TypeOK, RxProtocol, LocksDisjoint, ReadStaysCurrent
  <2> QED
    BY <2>2, <2>3 DEF IInv
<1>9. CASE a.session # rxLock /\ ~a.write
  <2>1. /\ txRsp' = Append(txRsp, stateTable[a.session])
        /\ txLock' = a.session /\ txSeen' = stateTable[a.session]
        /\ UNCHANGED <<txWait, stateTable, release, rxLock, rxSeen, rxRsp>>
    BY <1>9 DEF TakeTx, ServeTx
  <2>2. txRsp' = <<txSeen'>>
    BY <1>4, <1>9, <2>1
  <2>3. TxProtocol'
    BY <1>1, <1>3, <1>4, <1>5, <1>6, <1>9, <2>1, <2>2 DEF TxProtocol
  <2>4. RxProtocol' /\ LocksDisjoint' /\ ReadStaysCurrent'
    BY <1>1, <1>9, <2>1 DEF IInv, RxProtocol, LocksDisjoint, ReadStaysCurrent
  <2> QED
    BY <2>3, <2>4 DEF IInv
<1> QED
  BY <1>3, <1>7, <1>8, <1>9

(* Retrying the deferred read of rx_engine. *)
LEMMA RetryRxInv ==
  ASSUME IInv, TypeOK', RetryRx, UNCHANGED <<rxFsm, txClose, streamQ>>
  PROVE  IInv'
<1> DEFINE a == rxWait[1]
<1>0. rxWait # <<>> => a \in Query
  BY TailFacts DEF IInv, TypeOK
<1>1. /\ rxWait # <<>> /\ rxWait' = <<>> /\ a.session # txLock /\ ServeRx(a)
      /\ UNCHANGED <<txWait, closeWait, rxReq, txReq, queryReq, timerReq, queryRsp>>
  BY DEF RetryRx
<1>2. a \in Query /\ a.session \in Sessions /\ a.session # None
  BY <1>0, <1>1, SessionsAssumption DEF Query
<1>3. /\ ~a.write /\ rxFsm = a.session /\ rxReq = <<>> /\ rxLock = None
      /\ rxRsp = <<>>
  BY <1>1 DEF IInv, RxProtocol
<1> HIDE DEF a
<1>4. /\ rxRsp' = <<stateTable[a.session]>>
      /\ rxLock' = a.session /\ rxSeen' = stateTable[a.session]
      /\ UNCHANGED <<stateTable, release, txLock, txSeen, txRsp>>
  BY <1>1, <1>3 DEF ServeRx
<1>5. RxProtocol'
  BY <1>1, <1>2, <1>3, <1>4 DEF RxProtocol
<1>6. TxProtocol' /\ LocksDisjoint' /\ ReadStaysCurrent'
  BY <1>1, <1>4 DEF IInv, TxProtocol, LocksDisjoint, ReadStaysCurrent
<1> QED
  BY <1>5, <1>6 DEF IInv

(* Retrying the deferred request of tx_app_if, a read or a SYN_SENT. *)
LEMMA RetryTxInv ==
  ASSUME IInv, TypeOK', RetryTx, UNCHANGED <<rxFsm, txClose, streamQ>>
  PROVE  IInv'
<1> DEFINE a == txWait[1]
<1>0. txWait # <<>> => a \in Query
  BY TailFacts DEF IInv, TypeOK
<1>1. /\ txWait # <<>> /\ txWait' = <<>> /\ a.session # rxLock /\ ServeTx(a)
      /\ UNCHANGED <<rxWait, closeWait, rxReq, txReq, queryReq, timerReq, queryRsp>>
  BY DEF RetryTx
<1>2. a \in Query /\ a.session \in Sessions /\ a.session # None
  BY <1>0, <1>1, SessionsAssumption DEF Query
<1>3. /\ txLock = None /\ txRsp = <<>>
      /\ a.write => a.state = "SYN_SENT"
      /\ ~a.write => txReq = <<>> /\ txClose = a.session
  BY <1>1 DEF IInv, TxProtocol
<1> HIDE DEF a
<1>e. \A i \in 1..Len(txReq) : IF txReq[i].write
                               THEN txReq[i].state = "SYN_SENT"
                               ELSE i = Len(txReq) /\ txClose = txReq[i].session
  <2> SUFFICES ASSUME NEW i \in 1..Len(txReq)
               PROVE  IF txReq[i].write
                      THEN txReq[i].state = "SYN_SENT"
                      ELSE i = Len(txReq) /\ txClose = txReq[i].session
    OBVIOUS
  <2>1. txReq[i] \in Query
    BY ElementType DEF IInv, TypeOK
  <2>2. txReq[i].session # None
    BY <2>1, SessionsAssumption DEF Query
  <2>3. CASE txReq[i].write
    BY <1>3, <2>2, <2>3 DEF IInv, TxProtocol
  <2>4. CASE ~txReq[i].write
    BY <2>4 DEF IInv, TxProtocol
  <2> QED
    BY <2>3, <2>4
<1>4. CASE a.write
  <2>1. /\ stateTable' = [stateTable EXCEPT ![a.session] = a.state]
        /\ txLock' = None /\ txSeen' = "CLOSED"
        /\ UNCHANGED <<txRsp, rxLock, rxSeen, rxRsp>>
    BY <1>1, <1>4 DEF ServeTx
  <2>2. TxProtocol'
    BY <1>1, <1>3, <1>e, <2>1 DEF TxProtocol
  <2>3. RxProtocol' /\ LocksDisjoint' /\ ReadStaysCurrent'
    BY <1>1, <2>1 DEF IInv, TypeOK, RxProtocol, LocksDisjoint, ReadStaysCurrent
  <2> QED
    BY <2>2, <2>3 DEF IInv
<1>5. CASE ~a.write
  <2>1. /\ txRsp' = <<stateTable[a.session]>>
        /\ txLock' = a.session /\ txSeen' = stateTable[a.session]
        /\ UNCHANGED <<stateTable, release, rxLock, rxSeen, rxRsp>>
    BY <1>1, <1>3, <1>5 DEF ServeTx
  <2>2. TxProtocol'
    BY <1>1, <1>2, <1>3, <1>5, <2>1 DEF TxProtocol
  <2>3. RxProtocol' /\ LocksDisjoint' /\ ReadStaysCurrent'
    BY <1>1, <2>1 DEF IInv, RxProtocol, LocksDisjoint, ReadStaysCurrent
  <2> QED
    BY <2>2, <2>3 DEF IInv
<1> QED
  BY <1>4, <1>5

(* A time-out served at once or later never touches a locked session. *)
LEMMA CloseInv ==
  ASSUME IInv, TypeOK', TakeClose \/ RetryClose, UNCHANGED <<rxFsm, txClose, streamQ>>
  PROVE  IInv'
<1>1. UNCHANGED <<rxLock, txLock, rxSeen, txSeen, rxWait, txWait, rxReq, txReq, rxRsp, txRsp>>
  BY DEF TakeClose, RetryClose, ServeClose, Defer, locks
<1>2. RxProtocol' /\ TxProtocol' /\ LocksDisjoint'
  BY <1>1 DEF IInv, RxProtocol, TxProtocol, LocksDisjoint
<1>3. \/ stateTable' = stateTable
      \/ \E s : s \notin {rxLock, txLock} /\ stateTable' = [stateTable EXCEPT ![s] = "CLOSED"]
  BY DEF TakeClose, RetryClose, ServeClose, Defer
<1>4. ReadStaysCurrent'
  <2>1. CASE stateTable' = stateTable
    BY <1>1, <2>1 DEF IInv, ReadStaysCurrent
  <2>2. ASSUME NEW s, s \notin {rxLock, txLock},
               stateTable' = [stateTable EXCEPT ![s] = "CLOSED"]
        PROVE  ReadStaysCurrent'
    BY <1>1, <2>2 DEF IInv, TypeOK, ReadStaysCurrent
  <2> QED
    BY <1>3, <2>1, <2>2
<1> QED
  BY <1>2, <1>4 DEF IInv


(* The packet that rx_engine loads asks for the last request at the port. *)
LEMMA RxLoadInv ==
  ASSUME IInv, TypeOK', NEW s \in Sessions, RxLoad(s)
  PROVE  IInv'
<1>1. /\ rxFsm = None /\ rxFsm' = s /\ rxReq' = Append(rxReq, ReadOf(s))
      /\ UNCHANGED <<stateTable, rxLock, rxSeen, txLock, txSeen, rxWait, txWait,
                     txReq, rxRsp, txRsp, txClose>>
  BY DEF RxLoad, locks, waits
<1>2. /\ ReadOf(s) \in Query /\ ~ReadOf(s).write /\ ReadOf(s).session = s /\ s # None
      /\ \A i \in 1..Len(rxReq) : rxReq[i] \in Query
  BY QueryTypes, ElementType, SessionsAssumption DEF SessionState, IInv, TypeOK
<1>3. /\ Len(rxReq') = Len(rxReq) + 1 /\ Len(rxReq) \in Nat /\ rxReq' # <<>>
      /\ \A i \in 1..Len(rxReq) : rxReq'[i] = rxReq[i]
      /\ rxReq'[Len(rxReq) + 1] = ReadOf(s)
  <2>1. rxReq \in Seq(Query)
    BY DEF IInv, TypeOK
  <2>2. ReadOf(s) \in Query
    BY <1>2
  <2> QED
    BY <1>1, <2>1, <2>2, AppendFacts
<1>4. \A i \in 1..Len(rxReq) : /\ rxReq[i].write /\ i = 1 /\ rxLock = rxReq[i].session
                              /\ rxReq[i].state \in RxMayWrite(rxSeen)
  <2> SUFFICES ASSUME NEW i \in 1..Len(rxReq)
               PROVE  /\ rxReq[i].write /\ i = 1 /\ rxLock = rxReq[i].session
                      /\ rxReq[i].state \in RxMayWrite(rxSeen)
    OBVIOUS
  <2>1. rxReq[i].session # None
    BY <1>2, SessionsAssumption DEF Query
  <2> QED
    BY <1>1, <2>1 DEF IInv, RxProtocol
<1>5. rxWait = <<>>
  <2> SUFFICES ASSUME rxWait # <<>> PROVE FALSE
    OBVIOUS
  <2>1. rxWait[1] \in Query
    BY TailFacts DEF IInv, TypeOK
  <2> QED
    BY <1>1, <2>1, SessionsAssumption DEF IInv, RxProtocol, Query
<1>6. /\ rxLock = None => rxRsp = <<>>
      /\ rxLock # None => rxRsp = <<>> /\ rxReq # <<>> /\ rxReq[1].write
  BY <1>1 DEF IInv, RxProtocol
<1>7. \A i \in 1..Len(rxReq') :
        IF rxReq'[i].write
        THEN /\ i = 1 /\ rxLock' = rxReq'[i].session
             /\ rxReq'[i].state \in RxMayWrite(rxSeen')
        ELSE i = Len(rxReq') /\ rxFsm' = rxReq'[i].session
  <2> SUFFICES ASSUME NEW i \in 1..Len(rxReq')
               PROVE  IF rxReq'[i].write
                      THEN /\ i = 1 /\ rxLock' = rxReq'[i].session
                           /\ rxReq'[i].state \in RxMayWrite(rxSeen')
                      ELSE i = Len(rxReq') /\ rxFsm' = rxReq'[i].session
    OBVIOUS
  <2>1. CASE i \in 1..Len(rxReq)
    BY <1>1, <1>3, <1>4, <2>1
  <2>2. CASE i = Len(rxReq) + 1
    BY <1>1, <1>2, <1>3, <2>2
  <2> QED
    BY <1>3, <2>1, <2>2
<1>8. rxLock # None => rxReq'[1].write
  <2>1. rxLock # None => 1 \in 1..Len(rxReq)
    BY <1>3, <1>6 DEF IInv, TypeOK
  <2> QED
    BY <1>3, <1>6, <2>1
<1>9. RxProtocol'
  BY <1>1, <1>3, <1>5, <1>6, <1>7, <1>8 DEF RxProtocol
<1>10. TxProtocol' /\ LocksDisjoint' /\ ReadStaysCurrent'
  BY <1>1 DEF IInv, TxProtocol, LocksDisjoint, ReadStaysCurrent
<1> QED
  BY <1>9, <1>10 DEF IInv

(* The FSM takes the reply and queues the write that unlocks. *)
LEMMA RxTransitionInv ==
  ASSUME IInv, TypeOK', RxTransition
  PROVE  IInv'
<1>1. /\ rxFsm # None /\ rxRsp # <<>> /\ rxFsm' = None /\ rxRsp' = Tail(rxRsp)
      /\ UNCHANGED <<stateTable, rxLock, rxSeen, txLock, txSeen, rxWait, txWait,
                     txReq, txRsp, txClose>>
  BY DEF RxTransition, locks, waits
<1>2. rxRsp = <<rxSeen>> /\ rxReq = <<>> /\ rxFsm = rxLock /\ rxLock # None /\ rxWait = <<>>
  BY <1>1 DEF IInv, RxProtocol
<1>3. rxLock \in Sessions /\ rxRsp' = <<>>
  BY <1>1, <1>2 DEF IInv, TypeOK
<1>4. PICK st \in RxMayWrite(rxSeen) : rxReq' = <<WriteOf(rxLock, st)>>
  BY <1>2 DEF RxTransition
<1>5. /\ WriteOf(rxLock, st).write /\ WriteOf(rxLock, st).session = rxLock
      /\ WriteOf(rxLock, st).state = st
  BY DEF WriteOf
<1>6. rxReq' # <<>> /\ Len(rxReq') = 1 /\ rxReq'[1] = WriteOf(rxLock, st)
  BY <1>4
<1>7. RxProtocol'
  BY <1>1, <1>2, <1>3, <1>5, <1>6 DEF RxProtocol
<1>8. TxProtocol' /\ LocksDisjoint' /\ ReadStaysCurrent'
  BY <1>1 DEF IInv, TxProtocol, LocksDisjoint, ReadStaysCurrent
<1> QED
  BY <1>7, <1>8 DEF IInv


(* tx_app_if, in state IDLE, queues a SYN_SENT or the read for a close. *)
LEMMA TxRequestInv ==
  ASSUME IInv, TypeOK', NEW s \in Sessions, TxOpen(s) \/ TxCloseRequest(s)
  PROVE  IInv'
<1>1. /\ txClose = None
      /\ UNCHANGED <<stateTable, rxLock, rxSeen, txLock, txSeen, rxWait, txWait,
                     rxReq, rxRsp, txRsp, rxFsm>>
  BY DEF TxOpen, TxCloseRequest, locks, waits
<1>2. PICK a \in Query :
        /\ txReq' = Append(txReq, a)
        /\ \/ a.write /\ a.state = "SYN_SENT" /\ txClose' = None
           \/ ~a.write /\ txClose' = a.session
  <2>1. CASE TxOpen(s)
    BY <2>1, QueryTypes DEF TxOpen, SessionState
  <2>2. CASE TxCloseRequest(s)
    BY <2>2, QueryTypes DEF TxCloseRequest, SessionState
  <2> QED
    BY <2>1, <2>2
<1>3. /\ Len(txReq') = Len(txReq) + 1 /\ Len(txReq) \in Nat /\ txReq' # <<>>
      /\ \A i \in 1..Len(txReq) : txReq'[i] = txReq[i]
      /\ txReq'[Len(txReq) + 1] = a
  <2>1. txReq \in Seq(Query)
    BY DEF IInv, TypeOK
  <2>2. txReq' = Append(txReq, a)
    BY <1>2
  <2> QED
    BY <2>1, <2>2, AppendFacts
<1>4. \A i \in 1..Len(txReq) :
        /\ txReq[i].write
        /\ \/ txReq[i].state = "SYN_SENT" /\ (i # 1 \/ txLock = None)
           \/ /\ i = 1 /\ txLock = txReq[i].session
              /\ txReq[i].state = AppCloseWrites(txSeen)
  <2> SUFFICES ASSUME NEW i \in 1..Len(txReq)
               PROVE  /\ txReq[i].write
                      /\ \/ txReq[i].state = "SYN_SENT" /\ (i # 1 \/ txLock = None)
                         \/ /\ i = 1 /\ txLock = txReq[i].session
                            /\ txReq[i].state = AppCloseWrites(txSeen)
    OBVIOUS
  <2>1. txReq[i] \in Query
    BY ElementType DEF IInv, TypeOK
  <2>2. txReq[i].session # None
    BY <2>1, SessionsAssumption DEF Query
  <2> QED
    BY <1>1, <2>2 DEF IInv, TxProtocol
<1>5. txWait # <<>> => txLock = None /\ txWait[1].write /\ txWait[1].state = "SYN_SENT"
  <2> SUFFICES ASSUME txWait # <<>>
               PROVE  txLock = None /\ txWait[1].write /\ txWait[1].state = "SYN_SENT"
    OBVIOUS
  <2>1. txWait[1] \in Query
    BY TailFacts DEF IInv, TypeOK
  <2>2. txWait[1].session # None
    BY <2>1, SessionsAssumption DEF Query
  <2> QED
    BY <1>1, <2>2 DEF IInv, TxProtocol
<1>6. /\ txLock = None => txRsp = <<>>
      /\ txLock # None => txRsp = <<>> /\ txReq # <<>> /\ txReq[1].write
  BY <1>1 DEF IInv, TxProtocol
<1>7. txLock # None => 1 \in 1..Len(txReq)
  BY <1>3, <1>6 DEF IInv, TypeOK
<1>8. \A i \in 1..Len(txReq') :
        IF txReq'[i].write
        THEN \/ txReq'[i].state = "SYN_SENT" /\ (i # 1 \/ txLock' = None)
             \/ /\ i = 1 /\ txLock' = txReq'[i].session
                /\ txReq'[i].state = AppCloseWrites(txSeen')
        ELSE i = Len(txReq') /\ txClose' = txReq'[i].session
  <2> SUFFICES ASSUME NEW i \in 1..Len(txReq')
               PROVE  IF txReq'[i].write
                      THEN \/ txReq'[i].state = "SYN_SENT" /\ (i # 1 \/ txLock' = None)
                           \/ /\ i = 1 /\ txLock' = txReq'[i].session
                              /\ txReq'[i].state = AppCloseWrites(txSeen')
                      ELSE i = Len(txReq') /\ txClose' = txReq'[i].session
    OBVIOUS
  <2>1. CASE i \in 1..Len(txReq)
    <3>1. txReq'[i] = txReq[i]
      BY <1>3, <2>1
    <3> QED
      BY <1>1, <1>4, <2>1, <3>1
  <2>2. CASE i = Len(txReq) + 1
    <3>1. txReq'[i] = a /\ i = Len(txReq')
      BY <1>3, <2>2
    <3>2. i # 1 \/ txLock' = None
      BY <1>1, <1>3, <1>7, <2>2
    <3>3. CASE a.write
      BY <1>2, <3>1, <3>2, <3>3
    <3>4. CASE ~a.write
      BY <1>2, <3>1, <3>4
    <3> QED
      BY <3>3, <3>4
  <2> QED
    BY <1>3, <2>1, <2>2
<1>9. txLock # None => txReq'[1].write
  BY <1>3, <1>6, <1>7
<1>10. TxProtocol'
  BY <1>1, <1>3, <1>5, <1>6, <1>8, <1>9 DEF TxProtocol
<1>11. RxProtocol' /\ LocksDisjoint' /\ ReadStaysCurrent'
  BY <1>1 DEF IInv, RxProtocol, LocksDisjoint, ReadStaysCurrent
<1> QED
  BY <1>10, <1>11 DEF IInv

(* CLOSE_CONN takes the reply and queues the write that unlocks. *)
LEMMA TxCloseConnInv ==
  ASSUME IInv, TypeOK', TxCloseConn
  PROVE  IInv'
<1>1. /\ txClose # None /\ txRsp # <<>> /\ txClose' = None /\ txRsp' = Tail(txRsp)
      /\ UNCHANGED <<stateTable, rxLock, rxSeen, txLock, txSeen, rxWait, txWait,
                     rxReq, rxRsp, rxFsm>>
  BY DEF TxCloseConn, locks, waits
<1>2. txRsp = <<txSeen>> /\ txReq = <<>> /\ txClose = txLock /\ txLock # None /\ txWait = <<>>
  BY <1>1 DEF IInv, TxProtocol
<1> DEFINE w == WriteOf(txLock, AppCloseWrites(txSeen))
<1>3. txLock \in Sessions /\ txRsp' = <<>> /\ txReq' = <<w>>
  <2>1. txReq' = Append(txReq, WriteOf(txClose, AppCloseWrites(Head(txRsp))))
    BY DEF TxCloseConn
  <2>2. Head(txRsp) = txSeen /\ Tail(txRsp) = <<>>
    BY <1>2
  <2>3. txReq' = Append(<<>>, w)
    BY <1>2, <2>1, <2>2
  <2>4. Append(<<>>, w) = <<w>>
    OBVIOUS
  <2> QED
    BY <1>1, <1>2, <2>2, <2>3, <2>4 DEF IInv, TypeOK
<1>4. w.write /\ w.session = txLock /\ w.state = AppCloseWrites(txSeen)
  BY DEF WriteOf
<1> HIDE DEF w
<1>5. txReq' # <<>> /\ Len(txReq') = 1 /\ txReq'[1] = w
  BY <1>3
<1>6. TxProtocol'
  BY <1>1, <1>2, <1>3, <1>4, <1>5 DEF TxProtocol
<1>7. RxProtocol' /\ LocksDisjoint' /\ ReadStaysCurrent'
  BY <1>1 DEF IInv, RxProtocol, LocksDisjoint, ReadStaysCurrent
<1> QED
  BY <1>6, <1>7 DEF IInv

(* Steps that touch neither the locks nor the two update ports. *)
LEMMA OtherInv ==
  ASSUME IInv, TypeOK',
         UNCHANGED <<stateTable, rxLock, rxSeen, txLock, txSeen, rxWait, txWait,
                     rxReq, txReq, rxRsp, txRsp, rxFsm, txClose>>
  PROVE  IInv'
  BY DEF IInv, RxProtocol, TxProtocol, LocksDisjoint, ReadStaysCurrent

LEMMA InvStep == IInv /\ [Next]_vars => IInv'
<1> SUFFICES ASSUME IInv, [Next]_vars
             PROVE  IInv'
  OBVIOUS
<1>1. TypeOK'
  BY TypeStep DEF IInv
<1>2. ASSUME Table PROVE IInv'
  <2>1. UNCHANGED <<rxFsm, txClose, streamQ>>
    BY <1>2 DEF Table
  <2>2. CASE TakeTx
    BY <1>1, <2>1, <2>2, TakeTxInv
  <2>3. CASE TakeQuery
    BY <1>1, <2>1, <2>3, OtherInv DEF TakeQuery, locks, waits
  <2>4. CASE TakeRx
    BY <1>1, <2>1, <2>4, TakeRxInv
  <2>5. CASE TakeClose \/ RetryClose
    BY <1>1, <2>1, <2>5, CloseInv
  <2>6. CASE RetryTx
    BY <1>1, <2>1, <2>6, RetryTxInv
  <2>7. CASE RetryRx
    BY <1>1, <2>1, <2>7, RetryRxInv
  <2> QED
    BY <1>2, <2>2, <2>3, <2>4, <2>5, <2>6, <2>7 DEF Table, TableStep
<1>3. ASSUME NEW s \in Sessions, RxLoad(s) PROVE IInv'
  BY <1>1, <1>3, RxLoadInv
<1>4. ASSUME NEW s \in Sessions, TxOpen(s) \/ TxCloseRequest(s) PROVE IInv'
  BY <1>1, <1>4, TxRequestInv
<1>5. ASSUME NEW s \in Sessions, StreamRequest(s) \/ TimerRelease(s) PROVE IInv'
  BY <1>1, <1>5, OtherInv DEF StreamRequest, TimerRelease, locks, waits
<1>6. CASE RxTransition
  BY <1>1, <1>6, RxTransitionInv
<1>7. CASE TxCloseConn
  BY <1>1, <1>7, TxCloseConnInv
<1>8. CASE StreamReply \/ LookupTakesRelease
  BY <1>1, <1>8, OtherInv DEF StreamReply, LookupTakesRelease, locks, waits
<1>9. CASE UNCHANGED vars
  BY <1>1, <1>9, OtherInv DEF vars, tableVars, locks, waits
<1> QED
  BY <1>2, <1>3, <1>4, <1>5, <1>6, <1>7, <1>8, <1>9 DEF Next, Clients

(* IInv is an inductive invariant of the table with its clients. *)
THEOREM Invariance == Spec => []IInv
  BY InvInit, InvStep, PTL DEF Spec

(* Receive engine and tx_app_if never hold the lock of the same session.   *)
THEOREM MutualExclusion == Spec => []LocksDisjoint
<1>1. IInv => LocksDisjoint
  BY DEF IInv
<1> QED
  BY Invariance, <1>1, PTL

(* No update is lost: a locked session keeps the state its owner was told. *)
THEOREM NoLostUpdate == Spec => []ReadStaysCurrent
<1>1. IInv => ReadStaysCurrent
  BY DEF IInv
<1> QED
  BY Invariance, <1>1, PTL


-----------------------------------------------------------------------------
(* The refinement of AtomicSessions *)

LEMMA AbsInitStep == Init => Abs!AbsInit
  BY DEF Init, TableInit, Abs!AbsInit

(* What serving a request does to the table and to the announced releases. *)
LEMMA ServeRxAbs ==
  ASSUME IInv, NEW a \in Query, ServeRx(a),
         a.write => rxLock = a.session /\ a.state \in RxMayWrite(rxSeen)
  PROVE  [Abs!AbsNext]_(Abs!avars)
<1>1. CASE ~a.write
  BY <1>1 DEF ServeRx, Abs!avars
<1>2. CASE a.write
  <2>1. a.session \in Sessions /\ stateTable[a.session] = rxSeen
    BY <1>2, SessionsAssumption DEF IInv, ReadStaysCurrent, Query
  <2>2. /\ stateTable' = [stateTable EXCEPT ![a.session] = a.state]
        /\ release' = IF a.state = "CLOSED" THEN Append(release, a.session) ELSE release
    BY <1>2 DEF ServeRx
  <2>3. Abs!RxUpdate(a.session)
    BY <1>2, <2>1, <2>2 DEF Abs!RxUpdate, Abs!RxMayWrite, RxMayWrite, Abs!RxMoves, RxMoves,
                            Abs!SessionState, SessionState
  <2> QED
    BY <2>1, <2>3 DEF Abs!AbsNext
<1>3. a.write \in BOOLEAN
  BY DEF Query
<1> QED
  BY <1>1, <1>2, <1>3

LEMMA ServeTxAbs ==
  ASSUME IInv, NEW a \in Query, ServeTx(a),
         a.write => \/ a.state = "SYN_SENT"
                    \/ txLock = a.session /\ a.state = AppCloseWrites(txSeen)
  PROVE  [Abs!AbsNext]_(Abs!avars)
<1>1. CASE ~a.write
  BY <1>1 DEF ServeTx, Abs!avars
<1>2. CASE a.write
  <2>1. /\ a.session \in Sessions
        /\ stateTable' = [stateTable EXCEPT ![a.session] = a.state]
        /\ UNCHANGED release
    BY <1>2 DEF ServeTx, Query
  <2>2. CASE a.state = "SYN_SENT"
    BY <2>1, <2>2 DEF Abs!AppOpen, Abs!AbsNext
  <2>3. CASE txLock = a.session /\ a.state = AppCloseWrites(txSeen)
    <3>1. stateTable[a.session] = txSeen
      BY <2>1, <2>3, SessionsAssumption DEF IInv, ReadStaysCurrent
    <3>2. CASE txSeen \in Closeable
      <4>1. Abs!AppClose(a.session)
        BY <2>1, <2>3, <3>1, <3>2
        DEF Abs!AppClose, AppCloseWrites, Closeable, Abs!Closeable
      <4> QED
        BY <2>1, <4>1 DEF Abs!AbsNext
    <3>3. CASE txSeen \notin Closeable
      <4>1. a.state = stateTable[a.session]
        BY <2>3, <3>1, <3>3 DEF AppCloseWrites
      <4>2. stateTable' = stateTable
        BY <2>1, <4>1 DEF IInv, TypeOK
      <4> QED
        BY <2>1, <4>2 DEF Abs!avars
    <3> QED
      BY <3>2, <3>3
  <2> QED
    BY <1>2, <2>2, <2>3
<1>3. a.write \in BOOLEAN
  BY DEF Query
<1> QED
  BY <1>1, <1>2, <1>3

LEMMA ServeCloseAbs ==
  ASSUME NEW s \in Sessions, ServeClose(s)
  PROVE  [Abs!AbsNext]_(Abs!avars)
<1>1. Abs!TimerClose(s)
  BY DEF ServeClose, Abs!TimerClose
<1> QED
  BY <1>1 DEF Abs!AbsNext

(* Every step of the table updates one session atomically or none.         *)
LEMMA TableAbs ==
  ASSUME IInv, TableStep
  PROVE  [Abs!AbsNext]_(Abs!avars)
<1>0. Defer => UNCHANGED Abs!avars
  BY DEF Defer, Abs!avars
<1>1. CASE TakeTx
  <2>1. txReq # <<>> /\ (Defer \/ ServeTx(Head(txReq)))
    BY <1>1 DEF TakeTx, TxTurn
  <2>2. Head(txReq) \in Query /\ Head(txReq) = txReq[1] /\ 1 \in 1..Len(txReq)
    BY <2>1, TailFacts DEF IInv, TypeOK
  <2>3. txReq[1].write => \/ txReq[1].state = "SYN_SENT"
                          \/ /\ txLock = txReq[1].session
                             /\ txReq[1].state = AppCloseWrites(txSeen)
    BY <2>2 DEF IInv, TxProtocol
  <2> QED
    BY <1>0, <2>1, <2>2, <2>3, ServeTxAbs
<1>2. CASE TakeRx
  <2>1. rxReq # <<>> /\ (Defer \/ ServeRx(Head(rxReq)))
    BY <1>2 DEF TakeRx, RxTurn
  <2>2. Head(rxReq) \in Query /\ Head(rxReq) = rxReq[1] /\ 1 \in 1..Len(rxReq)
    BY <2>1, TailFacts DEF IInv, TypeOK
  <2>3. rxReq[1].write => /\ rxLock = rxReq[1].session
                          /\ rxReq[1].state \in RxMayWrite(rxSeen)
    BY <2>2 DEF IInv, RxProtocol
  <2> QED
    BY <1>0, <2>1, <2>2, <2>3, ServeRxAbs
<1>3. CASE TakeQuery
  BY <1>3 DEF TakeQuery, Abs!avars
<1>4. CASE TakeClose
  <2>1. Head(timerReq) \in Sessions
    BY <1>4, TailFacts DEF TakeClose, CloseTurn, IInv, TypeOK
  <2>2. Defer \/ ServeClose(Head(timerReq))
    BY <1>4 DEF TakeClose
  <2> QED
    BY <1>0, <2>1, <2>2, ServeCloseAbs
<1>5. CASE RetryTx
  <2>1. txWait # <<>> /\ ServeTx(txWait[1])
    BY <1>5 DEF RetryTx
  <2>2. txWait[1] \in Query
    BY <2>1, TailFacts DEF IInv, TypeOK
  <2>3. txWait[1].write => txWait[1].state = "SYN_SENT"
    BY <2>1 DEF IInv, TxProtocol
  <2> QED
    BY <2>1, <2>2, <2>3, ServeTxAbs
<1>6. CASE RetryRx
  <2>1. rxWait # <<>> /\ ServeRx(rxWait[1])
    BY <1>6 DEF RetryRx
  <2>2. rxWait[1] \in Query /\ ~rxWait[1].write
    BY <2>1, TailFacts DEF IInv, TypeOK, RxProtocol
  <2> QED
    BY <2>1, <2>2, ServeRxAbs
<1>7. CASE RetryClose
  BY <1>7, ServeCloseAbs DEF RetryClose, IInv, TypeOK
<1> QED
  BY <1>1, <1>2, <1>3, <1>4, <1>5, <1>6, <1>7 DEF TableStep

LEMMA AbsStep == IInv /\ [Next]_vars => [Abs!AbsNext]_(Abs!avars)
<1> SUFFICES ASSUME IInv, [Next]_vars
             PROVE  [Abs!AbsNext]_(Abs!avars)
  OBVIOUS
<1>1. CASE Table
  BY <1>1, TableAbs DEF Table
<1>2. CASE LookupTakesRelease
  BY <1>2 DEF LookupTakesRelease, Abs!AbsNext, Abs!TakeReleased
<1>3. ASSUME NEW s \in Sessions,
             RxLoad(s) \/ TxOpen(s) \/ TxCloseRequest(s) \/ StreamRequest(s) \/ TimerRelease(s)
      PROVE  UNCHANGED Abs!avars
  BY <1>3 DEF RxLoad, TxOpen, TxCloseRequest, StreamRequest, TimerRelease, Abs!avars
<1>4. CASE RxTransition \/ TxCloseConn \/ StreamReply \/ UNCHANGED vars
  BY <1>4 DEF RxTransition, TxCloseConn, StreamReply, vars, tableVars, Abs!avars
<1> QED
  BY <1>1, <1>2, <1>3, <1>4 DEF Next, Clients

(* The locks, wait registers and streams implement atomic updates.         *)
THEOREM Refinement == Spec => AtomicUpdates
  BY Invariance, AbsInitStep, AbsStep, PTL DEF Spec, AtomicUpdates, Abs!AbsSpec

=============================================================================
