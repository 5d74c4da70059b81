----------------------------- MODULE StateTable -----------------------------
(***************************************************************************)
(* state_table.cpp: the table that holds the connection state of every     *)
(* session, and the two locks that make a read-modify-write of rx_engine   *)
(* or tx_app_if on a session atomic.                                       *)
(*                                                                         *)
(* The function is called every clock and serves at most one request: the  *)
(* first branch of its if/else chain whose condition holds.  Each branch   *)
(* is an action here, and the condition of a branch includes the negation  *)
(* of those before it.  A read locks its session; the write that follows   *)
(* unlocks it.  A request for a session the other side has locked is kept  *)
(* in a register (stt_txWait, stt_rxWait, stt_closeWait) and retried by    *)
(* the last three branches, when no port holds a request it could take.    *)
(***************************************************************************)
EXTENDS TcpStates, Naturals, Sequences

CONSTANTS Sessions,   \* the session ids, 0 .. MAX_SESSIONS-1 in the code
          None,       \* "no session": a lock that is free, an empty register
          FifoDepth   \* depth of the hls::streams at the ports

ASSUME SessionsAssumption == None \notin Sessions
ASSUME DepthAssumption == FifoDepth \in Nat \ {0, 1}

VARIABLES
  stateTable,   \* state_table[]
  rxLock,       \* stt_rxSessionID while stt_rxSessionLocked, else None
  txLock,       \* stt_txSessionID while stt_txSessionLocked, else None
  rxWait,       \* <<stt_rxAccess>> while stt_rxWait, else <<>>
  txWait,       \* <<stt_txAccess>> while stt_txWait, else <<>>
  closeWait,    \* stt_closeSessionID while stt_closeWait, else None
  rxReq, txReq, queryReq, timerReq,  \* input streams
  rxRsp, txRsp, queryRsp,            \* reply streams
  release,      \* stateTable2sLookup_releaseSession
  rxSeen,       \* history: the state handed out with the rx lock
  txSeen        \* history: the state handed out with the tx lock

locks == <<rxLock, txLock, rxSeen, txSeen>>
waits == <<rxWait, txWait, closeWait>>
tableVars == <<stateTable, locks, waits, rxReq, txReq, queryReq, timerReq,
               rxRsp, txRsp, queryRsp, release>>

(* stateQuery: a read of a session's state, or a write of st to it. *)
Query == [session : Sessions, write : BOOLEAN, state : SessionState]
ReadOf(s)      == [session |-> s, write |-> FALSE, state |-> "CLOSED"]
WriteOf(s, st) == [session |-> s, write |-> TRUE, state |-> st]

Room(fifo) == Len(fifo) < FifoDepth

TableInit ==
  /\ stateTable = [s \in Sessions |-> "CLOSED"]
  /\ rxLock = None /\ txLock = None
  /\ rxSeen = "CLOSED" /\ txSeen = "CLOSED"
  /\ rxWait = <<>> /\ txWait = <<>> /\ closeWait = None
  /\ rxReq = <<>> /\ txReq = <<>> /\ queryReq = <<>> /\ timerReq = <<>>
  /\ rxRsp = <<>> /\ txRsp = <<>> /\ queryRsp = <<>>
  /\ release = <<>>

-----------------------------------------------------------------------------
(* What serving a request does, whichever branch serves it. *)

ServeTx(a) ==
  /\ IF a.write
     THEN /\ stateTable' = [stateTable EXCEPT ![a.session] = a.state]
          /\ txLock' = None /\ txSeen' = "CLOSED"
          /\ UNCHANGED txRsp
     ELSE /\ Room(txRsp)
          /\ txRsp' = Append(txRsp, stateTable[a.session])
          /\ txLock' = a.session /\ txSeen' = stateTable[a.session]
          /\ UNCHANGED stateTable
  /\ UNCHANGED <<rxLock, rxSeen, rxRsp, release>>

(* Fault: a close by the receive engine is not announced. *)
ServeRxUnannounced(a) ==
  /\ IF a.write
     THEN /\ stateTable' = [stateTable EXCEPT ![a.session] = a.state]
          /\ rxLock' = None /\ rxSeen' = "CLOSED"
          /\ UNCHANGED rxRsp
     ELSE /\ Room(rxRsp)
          /\ rxRsp' = Append(rxRsp, stateTable[a.session])
          /\ rxLock' = a.session /\ rxSeen' = stateTable[a.session]
          /\ UNCHANGED stateTable
  /\ UNCHANGED <<release, txLock, txSeen, txRsp>>

(* A write of CLOSED also tells the session lookup to release the id. *)
ServeRx(a) ==
  /\ IF a.write
     THEN /\ \/ /\ a.state = "CLOSED"
                /\ Room(release)
                /\ release' = Append(release, a.session)
             \/ a.state # "CLOSED" /\ UNCHANGED release
          /\ stateTable' = [stateTable EXCEPT ![a.session] = a.state]
          /\ rxLock' = None /\ rxSeen' = "CLOSED"
          /\ UNCHANGED rxRsp
     ELSE /\ Room(rxRsp)
          /\ rxRsp' = Append(rxRsp, stateTable[a.session])
          /\ rxLock' = a.session /\ rxSeen' = stateTable[a.session]
          /\ UNCHANGED <<stateTable, release>>
  /\ UNCHANGED <<txLock, txSeen, txRsp>>

ServeClose(s) ==
  /\ Room(release)
  /\ release' = Append(release, s)
  /\ stateTable' = [stateTable EXCEPT ![s] = "CLOSED"]
  /\ UNCHANGED <<locks, rxRsp, txRsp>>

(* Nothing is served: the request goes to its wait register. *)
Defer == UNCHANGED <<stateTable, locks, rxRsp, txRsp, release>>

-----------------------------------------------------------------------------
(* The conditions of the branches, in the order of the chain. *)

TxTurn    == txReq # <<>> /\ txWait = <<>>
QueryTurn == queryReq # <<>> /\ ~TxTurn
RxTurn    == rxReq # <<>> /\ rxWait = <<>> /\ ~TxTurn /\ queryReq = <<>>
CloseTurn == /\ timerReq # <<>> /\ closeWait = None
             /\ ~TxTurn /\ queryReq = <<>> /\ ~(rxReq # <<>> /\ rxWait = <<>>)
NoPort    == ~TxTurn /\ ~QueryTurn /\ ~RxTurn /\ ~CloseTurn

TakeTx ==
  /\ TxTurn
  /\ txReq' = Tail(txReq)
  /\ LET a == Head(txReq)
     IN  IF a.session = rxLock
         THEN Defer /\ txWait' = <<a>>
         ELSE ServeTx(a) /\ UNCHANGED txWait
  /\ UNCHANGED <<rxWait, closeWait, rxReq, queryReq, timerReq, queryRsp>>

(* tx_app_stream_if asks for the state of a session: no lock is taken. *)
TakeQuery ==
  /\ QueryTurn
  /\ Room(queryRsp)
  /\ queryReq' = Tail(queryReq)
  /\ queryRsp' = Append(queryRsp, stateTable[Head(queryReq)])
  /\ UNCHANGED <<stateTable, locks, waits, rxReq, txReq, timerReq, rxRsp,
                 txRsp, release>>

(* Fault: the receive engine does not look at the lock of tx_app_if. *)
TakeRxUnlocked ==
  /\ RxTurn
  /\ rxReq' = Tail(rxReq)
  /\ ServeRx(Head(rxReq))
  /\ UNCHANGED <<waits, txReq, queryReq, timerReq, queryRsp>>

TakeRx ==
  /\ RxTurn
  /\ rxReq' = Tail(rxReq)
  /\ LET a == Head(rxReq)
     IN  IF a.session = txLock
         THEN Defer /\ rxWait' = <<a>>
         ELSE ServeRx(a) /\ UNCHANGED rxWait
  /\ UNCHANGED <<txWait, closeWait, txReq, queryReq, timerReq, queryRsp>>

(* Fault: a time-out looks at the lock of the receive engine only. *)
TakeCloseHalfChecked ==
  /\ CloseTurn
  /\ timerReq' = Tail(timerReq)
  /\ LET s == Head(timerReq)
     IN  IF s = rxLock
         THEN Defer /\ closeWait' = s
         ELSE ServeClose(s) /\ UNCHANGED closeWait
  /\ UNCHANGED <<rxWait, txWait, rxReq, txReq, queryReq, queryRsp>>

TakeClose ==
  /\ CloseTurn
  /\ timerReq' = Tail(timerReq)
  /\ LET s == Head(timerReq)
     IN  IF s \in {rxLock, txLock}
         THEN Defer /\ closeWait' = s
         ELSE ServeClose(s) /\ UNCHANGED closeWait
  /\ UNCHANGED <<rxWait, txWait, rxReq, txReq, queryReq, queryRsp>>

(* The retries.  While a tx request waits, the rx and the close register   *)
(* are not looked at, and while an rx request waits the close one is not.  *)
RetryTx ==
  /\ NoPort
  /\ txWait # <<>>
  /\ txWait[1].session # rxLock
  /\ ServeTx(txWait[1])
  /\ txWait' = <<>>
  /\ UNCHANGED <<rxWait, closeWait, rxReq, txReq, queryReq, timerReq, queryRsp>>

RetryRx ==
  /\ NoPort
  /\ txWait = <<>> /\ rxWait # <<>>
  /\ rxWait[1].session # txLock
  /\ ServeRx(rxWait[1])
  /\ rxWait' = <<>>
  /\ UNCHANGED <<txWait, closeWait, rxReq, txReq, queryReq, timerReq, queryRsp>>

(* Fault: a deferred close is retried once and forgotten. *)
RetryCloseOnce ==
  /\ NoPort
  /\ txWait = <<>> /\ rxWait = <<>> /\ closeWait # None
  /\ IF closeWait \in {rxLock, txLock} THEN Defer ELSE ServeClose(closeWait)
  /\ closeWait' = None
  /\ UNCHANGED <<rxWait, txWait, rxReq, txReq, queryReq, timerReq, queryRsp>>

RetryClose ==
  /\ NoPort
  /\ txWait = <<>> /\ rxWait = <<>> /\ closeWait # None
  /\ closeWait \notin {rxLock, txLock}
  /\ ServeClose(closeWait)
  /\ closeWait' = None
  /\ UNCHANGED <<rxWait, txWait, rxReq, txReq, queryReq, timerReq, queryRsp>>

TableStep ==
  \/ TakeTx \/ TakeQuery \/ TakeRx \/ TakeClose
  \/ RetryTx \/ RetryRx \/ RetryClose

=============================================================================
