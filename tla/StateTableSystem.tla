-------------------------- MODULE StateTableSystem --------------------------
(***************************************************************************)
(* The state table with the four components that use it: rx_engine (the    *)
(* FSM rxTcpFSM), tx_app_if, tx_app_stream_if and the timers.  Each client *)
(* is a process of the dataflow region that runs concurrently with the     *)
(* table, so its steps interleave freely with those of the table.          *)
(*                                                                         *)
(* Clients are reduced to what they ask of the table; the segments, the    *)
(* application's requests and the time-outs that make them ask are free    *)
(* choices.                                                                *)
(***************************************************************************)
EXTENDS StateTable

VARIABLES
  rxFsm,     \* session of the packet in state TRANSITION, None in LOAD
  txClose,   \* tai_closeSessionID in state CLOSE_CONN, None in IDLE
  streamQ    \* session tx_app_stream_if waits for, None in READ_REQUEST

vars == <<tableVars, rxFsm, txClose, streamQ>>

Init ==
  /\ TableInit
  /\ rxFsm = None /\ txClose = None /\ streamQ = None

-----------------------------------------------------------------------------
(* rx_engine.cpp *)

(* LOAD: the metadata of a packet arrives; read and lock the state. *)
RxLoad(s) ==
  /\ rxFsm = None
  /\ Room(rxReq)
  /\ rxReq' = Append(rxReq, ReadOf(s))
  /\ rxFsm' = s
  /\ UNCHANGED <<stateTable, locks, waits, txReq, queryReq, timerReq, rxRsp,
                 txRsp, queryRsp, release, txClose, streamQ>>

(* Fault: a segment that changes nothing writes nothing. *)
RxTransitionLazy ==
  /\ rxFsm # None /\ rxRsp # <<>>
  /\ Room(rxReq)
  /\ \E st \in RxMayWrite(Head(rxRsp)) :
        rxReq' = IF st = Head(rxRsp) THEN rxReq
                                     ELSE Append(rxReq, WriteOf(rxFsm, st))
  /\ rxRsp' = Tail(rxRsp)
  /\ rxFsm' = None
  /\ UNCHANGED <<stateTable, locks, waits, txReq, queryReq, timerReq, txRsp,
                 queryRsp, release, txClose, streamQ>>

(* TRANSITION: the reply is there; write the next state, which unlocks. *)
RxTransition ==
  /\ rxFsm # None /\ rxRsp # <<>>
  /\ Room(rxReq)
  /\ \E st \in RxMayWrite(Head(rxRsp)) :
        rxReq' = Append(rxReq, WriteOf(rxFsm, st))
  /\ rxRsp' = Tail(rxRsp)
  /\ rxFsm' = None
  /\ UNCHANGED <<stateTable, locks, waits, txReq, queryReq, timerReq, txRsp,
                 queryRsp, release, txClose, streamQ>>

-----------------------------------------------------------------------------
(* tx_app_if.cpp *)

(* The lookup has created session s for an open request: SYN_SENT is       *)
(* written without reading, so no lock is held.                            *)
TxOpen(s) ==
  /\ txClose = None
  /\ Room(txReq)
  /\ txReq' = Append(txReq, WriteOf(s, "SYN_SENT"))
  /\ UNCHANGED <<stateTable, locks, waits, rxReq, queryReq, timerReq, rxRsp,
                 txRsp, queryRsp, release, rxFsm, txClose, streamQ>>

(* A close request of the application: read and lock the state. *)
TxCloseRequest(s) ==
  /\ txClose = None
  /\ Room(txReq)
  /\ txReq' = Append(txReq, ReadOf(s))
  /\ txClose' = s
  /\ UNCHANGED <<stateTable, locks, waits, rxReq, queryReq, timerReq, rxRsp,
                 txRsp, queryRsp, release, rxFsm, streamQ>>

(* CLOSE_CONN: close an open session, or write the state back to unlock. *)
TxCloseConn ==
  /\ txClose # None /\ txRsp # <<>>
  /\ Room(txReq)
  /\ txReq' = Append(txReq, WriteOf(txClose, AppCloseWrites(Head(txRsp))))
  /\ txRsp' = Tail(txRsp)
  /\ txClose' = None
  /\ UNCHANGED <<stateTable, locks, waits, rxReq, queryReq, timerReq, rxRsp,
                 queryRsp, release, rxFsm, streamQ>>

-----------------------------------------------------------------------------
(* tx_app_stream_if.cpp, the timers, and the session lookup *)

StreamRequest(s) ==
  /\ streamQ = None
  /\ Room(queryReq)
  /\ queryReq' = Append(queryReq, s)
  /\ streamQ' = s
  /\ UNCHANGED <<stateTable, locks, waits, rxReq, txReq, timerReq, rxRsp,
                 txRsp, queryRsp, release, rxFsm, txClose>>

StreamReply ==
  /\ streamQ # None /\ queryRsp # <<>>
  /\ queryRsp' = Tail(queryRsp)
  /\ streamQ' = None
  /\ UNCHANGED <<stateTable, locks, waits, rxReq, txReq, queryReq, timerReq,
                 rxRsp, txRsp, release, rxFsm, txClose>>

(* The close timer or the retransmit timer gives session s up. *)
TimerRelease(s) ==
  /\ Room(timerReq)
  /\ timerReq' = Append(timerReq, s)
  /\ UNCHANGED <<stateTable, locks, waits, rxReq, txReq, queryReq, rxRsp,
                 txRsp, queryRsp, release, rxFsm, txClose, streamQ>>

LookupTakesRelease ==
  /\ release # <<>>
  /\ release' = Tail(release)
  /\ UNCHANGED <<stateTable, locks, waits, rxReq, txReq, queryReq, timerReq,
                 rxRsp, txRsp, queryRsp, rxFsm, txClose, streamQ>>

-----------------------------------------------------------------------------
Clients ==
  \/ \E s \in Sessions : \/ RxLoad(s) \/ TxOpen(s) \/ TxCloseRequest(s)
                         \/ StreamRequest(s) \/ TimerRelease(s)
  \/ RxTransition \/ TxCloseConn \/ StreamReply \/ LookupTakesRelease

Table == TableStep /\ UNCHANGED <<rxFsm, txClose, streamQ>>

Next == Table \/ Clients

Spec == Init /\ [][Next]_vars

(* Every process of the dataflow region runs every clock: a reply is taken *)
(* and the table serves some request as long as there is one.  Nothing is  *)
(* assumed about which branch of the table gets its turn.                  *)
Fairness ==
  /\ WF_vars(RxTransition) /\ WF_vars(TxCloseConn) /\ WF_vars(StreamReply)
  /\ WF_vars(LookupTakesRelease) /\ WF_vars(Table)

-----------------------------------------------------------------------------
(* Properties *)

TypeOK ==
  /\ stateTable \in [Sessions -> SessionState]
  /\ rxLock \in Sessions \cup {None} /\ txLock \in Sessions \cup {None}
  /\ rxSeen \in SessionState /\ txSeen \in SessionState
  /\ rxWait \in Seq(Query) /\ Len(rxWait) <= 1
  /\ txWait \in Seq(Query) /\ Len(txWait) <= 1
  /\ closeWait \in Sessions \cup {None}
  /\ rxReq \in Seq(Query) /\ txReq \in Seq(Query)
  /\ queryReq \in Seq(Sessions) /\ timerReq \in Seq(Sessions)
  /\ rxRsp \in Seq(SessionState) /\ txRsp \in Seq(SessionState)
  /\ queryRsp \in Seq(SessionState)
  /\ release \in Seq(Sessions)
  /\ rxFsm \in Sessions \cup {None} /\ txClose \in Sessions \cup {None}
  /\ streamQ \in Sessions \cup {None}

(* The receive engine and tx_app_if never work on the same session at the  *)
(* same time (the two tests of the other side's lock, lines 80 and 101).   *)
LocksDisjoint == rxLock # None => rxLock # txLock

(* No lost update: while a client holds the lock of a session, the table   *)
(* still holds the state the client was handed, whatever the other client, *)
(* an open request or a timer asked for meanwhile.                         *)
ReadStaysCurrent ==
  /\ rxLock # None => stateTable[rxLock] = rxSeen
  /\ txLock # None => stateTable[txLock] = txSeen

(* The table with its locks, wait registers and streams implements updates *)
(* of sessions that are atomic, each announced for release when it closes. *)
Abs == INSTANCE AtomicSessions WITH state <- stateTable, released <- release
AtomicUpdates == Abs!AbsSpec

(* Once the traffic pauses, no lock stays taken, no request stays in a     *)
(* wait register or a stream, and no client waits for a reply: the two     *)
(* locks and three registers never wait for each other in a cycle.         *)
Idle ==
  /\ rxLock = None /\ txLock = None
  /\ rxWait = <<>> /\ txWait = <<>> /\ closeWait = None
  /\ rxReq = <<>> /\ txReq = <<>> /\ queryReq = <<>> /\ timerReq = <<>>
  /\ rxFsm = None /\ txClose = None /\ streamQ = None
Drains == <>[]Idle

(* A time-out that found its session locked still closes it.               *)
DeferredCloseHappens ==
  \A s \in Sessions : closeWait = s ~> stateTable[s] = "CLOSED"

-----------------------------------------------------------------------------
(* The inductive invariant: where in its protocol each client can be.      *)

(* At most one write of the receive engine is pending, the one that gives  *)
(* its lock back; a read is the last request and the FSM waits for it; the *)
(* lock is held exactly from the reply to the write.                       *)
RxProtocol ==
  /\ \A i \in 1..Len(rxReq) :
       IF rxReq[i].write
       THEN /\ i = 1 /\ rxLock = rxReq[i].session
            /\ rxReq[i].state \in RxMayWrite(rxSeen)
       ELSE i = Len(rxReq) /\ rxFsm = rxReq[i].session
  /\ rxWait # <<>> => /\ ~rxWait[1].write /\ rxFsm = rxWait[1].session
                      /\ rxReq = <<>> /\ rxLock = None
  /\ rxLock = None => rxRsp = <<>>
  /\ rxLock # None => \/ rxRsp = <<rxSeen>> /\ rxReq = <<>> /\ rxFsm = rxLock
                      \/ rxRsp = <<>> /\ rxReq # <<>> /\ rxReq[1].write

(* The same for tx_app_if, whose SYN_SENT writes may also be pending: they *)
(* come without a lock, but never while one is waiting for its reply.      *)
TxProtocol ==
  /\ \A i \in 1..Len(txReq) :
       IF txReq[i].write
       THEN \/ txReq[i].state = "SYN_SENT" /\ (i # 1 \/ txLock = None)
            \/ /\ i = 1 /\ txLock = txReq[i].session
               /\ txReq[i].state = AppCloseWrites(txSeen)
       ELSE i = Len(txReq) /\ txClose = txReq[i].session
  /\ txWait # <<>> => /\ txLock = None
                      /\ IF txWait[1].write
                         THEN txWait[1].state = "SYN_SENT"
                         ELSE txReq = <<>> /\ txClose = txWait[1].session
  /\ txLock = None => txRsp = <<>>
  /\ txLock # None => \/ txRsp = <<txSeen>> /\ txReq = <<>> /\ txClose = txLock
                      \/ txRsp = <<>> /\ txReq # <<>> /\ txReq[1].write

IInv == TypeOK /\ RxProtocol /\ TxProtocol /\ LocksDisjoint /\ ReadStaysCurrent

=============================================================================
