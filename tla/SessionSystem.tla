--------------------------- MODULE SessionSystem ---------------------------
(***************************************************************************)
(* The life of a session id and of a port: SessionLookup and PortTable     *)
(* with those who use them, rxMetadataHandler for every segment that       *)
(* arrives, tx_app_if for every connection the application opens, and the  *)
(* receive FSM and the timers, which close sessions.                       *)
(*                                                                         *)
(* Of a connection only matters here whether its state is CLOSED.          *)
(***************************************************************************)
EXTENDS SessionLookup, FiniteSets

VARIABLES
  packets,    \* rxEng_metaDataFifo and rxEng_tupleBuffer, [tuple, kind]
  mh,         \* [state, packet]: mh_state and mh_meta
  fsm,        \* rxEng_fsmMetaDataFifo, [id, kind]
  openReqs,   \* appOpenConnReq
  openTuples, \* txAppIpTupleBuffer
  answers,    \* failures in appOpenConnRsp
  alive       \* the sessions that are not CLOSED in the state table

rxVars == <<packets, mh, fsm>>
appVars == <<openReqs, openTuples, answers>>
vars == <<portVars, sessionVars, rxVars, appVars, alive>>

(* A SYN opens a session; any other segment may close one (an RST, or the *)
(* ACK of the last FIN). *)
Kind == {"SYN", "OTHER"}
Packet == [tuple : Tuple, kind : Kind]
NoPacket == [tuple |-> NoTuple, kind |-> "OTHER"]

Init ==
  /\ PortInit /\ SessionInit
  /\ packets = <<>> /\ mh = [state |-> "META", packet |-> NoPacket] /\ fsm = <<>>
  /\ openReqs = <<>> /\ openTuples = <<>> /\ answers = 0
  /\ alive = {}

-----------------------------------------------------------------------------
(* rx_engine *)

(* rxCheckTCPchecksum: the port of a valid segment is checked. *)
Arrive(p) ==
  /\ Room(packets) /\ Room(checkReq)
  /\ packets' = Append(packets, p)
  /\ checkReq' = Append(checkReq, p.tuple.port)
  /\ UNCHANGED <<listening, listenCheck, usedCheck, listenRsp, usedRsp, dst, merge, checkRsp,
                 freeVars, sessionVars, mh, fsm, appVars, alive>>

(* rxMetadataHandler.  A segment for a closed port is answered by an RST   *)
(* and forgotten. *)
Meta ==
  /\ mh.state = "META" /\ packets # <<>> /\ checkRsp # <<>>
  /\ packets' = Tail(packets) /\ checkRsp' = Tail(checkRsp)
  /\ LET p == Head(packets) IN
       IF Head(checkRsp).open
       THEN /\ Room(rxReq)
            /\ rxReq' = Append(rxReq, [tuple |-> p.tuple, allowCreation |-> p.kind = "SYN"])
            /\ mh' = [state |-> "LOOKUP", packet |-> p]
       ELSE UNCHANGED <<rxReq, mh>>
  /\ UNCHANGED <<listening, checkReq, listenCheck, usedCheck, listenRsp, usedRsp, dst, merge,
                 freeVars, idVars, appReq, rxRsp, appRsp, lup, camReq, camRsp, updateVars,
                 reverseVars, fsm, appVars, alive>>

Lookup ==
  /\ mh.state = "LOOKUP" /\ rxRsp # <<>>
  /\ IF Head(rxRsp).hit
     THEN Room(fsm) /\ fsm' = Append(fsm, [id |-> Head(rxRsp).id, kind |-> mh.packet.kind])
     ELSE UNCHANGED fsm
  /\ rxRsp' = Tail(rxRsp)
  /\ mh' = [state |-> "META", packet |-> NoPacket]
  /\ UNCHANGED <<portVars, idVars, rxReq, appReq, appRsp, lup, camReq, camRsp, updateVars,
                 reverseVars, packets, appVars, alive>>

(* rxTcpFSM and state_table: a write of CLOSED releases the session, also  *)
(* when it was CLOSED before. *)
RxTcpFsm ==
  /\ fsm # <<>>
  /\ LET m == Head(fsm) IN
       \/ /\ m.kind = "SYN" /\ alive' = alive \cup {m.id} /\ UNCHANGED releases
       \/ /\ m.kind = "OTHER" /\ Room(releases)
          /\ alive' = alive \ {m.id} /\ releases' = Append(releases, m.id)
       \/ /\ m.kind = "OTHER" /\ UNCHANGED <<alive, releases>>
  /\ fsm' = Tail(fsm)
  /\ UNCHANGED <<portVars, idVars, lookupVars, updateVars, revInserts, reverse, tupleValid,
                 packets, mh, appVars>>

(* A timer closes a session: the last of its retransmissions, or the end   *)
(* of TIME_WAIT. *)
TimeOut(id) ==
  /\ id \in alive /\ Room(releases)
  /\ alive' = alive \ {id} /\ releases' = Append(releases, id)
  /\ UNCHANGED <<portVars, idVars, lookupVars, updateVars, revInserts, reverse, tupleValid,
                 rxVars, appVars>>

-----------------------------------------------------------------------------
(* tx_app_if, state IDLE: a request of the application goes before the     *)
(* reply to a lookup, and that before a port. *)

OpenReq(peer) ==
  /\ Room(openReqs)
  /\ openReqs' = Append(openReqs, peer)
  /\ UNCHANGED <<portVars, sessionVars, rxVars, openTuples, answers, alive>>

TakesRequest == openReqs # <<>> /\ portReq < FifoDepth

OpenConn ==
  /\ TakesRequest /\ Room(openTuples)
  /\ openTuples' = Append(openTuples, Head(openReqs)) /\ openReqs' = Tail(openReqs)
  /\ portReq' = portReq + 1
  /\ UNCHANGED <<listening, checkVars, used, search, portRsp, releasePort, sessionVars,
                 rxVars, answers, alive>>

LookupReply ==
  /\ ~TakesRequest /\ appRsp # <<>>
  /\ IF Head(appRsp).hit
     THEN alive' = alive \cup {Head(appRsp).id} /\ UNCHANGED answers
     ELSE answers' = answers + 1 /\ UNCHANGED alive
  /\ appRsp' = Tail(appRsp)
  /\ UNCHANGED <<portVars, idVars, rxReq, appReq, rxRsp, lup, camReq, camRsp, updateVars,
                 reverseVars, rxVars, openReqs, openTuples>>

PortReply ==
  /\ ~TakesRequest /\ appRsp = <<>>
  /\ portRsp # <<>> /\ Room(appReq)
  /\ appReq' = Append(appReq, [port |-> ByteSwap(Head(portRsp) + Half),
                               peer |-> Head(openTuples)])
  /\ portRsp' = Tail(portRsp) /\ openTuples' = Tail(openTuples)
  /\ UNCHANGED <<listening, checkVars, used, search, portReq, releasePort, idVars, rxReq,
                 rxRsp, appRsp, lup, camReq, camRsp, updateVars, reverseVars, rxVars,
                 openReqs, answers, alive>>

TxAppIf == OpenConn \/ LookupReply \/ PortReply

RxEngine == Meta \/ Lookup \/ RxTcpFsm

Listening(p) == Listen(p) /\ UNCHANGED <<sessionVars, rxVars, appVars, alive>>

Environment ==
  \/ \E p \in Packet : Arrive(p)
  \/ \E p \in Ports : Listening(p)
  \/ \E p \in Peers : OpenReq(p)
  \/ \E i \in Ids : TimeOut(i)

(* The processes of the two tables. *)
PortMove(A) == A /\ UNCHANGED <<sessionVars, rxVars, appVars, alive>>
LookupMove(A) == A /\ UNCHANGED <<portVars, rxVars, appVars, alive>>
Reverse == ReverseLookupTableInterface /\ UNCHANGED <<rxVars, appVars, alive>>

Search == PortMove(FreePortTable)

Others ==
  \/ RxEngine \/ TxAppIf
  \/ PortMove(CheckListening) \/ PortMove(CheckIn) \/ PortMove(CheckOut)
  \/ LookupMove(SessionIdManager) \/ LookupMove(LookupReplyHandler)
  \/ LookupMove(UpdateRequestSender) \/ LookupMove(UpdateReply)
  \/ LookupMove(CamLookup) \/ LookupMove(CamUpdate) \/ Reverse

Step == Others \/ Search

Next == Environment \/ Step

Spec == Init /\ [][Next]_vars

(* Every process runs all the time.  Less is assumed: that some process    *)
(* moves when one can, and that the one that searches for a port, which    *)
(* may search for ever, does not keep the others from moving.              *)
Fairness == WF_vars(Others) /\ WF_vars(Search)

-----------------------------------------------------------------------------

(* The places where an id can be: each is a sequence. *)
Count(q, S) == Cardinality({i \in DOMAIN q : q[i] \in S})

Updates(op, id) == [op : {op}, tuple : Tuple, id : {id}, source : {"RX", "TX_APP"}]

UnderWay(id) ==
  LET Inserting == Updates("INSERT", id)
  IN  Count(insertReq, Inserting) + Count(updateReq, Inserting) + Count(updateRsp, Inserting)
      + Count(insertRsp, Inserting) + Count(revInserts, [id : {id}, tuple : Tuple])
      + Count(deleteReq, Updates("DELETE", id))
Spare(id) == Count(finIds, {id}) + Count(freeIds, {id}) + (IF id >= counter THEN 1 ELSE 0)

(* Every session id is in one place: spare, under way in an insertion or a *)
(* deletion, or in the reverse table.  So no id is lost, and none is given *)
(* to two connections, although sessions are released more than once. *)
IdsAccounted ==
  \A id \in Ids : Spare(id) + UnderWay(id) + (IF id \in tupleValid THEN 1 ELSE 0) = 1

(* The memory and the reverse table say the same, up to what is under way: *)
(* a tuple found leads to a session of that tuple, or one that is being    *)
(* inserted or deleted, and a valid session is found by its tuple.  So no  *)
(* connection gets two sessions. *)
CamMirrors ==
  /\ \A t \in Tuple : cam[t] # None =>
       \/ cam[t] \in tupleValid /\ reverse[cam[t]] = t
       \/ \E q \in {updateRsp, insertRsp, revInserts, deleteReq, updateReq} :
            \E i \in DOMAIN q : q[i].id = cam[t] /\ q[i].tuple = t
  /\ \A id \in tupleValid : cam[reverse[id]] = id

(* The answer to a port check is for the segment that it is used for,      *)
(* although the two tables answer at their own pace. *)
AnswersInOrder ==
  \A i \in DOMAIN checkRsp : checkRsp[i].port = ByteSwap(packets[i].tuple.port)

(* Every lookup, every check, every open and every release is served, if   *)
(* the free ports do not run out. *)
Served ==
  /\ packets = <<>> /\ fsm = <<>> /\ openReqs = <<>> /\ openTuples = <<>>
  /\ lup.state = "LUP_REQ" /\ rxReq = <<>> /\ appReq = <<>> /\ rxRsp = <<>> /\ appRsp = <<>>
  /\ releases = <<>> /\ deleteReq = <<>> /\ updateReq = <<>> /\ releasePort = <<>>
EverythingServed == <>[](Served \/ used = 0 .. Half - 1)
=============================================================================
