--------------------------- MODULE SessionLookup ---------------------------
(***************************************************************************)
(* session_lookup_controller.cpp: from the tuple of a connection to its    *)
(* session id and back.                                                    *)
(*                                                                         *)
(* Tuples are kept in an associative memory outside of the TOE, which has  *)
(* one port for lookups and one for updates.  New ids come from a counter, *)
(* released ones return through a FIFO.  The state table releases a        *)
(* session; the port of its tuple goes to the port table.                  *)
(***************************************************************************)
EXTENDS PortTable

CONSTANTS MaxSessions,  \* MAX_SESSIONS
          Peers,        \* address and port of the other side
          None

ASSUME SessionLookupAssumption == MaxSessions \in Nat \ {0} /\ None \notin Nat

Ids == 0 .. MaxSessions - 1

(* fourTupleInternal; myIp is the same for all. *)
Tuple == [port : Ports, peer : Peers]

VARIABLES
  counter,    \* the ids that were never handed out start here
  finIds,     \* slc_sessionIdFinFifo
  freeIds,    \* slc_sessionIdFreeList, deep enough for all ids
  rxReq,      \* rxEng2sLookup_req, [tuple, allowCreation]
  appReq,     \* txApp2sLookup_req
  rxRsp, appRsp,    \* sLookup2rxEng_rsp and sLookup2txApp_rsp, [id, hit]
  lup,        \* [state, query]: slc_fsmState, and what the two FIFOs hold
  camReq, camRsp,   \* sessionLookup_req and _rsp
  insertReq,  \* sessionInsert_req, [op, tuple, id, source]
  deleteReq,  \* sessionDelete_req
  updateReq,  \* sessionUpdate_req
  updateRsp,  \* sessionUpdate_rsp
  insertRsp,  \* slc_sessionInsert_rsp
  revInserts, \* reverseLupInsertFifo, [id, tuple]
  reverse,    \* reverseLookupTable
  tupleValid, \* the ids whose entry is valid
  releases,   \* stateTable2sLookup_releaseSession
  cam         \* the memory: the id of a tuple, or None

idVars == <<counter, finIds, freeIds>>
lookupVars == <<rxReq, appReq, rxRsp, appRsp, lup, camReq, camRsp>>
updateVars == <<insertReq, deleteReq, updateReq, updateRsp, insertRsp, cam>>
reverseVars == <<revInserts, reverse, tupleValid, releases>>
sessionVars == <<idVars, lookupVars, updateVars, reverseVars>>

NoTuple == [port |-> 0, peer |-> None]
NoQuery == [tuple |-> NoTuple, create |-> FALSE, source |-> "RX"]

SessionInit ==
  /\ counter = 0 /\ finIds = <<>> /\ freeIds = <<>>
  /\ rxReq = <<>> /\ appReq = <<>> /\ rxRsp = <<>> /\ appRsp = <<>>
  /\ lup = [state |-> "LUP_REQ", query |-> NoQuery]
  /\ camReq = <<>> /\ camRsp = <<>>
  /\ insertReq = <<>> /\ deleteReq = <<>> /\ updateReq = <<>>
  /\ updateRsp = <<>> /\ insertRsp = <<>> /\ revInserts = <<>>
  /\ reverse = [i \in Ids |-> NoTuple] /\ tupleValid = {}
  /\ releases = <<>>
  /\ cam = [t \in Tuple |-> None]

-----------------------------------------------------------------------------
(* sessionIdManager: a released id goes before a new one. *)

IdReturned ==
  /\ finIds # <<>>
  /\ freeIds' = Append(freeIds, Head(finIds)) /\ finIds' = Tail(finIds)
  /\ UNCHANGED <<counter, lookupVars, updateVars, reverseVars>>

IdCounted ==
  /\ finIds = <<>> /\ counter < MaxSessions
  /\ freeIds' = Append(freeIds, counter) /\ counter' = counter + 1
  /\ UNCHANGED <<finIds, lookupVars, updateVars, reverseVars>>

-----------------------------------------------------------------------------
(* lookupReplyHandler: one lookup at a time, of the application first. *)

Ask(query) ==
  /\ lup' = [state |-> "LUP_RSP", query |-> query]
  /\ camReq' = Append(camReq, query.tuple)
  /\ UNCHANGED <<rxRsp, appRsp, camRsp, idVars, updateVars, reverseVars>>

AskApp ==
  /\ lup.state = "LUP_REQ" /\ appReq # <<>> /\ Room(camReq)
  /\ Ask([tuple |-> Head(appReq), create |-> TRUE, source |-> "TX_APP"])
  /\ appReq' = Tail(appReq) /\ UNCHANGED rxReq

AskRx ==
  /\ lup.state = "LUP_REQ" /\ appReq = <<>> /\ rxReq # <<>> /\ Room(camReq)
  /\ Ask([tuple |-> Head(rxReq).tuple, create |-> Head(rxReq).allowCreation, source |-> "RX"])
  /\ rxReq' = Tail(rxReq) /\ UNCHANGED appReq

Reply(source, reply) ==
  \/ source = "RX" /\ Room(rxRsp) /\ rxRsp' = Append(rxRsp, reply) /\ UNCHANGED appRsp
  \/ source = "TX_APP" /\ Room(appRsp) /\ appRsp' = Append(appRsp, reply) /\ UNCHANGED rxRsp

(* Fault: nothing but the permission to create is looked at. *)
CreatesBlind == lup.query.create /\ freeIds # <<>>

(* A new id: no hit, creation is allowed, and there is an id. *)
Creates == Head(camRsp) = None /\ lup.query.create /\ freeIds # <<>>

(* Fault: the next lookup does not wait for the insertion. *)
CreatedAtOnce == [state |-> "LUP_REQ", query |-> lup.query]

Created == [state |-> "UPD_RSP", query |-> lup.query]

Create ==
  /\ lup.state = "LUP_RSP" /\ camRsp # <<>> /\ Creates /\ Room(insertReq)
  /\ insertReq' = Append(insertReq, [op |-> "INSERT", tuple |-> lup.query.tuple,
                                     id |-> Head(freeIds), source |-> lup.query.source])
  /\ freeIds' = Tail(freeIds)
  /\ camRsp' = Tail(camRsp)
  /\ lup' = Created
  /\ UNCHANGED <<counter, finIds, rxReq, appReq, rxRsp, appRsp, camReq, deleteReq,
                 updateReq, updateRsp, insertRsp, cam, reverseVars>>

LookupAnswer ==
  /\ lup.state = "LUP_RSP" /\ camRsp # <<>> /\ ~Creates
  /\ Reply(lup.query.source, [id |-> Head(camRsp), hit |-> Head(camRsp) # None])
  /\ camRsp' = Tail(camRsp)
  /\ lup' = [state |-> "LUP_REQ", query |-> NoQuery]
  /\ UNCHANGED <<rxReq, appReq, camReq, idVars, updateVars, reverseVars>>

InsertAnswer ==
  /\ lup.state = "UPD_RSP" /\ insertRsp # <<>> /\ Room(revInserts)
  /\ Reply(Head(insertRsp).source, [id |-> Head(insertRsp).id, hit |-> TRUE])
  /\ revInserts' = Append(revInserts, [id |-> Head(insertRsp).id, tuple |-> lup.query.tuple])
  /\ insertRsp' = Tail(insertRsp)
  /\ lup' = [state |-> "LUP_REQ", query |-> NoQuery]
  /\ UNCHANGED <<rxReq, appReq, camReq, camRsp, idVars, insertReq, deleteReq, updateReq,
                 updateRsp, cam, reverse, tupleValid, releases>>

LookupReplyHandler == AskApp \/ AskRx \/ Create \/ LookupAnswer \/ InsertAnswer

-----------------------------------------------------------------------------
(* updateRequestSender: insertions before deletions; the id of a deletion  *)
(* is free from here on. *)

SendInsert ==
  /\ insertReq # <<>> /\ Room(updateReq)
  /\ updateReq' = Append(updateReq, Head(insertReq)) /\ insertReq' = Tail(insertReq)
  /\ UNCHANGED <<deleteReq, updateRsp, insertRsp, cam, idVars, lookupVars, reverseVars>>

SendDelete ==
  /\ insertReq = <<>> /\ deleteReq # <<>> /\ Room(updateReq) /\ Room(finIds)
  /\ updateReq' = Append(updateReq, Head(deleteReq)) /\ deleteReq' = Tail(deleteReq)
  /\ finIds' = Append(finIds, Head(deleteReq).id)
  /\ UNCHANGED <<insertReq, updateRsp, insertRsp, cam, counter, freeIds, lookupVars, reverseVars>>

(* updateReplyHandler: the answer to a deletion is dropped. *)
UpdateReply ==
  /\ updateRsp # <<>> /\ Room(insertRsp)
  /\ insertRsp' = IF Head(updateRsp).op = "INSERT" THEN Append(insertRsp, Head(updateRsp))
                  ELSE insertRsp
  /\ updateRsp' = Tail(updateRsp)
  /\ UNCHANGED <<insertReq, deleteReq, updateReq, cam, idVars, lookupVars, reverseVars>>

(* The memory. *)
CamLookup ==
  /\ camReq # <<>> /\ Room(camRsp)
  /\ camRsp' = Append(camRsp, cam[Head(camReq)]) /\ camReq' = Tail(camReq)
  /\ UNCHANGED <<rxReq, appReq, rxRsp, appRsp, lup, idVars, updateVars, reverseVars>>

CamUpdate ==
  /\ updateReq # <<>> /\ Room(updateRsp)
  /\ LET u == Head(updateReq) IN
       cam' = [cam EXCEPT ![u.tuple] = IF u.op = "INSERT" THEN u.id ELSE None]
  /\ updateRsp' = Append(updateRsp, Head(updateReq)) /\ updateReq' = Tail(updateReq)
  /\ UNCHANGED <<insertReq, deleteReq, insertRsp, idVars, lookupVars, reverseVars>>

-----------------------------------------------------------------------------
(* reverseLookupTableInterface: insertions before releases.  The lookups   *)
(* of the transmit engine read the table and change nothing. *)

ReverseInsert ==
  /\ revInserts # <<>>
  /\ reverse' = [reverse EXCEPT ![Head(revInserts).id] = Head(revInserts).tuple]
  /\ tupleValid' = tupleValid \cup {Head(revInserts).id}
  /\ revInserts' = Tail(revInserts)
  /\ UNCHANGED <<releases, idVars, lookupVars, updateVars, portVars>>

Delete(id) ==
  /\ Room(releasePort) /\ Room(deleteReq)
  /\ releasePort' = Append(releasePort, reverse[id].port)
  /\ deleteReq' = Append(deleteReq, [op |-> "DELETE", tuple |-> reverse[id],
                                     id |-> id, source |-> "RX"])

(* Fault: a session is released although it was released before. *)
ReverseReleaseTwice ==
  /\ revInserts = <<>> /\ releases # <<>>
  /\ Delete(Head(releases))
  /\ tupleValid' = tupleValid \ {Head(releases)}
  /\ releases' = Tail(releases)
  /\ UNCHANGED <<revInserts, reverse, idVars, lookupVars, insertReq, updateReq, updateRsp,
                 insertRsp, cam, listening, checkVars, used, search, portReq, portRsp>>

ReverseRelease ==
  /\ revInserts = <<>> /\ releases # <<>>
  /\ IF Head(releases) \in tupleValid THEN Delete(Head(releases))
     ELSE UNCHANGED <<releasePort, deleteReq>>
  /\ tupleValid' = tupleValid \ {Head(releases)}
  /\ releases' = Tail(releases)
  /\ UNCHANGED <<revInserts, reverse, idVars, lookupVars, insertReq, updateReq, updateRsp,
                 insertRsp, cam, listening, checkVars, used, search, portReq, portRsp>>

SessionIdManager == IdReturned \/ IdCounted
UpdateRequestSender == SendInsert \/ SendDelete
ReverseLookupTableInterface == ReverseInsert \/ ReverseRelease
=============================================================================
