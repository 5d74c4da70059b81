----------------------------- MODULE PortTable -----------------------------
(***************************************************************************)
(* port_table.cpp: which ports listen and which are in use.                *)
(*                                                                         *)
(* A port has two bytes.  The lower half of the numbers is for listening,  *)
(* the upper half for connections the application opens.  On the network a *)
(* port travels with its bytes swapped, and so do the ports in the tuples  *)
(* of the session lookup.                                                  *)
(***************************************************************************)
EXTENDS Integers, Sequences

CONSTANTS Byte,      \* number of values of a byte, 256 in the code
          FifoDepth  \* of the streams; the code has 2 and 4

ASSUME ByteAssumption == Byte \in {2 * n : n \in 1 .. 128}
ASSUME FifoAssumption == FifoDepth \in Nat \ {0, 1}

Ports == 0 .. Byte * Byte - 1
Half == (Byte * Byte) \div 2

ByteSwap(p) == (p % Byte) * Byte + p \div Byte

VARIABLES
  listening,    \* listeningPortTable: the ports that listen
  used,         \* freePortTable: the ports in use, less Half
  search,       \* [state, port, temp]: searching, eval, freePort and temp
  checkReq,     \* rxEng2portTable_check_req, network order
  listenCheck,  \* pt_portCheckListening_req_fifo
  usedCheck,    \* pt_portCheckUsed_req_fifo
  listenRsp, usedRsp,  \* answers [port, open], with the port as a ghost
  dst,          \* pt_dstFifo
  merge,        \* cm_fsmState
  checkRsp,     \* portTable2rxEng_check_rsp, [port, open]
  portReq,      \* requests in txApp2portTable_port_req
  portRsp,      \* portTable2txApp_port_rsp
  releasePort   \* sLookup2portTable_releasePort

checkVars == <<checkReq, listenCheck, usedCheck, listenRsp, usedRsp, dst, merge, checkRsp>>
freeVars == <<used, search, portReq, portRsp, releasePort>>
portVars == <<listening, checkVars, freeVars>>

Room(fifo) == Len(fifo) < FifoDepth

PortInit ==
  /\ listening = {} /\ used = {}
  /\ search = [state |-> "idle", port |-> 0, temp |-> FALSE]
  /\ checkReq = <<>> /\ listenCheck = <<>> /\ usedCheck = <<>>
  /\ listenRsp = <<>> /\ usedRsp = <<>>
  /\ dst = <<>> /\ merge = "READ_DST" /\ checkRsp = <<>>
  /\ portReq = 0 /\ portRsp = <<>> /\ releasePort = <<>>

-----------------------------------------------------------------------------
(* listening_port_table: a request to listen goes before a check. *)

Listen(p) ==
  /\ listening' = IF p < Half THEN listening \cup {p} ELSE listening
  /\ UNCHANGED <<checkVars, freeVars>>

CheckListening ==
  /\ listenCheck # <<>> /\ Room(listenRsp)
  /\ listenRsp' = Append(listenRsp, [port |-> Head(listenCheck),
                                     open |-> Head(listenCheck) \in listening])
  /\ listenCheck' = Tail(listenCheck)
  /\ UNCHANGED <<listening, checkReq, usedCheck, usedRsp, dst, merge, checkRsp, freeVars>>

-----------------------------------------------------------------------------
(* free_port_table: a search goes before a check, a check before a new     *)
(* request, and that before a release. *)

SearchLook ==
  /\ search.state = "searching"
  /\ search' = [search EXCEPT !.state = "eval", !.temp = search.port \in used]
  /\ UNCHANGED <<listening, used, portReq, portRsp, releasePort, checkVars>>

SearchEval ==
  /\ search.state = "eval"
  /\ search' = [state |-> IF search.temp THEN "searching" ELSE "idle",
                port |-> (search.port + 1) % Half, temp |-> search.temp]
  /\ IF search.temp
     THEN UNCHANGED <<used, portRsp>>
     ELSE /\ Room(portRsp)
          /\ used' = used \cup {search.port}
          /\ portRsp' = Append(portRsp, search.port)
  /\ UNCHANGED <<listening, portReq, releasePort, checkVars>>

CheckUsed ==
  /\ search.state = "idle" /\ usedCheck # <<>> /\ Room(usedRsp)
  /\ usedRsp' = Append(usedRsp, [port |-> Head(usedCheck) + Half,
                                 open |-> Head(usedCheck) \in used])
  /\ usedCheck' = Tail(usedCheck)
  /\ UNCHANGED <<listening, checkReq, listenCheck, listenRsp, dst, merge, checkRsp, freeVars>>

SearchStart ==
  /\ search.state = "idle" /\ usedCheck = <<>> /\ portReq > 0
  /\ portReq' = portReq - 1
  /\ search' = [search EXCEPT !.state = "searching"]
  /\ UNCHANGED <<listening, used, portRsp, releasePort, checkVars>>

(* The port of a tuple comes in network order and is not swapped. *)
Release ==
  /\ search.state = "idle" /\ usedCheck = <<>> /\ portReq = 0
  /\ releasePort # <<>>
  /\ used' = IF Head(releasePort) >= Half THEN used \ {Head(releasePort) - Half} ELSE used
  /\ releasePort' = Tail(releasePort)
  /\ UNCHANGED <<listening, search, portReq, portRsp, checkVars>>

FreePortTable == SearchLook \/ SearchEval \/ CheckUsed \/ SearchStart \/ Release

-----------------------------------------------------------------------------
(* check_multiplexer: each check goes to its table, and the answers are    *)
(* merged in the order of the checks. *)

CheckIn ==
  /\ checkReq # <<>> /\ Room(dst)
  /\ LET p == ByteSwap(Head(checkReq)) IN
       \/ /\ p < Half /\ Room(listenCheck)
          /\ listenCheck' = Append(listenCheck, p)
          /\ dst' = Append(dst, "READ_LISTENING")
          /\ UNCHANGED usedCheck
       \/ /\ p >= Half /\ Room(usedCheck)
          /\ usedCheck' = Append(usedCheck, p - Half)
          /\ dst' = Append(dst, "READ_USED")
          /\ UNCHANGED listenCheck
  /\ checkReq' = Tail(checkReq)
  /\ UNCHANGED <<listening, listenRsp, usedRsp, merge, checkRsp, freeVars>>

ReadDst ==
  /\ merge = "READ_DST" /\ dst # <<>>
  /\ merge' = Head(dst) /\ dst' = Tail(dst)
  /\ UNCHANGED <<listening, checkReq, listenCheck, usedCheck, listenRsp, usedRsp, checkRsp, freeVars>>

ReadListening ==
  /\ merge = "READ_LISTENING" /\ listenRsp # <<>> /\ Room(checkRsp)
  /\ checkRsp' = Append(checkRsp, Head(listenRsp)) /\ listenRsp' = Tail(listenRsp)
  /\ merge' = "READ_DST"
  /\ UNCHANGED <<listening, checkReq, listenCheck, usedCheck, usedRsp, dst, freeVars>>

(* Fault: the answers are merged as they come. *)
ReadUsedAnytime ==
  /\ merge # "READ_DST" /\ usedRsp # <<>> /\ Room(checkRsp)
  /\ checkRsp' = Append(checkRsp, Head(usedRsp)) /\ usedRsp' = Tail(usedRsp)
  /\ merge' = "READ_DST"
  /\ UNCHANGED <<listening, checkReq, listenCheck, usedCheck, listenRsp, dst, freeVars>>

ReadUsed ==
  /\ merge = "READ_USED" /\ usedRsp # <<>> /\ Room(checkRsp)
  /\ checkRsp' = Append(checkRsp, Head(usedRsp)) /\ usedRsp' = Tail(usedRsp)
  /\ merge' = "READ_DST"
  /\ UNCHANGED <<listening, checkReq, listenCheck, usedCheck, listenRsp, dst, freeVars>>

CheckOut == ReadDst \/ ReadListening \/ ReadUsed
=============================================================================
