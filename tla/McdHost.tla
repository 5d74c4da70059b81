------------------------------- MODULE McdHost -------------------------------
(* The host that hands out addresses of values (memManager.cpp) and the bridge to it: three FIFOs  *)
(* for addresses and the signals of the flush protocol (pcie_mem_alloc.v).                         *)
(*                                                                                                 *)
(* A turn of the loop in manage that finds nothing to do changes nothing and is not a step, so     *)
(* between two steps of the host the loop may turn any number of times.  The pools of medium and   *)
(* large slots are left out: the registers that take their addresses lead nowhere.                 *)
EXTENDS Naturals, Sequences

CONSTANTS
    NoDram, NoFlash,    \* pool0size, pool1size
    AssignDepth,        \* of the FIFOs of free addresses
    ReturnDepth         \* of the FIFO of returned ones

ASSUME AddressAssumption == {NoDram, NoFlash} \subseteq Nat
ASSUME BridgeAssumption == {AssignDepth, ReturnDepth} \subseteq Nat \ {0}

Dram == 1 .. NoDram                                 \* addresses of the value store in DRAM
Flash == NoDram + 1 .. NoDram + NoFlash             \* and of the one in flash

VARIABLES
    freeDram, freeFlash,        \* m_lpFreePool0, m_lpFreePool1
    hostState,                  \* "managing", "acknowledged", "waitForDone", "gone"
    assignDram, assignFlash,    \* free1_fifo, free2_fifo
    addressReturn,              \* del_fifo
    flushReq, flushAck, flushDone

bridgeVars == <<assignDram, assignFlash, addressReturn, flushReq, flushAck, flushDone>>
hostVars == <<freeDram, freeFlash, hostState, bridgeVars>>

Room(fifo, depth) == Len(fifo) < depth

(* fillPools *)
AllDram == [i \in 1 .. NoDram |-> i]
AllFlash == [i \in 1 .. NoFlash |-> NoDram + i]

HostInit ==
    /\ freeDram = AllDram /\ freeFlash = AllFlash
    /\ assignDram = <<>> /\ assignFlash = <<>> /\ addressReturn = <<>>
    /\ hostState = "managing"
    /\ flushReq = FALSE /\ flushAck = FALSE /\ flushDone = FALSE

(* managesingle; a FIFO in reset is full *)
TopUpDram ==
    /\ hostState = "managing" /\ ~flushReq
    /\ Room(assignDram, AssignDepth) /\ freeDram # <<>>
    /\ assignDram' = Append(assignDram, Head(freeDram))
    /\ freeDram' = Tail(freeDram)
    /\ UNCHANGED <<freeFlash, hostState, assignFlash, addressReturn, flushReq, flushAck, flushDone>>

TopUpFlash ==
    /\ hostState = "managing" /\ ~flushReq
    /\ Room(assignFlash, AssignDepth) /\ freeFlash # <<>>
    /\ assignFlash' = Append(assignFlash, Head(freeFlash))
    /\ freeFlash' = Tail(freeFlash)
    /\ UNCHANGED <<freeDram, hostState, assignDram, addressReturn, flushReq, flushAck, flushDone>>

(* The first address of the FIFO is put back.  Before that, an address of DRAM is compared with    *)
(* the last one of its pool; for an empty pool that is whatever back() finds in memory.            *)
TakeBack ==
    /\ hostState = "managing" /\ addressReturn # <<>>
    /\ addressReturn' = Tail(addressReturn)
    /\ LET a == Head(addressReturn) IN
       \/ /\ a \in Dram
          /\ freeDram # <<>> => freeDram[Len(freeDram)] # a
          /\ freeDram' = Append(freeDram, a)
          /\ UNCHANGED <<freeFlash, hostState>>
       \/ /\ a \in Dram
          /\ freeDram # <<>> => freeDram[Len(freeDram)] = a
          /\ hostState' = "gone"
          /\ UNCHANGED <<freeDram, freeFlash>>
       \/ /\ a \in Flash
          /\ freeFlash' = Append(freeFlash, a)
          /\ UNCHANGED <<freeDram, hostState>>
    /\ UNCHANGED <<assignDram, assignFlash, flushReq, flushAck, flushDone>>

(* The flush protocol: the acknowledgement leaves first, *)
Acknowledge ==
    /\ hostState = "managing" /\ flushReq
    /\ flushAck' = TRUE
    /\ hostState' = "acknowledged"
    /\ UNCHANGED <<freeDram, freeFlash, assignDram, assignFlash, addressReturn, flushReq, flushDone>>

(* A fault: one of the pools is not cleared. *)
RefillUncleared ==
    /\ hostState = "acknowledged"
    /\ freeDram' = freeDram \o AllDram /\ freeFlash' = AllFlash
    /\ hostState' = "waitForDone"
    /\ UNCHANGED bridgeVars

(* then the pools are cleared and filled, *)
Refill ==
    /\ hostState = "acknowledged"
    /\ freeDram' = AllDram /\ freeFlash' = AllFlash
    /\ hostState' = "waitForDone"
    /\ UNCHANGED bridgeVars

(* and the loop goes on when flushDone is seen. *)
SeeDone ==
    /\ hostState = "waitForDone" /\ flushDone
    /\ hostState' = "managing"
    /\ UNCHANGED <<freeDram, freeFlash, bridgeVars>>

HostStep == TopUpDram \/ TopUpFlash \/ TakeBack \/ Acknowledge \/ Refill \/ SeeDone
=============================================================================
