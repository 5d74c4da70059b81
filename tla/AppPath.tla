------------------------------ MODULE AppPath ------------------------------
(***************************************************************************)
(* tx_app_if.cpp, tx_app_stream_if.cpp and txAppStatusHandler of           *)
(* tx_app_interface.cpp for one session: open and close requests, and the  *)
(* way of a write from the application to the tx_sar table.                *)
(*                                                                         *)
(* The buffer never runs full here and the memory reports no error.        *)
(***************************************************************************)
EXTENDS ToeSession

CONSTANT WriteSizes   \* sizes of the packets the application writes

ASSUME WriteSizesAssumption == WriteSizes \subseteq Nat \ {0}

(* An event of tx_app_if, or an accepted write with the pointer behind it. *)
Cached(type, end) == [type |-> type, end |-> end]

(* The application uses a session it knows of: its open request succeeded, *)
(* or data of the peer was announced. *)
Known == (answers # <<>> /\ answers[1]) \/ "DATA" \in told

(* tx_app_if: the session lookup made an entry for an open request. *)
AppOpen ==
  /\ app.open /\ rxPkt = <<>> /\ Room(cache)
  /\ app' = [app EXCEPT !.open = FALSE]
  /\ mapped' = TRUE
  /\ state' = "SYN_SENT"
  /\ cache' = Append(cache, Cached("SYN", 0))
  /\ UNCHANGED <<releases, tx, recvd, rxEng, ml, events, timers, streamReq,
                 mempt, answers, told, wire, peer>>

(* tx_app_if: a close request.  Atomic, by StateTableProofs!Refinement. *)
AppClose ==
  /\ Known /\ app.closes > 0 /\ streamReq = <<>> /\ rxPkt = <<>> /\ Room(cache)
  /\ app' = [app EXCEPT !.closes = @ - 1]
  /\ state' = AppCloseWrites(state)
  /\ cache' = IF state \in Closeable THEN Append(cache, Cached("FIN", 0)) ELSE cache
  /\ UNCHANGED <<mapped, releases, tx, recvd, rxEng, ml, events, timers,
                 streamReq, mempt, answers, told, wire, peer>>

(* tx_app_stream_if, READ_REQUEST: the state is read, without a lock, when *)
(* the request is there.  *)
StreamRequest ==
  /\ Known /\ app.left > 0 /\ streamReq = <<>>
  /\ streamReq' = <<state>>
  /\ UNCHANGED <<table, tx, recvd, rxEng, ml, events, timers, cache, mempt, app,
                 answers, told, wire, peer>>

(* READ_META: all words of the packet are there; it is accepted or not. *)
StreamWrite(n) ==
  /\ streamReq # <<>> /\ n <= app.left /\ Room(cache)
  /\ IF streamReq[1] = "ESTABLISHED"
     THEN /\ mempt' = Add(mempt, n)
          /\ cache' = Append(cache, Cached("TX", Add(mempt, n)))
          /\ app' = [app EXCEPT !.left = @ - n]
     ELSE UNCHANGED <<mempt, cache, app>>
  /\ streamReq' = <<>>
  /\ UNCHANGED <<table, tx, recvd, rxEng, ml, events, timers, answers, told,
                 wire, peer>>

(* txAppStatusHandler: the packet is in memory, publish it and fire a TX   *)
(* event; pass on the other events. *)
StatusOk ==
  /\ cache # <<>> /\ Room(appEv)
  /\ tx' = IF Head(cache).type = "TX" THEN [tx EXCEPT !.app = Head(cache).end] ELSE tx
  /\ appEv' = Append(appEv, Ev(Head(cache).type, 0))
  /\ cache' = Tail(cache)
  /\ UNCHANGED <<table, recvd, rxEng, ml, pipe, timerEv, ackOwed, timers,
                 streamReq, mempt, app, answers, told, wire, peer>>

AppIfStep == StatusOk \/ \E n \in WriteSizes : StreamWrite(n)
AppRequest == AppOpen \/ AppClose \/ StreamRequest
=============================================================================
