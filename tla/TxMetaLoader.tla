---------------------------- MODULE TxMetaLoader ----------------------------
(***************************************************************************)
(* tx_engine.cpp, metaLoader.  An event makes it fetch copies of the SAR   *)
(* entries; it then sends one segment per step from its copy, and writes   *)
(* not_ackd back to tx_sar_table with the last one.  rx_engine works on    *)
(* the table in the meantime.                                              *)
(*                                                                         *)
(* The segments differ in kind, first sequence number and length; the      *)
(* acknowledgement number and the window they carry are left out.          *)
(***************************************************************************)
EXTENDS ToeSession

Segment(kind, seq, len) == [kind |-> kind, seq |-> seq, len |-> len]

Lesser(a, b) == IF a <= b THEN a ELSE b

(* State 0: read an event and ask for the SAR entries. *)
TxLoad ==
  /\ ml = <<>> /\ pipe # <<>>
  /\ ml' = <<[type |-> Head(pipe).type, rt |-> Head(pipe).rt, sar |-> tx, count |-> 0]>>
  /\ pipe' = Tail(pipe)
  /\ UNCHANGED <<table, tx, recvd, rxEng, timerEv, appEv, ackOwed, timers,
                 appSide, answers, told, wire, peer>>

-----------------------------------------------------------------------------
Handles(type) == ml # <<>> /\ ml[1].type = type

SetRetransmit(type) == rt' = [rt EXCEPT !.active = TRUE, !.type = type]

Send(seg, timerType) == wire' = wire \cup {seg} /\ SetRetransmit(timerType)

(* Fault: a small segment is held back but counted as sent. *)
SendDataFullOnly(seq, len) ==
  IF len < Mms /\ tx.ackd # tx.not_ackd THEN UNCHANGED <<wire, rt>>
  ELSE Send(Segment("DATA", seq, len), "RT")

(* Nothing is sent, and no timer is set, without payload. *)
SendData(seq, len) ==
  IF len = 0 THEN UNCHANGED <<wire, rt>> ELSE Send(Segment("DATA", seq, len), "RT")

MetaRest == <<table, recvd, rxEng, events, closeTimer, giveUp, appSide, answers,
              told, peer>>

Unsent(sar) == Sub(sar.app, sar.not_ackd)
InFlight(sar) == Sub(sar.not_ackd, sar.ackd)
(* Fault: what is in flight is not deducted. *)
UsableWhole(sar) == sar.window

Usable(sar) == IF sar.window > InFlight(sar) THEN sar.window - InFlight(sar) ELSE 0
(* Fault: only the window limits what is sent. *)
DataLengthWindow(sar) == Lesser(Usable(sar), Mms)

DataLength(sar) == Lesser(Lesser(Unsent(sar), Usable(sar)), Mms)

(* TX: one segment of what the application wrote and the window admits.    *)
(* Full segments are sent one after the other; the last, shorter one turns *)
(* the event into a FIN if a FIN waits for it.                             *)
TxData ==
  /\ Handles("TX")
  /\ LET sar    == ml[1].sar
         length == DataLength(sar)
         sent   == [sar EXCEPT !.not_ackd = Add(@, length)]
         fin    == /\ Unsent(sar) <= Usable(sar) /\ sar.finReady
                   /\ sar.ackd = sar.not_ackd \/ Unsent(sar) = 0
     IN  /\ SendData(sar.not_ackd, length)
         /\ \/ /\ length = Mms
               /\ ml' = <<[ml[1] EXCEPT !.sar = sent]>>
               /\ UNCHANGED <<tx, probe>>
            \/ /\ length < Mms
               /\ tx' = TxSarFromTx(sent.not_ackd, FALSE, FALSE)
               /\ probe' = TRUE
               /\ ml' = IF fin THEN <<[ml[1] EXCEPT !.type = "FIN", !.sar = sent]>>
                               ELSE <<>>
  /\ UNCHANGED MetaRest

(* RT: everything between ackd and not_ackd again, at most four segments.  *)
(* A FIN that was sent has a sequence number but no byte.                  *)
TxRetransmit ==
  /\ Handles("RT")
  /\ LET sar    == ml[1].sar
         unackd == Sub(Sub(sar.not_ackd, sar.ackd), IF sar.finSent THEN 1 ELSE 0)
     IN  /\ SendData(sar.ackd, Lesser(unackd, Mms))
         /\ ml' = IF unackd > Mms
                  THEN IF ml[1].count = 3 THEN <<>>
                       ELSE <<[ml[1] EXCEPT !.sar.ackd = Add(@, Mms), !.count = @ + 1]>>
                  ELSE IF sar.finSent THEN <<[ml[1] EXCEPT !.type = "FIN"]>> ELSE <<>>
  /\ UNCHANGED <<MetaRest, tx, probe>>

(* FIN: the first time only if everything was sent, else remembered. *)
TxFin ==
  /\ Handles("FIN")
  /\ LET sar == ml[1].sar
         seq == IF ml[1].rt # 0 THEN Sub(sar.not_ackd, 1) ELSE sar.not_ackd
     IN  /\ tx' = IF ml[1].rt # 0 THEN tx
                  ELSE IF sar.app = sar.not_ackd
                       THEN TxSarFromTx(Add(sar.not_ackd, 1), TRUE, TRUE)
                       ELSE TxSarFromTx(sar.not_ackd, TRUE, FALSE)
         /\ IF seq = sar.app THEN Send(Segment("FIN", seq, 0), "RT")
                             ELSE UNCHANGED <<wire, rt>>
  /\ ml' = <<>>
  /\ UNCHANGED <<MetaRest, probe>>

Openers == {"SYN", "SYN_ACK"}

(* The engine has sent a segment that opens the connection. *)
Called == \E seg \in wire : seg.kind \in Openers

(* The initial numbers that may come next (ml_randomValue): the first one  *)
(* is called Isn, and a session that is opened again draws another.        *)
Draws == IF Called THEN Isns ELSE {Isn}

(* SYN and SYN_ACK: a new number, or with a retransmission the one that    *)
(* ackd holds. *)
TxOpening(type, kind) ==
  /\ Handles(type)
  /\ \/ /\ ml[1].rt = 0
        /\ \E isn \in Draws :
             /\ Send(Segment(kind, isn, 0), type)
             /\ tx' = TxSarInitFromTx(Add(isn, 1)) /\ mempt' = Add(isn, 1)
     \/ /\ ml[1].rt # 0
        /\ Send(Segment(kind, ml[1].sar.ackd, 0), type)
        /\ UNCHANGED <<tx, mempt>>
  /\ ml' = <<>>
  /\ UNCHANGED <<table, recvd, rxEng, events, probe, closeTimer, giveUp, cache,
                 streamReq, app, answers, told, peer>>

TxSyn    == TxOpening("SYN", "SYN")
TxSynAck == TxOpening("SYN_ACK", "SYN_ACK")

(* ACK and ACK_NODELAY: a segment without payload.  They all look alike. *)
TxAck ==
  /\ Handles("ACK") \/ Handles("ACK_NODELAY")
  /\ wire' = wire \cup {Segment("ACK", 0, 0)}
  /\ ml' = <<>>
  /\ UNCHANGED <<MetaRest, tx, rt, probe>>

TxRst ==
  /\ Handles("RST")
  /\ wire' = wire \cup {Segment("RST", ml[1].sar.not_ackd, 0)}
  /\ ml' = <<>>
  /\ UNCHANGED <<MetaRest, tx, rt, probe>>

TxStep ==
  \/ TxLoad \/ TxData \/ TxRetransmit \/ TxFin \/ TxSyn \/ TxSynAck \/ TxAck
  \/ TxRst
=============================================================================
