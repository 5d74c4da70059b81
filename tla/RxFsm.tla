-------------------------------- MODULE RxFsm --------------------------------
(***************************************************************************)
(* rx_engine.cpp, rxTcpFSM.  LOAD reads the metadata of a segment, locks   *)
(* the state of its session and asks the SAR tables for their entries;     *)
(* TRANSITION handles the segment with those copies.  tx_engine and the    *)
(* timers run between the two.                                             *)
(***************************************************************************)
EXTENDS ToeSession

(* LOAD.  The lock on the state is held from here to the transition, see   *)
(* StateTable; the copy of the tx_sar entry may get old. *)
RxLoad(p) ==
  /\ rxPkt = <<>>
  /\ rxPkt' = <<p>>
  /\ snap' = [prevAck |-> tx.ackd, nextByte |-> tx.not_ackd, count |-> tx.count]
  /\ UNCHANGED <<state, releases, tx, recvd, ml, events, timers, appSide,
                 answers, told, wire>>

-----------------------------------------------------------------------------
(* The FIFOs that a transition may write to. *)

ClearRetransmit(stop) ==
  rt' = [rt EXCEPT !.retries = 0, !.active = @ /\ ~stop]

(* Fault: any acknowledgement number is taken. *)
BetweenAny(low, a, high) == TRUE

Between(low, a, high) ==
  \/ low <= a /\ a <= high
  \/ (low <= a \/ a <= high) /\ high < low

InOrder(p) == p.seq = recvd

Acking == {"ESTABLISHED", "SYN_RECEIVED", "FIN_WAIT_1", "CLOSING", "LAST_ACK"}

(* Where an acknowledgement of everything that was sent leads to. *)
Moves == [SYN_RECEIVED |-> "ESTABLISHED", CLOSING |-> "TIME_WAIT", LAST_ACK |-> "CLOSED"]

AllAckedMoves(st) == IF st \in DOMAIN Moves THEN Moves[st] ELSE st

(* Fault: the close timer is set one state too late. *)
ClosesLate(next) == state = "TIME_WAIT" /\ next = "TIME_WAIT"

(* The acknowledgement of the FIN sets the close timer. *)
Closes(next) == state = "CLOSING" /\ next = "TIME_WAIT"

(* ACK, with or without payload. *)
OnAck(p) ==
  /\ ClearRetransmit(p.ack = snap.nextByte)
  /\ \/ /\ state \in Acking
        /\ LET repeated == p.ack = snap.prevAck /\ snap.prevAck # snap.nextByte
               count    == IF repeated THEN (snap.count + 1) % 4 ELSE 0
               next     == IF p.ack = snap.nextByte THEN AllAckedMoves(state) ELSE state
           IN  /\ probe' = (probe /\ repeated)
               /\ tx' = IF Between(snap.prevAck, p.ack, snap.nextByte)
                        THEN TxSarFromRx(p.ack, p.win, count) ELSE tx
               /\ \/ /\ p.len # 0 /\ InOrder(p)
                     /\ recvd' = Add(recvd, p.len) /\ told' = told \cup {"DATA"}
                  \/ UNCHANGED <<recvd, told>> \* no payload, no space, or not in order
               /\ IF count = 3 THEN RxEvent(Ev("RT", 0))
                  ELSE IF p.len # 0 THEN RxEvent(Ev("ACK", 0)) ELSE NoRxEvent
               /\ WriteState(next)
               /\ closeTimer' = (closeTimer \/ Closes(next))
     \/ /\ state \notin Acking
        /\ RxEvent(Ev("RST", 1))
        /\ WriteState(state)
        /\ UNCHANGED <<tx, recvd, probe, closeTimer, told>>
  /\ UNCHANGED answers

(* SYN. *)
OnSyn(p) ==
  /\ \/ /\ state \in {"CLOSED", "SYN_SENT"}
        /\ recvd' = Add(p.seq, 1)
        /\ tx' = TxSarInitFromRx(0, p.win)
        /\ RxEvent(Ev("SYN_ACK", 0))
        /\ WriteState("SYN_RECEIVED")
     \/ /\ state = "SYN_RECEIVED"
        /\ IF Add(p.seq, 1) = recvd
           THEN RxEvent(Ev("SYN_ACK", 1)) /\ WriteState(state)
           ELSE RxEvent(Ev("RST", 1)) /\ WriteState("CLOSED")
        /\ UNCHANGED <<recvd, tx>>
     \/ /\ state \notin {"CLOSED", "SYN_SENT", "SYN_RECEIVED"}
        /\ RxEvent(Ev("ACK_NODELAY", 0))
        /\ WriteState(state)
        /\ UNCHANGED <<recvd, tx>>
  /\ UNCHANGED <<rt, probe, closeTimer, answers, told>>

(* SYN and ACK. *)
OnSynAck(p) ==
  /\ ClearRetransmit(p.ack = snap.nextByte)
  /\ \/ /\ state = "SYN_SENT" /\ p.ack = snap.nextByte
        /\ recvd' = Add(p.seq, 1)
        /\ tx' = TxSarInitFromRx(p.ack, p.win)
        /\ RxEvent(Ev("ACK_NODELAY", 0))
        /\ WriteState("ESTABLISHED")
        /\ answers' = Append(answers, TRUE)
     \/ /\ state = "SYN_SENT" /\ p.ack # snap.nextByte
        /\ RxEvent(Ev("RST", 1))
        /\ WriteState("CLOSED")
        /\ UNCHANGED <<recvd, tx, answers>>
     \/ /\ state # "SYN_SENT"
        /\ RxEvent(Ev("ACK_NODELAY", 0))
        /\ WriteState(state)
        /\ UNCHANGED <<recvd, tx, answers>>
  /\ UNCHANGED <<probe, closeTimer, told>>

(* FIN and ACK, with or without payload.  There is no check for space. *)
OnFin(p) ==
  /\ ClearRetransmit(p.ack = snap.nextByte)
  /\ \/ /\ state \in Closeable /\ InOrder(p)
        /\ tx' = TxSarFromRx(p.ack, p.win, snap.count)
        /\ recvd' = Add(p.seq, p.len + 1)
        /\ probe' = FALSE
        /\ told' = told \cup (IF p.len # 0 THEN {"DATA", "CLOSE"}
                             ELSE IF state = "ESTABLISHED" THEN {"CLOSE"} ELSE {})
        /\ \/ /\ state = "ESTABLISHED"
              /\ RxEvent(Ev("FIN", 0))
              /\ WriteState("LAST_ACK")
              /\ UNCHANGED closeTimer
           \/ /\ state # "ESTABLISHED" /\ p.ack = snap.nextByte
              /\ RxEvent(Ev("ACK", 0))
              /\ WriteState("TIME_WAIT")
              /\ closeTimer' = TRUE
           \/ /\ state # "ESTABLISHED" /\ p.ack # snap.nextByte
              /\ RxEvent(Ev("ACK", 0))
              /\ WriteState("CLOSING")
              /\ UNCHANGED closeTimer
     \/ /\ ~(state \in Closeable /\ InOrder(p))
        /\ RxEvent(Ev("ACK", 0))
        /\ WriteState(state)
        /\ UNCHANGED <<tx, recvd, probe, closeTimer, told>>
  /\ UNCHANGED answers

(* RST. *)
OnRst(p) ==
  /\ \/ /\ state = "SYN_SENT" /\ p.ack = snap.nextByte
        /\ TellFailure
        /\ WriteState("CLOSED") /\ ClearRetransmit(TRUE)
        /\ UNCHANGED told
     \/ /\ state # "SYN_SENT" /\ InOrder(p)
        /\ TellClose
        /\ WriteState("CLOSED") /\ ClearRetransmit(TRUE)
        /\ UNCHANGED answers
     \/ /\ IF state = "SYN_SENT" THEN p.ack # snap.nextByte ELSE ~InOrder(p)
        /\ WriteState(state)
        /\ UNCHANGED <<rt, answers, told>>
  /\ NoRxEvent
  /\ UNCHANGED <<tx, recvd, probe, closeTimer>>

RxTransition ==
  /\ rxPkt # <<>> /\ Room(pipe) /\ releases < QueueDepth
  /\ LET p == rxPkt[1]
     IN  \/ p.kind = "ACK"     /\ OnAck(p)
         \/ p.kind = "SYN"     /\ OnSyn(p)
         \/ p.kind = "SYN_ACK" /\ OnSynAck(p)
         \/ p.kind = "FIN"     /\ OnFin(p)
         \/ p.kind = "RST"     /\ OnRst(p)
  /\ rxPkt' = <<>>
  /\ UNCHANGED <<snap, mapped, ml, timerEv, appEv, giveUp, appSide, wire, peer>>
=============================================================================
