--------------------------- MODULE ToeConnection ---------------------------
(***************************************************************************)
(* A connection of the offload engine: receive engine, transmit engine,    *)
(* timers and application interface of one session, and a remote TCP.      *)
(*                                                                         *)
(* The network may lose, duplicate and delay what the engine sends: a      *)
(* segment that was sent once stays on the wire.  What the peer sends is   *)
(* derived from its state: it may repeat any segment, and with Reorder an  *)
(* old acknowledgement may arrive late.  The peer is a correct TCP: it     *)
(* acknowledges what it has received and never shrinks its window.         *)
(***************************************************************************)
EXTENDS RxFsm, TxMetaLoader, AppPath

CONSTANT Plans  \* what the ends and the network may do in a behaviour: records
                \* with the fields below, and calls, the possible openers

ASSUME PlanAssumption ==
  \A plan \in Plans :
    /\ plan.calls \subseteq BOOLEAN
    /\ {plan.appBytes, plan.appCloses, plan.peerBytes, plan.firstCredit, plan.credit}
         \subseteq Nat
    /\ plan.firstCredit <= plan.credit
    /\ plan.peerBytes + 2 < SeqMod  \* the numbers of the peer are used once,
    /\ plan.appBytes + 2 < SeqMod   \* and those of the engine too, both what the
    /\ plan.credit + 2 < SeqMod     \* application writes and what the peer admits
    /\ {plan.peerCloses, plan.peerAborts, plan.reorder, plan.oldPeer, plan.slowPeer,
        plan.overload} \subseteq BOOLEAN

(* The code keeps the numbers away from zero (tx_engine.cpp:111).  Until   *)
(* the SYN is sent the table says 0, and a late SYN_ACK that acknowledges  *)
(* the initial number must not be taken for its answer. *)
ASSUME IsnAssumption == Isn # 0 /\ 0 \notin Isns

(* The plan of a behaviour is chosen at first and kept with the peer. *)
AppBytes   == peer.plan.appBytes    \* bytes the application writes
AppCloses  == peer.plan.appCloses   \* close requests of the application
PeerBytes  == peer.plan.peerBytes   \* bytes the peer sends
PeerCloses == peer.plan.peerCloses  \* the peer may send a FIN
PeerAborts == peer.plan.peerAborts  \* the peer may send a RST
Credit     == peer.plan.credit      \* bytes the peer has room for, in all
Reorder    == peer.plan.reorder     \* old acknowledgements may arrive late
OldPeer    == peer.plan.oldPeer     \* so may a SYN_ACK of an earlier connection
SlowPeer   == peer.plan.slowPeer    \* a FIN may be acknowledged after the probe timer, 50 ms
Overload   == peer.plan.overload    \* a timer may expire before the engine has done its work

(* Position of a sequence number in the stream of the engine: 0 for its    *)
(* first SYN, then the bytes of the application, then its FIN. *)
Pos(seq) == Sub(seq, Isn)

Init ==
  /\ state = "CLOSED" /\ mapped = FALSE /\ releases = 0
  /\ tx = TxSarReset /\ recvd = 0
  /\ rxPkt = <<>> /\ snap = [prevAck |-> 0, nextByte |-> 0, count |-> 0]
  /\ ml = <<>>
  /\ pipe = <<>> /\ timerEv = <<>> /\ appEv = <<>> /\ ackOwed = FALSE
  /\ rt = RtReset /\ probe = FALSE /\ closeTimer = FALSE /\ giveUp = 0
  /\ cache = <<>> /\ streamReq = <<>> /\ mempt = 0
  /\ answers = <<>> /\ told = {}
  /\ wire = {}
  /\ \E plan \in Plans : \E calls \in plan.calls : \* the peer opens, or the application
       /\ app = [open |-> ~calls, closes |-> plan.appCloses, left |-> plan.appBytes]
       /\ peer = [plan |-> plan, calls |-> calls, phase |-> "idle",
                  irs |-> Isn,   \* number of the SYN that it took, Isn before
                  rcvd |-> 0,    \* positions of the engine's stream received
                  sent |-> 0,    \* bytes sent
                  fin |-> FALSE, \* FIN sent
                  credit |-> plan.firstCredit,
                  told |-> 1]    \* last acknowledgement that has arrived

-----------------------------------------------------------------------------
(* The peer. *)

engine == <<table, tx, recvd, rxEng, ml, events, timers, appSide, answers, told>>

(* The peer's position in its own stream. *)
PeerSeq == Add(PeerIsn, 1 + peer.sent + IF peer.fin THEN 1 ELSE 0)

(* The peer counts from the SYN that it took.  Without a second opening    *)
(* this is the position. *)
Heard(seq) == Sub(seq, peer.irs)

(* Segments of the engine are accepted in order only, overlaps are cut.    *)
(* After the engine's FIN only a RST would still be of interest. *)
PeerReceives(seg) ==
  /\ LET first == Heard(seg.seq)
     IN  \/ /\ seg.kind = "SYN" /\ peer.phase = "idle"
            /\ peer' = [peer EXCEPT !.rcvd = 1, !.phase = "syn", !.irs = seg.seq]
         \/ /\ seg.kind = "SYN_ACK" /\ peer.phase = "idle"
            /\ peer' = [peer EXCEPT !.rcvd = 1, !.phase = "open", !.irs = seg.seq]
         \/ /\ seg.kind = "ACK" /\ peer.phase = "syn"
            /\ peer' = [peer EXCEPT !.phase = "open"]
         \/ /\ seg.kind = "DATA" /\ peer.phase \in {"syn", "open"}
            /\ first <= peer.rcvd /\ peer.rcvd < first + seg.len
            /\ peer' = [peer EXCEPT !.rcvd = first + seg.len, !.phase = "open"]
         \/ /\ seg.kind = "FIN" /\ peer.phase \in {"syn", "open"} /\ first = peer.rcvd
            /\ peer' = [peer EXCEPT !.rcvd = @ + 1, !.phase = "ended"]
         \/ /\ seg.kind = "RST" /\ peer.phase # "idle" /\ first = peer.rcvd
            /\ peer' = [peer EXCEPT !.phase = "gone"]
  /\ UNCHANGED <<engine, wire>>

PeerSends ==
  /\ peer.phase \in {"open", "ended"}
  /\ \/ peer.sent < PeerBytes /\ ~peer.fin /\ peer' = [peer EXCEPT !.sent = @ + 1]
     \/ PeerCloses /\ ~peer.fin /\ peer' = [peer EXCEPT !.fin = TRUE]
     \/ PeerAborts /\ peer' = [peer EXCEPT !.phase = "aborted"]
  /\ UNCHANGED <<engine, wire>>

PeerReads ==
  /\ peer.credit < Credit
  /\ peer' = [peer EXCEPT !.credit = @ + 1]
  /\ UNCHANGED <<engine, wire>>

(* The acknowledgements that may arrive. *)
Acks == (IF Reorder THEN 1 ELSE peer.told) .. peer.rcvd

InSegment(kind, seq, len, ack) ==
  [kind |-> kind, seq |-> seq, len |-> len, ack |-> Add(peer.irs, ack),
   win |-> IF peer.credit + 1 > ack THEN peer.credit + 1 - ack ELSE 0]

Incoming ==
  LET Only(condition, segments) == IF condition THEN segments ELSE {}
  IN  Only(peer.calls /\ peer.phase = "idle",
           {InSegment("SYN", PeerIsn, 0, 1)})
      \cup
      Only(~peer.calls /\ (peer.phase = "syn" \/ (Reorder /\ peer.rcvd > 0)),
           {InSegment("SYN_ACK", PeerIsn, 0, 1)})
      \cup
      Only(peer.phase \in {"open", "ended"},
           {InSegment("ACK", PeerSeq, 0, a) : a \in Acks}
           \cup {InSegment("ACK", Add(PeerIsn, 1 + i), 1, a)
                   : i \in 0 .. peer.sent - 1, a \in Acks})
      \cup
      Only(peer.phase \in {"open", "ended"} /\ peer.fin,
           {InSegment("FIN", Add(PeerIsn, 1 + peer.sent), 0, a) : a \in Acks})
      \cup
      Only(peer.phase = "aborted", {InSegment("RST", PeerSeq, 0, peer.rcvd)})
      \cup
      Only(OldPeer /\ ~peer.calls, {InSegment("SYN_ACK", PeerIsn, 0, 0)})

(* A segment arrives.  Only a SYN makes an entry in the session lookup. *)
Arrives ==
  \E p \in Incoming :
    /\ mapped \/ p.kind = "SYN"
    /\ RxLoad(p)
    /\ mapped' = TRUE
    /\ peer' = [peer EXCEPT !.told = IF p.ack = peer.irs THEN @ ELSE Heard(p.ack)]

(* The engine has nothing to do but to wait for the peer, the application  *)
(* or a timer.  Its own work takes microseconds, the shortest timer of a   *)
(* connection 50 ms: unless it is overloaded, timers expire only then. *)
Idle ==
  /\ rxPkt = <<>> /\ ml = <<>> /\ pipe = <<>> /\ timerEv = <<>> /\ appEv = <<>>
  /\ cache = <<>> /\ giveUp = 0 /\ releases = 0

Due == Idle \/ Overload

RtDue    == Due /\ RtExpires
ProbeDue == Due /\ ProbeExpires /\ (SlowPeer \/ ~tx.finSent)
CloseDue == Due /\ CloseExpires

Expires == RtDue \/ ProbeDue \/ CloseDue

Local ==
  \/ RxTransition \/ TxStep \/ EventStep \/ ReleaseStep \/ AppIfStep
  \/ \E seg \in wire : PeerReceives(seg)

Next ==
  \/ Arrives \/ Expires \/ Local \/ AppRequest \/ PeerSends \/ PeerReads

Spec == Init /\ [][Next]_sessionVars

(* Every function of the engine is a dataflow process that runs all the    *)
(* time, so what it can do stays possible until it is done, except where   *)
(* another process comes first for a while: an event behind other events,  *)
(* and a timer, which counts down but is not seen to expire unless the     *)
(* engine is idle.  The network, the peer and the application owe nothing. *)
Fairness ==
  /\ WF_sessionVars(RxTransition) /\ WF_sessionVars(TxStep)
  /\ WF_sessionVars(DelayedAckFires)
  /\ SF_sessionVars(TakeTimerEvent) /\ SF_sessionVars(TakeAppEvent)
  /\ WF_sessionVars(StatusOk) /\ WF_sessionVars(\E n \in WriteSizes : StreamWrite(n))
  /\ WF_sessionVars(TimerRelease) /\ WF_sessionVars(LookupRelease)
  /\ SF_sessionVars(RtDue) /\ SF_sessionVars(ProbeDue) /\ SF_sessionVars(CloseDue)

FairSpec == Spec /\ Fairness

-----------------------------------------------------------------------------
(* What a transfer must keep, whatever the network does to the segments.   *)

Covers(seg, i) == seg.kind = "DATA" /\ Pos(seg.seq) <= i /\ i < Pos(seg.seq) + seg.len

Synchronized == {"ESTABLISHED", "FIN_WAIT_1", "CLOSING", "TIME_WAIT", "LAST_ACK"}

(* A passive open that is given up is told to the application, and the     *)
(* next SYN of the peer opens the session again: its SYN_ACK draws another *)
(* number and sets ackd, app and mempt to it (tx_sar_table, init), while   *)
(* segments of the first session may still be under way.  If the peer took *)
(* the number of the first session and its acknowledgement comes before    *)
(* the second SYN_ACK is sent, the handshake is completed and the two ends *)
(* count from different numbers. *)
OpenedOnce == peer.calls => "CLOSE" \notin told

(* No segment carries a byte that the application did not write: the copy  *)
(* of metaLoader, the time-outs and the pointer that the status handler    *)
(* moves agree on what there is to send (tx_engine.cpp, TX and RT).  The   *)
(* phantom byte of the FIN breaks this once it is sent: see README.md. *)
NoFinYet == \A seg \in wire : seg.kind # "FIN"
SentIsWritten ==
  OpenedOnce /\ NoFinYet =>
    \A seg \in wire : seg.kind = "DATA" => Pos(seg.seq) + seg.len <= Pos(tx.app)

(* No byte is sent beyond the window of the peer, although rx_engine moves *)
(* ackd and the window while metaLoader works on its copy, and old         *)
(* acknowledgements arrive late. *)
WindowKept ==
  OpenedOnce /\ NoFinYet =>
    \A seg \in wire : seg.kind = "DATA" => Pos(seg.seq) + seg.len <= peer.credit + 1

(* Everything below not_ackd was sent: the engine never waits for the      *)
(* acknowledgement of a byte that it skipped. *)
NoGaps ==
  OpenedOnce /\ state \in {"ESTABLISHED", "FIN_WAIT_1"} /\ ~tx.finSent =>
    \A i \in 1 .. Pos(tx.not_ackd) - 1 : \E seg \in wire : Covers(seg, i)

(* Late acknowledgements never move ackd back (rx_engine.cpp, the test     *)
(* before the write to tx_sar_table, made on a copy that may be old).      *)
(* The handler of a FIN has no such test. *)
AckdNeverBack ==
  [][OpenedOnce /\ ~peer.fin /\ {state, state'} \subseteq Synchronized
       => Pos(tx.ackd') >= Pos(tx.ackd)]_sessionVars

(* A synchronized engine and its peer agree: the peer has seen a SYN and   *)
(* recvd is nothing that the peer has not sent; and, unless the session    *)
(* was opened again, ackd is nothing that the peer has not received.       *)
HandshakeAgreement ==
  state \in Synchronized =>
    /\ peer.rcvd > 0
    /\ OpenedOnce => Pos(tx.ackd) <= peer.rcvd
    /\ Sub(recvd, PeerIsn) \in 1 .. Sub(PeerSeq, PeerIsn)

-----------------------------------------------------------------------------
(* What a teardown must keep. *)

(* A session in TIME_WAIT is on its way out: the close timer runs or has   *)
(* asked for the release.  Nothing else ends TIME_WAIT. *)
TimeWaitEnds == state = "TIME_WAIT" => closeTimer \/ giveUp > 0

(* A connection that was open and is gone was closed by the application,   *)
(* or the application has been told: no session disappears silently. *)
CloseIsTold ==
  state = "CLOSED" /\ ~mapped /\ answers = <<TRUE>> =>
    "CLOSE" \in told \/ app.closes < AppCloses

(* An open request is answered at last, though every segment may be lost   *)
(* (retransmit_timer.cpp gives up after the last retry). *)
OpenAnswered == state = "SYN_SENT" ~> answers # <<>>

(* TIME_WAIT ends, and the id of the session is given back. *)
TimeWaitOver == state = "TIME_WAIT" ~> state = "CLOSED" /\ ~mapped

-----------------------------------------------------------------------------
(* What a comment of the code says of it, and what it does not do: see the *)
(* findings in README.md. *)

(* retransmit_timer.cpp:36-39: rx_engine stops the timer only when it has  *)
(* to be stopped, else the session is retried and at last aborted and the  *)
(* application told.  So a byte that was accepted is received, or a close  *)
(* is announced. *)
Delivered ==
  \A i \in UNION {1 .. plan.appBytes : plan \in Plans} :
    AppBytes - app.left >= i ~> peer.rcvd > i \/ "CLOSE" \in told
=============================================================================
