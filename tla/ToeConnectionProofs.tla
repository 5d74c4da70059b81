------------------------- MODULE ToeConnectionProofs -------------------------
(***************************************************************************)
(* Proofs about ToeConnection, for every peer, network and application:    *)
(* a session never stays in TIME_WAIT without something under way that     *)
(* ends it, no session that the application opened disappears without a    *)
(* word to the application, the two ends of an open session agree on what  *)
(* was sent and received; and, as long as the session has been opened      *)
(* once, everything below not_ackd was sent, no byte is sent beyond the    *)
(* window of the peer or before it was written, and ackd does not move     *)
(* back.                                                                   *)
(*                                                                         *)
(* A session that is opened again draws another number, which its peer may *)
(* not know.  So the invariant has two parts: BothInv holds of every       *)
(* session, OnceOpenInv as long as it has been opened once.  The second    *)
(* rests on FirstNumbers, that there is one number and that the peer has   *)
(* taken it, which in turn needs to know that an opening comes before      *)
(* everything else (OnceInv) and is repeated with the number of the table  *)
(* (CallInv).                                                              *)
(*                                                                         *)
(* TimeWaitEnds is almost inductive.  It needs to know that the number of  *)
(* release requests is a number, which does not fall below 1 as long as    *)
(* the request of the close timer has not been served; and the service of  *)
(* a request, of this timer or another, writes CLOSED.                     *)
(***************************************************************************)
EXTENDS ToeConnection, TLAPS

(* What TimeWaitEnds and its proof need of a state. *)
WaitInv == giveUp \in Nat /\ TimeWaitEnds

-----------------------------------------------------------------------------
(* Steps that touch neither the state of the session, nor the close timer, *)
(* nor the requests, preserve the invariant. *)
LEMMA Aside ==
  ASSUME WaitInv, UNCHANGED <<state, closeTimer, giveUp>>
  PROVE  WaitInv'
  BY DEF WaitInv, TimeWaitEnds

(* Of the states in which acknowledgements count, only CLOSING leads to    *)
(* TIME_WAIT. *)
LEMMA WaitAfterClosing ==
  ASSUME NEW st \in Acking, AllAckedMoves(st) = "TIME_WAIT"
  PROVE  st = "CLOSING"
<1>1. DOMAIN Moves = {"SYN_RECEIVED", "CLOSING", "LAST_ACK"}
  BY DEF Moves
<1>2. Moves["SYN_RECEIVED"] = "ESTABLISHED" /\ Moves["LAST_ACK"] = "CLOSED"
  BY DEF Moves
<1> QED BY <1>1, <1>2 DEF AllAckedMoves, Acking

(* A segment that rx_engine handles: TIME_WAIT is entered from CLOSING and *)
(* from FIN_WAIT_1 only, and each time the close timer is set. *)
LEMMA TransitionWaits ==
  ASSUME WaitInv, RxTransition
  PROVE  WaitInv'
<1> DEFINE p == rxPkt[1]
<1>1. giveUp' = giveUp
  BY DEF RxTransition
<1>2. state' = "TIME_WAIT" => closeTimer' \/ giveUp > 0
  <2>0. \/ OnAck(p) \/ OnSyn(p) \/ OnSynAck(p) \/ OnFin(p) \/ OnRst(p)
    BY DEF RxTransition
  <2> HIDE DEF p
  <2>1. CASE OnAck(p)
    <3>1. CASE state \notin Acking
      BY <2>1, <3>1 DEF OnAck, WriteState, WaitInv, TimeWaitEnds
    <3>2. CASE state \in Acking
      <4> DEFINE next == IF p.ack = snap.nextByte THEN AllAckedMoves(state) ELSE state
      <4>1. state' = next /\ closeTimer' = (closeTimer \/ Closes(next))
        BY <2>1, <3>2, Zenon DEF OnAck, WriteState
      <4>2. CASE next = "TIME_WAIT"
        <5>1. state = "CLOSING"
          BY <3>2, <4>2, WaitAfterClosing DEF Acking
        <5> QED BY <4>1, <4>2, <5>1 DEF Closes
      <4>3. CASE next # "TIME_WAIT"
        BY <4>1, <4>3
      <4> QED BY <4>2, <4>3
    <3> QED BY <3>1, <3>2
  <2>2. CASE OnSyn(p)
    BY <2>2 DEF OnSyn, WriteState, WaitInv, TimeWaitEnds
  <2>3. CASE OnSynAck(p)
    BY <2>3 DEF OnSynAck, WriteState, WaitInv, TimeWaitEnds
  <2>4. CASE OnFin(p)
    BY <2>4 DEF OnFin, WriteState, WaitInv, TimeWaitEnds
  <2>5. CASE OnRst(p)
    BY <2>5 DEF OnRst, WriteState, WaitInv, TimeWaitEnds
  <2> QED BY <2>0, <2>1, <2>2, <2>3, <2>4, <2>5
<1> QED BY <1>1, <1>2 DEF WaitInv, TimeWaitEnds

(* The timers: a request is added before the close timer is forgotten, and *)
(* one is taken away only together with the state. *)
LEMMA TimersWait ==
  ASSUME WaitInv, Expires \/ ReleaseStep
  PROVE  WaitInv'
<1>1. CASE RtDue
  BY <1>1 DEF RtDue, RtExpires, WaitInv, TimeWaitEnds, table
<1>2. CASE ProbeDue
  BY <1>2, Aside DEF ProbeDue, ProbeExpires, table
<1>3. CASE CloseDue
  BY <1>3 DEF CloseDue, CloseExpires, WaitInv, TimeWaitEnds, table
<1>4. CASE TimerRelease
  BY <1>4 DEF TimerRelease, WriteState, WaitInv, TimeWaitEnds
<1>5. CASE LookupRelease
  BY <1>5, Aside DEF LookupRelease, timers
<1> QED BY <1>1, <1>2, <1>3, <1>4, <1>5 DEF Expires, ReleaseStep

(* The application: an open request leads to SYN_SENT, a close request to  *)
(* FIN_WAIT_1, or it leaves the state alone. *)
LEMMA RequestsWait ==
  ASSUME WaitInv, AppRequest \/ AppIfStep
  PROVE  WaitInv'
<1>1. CASE AppOpen
  BY <1>1 DEF AppOpen, WaitInv, TimeWaitEnds, timers
<1>2. CASE AppClose
  BY <1>2 DEF AppClose, AppCloseWrites, Closeable, WaitInv, TimeWaitEnds, timers
<1>3. CASE StreamRequest
  BY <1>3, Aside DEF StreamRequest, table, timers
<1>4. CASE \E n \in WriteSizes : StreamWrite(n)
  BY <1>4, Aside DEF StreamWrite, table, timers
<1>5. CASE StatusOk
  BY <1>5, Aside DEF StatusOk, table, timers
<1> QED BY <1>1, <1>2, <1>3, <1>4, <1>5 DEF AppRequest, AppIfStep

(* tx_engine and the event engine only read the state's companions. *)
LEMMA TransmitWaits ==
  ASSUME WaitInv, TxStep \/ EventStep
  PROVE  WaitInv'
<1>1. CASE TxLoad
  BY <1>1, Aside DEF TxLoad, table, timers
<1>2. CASE TxData
  BY <1>2, Aside DEF TxData, MetaRest, table
<1>3. CASE TxRetransmit
  BY <1>3, Aside DEF TxRetransmit, MetaRest, table
<1>4. CASE TxFin
  BY <1>4, Aside DEF TxFin, MetaRest, table
<1>5. CASE TxSyn \/ TxSynAck
  BY <1>5, Aside DEF TxSyn, TxSynAck, TxOpening, table
<1>6. CASE TxAck \/ TxRst
  BY <1>6, Aside DEF TxAck, TxRst, MetaRest, table
<1>7. CASE EventStep
  BY <1>7, Aside DEF EventStep, DelayedAckFires, TakeTimerEvent, TakeAppEvent, table, timers
<1> QED BY <1>1, <1>2, <1>3, <1>4, <1>5, <1>6, <1>7 DEF TxStep

(* The peer and the network. *)
LEMMA PeerWaits ==
  ASSUME WaitInv,
         \/ Arrives \/ PeerSends \/ PeerReads
         \/ \E seg \in wire : PeerReceives(seg)
  PROVE  WaitInv'
<1>1. CASE Arrives
  BY <1>1, Aside DEF Arrives, RxLoad, timers
<1>2. CASE PeerSends \/ PeerReads
  BY <1>2, Aside DEF PeerSends, PeerReads, engine, table, timers
<1>3. CASE \E seg \in wire : PeerReceives(seg)
  BY <1>3, Aside DEF PeerReceives, engine, table, timers
<1> QED BY <1>1, <1>2, <1>3

-----------------------------------------------------------------------------
(* A session in TIME_WAIT always has a close timer that runs or a request  *)
(* for its release under way (close_timer.cpp, rx_engine.cpp), for every   *)
(* peer, application, window and number of retries. *)
THEOREM TimeWaitNeverStuck == Spec => []TimeWaitEnds
<1>1. Init => WaitInv
  BY DEF Init, WaitInv, TimeWaitEnds
<1>2. WaitInv /\ [Next]_sessionVars => WaitInv'
  <2> SUFFICES ASSUME WaitInv, [Next]_sessionVars PROVE WaitInv'
    OBVIOUS
  <2>1. CASE Next
    BY <2>1, TransitionWaits, TimersWait, RequestsWait, TransmitWaits, PeerWaits
       DEF Next, Local
  <2>2. CASE UNCHANGED sessionVars
    BY <2>2, Aside DEF sessionVars, table, timers
  <2> QED BY <2>1, <2>2
<1>3. WaitInv => TimeWaitEnds
  BY DEF WaitInv
<1> QED BY <1>1, <1>2, <1>3, PTL DEF Spec

-----------------------------------------------------------------------------
(* No session disappears silently: CloseIsTold.  It speaks of a session    *)
(* that the application opened and did not close.  Such a session stays    *)
(* ESTABLISHED until the application is told of its end, and nothing asks  *)
(* for its release.  That has to be so from the start: until the answer,   *)
(* there is nothing under way but the opening, so the retransmit timer can *)
(* only give up a SYN, which the application learns as a failure; and      *)
(* before the open request there is nothing at all. *)

Opening == {"SYN", "RST", "ACK", "ACK_NODELAY"}
OpeningEvent == [type : Opening, rt : Nat]

Untouched ==
  /\ state = "CLOSED" /\ ~mapped /\ rxPkt = <<>> /\ ml = <<>>
  /\ pipe = <<>> /\ timerEv = <<>> /\ appEv = <<>> /\ ~ackOwed
  /\ rt = RtReset /\ ~probe /\ ~closeTimer /\ giveUp = 0
  /\ cache = <<>> /\ streamReq = <<>> /\ answers = <<>> /\ told = {} /\ wire = {}
  /\ tx = TxSarReset /\ ~peer.calls /\ peer.phase = "idle"

OpenUnderWay ==
  /\ ml # <<>> => ml[1].type \in Opening
  /\ pipe \in Seq(OpeningEvent) /\ timerEv \in Seq(OpeningEvent) /\ appEv \in Seq(OpeningEvent)
  /\ cache \in Seq([type : Opening, end : {0}])
  /\ rt \in [active : BOOLEAN, retries : Nat, type : {"RT", "SYN"}]
  /\ rt.active => rt.type = "SYN"
  /\ ~probe /\ ~closeTimer /\ streamReq = <<>> /\ told = {}
  /\ IF answers = <<>> THEN giveUp = 0 ELSE ~answers[1]

Undisturbed == answers = <<TRUE>> /\ "CLOSE" \notin told /\ app.closes = AppCloses

(* What the records of the environment look like. *)
Shape ==
  /\ peer = [plan |-> peer.plan, calls |-> peer.calls, phase |-> peer.phase, irs |-> peer.irs,
             rcvd |-> peer.rcvd, sent |-> peer.sent, fin |-> peer.fin, credit |-> peer.credit,
             told |-> peer.told]
  /\ app = [open |-> app.open, closes |-> app.closes, left |-> app.left]
  /\ AppCloses \in Nat /\ app.closes \in 0 .. AppCloses

CloseInv ==
  /\ Shape
  /\ answers \in Seq(BOOLEAN) /\ giveUp \in Nat
  /\ app.open => Untouched
  /\ state = "SYN_SENT" => OpenUnderWay
  /\ Undisturbed => state = "ESTABLISHED" /\ giveUp = 0 /\ ~closeTimer

(* The answers to the application are never taken back. *)
LEMMA AnswersGrow ==
  ASSUME answers \in Seq(BOOLEAN), NEW b \in BOOLEAN, answers' = Append(answers, b)
  PROVE  /\ answers' \in Seq(BOOLEAN) /\ answers' # <<>>
         /\ answers' = <<TRUE>> => b /\ answers = <<>>
         /\ answers'[1] = IF answers = <<>> THEN b ELSE answers[1]
<1>1. answers' \in Seq(BOOLEAN) /\ Len(answers') = Len(answers) + 1 /\ answers'[Len(answers) + 1] = b
  OBVIOUS
<1>2. Len(<<TRUE>>) = 1 /\ <<TRUE>>[1] = TRUE /\ Len(<<>>) = 0 /\ Len(answers) \in Nat
  OBVIOUS
<1>3. ASSUME answers' = <<TRUE>> PROVE Len(answers) = 0 /\ b
  <2>1. Len(answers) = 0
    BY <1>1, <1>2, <1>3
  <2>. QED BY <1>1, <1>2, <1>3, <2>1
<1>4. Len(answers) = 0 => answers = <<>>
  OBVIOUS
<1>5. answers' # <<>>
  BY <1>1, <1>2
<1>6. answers # <<>> => answers'[1] = answers[1]
  OBVIOUS
<1>7. answers = <<>> => answers'[1] = b
  BY <1>1, <1>2
<1>8. answers' = <<TRUE>> => b /\ answers = <<>>
  BY <1>3, <1>4
<1>9. answers'[1] = IF answers = <<>> THEN b ELSE answers[1]
  BY <1>6, <1>7
<1>. QED BY <1>1, <1>5, <1>8, <1>9

(* What a segment of the engine does to the peer. *)
LEMMA Received ==
  ASSUME NEW seg, PeerReceives(seg)
  PROVE  \/ /\ seg.kind \in {"SYN", "SYN_ACK"} /\ peer.phase = "idle"
            /\ \E ph \in {"syn", "open"} :
                 peer' = [peer EXCEPT !.rcvd = 1, !.phase = ph, !.irs = seg.seq]
         \/ \E n : peer' = [peer EXCEPT !.rcvd = n, !.phase = "open"]
         \/ peer' = [peer EXCEPT !.rcvd = @ + 1, !.phase = "ended"]
         \/ \E ph \in {"open", "gone"} : peer' = [peer EXCEPT !.phase = ph]
  BY DEF PeerReceives

(* The environment keeps its shape, and the plan stays the same. *)
LEMMA ShapeStep ==
  ASSUME Shape, [Next]_sessionVars
  PROVE  /\ Shape' /\ AppCloses' = AppCloses /\ app.closes' <= app.closes
         /\ app.open' => app.open
<1>1. CASE UNCHANGED <<app, peer>>
  BY <1>1 DEF Shape, AppCloses
<1>2. CASE UNCHANGED app /\ (PeerSends \/ PeerReads \/ \E seg \in wire : PeerReceives(seg))
  <2>1. CASE PeerSends
    BY <1>2, <2>1 DEF Shape, AppCloses, PeerSends
  <2>2. CASE PeerReads
    BY <1>2, <2>2 DEF Shape, AppCloses, PeerReads
  <2>3. CASE \E seg \in wire : PeerReceives(seg)
    <3>1. PICK seg \in wire : PeerReceives(seg)
      BY <2>3
    <3>2. /\ peer'.plan = peer.plan
          /\ peer' = [plan |-> peer'.plan, calls |-> peer'.calls, phase |-> peer'.phase,
                      irs |-> peer'.irs, rcvd |-> peer'.rcvd, sent |-> peer'.sent,
                      fin |-> peer'.fin, credit |-> peer'.credit, told |-> peer'.told]
      BY <3>1, Received DEF Shape
    <3>3. peer'.plan = peer.plan /\ Shape'
      BY <1>2, <3>2 DEF Shape, AppCloses
    <3>. QED BY <1>2, <3>3 DEF Shape, AppCloses
  <2>. QED BY <1>2, <2>1, <2>2, <2>3
<1>3. CASE Arrives
  BY <1>3 DEF Shape, AppCloses, Arrives, RxLoad, appSide
<1>4. CASE AppRequest \/ AppIfStep
  <2>1. UNCHANGED peer
    BY <1>4 DEF AppRequest, AppIfStep, AppOpen, AppClose, StreamRequest, StatusOk, StreamWrite
  <2>2. AppCloses' = AppCloses
    BY <2>1 DEF AppCloses
  <2>3. \/ app' = app \/ app' = [app EXCEPT !.open = FALSE]
        \/ app.closes > 0 /\ app' = [app EXCEPT !.closes = @ - 1]
        \/ \E n \in WriteSizes : app' = [app EXCEPT !.left = @ - n]
    BY <1>4 DEF AppRequest, AppIfStep, AppOpen, AppClose, StreamRequest, StatusOk, StreamWrite
  <2>. QED BY <2>1, <2>2, <2>3 DEF Shape
<1>. QED BY <1>1, <1>2, <1>3, <1>4
     DEF Next, Expires, Local, RtDue, ProbeDue, CloseDue, RtExpires, ProbeExpires, CloseExpires,
         RxTransition, TxStep, TxLoad, TxData, TxRetransmit, TxFin, TxSyn, TxSynAck, TxOpening, TxAck,
         TxRst, MetaRest, EventStep, DelayedAckFires, TakeTimerEvent, TakeAppEvent, ReleaseStep,
         TimerRelease, LookupRelease, PeerReceives, PeerSends, PeerReads, engine, appSide, sessionVars

(* Before the open request nothing happens: no segment is taken for a      *)
(* session that is not mapped, unless it is a SYN. *)
LEMMA UntouchedStep ==
  ASSUME CloseInv, [Next]_sessionVars, app.open'
  PROVE  Untouched'
<1>0. Untouched /\ app.open
  BY ShapeStep DEF CloseInv
<1>. USE DEF Untouched
<1>1. CASE Arrives
  <2>1. PICK p \in Incoming : p.kind = "SYN" /\ RxLoad(p)
    BY <1>0, <1>1 DEF Arrives
  <2>2. Incoming \subseteq {InSegment("SYN_ACK", PeerIsn, 0, 1), InSegment("SYN_ACK", PeerIsn, 0, 0)}
    BY <1>0 DEF Incoming
  <2>. QED BY <2>1, <2>2 DEF InSegment
<1>2. CASE Expires
  BY <1>0, <1>2 DEF Expires, RtDue, ProbeDue, CloseDue, RtExpires, ProbeExpires, CloseExpires, RtReset
<1>3. CASE RxTransition \/ TxStep \/ EventStep
  BY <1>0, <1>3 DEF RxTransition, TxStep, TxLoad, TxData, TxRetransmit, TxFin, TxSyn, TxSynAck,
                    TxOpening, TxAck, TxRst, Handles, EventStep, DelayedAckFires, TakeTimerEvent, TakeAppEvent
<1>4. CASE ReleaseStep
  <2>1. LookupRelease
    BY <1>0, <1>4 DEF ReleaseStep, TimerRelease
  <2>. QED BY <1>0, <2>1 DEF LookupRelease, rxEng, events, timers, appSide
<1>5. CASE AppIfStep \/ AppRequest
  <2>1. ~AppOpen
    BY <1>0, ShapeStep DEF AppOpen, CloseInv, Shape
  <2>. QED BY <1>0, <1>5, <2>1 DEF AppIfStep, StatusOk, StreamWrite, AppRequest, AppClose, StreamRequest, Known
<1>6. CASE \E seg \in wire : PeerReceives(seg)
  BY <1>0, <1>6
<1>7. CASE PeerSends
  BY <1>0, <1>7 DEF PeerSends
<1>8. CASE PeerReads
  <2>1. peer'.calls = peer.calls /\ peer'.phase = peer.phase
    BY <1>8 DEF PeerReads, CloseInv, Shape
  <2>. QED BY <1>0, <1>8, <2>1 DEF PeerReads, engine, table, rxEng, events, timers, appSide
<1>9. CASE UNCHANGED sessionVars
  BY <1>0, <1>9 DEF sessionVars, table, rxEng, events, timers, appSide
<1>. QED BY <1>1, <1>2, <1>3, <1>4, <1>5, <1>6, <1>7, <1>8, <1>9 DEF Next, Local

(* An event that is taken or passed on is one of the opening. *)
LEMMA OpeningEvents ==
  ASSUME NEW q \in Seq(OpeningEvent), NEW e \in OpeningEvent
  PROVE  /\ Append(q, e) \in Seq(OpeningEvent)
         /\ q # <<>> => Head(q) \in OpeningEvent /\ Tail(q) \in Seq(OpeningEvent) /\ Head(q).type \in Opening
<1>1. \A T : \A r \in Seq(T) : \A x \in T :
        Append(r, x) \in Seq(T) /\ (r # <<>> => Head(r) \in T /\ Tail(r) \in Seq(T))
  OBVIOUS
<1>2. \A x \in OpeningEvent : x.type \in Opening
  BY DEF OpeningEvent
<1>. QED BY <1>1, <1>2

LEMMA OpeningPasses ==
  ASSUME NEW e \in OpeningEvent, pipe \in Seq(OpeningEvent), Passes(pipe, e)
  PROVE  pipe' \in Seq(OpeningEvent)
  BY OpeningEvents DEF Passes

(* In SYN_SENT nothing but the opening is under way, even when the open    *)
(* request was answered with a failure and the session is not yet closed.  *)
LEMMA OpenStep ==
  ASSUME CloseInv, [Next]_sessionVars, state' = "SYN_SENT"
  PROVE  OpenUnderWay'
<1>1. CASE AppOpen
  <2>1. Untouched /\ app.open
    BY <1>1 DEF AppOpen, CloseInv
  <2>2. cache' = <<Cached("SYN", 0)>>
    BY <1>1, <2>1 DEF AppOpen, Untouched
  <2>3. rt' = RtReset /\ ml' = <<>> /\ pipe' = <<>> /\ timerEv' = <<>> /\ appEv' = <<>> /\ ~probe' /\ ~closeTimer'
        /\ giveUp' = 0 /\ streamReq' = <<>> /\ told' = {} /\ answers' = <<>>
    BY <1>1, <2>1 DEF AppOpen, Untouched, events, timers
  <2>4. <<>> \in Seq(OpeningEvent) /\ <<Cached("SYN", 0)>> \in Seq([type : Opening, end : {0}])
    BY DEF Cached, Opening
  <2>. QED BY <2>2, <2>3, <2>4 DEF OpenUnderWay, RtReset
<1>2. CASE state # "SYN_SENT"
  <2>1. CASE RxTransition
    <3>. DEFINE p == rxPkt[1]
    <3>1. \/ OnAck(p) \/ OnSyn(p) \/ OnSynAck(p) \/ OnFin(p) \/ OnRst(p)
      BY <2>1 DEF RxTransition
    <3>. HIDE DEF p
    <3>2. state' # "SYN_SENT" \/ state' = state
      BY <3>1 DEF OnAck, OnSyn, OnSynAck, OnFin, OnRst, WriteState, AllAckedMoves, Moves, Acking
    <3>. QED BY <1>2, <3>2
  <2>2. CASE RtDue
    BY <1>2, <2>2 DEF RtDue, RtExpires, table
  <2>3. CASE AppClose
    BY <1>2, <2>3 DEF AppClose, AppCloseWrites
  <2>4. CASE TimerRelease
    BY <1>2, <2>4 DEF TimerRelease, WriteState
  <2>5. CASE UNCHANGED state
    BY <1>2, <2>5
  <2>. QED BY <1>1, <2>1, <2>2, <2>3, <2>4, <2>5
       DEF Next, Expires, Local, ProbeDue, CloseDue, ProbeExpires, CloseExpires, TxStep, TxLoad, TxData,
           TxRetransmit, TxFin, TxSyn, TxSynAck, TxOpening, TxAck, TxRst, MetaRest, EventStep,
           DelayedAckFires, TakeTimerEvent, TakeAppEvent, ReleaseStep, LookupRelease, AppIfStep,
           StatusOk, StreamWrite, AppRequest, StreamRequest, Arrives, RxLoad, PeerSends, PeerReads,
           PeerReceives, engine, table, sessionVars

<1>3. CASE state = "SYN_SENT"
  <2>0. OpenUnderWay /\ ~Known
    BY <1>3 DEF CloseInv, OpenUnderWay, Known
  <2>. USE DEF OpenUnderWay
  <2>1. CASE Arrives
    BY <2>0, <2>1 DEF Arrives, RxLoad, events, timers, appSide
  <2>2. CASE RtDue
    <3>1. rt.active /\ rt.type = "SYN"
      BY <2>0, <2>2 DEF RtDue, RtExpires
    <3>2. CASE RetriesLeft
      <4>1. rt' = [rt EXCEPT !.active = FALSE, !.retries = @ + 1]
            /\ timerEv' = Append(timerEv, Ev("SYN", rt.retries + 1))
            /\ UNCHANGED <<giveUp, told, answers>>
        BY <2>2, <3>1, <3>2 DEF RtDue, RtExpires
      <4>2. Ev("SYN", rt.retries + 1) \in OpeningEvent
        BY <2>0 DEF Ev, OpeningEvent, Opening
      <4>3. timerEv' \in Seq(OpeningEvent)
        BY <2>0, <4>1, <4>2, OpeningEvents
      <4>4. rt' \in [active : BOOLEAN, retries : Nat, type : {"RT", "SYN"}] /\ ~rt'.active
        <5>1. rt.retries + 1 \in Nat
          BY <2>0
        <5>. QED BY <2>0, <4>1, <5>1
      <4>. QED BY <2>0, <2>2, <4>1, <4>3, <4>4 DEF RtDue, RtExpires, appSide
    <3>3. CASE ~RetriesLeft
      <4>1. rt' = [rt EXCEPT !.active = FALSE, !.retries = 0]
            /\ answers' = Append(answers, FALSE) /\ UNCHANGED <<timerEv, told>>
        BY <2>2, <3>1, <3>3 DEF RtDue, RtExpires, TellFailure
      <4>2. answers' # <<>> /\ ~answers'[1]
        BY <2>0, <4>1, AnswersGrow DEF CloseInv
      <4>3. rt' \in [active : BOOLEAN, retries : Nat, type : {"RT", "SYN"}] /\ ~rt'.active
        BY <2>0, <4>1
      <4>. QED BY <2>0, <2>2, <4>1, <4>2, <4>3 DEF RtDue, RtExpires, appSide
    <3>. QED BY <3>2, <3>3
  <2>3. CASE ProbeDue \/ CloseDue
    BY <2>0, <2>3 DEF ProbeDue, ProbeExpires, CloseDue, CloseExpires
  <2>4. CASE RxTransition
    <3>. DEFINE p == rxPkt[1]
    <3>1. \/ OnAck(p) \/ OnSyn(p) \/ OnSynAck(p) \/ OnFin(p) \/ OnRst(p)
      BY <2>4 DEF RxTransition
    <3>. HIDE DEF p
    <3>2. CASE OnAck(p)
      <4>1. RxEvent(Ev("RST", 1)) /\ UNCHANGED <<probe, closeTimer, told, answers>>
            /\ rt' = [rt EXCEPT !.retries = 0, !.active = @ /\ ~(p.ack = snap.nextByte)]
        BY <1>3, <3>2 DEF OnAck, Acking, ClearRetransmit
      <4>2. Ev("RST", 1) \in OpeningEvent
        BY DEF Ev, OpeningEvent, Opening
      <4>3. pipe' \in Seq(OpeningEvent)
        BY <2>0, <4>1, <4>2, OpeningPasses DEF RxEvent
      <4>. QED BY <2>0, <2>4, <4>1, <4>3 DEF RxTransition, appSide
    <3>3. ~OnSyn(p)
      BY <1>3 DEF OnSyn, WriteState
    <3>4. ~OnSynAck(p)
      BY <1>3 DEF OnSynAck, WriteState
    <3>5. CASE OnFin(p)
      <4>1. RxEvent(Ev("ACK", 0)) /\ UNCHANGED <<probe, closeTimer, told, answers>>
            /\ rt' = [rt EXCEPT !.retries = 0, !.active = @ /\ ~(p.ack = snap.nextByte)]
        BY <1>3, <3>5 DEF OnFin, Closeable, ClearRetransmit
      <4>2. pipe' = pipe
        BY <4>1 DEF RxEvent, Passes, Ev
      <4>. QED BY <2>0, <2>4, <4>1, <4>2 DEF RxTransition, appSide
    <3>6. CASE OnRst(p)
      <4>1. UNCHANGED <<rt, told, answers, pipe, probe, closeTimer>>
        BY <1>3, <3>6 DEF OnRst, WriteState, NoRxEvent
      <4>. QED BY <2>0, <2>4, <4>1 DEF RxTransition, appSide
    <3>. QED BY <3>1, <3>2, <3>3, <3>4, <3>5, <3>6
  <2>5. CASE TxLoad
    <3>1. Head(pipe).type \in Opening /\ Tail(pipe) \in Seq(OpeningEvent)
      BY <2>0, <2>5, OpeningEvents DEF TxLoad
    <3>. QED BY <2>0, <2>5, <3>1 DEF TxLoad, timers, appSide
  <2>6. ~(TxData \/ TxRetransmit \/ TxFin \/ TxSynAck)
    BY <2>0 DEF TxData, TxRetransmit, TxFin, TxSynAck, TxOpening, Handles, Opening
  <2>7. CASE TxSyn
    <3>1. rt' = [rt EXCEPT !.active = TRUE, !.type = "SYN"] /\ ml' = <<>>
      BY <2>7 DEF TxSyn, TxOpening, Send, SetRetransmit
    <3>2. rt' \in [active : BOOLEAN, retries : Nat, type : {"RT", "SYN"}] /\ rt'.type = "SYN"
      BY <2>0, <3>1
    <3>. QED BY <2>0, <2>7, <3>1, <3>2 DEF TxSyn, TxOpening, events
  <2>8. CASE TxAck \/ TxRst
    BY <2>0, <2>8 DEF TxAck, TxRst, MetaRest, events, appSide
  <2>9. CASE EventStep
    <3>1. CASE DelayedAckFires
      <4>1. Ev("ACK", 0) \in OpeningEvent
        BY DEF Ev, OpeningEvent, Opening
      <4>2. pipe' \in Seq(OpeningEvent)
        BY <2>0, <3>1, <4>1, OpeningEvents DEF DelayedAckFires
      <4>. QED BY <2>0, <3>1, <4>2 DEF DelayedAckFires, timers, appSide
    <3>2. CASE TakeTimerEvent
      <4>1. Head(timerEv) \in OpeningEvent /\ timerEv' \in Seq(OpeningEvent)
        BY <2>0, <3>2, OpeningEvents DEF TakeTimerEvent
      <4>2. pipe' \in Seq(OpeningEvent)
        BY <2>0, <3>2, <4>1, OpeningPasses DEF TakeTimerEvent
      <4>. QED BY <2>0, <3>2, <4>1, <4>2 DEF TakeTimerEvent, timers, appSide
    <3>3. CASE TakeAppEvent
      <4>1. Head(appEv) \in OpeningEvent /\ appEv' \in Seq(OpeningEvent)
        BY <2>0, <3>3, OpeningEvents DEF TakeAppEvent
      <4>2. pipe' \in Seq(OpeningEvent)
        BY <2>0, <3>3, <4>1, OpeningPasses DEF TakeAppEvent
      <4>. QED BY <2>0, <3>3, <4>1, <4>2 DEF TakeAppEvent, timers, appSide
    <3>. QED BY <2>9, <3>1, <3>2, <3>3 DEF EventStep
  <2>10. CASE ReleaseStep
    BY <2>0, <2>10 DEF ReleaseStep, TimerRelease, LookupRelease, events, timers, appSide
  <2>11. CASE StatusOk
    <3>1. Head(cache) \in [type : Opening, end : {0}] /\ cache' \in Seq([type : Opening, end : {0}])
      <4>1. cache # <<>> /\ cache' = Tail(cache) /\ cache \in Seq([type : Opening, end : {0}])
        BY <2>0, <2>11 DEF StatusOk
      <4>2. \A T : \A q \in Seq(T) : q # <<>> => Head(q) \in T /\ Tail(q) \in Seq(T)
        OBVIOUS
      <4>. QED BY <4>1, <4>2
    <3>2. Ev(Head(cache).type, 0) \in OpeningEvent
      BY <3>1 DEF Ev, OpeningEvent
    <3>3. appEv' \in Seq(OpeningEvent)
      BY <2>0, <2>11, <3>2, OpeningEvents DEF StatusOk
    <3>. QED BY <2>0, <2>11, <3>1, <3>3 DEF StatusOk, timers
  <2>12. ~StreamRequest /\ ~AppClose /\ ~\E n \in WriteSizes : StreamWrite(n)
    BY <2>0 DEF StreamRequest, AppClose, StreamWrite
  <2>13. CASE PeerSends \/ PeerReads \/ \E seg \in wire : PeerReceives(seg)
    <3>1. UNCHANGED engine
      BY <2>13 DEF PeerSends, PeerReads, PeerReceives
    <3>. QED BY <2>0, <3>1 DEF engine, events, timers, appSide
  <2>14. CASE UNCHANGED sessionVars
    BY <2>0, <2>14 DEF sessionVars, events, timers, appSide
  <2>. QED BY <1>1, <2>1, <2>2, <2>3, <2>4, <2>5, <2>6, <2>7, <2>8, <2>9, <2>10, <2>11, <2>12, <2>13, <2>14
       DEF Next, Expires, Local, TxStep, AppIfStep, AppRequest
<1>. QED BY <1>1, <1>2, <1>3

(* Answers and requests for the release keep their type. *)
LEMMA AnswersTyped ==
  ASSUME CloseInv, [Next]_sessionVars
  PROVE  /\ answers' \in Seq(BOOLEAN) /\ giveUp' \in Nat
         /\ \/ answers' = answers
            \/ answers' # <<>> /\ (answers' = <<TRUE>> => answers = <<>> /\ RxTransition /\ OnSynAck(rxPkt[1]))
<1>. USE DEF CloseInv
<1>1. CASE RxTransition
  <2>. DEFINE p == rxPkt[1]
  <2>1. \/ OnAck(p) \/ OnSyn(p) \/ OnSynAck(p) \/ OnFin(p) \/ OnRst(p)
    BY <1>1 DEF RxTransition
  <2>2. \/ answers' = answers
        \/ answers' = Append(answers, FALSE)
        \/ OnSynAck(p) /\ answers' = Append(answers, TRUE)
    BY <2>1 DEF OnAck, OnSyn, OnSynAck, OnFin, OnRst, TellFailure, TellClose
  <2>3. giveUp' = giveUp
    BY <1>1 DEF RxTransition
  <2>. HIDE DEF p
  <2>4. CASE answers' = answers
    BY <2>3, <2>4
  <2>5. CASE answers' = Append(answers, FALSE)
    BY <2>3, <2>5, AnswersGrow
  <2>6. CASE OnSynAck(p) /\ answers' = Append(answers, TRUE)
    BY <1>1, <2>3, <2>6, AnswersGrow DEF p
  <2>. QED BY <2>2, <2>4, <2>5, <2>6
<1>2. CASE RtDue
  <2>1. answers' = answers \/ answers' = Append(answers, FALSE)
    BY <1>2 DEF RtDue, RtExpires, TellFailure
  <2>2. giveUp' = giveUp \/ giveUp' = giveUp + 1
    BY <1>2 DEF RtDue, RtExpires
  <2>3. giveUp' \in Nat
    BY <2>2
  <2>4. CASE answers' = answers
    BY <2>3, <2>4
  <2>5. CASE answers' = Append(answers, FALSE)
    BY <2>3, <2>5, AnswersGrow
  <2>. QED BY <2>1, <2>4, <2>5
<1>3. CASE UNCHANGED answers /\ (CloseDue \/ TimerRelease)
  BY <1>3 DEF CloseDue, CloseExpires, TimerRelease
<1>4. CASE UNCHANGED <<answers, giveUp>>
  BY <1>4
<1>. QED BY <1>1, <1>2, <1>3, <1>4
     DEF Next, Expires, Local, ProbeDue, CloseDue, ProbeExpires, CloseExpires, TxStep, TxLoad, TxData,
         TxRetransmit, TxFin, TxSyn, TxSynAck, TxOpening, TxAck, TxRst, MetaRest, EventStep,
         DelayedAckFires, TakeTimerEvent, TakeAppEvent, ReleaseStep, TimerRelease, LookupRelease, AppIfStep,
         StatusOk, StreamWrite, AppRequest, AppOpen, AppClose, StreamRequest, Arrives, RxLoad, PeerSends,
         PeerReads, PeerReceives, engine, timers, sessionVars

(* The application is told more and more. *)
LEMMA ToldGrows ==
  ASSUME [Next]_sessionVars
  PROVE  told \subseteq told'
<1>1. CASE RxTransition
  BY <1>1 DEF RxTransition, OnAck, OnSyn, OnSynAck, OnFin, OnRst, TellClose
<1>2. CASE RtDue
  BY <1>2 DEF RtDue, RtExpires, TellClose
<1>3. CASE UNCHANGED told
  BY <1>3
<1>. QED BY <1>1, <1>2, <1>3
     DEF Next, Expires, Local, ProbeDue, CloseDue, ProbeExpires, CloseExpires, TxStep, TxLoad, TxData,
         TxRetransmit, TxFin, TxSyn, TxSynAck, TxOpening, TxAck, TxRst, MetaRest, EventStep,
         DelayedAckFires, TakeTimerEvent, TakeAppEvent, ReleaseStep, TimerRelease, LookupRelease,
         AppIfStep, StatusOk, StreamWrite, AppRequest, AppOpen, AppClose, StreamRequest, Arrives,
         RxLoad, PeerSends, PeerReads, PeerReceives, engine, sessionVars

(* A session that was opened, was not closed, and of whose end nobody was  *)
(* told is ESTABLISHED: RST, FIN and time-outs all tell the application.   *)
LEMMA UndisturbedStep ==
  ASSUME CloseInv, [Next]_sessionVars, Undisturbed'
  PROVE  state' = "ESTABLISHED" /\ giveUp' = 0 /\ ~closeTimer'
<1>1. "CLOSE" \notin told /\ app.closes = AppCloses
  <2>1. told \subseteq told'
    BY ToldGrows
  <2>2. app.closes \in 0 .. AppCloses /\ AppCloses \in Nat /\ app.closes' = AppCloses /\ app.closes' <= app.closes
    BY ShapeStep DEF CloseInv, Shape, Undisturbed
  <2>. QED BY <2>1, <2>2 DEF Undisturbed
<1>2. CASE answers' # answers
  <2>1. answers = <<>> /\ RxTransition /\ OnSynAck(rxPkt[1])
    BY <1>2, AnswersTyped DEF Undisturbed
  <2>2. state = "SYN_SENT" /\ state' = "ESTABLISHED"
    BY <1>2, <2>1 DEF OnSynAck, WriteState
  <2>3. giveUp = 0 /\ ~closeTimer
    BY <2>1, <2>2 DEF CloseInv, OpenUnderWay
  <2>. QED BY <2>1, <2>2, <2>3 DEF OnSynAck, RxTransition
<1>3. CASE answers' = answers
  <2>0. state = "ESTABLISHED" /\ giveUp = 0 /\ ~closeTimer /\ answers = <<TRUE>>
    BY <1>1, <1>3 DEF CloseInv, Undisturbed
  <2>n. Append(answers, FALSE) # answers
    <3>1. answers \in Seq(BOOLEAN)
      BY DEF CloseInv
    <3>2. \A q \in Seq(BOOLEAN) : Len(Append(q, FALSE)) = Len(q) + 1 /\ Len(q) \in Nat
      OBVIOUS
    <3>3. Len(Append(answers, FALSE)) # Len(answers)
      BY <3>1, <3>2
    <3>. QED BY <3>3
  <2>1. CASE RxTransition
    <3>. DEFINE p == rxPkt[1]
    <3>1. \/ OnAck(p) \/ OnSyn(p) \/ OnSynAck(p) \/ OnFin(p) \/ OnRst(p)
      BY <2>1 DEF RxTransition
    <3>2. giveUp' = giveUp
      BY <2>1 DEF RxTransition
    <3>. HIDE DEF p
    <3>3. CASE OnAck(p)
      <4>1. AllAckedMoves("ESTABLISHED") = "ESTABLISHED"
        BY DEF AllAckedMoves, Moves
      <4>2. PICK next : next = "ESTABLISHED" /\ state' = next /\ closeTimer' = (closeTimer \/ Closes(next))
        BY <2>0, <3>3, <4>1 DEF OnAck, Acking, WriteState
      <4>3. ~Closes(next)
        BY <4>2 DEF Closes
      <4>. QED BY <2>0, <3>2, <4>2, <4>3
    <3>4. CASE OnSyn(p)
      <4>1. UNCHANGED closeTimer /\ state' = state
        BY <2>0, <3>4 DEF OnSyn, WriteState
      <4>. QED BY <2>0, <3>2, <4>1
    <3>7. CASE OnSynAck(p)
      <4>1. UNCHANGED closeTimer /\ state' = state
        BY <2>0, <3>7 DEF OnSynAck, WriteState
      <4>. QED BY <2>0, <3>2, <4>1
    <3>5. CASE OnFin(p)
      <4>1. "CLOSE" \notin told'
        BY DEF Undisturbed
      <4>. QED BY <2>0, <3>2, <3>5, <4>1 DEF OnFin, WriteState
    <3>6. CASE OnRst(p)
      <4>1. "CLOSE" \notin told'
        BY DEF Undisturbed
      <4>. QED BY <2>0, <3>2, <3>6, <4>1 DEF OnRst, WriteState, TellClose
    <3>. QED BY <3>1, <3>3, <3>4, <3>5, <3>6, <3>7
  <2>2. CASE RtDue
    <3>1. giveUp' = giveUp
      BY <1>3, <2>2, <2>n DEF RtDue, RtExpires, TellFailure, TellClose, Undisturbed
    <3>. QED BY <2>0, <2>2, <3>1 DEF RtDue, RtExpires, table
  <2>3. ~CloseDue /\ ~TimerRelease
    <3>1. ~CloseDue
      BY <2>0 DEF CloseDue, CloseExpires
    <3>2. ~TimerRelease
      BY <2>0 DEF TimerRelease
    <3>. QED BY <3>1, <3>2
  <2>4. ~AppClose
    <3>1. AppCloses \in Nat /\ app.closes = AppCloses /\ app.closes' = AppCloses
          /\ app = [open |-> app.open, closes |-> app.closes, left |-> app.left]
      BY <1>1, ShapeStep DEF CloseInv, Shape, Undisturbed
    <3>. QED BY <3>1 DEF AppClose
  <2>5. ~AppOpen
    BY <2>0 DEF AppOpen, CloseInv, Untouched
  <2>6. CASE UNCHANGED <<state, giveUp, closeTimer>>
    BY <2>0, <2>6
  <2>. QED BY <2>1, <2>2, <2>3, <2>4, <2>5, <2>6
       DEF Next, Expires, Local, ProbeDue, CloseDue, ProbeExpires, CloseExpires, TxStep, TxLoad, TxData,
           TxRetransmit, TxFin, TxSyn, TxSynAck, TxOpening, TxAck, TxRst, MetaRest, EventStep,
           DelayedAckFires, TakeTimerEvent, TakeAppEvent, ReleaseStep, LookupRelease, AppIfStep,
           StatusOk, StreamWrite, AppRequest, StreamRequest, Arrives, RxLoad, PeerSends, PeerReads,
           PeerReceives, engine, table, timers, sessionVars
<1>. QED BY <1>2, <1>3

LEMMA CloseInit ==
  Init => CloseInv
<1>1. SUFFICES ASSUME Init PROVE CloseInv
  OBVIOUS
<1>0. PICK plan \in Plans : \E calls \in plan.calls :
        /\ app = [open |-> ~calls, closes |-> plan.appCloses, left |-> plan.appBytes]
        /\ peer = [plan |-> plan, calls |-> calls, phase |-> "idle", irs |-> Isn, rcvd |-> 0,
                   sent |-> 0, fin |-> FALSE, credit |-> plan.firstCredit, told |-> 1]
  BY <1>1 DEF Init
<1>2. PICK calls \in plan.calls :
        /\ app = [open |-> ~calls, closes |-> plan.appCloses, left |-> plan.appBytes]
        /\ peer = [plan |-> plan, calls |-> calls, phase |-> "idle", irs |-> Isn, rcvd |-> 0,
                   sent |-> 0, fin |-> FALSE, credit |-> plan.firstCredit, told |-> 1]
  BY <1>0
<1>3. plan.appCloses \in Nat /\ calls \in BOOLEAN
  BY <1>2, PlanAssumption
<1>4. Shape /\ (app.open => ~peer.calls /\ peer.phase = "idle")
  <2>1. Shape
    BY <1>2, <1>3 DEF Shape, AppCloses
  <2>2. app.open = ~calls /\ peer.calls = calls /\ peer.phase = "idle"
    BY <1>2
  <2>. QED BY <1>3, <2>1, <2>2
<1>5. <<>> \in Seq(BOOLEAN) /\ <<>> # <<TRUE>>
  OBVIOUS
<1>. QED BY <1>1, <1>4, <1>5 DEF Init, CloseInv, Untouched, Undisturbed

LEMMA CloseStep ==
  ASSUME CloseInv, [Next]_sessionVars
  PROVE  CloseInv'
  BY ShapeStep, AnswersTyped, UntouchedStep, OpenStep, UndisturbedStep DEF CloseInv

(* A session that was open and is gone was closed by the application, or   *)
(* the application was told (rx_engine.cpp, retransmit_timer.cpp), for     *)
(* every peer, network, window, number of retries and depth of the FIFOs.  *)
THEOREM NoSilentClose == Spec => []CloseIsTold
<1>1. CloseInv => CloseIsTold
  BY DEF CloseInv, CloseIsTold, Undisturbed, Shape
<1>. QED BY <1>1, CloseInit, CloseStep, PTL DEF Spec

-----------------------------------------------------------------------------
(* What the ends know.  Both only know what segments told them, so         *)
(* the invariant says what a segment on its way in may hold, of the peer's *)
(* state when it is handled and not only when it was sent: what the peer   *)
(* has received and sent only grows.  In SYN_SENT the table has no number  *)
(* but that of the SYN, so that only a SYN_ACK for this SYN is accepted.   *)

Seqs == 0 .. SeqMod - 1

(* Sums modulo SeqMod, by the number of times they wrap. *)
LEMMA Wraps ==
  /\ SeqMod \in Nat /\ SeqMod >= 2 /\ Isn \in 1 .. SeqMod - 1 /\ PeerIsn \in Seqs
  /\ \A x \in Seqs : x % SeqMod = x
  /\ \A x \in SeqMod .. 2 * SeqMod - 1 : x % SeqMod = x - SeqMod
  /\ \A x \in Nat : x % SeqMod \in Seqs
  BY SeqAssumption, IsnAssumption DEF Seqs

LEMMA SeqsClosed ==
  /\ \A a \in Seqs, n \in Nat : Add(a, n) \in Seqs
  /\ \A a, b \in Seqs : Sub(a, b) \in Seqs
  /\ Seqs \subseteq Nat /\ 0 \in Seqs /\ 1 \in Seqs /\ Isn \in Seqs /\ Mms \in Nat
<1>1. \A a, b \in Seqs : a + SeqMod - b \in Nat
  BY Wraps DEF Seqs
<1>2. \A a, b \in Seqs : Sub(a, b) \in Seqs
  BY <1>1, Wraps DEF Sub
<1>3. \A a \in Seqs, n \in Nat : a + n \in Nat
  BY Wraps DEF Seqs
<1>4. \A a \in Seqs, n \in Nat : Add(a, n) \in Seqs
  BY <1>3, Wraps DEF Add
<1>. QED BY <1>2, <1>4, Wraps, SeqAssumption DEF Seqs

(* The position of a number is at most its distance from the SYN. *)
LEMMA PosOfAdd ==
  ASSUME NEW a \in Nat
  PROVE  Pos(Add(Isn, a)) <= a
<1>0. SeqMod \in Nat /\ SeqMod > 0 /\ Isn \in Seqs /\ Isn + a \in Nat
  BY Wraps, SeqsClosed
<1>1. PICK q \in Nat : \E r \in Seqs : Isn + a = q * SeqMod + r /\ r = (Isn + a) % SeqMod
  <2>1. \A M \in Nat : M > 0 =>
          \A x \in Nat : x = (x \div M) * M + (x % M) /\ x \div M \in Nat /\ x % M \in 0 .. M - 1
    OBVIOUS
  <2>. QED BY <1>0, <2>1 DEF Seqs
<1>2. PICK r \in Seqs : Isn + a = q * SeqMod + r /\ r = (Isn + a) % SeqMod
  BY <1>1
<1>3. Pos(Add(Isn, a)) = (r + SeqMod - Isn) % SeqMod
  BY <1>2 DEF Pos, Add, Sub
<1>4. CASE q = 0
  <2>1. q * SeqMod = 0
    BY <1>0, <1>4
  <2>2. r + SeqMod - Isn = SeqMod + a /\ a < SeqMod
    BY <1>0, <1>2, <2>1 DEF Seqs
  <2>. QED BY <1>0, <1>3, <2>2, Wraps
<1>5. CASE q >= 1
  <2>1. q * SeqMod >= SeqMod /\ q * SeqMod \in Nat
    <3>1. \A m, M \in Nat : m >= 1 => m * M >= M /\ m * M \in Nat
      OBVIOUS
    <3>. QED BY <1>0, <1>5, <3>1
  <2>2. r + SeqMod - Isn \in Nat /\ r + SeqMod - Isn <= a
    BY <1>0, <1>2, <2>1 DEF Seqs
  <2>3. \A M, x \in Nat : M > 0 => x % M <= x /\ x % M \in Nat
    OBVIOUS
  <2>4. (r + SeqMod - Isn) % SeqMod <= r + SeqMod - Isn /\ (r + SeqMod - Isn) % SeqMod \in Nat
    BY <1>0, <2>2, <2>3
  <2>. QED BY <1>3, <2>2, <2>4
<1>. QED BY <1>4, <1>5

(* The numbers of the peer are told apart. *)
LEMMA PeerNumbers ==
  ASSUME NEW i \in 0 .. SeqMod - 1
  PROVE  /\ Sub(Add(PeerIsn, i), PeerIsn) = i
         /\ i < SeqMod - 1 => Add(Add(PeerIsn, i), 1) = Add(PeerIsn, i + 1)
<1>. DEFINE s == Add(PeerIsn, i)
<1>1. SeqMod \in Nat /\ SeqMod >= 2 /\ PeerIsn \in Seqs
  BY Wraps
<1>2. CASE PeerIsn + i < SeqMod
  <2>1. s = PeerIsn + i
    BY <1>1, <1>2, Wraps DEF Add, Seqs
  <2>2. Sub(s, PeerIsn) = i
    <3>1. s + SeqMod - PeerIsn = SeqMod + i
      BY <1>1, <2>1 DEF Seqs
    <3>. QED BY <1>1, <3>1, Wraps DEF Sub
  <2>3. Add(s, 1) = Add(PeerIsn, i + 1)
    BY <1>1, <2>1 DEF Add, Seqs
  <2>. QED BY <2>2, <2>3
<1>3. CASE PeerIsn + i >= SeqMod
  <2>1. s = PeerIsn + i - SeqMod
    BY <1>1, <1>3, Wraps DEF Add, Seqs
  <2>2. Sub(s, PeerIsn) = i
    <3>1. s + SeqMod - PeerIsn = i
      BY <1>1, <2>1 DEF Seqs
    <3>. QED BY <1>1, <3>1, Wraps DEF Sub, Seqs
  <2>3. i < SeqMod - 1 => Add(s, 1) = Add(PeerIsn, i + 1)
    <3>1. SUFFICES ASSUME i < SeqMod - 1 PROVE Add(s, 1) = Add(PeerIsn, i + 1)
      OBVIOUS
    <3>2. s + 1 \in Seqs /\ PeerIsn + (i + 1) \in SeqMod .. 2 * SeqMod - 1
          /\ PeerIsn + (i + 1) - SeqMod = s + 1
      BY <1>1, <1>3, <2>1, <3>1 DEF Seqs
    <3>3. Add(PeerIsn, i + 1) = PeerIsn + (i + 1) - SeqMod
      <4>1. Add(PeerIsn, i + 1) = (PeerIsn + (i + 1)) - SeqMod
        BY <3>2, Wraps DEF Add
      <4>. QED BY <1>1, <4>1 DEF Seqs
    <3>. HIDE DEF s
    <3>4. Add(s, 1) = s + 1
      BY <3>2, Wraps DEF Add
    <3>. QED BY <3>2, <3>3, <3>4
  <2>. QED BY <2>2, <2>3
<1>. QED BY <1>1, <1>2, <1>3 DEF Seqs

TxSar == [ackd : Seqs, not_ackd : Seqs, app : Seqs, window : Nat, count : Nat,
          finReady : BOOLEAN, finSent : BOOLEAN]

(* What the numbers of the engine are. *)
Numbers ==
  /\ tx \in TxSar /\ mempt \in Seqs /\ snap \in [prevAck : Seqs, nextByte : Seqs, count : Nat]
  /\ cache \in Seq([type : {"SYN", "FIN", "TX"}, end : Seqs])
  /\ ml = <<>> \/ /\ ml = <<[type |-> ml[1].type, rt |-> ml[1].rt, sar |-> ml[1].sar,
                             count |-> ml[1].count]>>
                  /\ ml[1].sar \in TxSar
  /\ \A seg \in wire : seg.seq \in Seqs /\ seg.len \in Nat

(* How many numbers of its stream the peer has used. *)
PeerUsed == 1 + peer.sent + (IF peer.fin THEN 1 ELSE 0)

PeerInv ==
  /\ peer.plan \in Plans /\ peer.irs \in Seqs
  /\ peer.rcvd \in Nat /\ (peer.phase = "idle" <=> peer.rcvd = 0)
  /\ peer.sent \in 0 .. PeerBytes /\ peer.fin \in BOOLEAN
  /\ peer.credit \in Nat /\ peer.told \in Nat \ {0}

(* What a segment that rx_engine holds says of the peer's own stream. *)
PacketIs(p) ==
  /\ p.win \in Nat /\ p.ack \in Seqs
  /\ p.kind \in {"SYN", "SYN_ACK"} => p.seq = PeerIsn
  /\ p.kind \in {"ACK", "FIN"} => peer.rcvd > 0
  /\ p.kind = "ACK" /\ p.len # 0 =>
       p.len = 1 /\ \E i \in 1 .. peer.sent : p.seq = Add(PeerIsn, i)
  /\ p.kind = "FIN" => p.len = 0 /\ peer.fin /\ p.seq = Add(PeerIsn, 1 + peer.sent)

PacketInv == rxPkt # <<>> => PacketIs(rxPkt[1])

Opened == Synchronized \cup {"FIN_WAIT_2"}

(* What the engine knows of that stream. *)
RecvdInv ==
  /\ state \in Opened => peer.rcvd > 0
  /\ state \in Opened \cup {"SYN_RECEIVED"} =>
       \E r \in 1 .. PeerUsed : recvd = Add(PeerIsn, r)

(* What holds however often the session is opened. *)
BothInv == CloseInv /\ Numbers /\ PeerInv /\ PacketInv /\ RecvdInv

(* An opening that is not a repetition: it draws a number and writes the   *)
(* table. *)
Opens(e) == e.type \in Openers /\ e.rt = 0

(* As long as the session has been opened once only, one number is drawn,  *)
(* and it is the one that the peer takes. *)
FirstNumbers ==
  /\ OpenedOnce /\ peer.irs = Isn
  /\ ml # <<>> /\ Opens(ml[1]) => ~Called
  /\ peer.rcvd = 0 => \A seg \in wire : seg.kind \in Openers => seg.seq = Isn

(* A segment that rx_engine holds, with what it acknowledges. *)
SegmentInv ==
  rxPkt # <<>> =>
    LET p == rxPkt[1]
    IN  PacketIs(p) /\ (p.kind # "SYN" => \E a \in 0 .. peer.rcvd : p.ack = Add(Isn, a))

(* A session that waits for a SYN_ACK knows only the number of its SYN. *)
SynNumber ==
  state = "SYN_SENT" =>
    /\ tx.not_ackd \in {0, Add(Isn, 1)}
    /\ rxPkt # <<>> => snap.nextByte \in {0, Add(Isn, 1)}

StreamInv ==
  RecvdInv /\ (state \in Opened => \E a \in 0 .. peer.rcvd : tx.ackd = Add(Isn, a))

(* What holds in a session that has been opened once. *)
AgreeInv == BothInv /\ FirstNumbers /\ SegmentInv /\ SynNumber /\ StreamInv

(* Numbers that differ have a distance. *)
LEMMA Apart ==
  ASSUME NEW x \in Seqs, NEW y \in Seqs, x # y
  PROVE  Sub(x, y) \in Nat \ {0}
<1>0. SeqMod \in Nat /\ SeqMod >= 2
  BY Wraps
<1>1. CASE x < y
  <2>1. x + SeqMod - y \in Seqs /\ x + SeqMod - y # 0
    BY <1>0, <1>1 DEF Seqs
  <2>. QED BY <1>0, <2>1, Wraps DEF Sub, Seqs
<1>2. CASE x > y
  <2>1. x + SeqMod - y \in SeqMod .. 2 * SeqMod - 1 /\ x + SeqMod - y > SeqMod
    BY <1>0, <1>2 DEF Seqs
  <2>. QED BY <1>0, <2>1, Wraps DEF Sub, Seqs
<1>. QED BY <1>0, <1>1, <1>2 DEF Seqs

(* The segments that may arrive, of the peer's state. *)
LEMMA IncomingIs ==
  ASSUME PeerInv, NEW p \in Incoming
  PROVE  /\ PacketIs(p)
         /\ p.kind # "SYN" => \E a \in 0 .. peer.rcvd : p.ack = Add(peer.irs, a)
<1>. DEFINE Win(ack) == IF peer.credit + 1 > ack THEN peer.credit + 1 - ack ELSE 0
<1>1. \A ack \in Nat : Win(ack) \in Nat /\ Add(peer.irs, ack) \in Seqs
  <2>1. \A ack \in Nat : Win(ack) \in Nat
    BY DEF PeerInv
  <2>2. \A ack \in Nat : Add(peer.irs, ack) \in Seqs
    BY SeqsClosed DEF PeerInv
  <2>. QED BY <2>1, <2>2
<1>2. Acks \subseteq 1 .. peer.rcvd
  BY DEF Acks, PeerInv
<1>3. \A kind, seq, len, ack :
        InSegment(kind, seq, len, ack) =
          [kind |-> kind, seq |-> seq, len |-> len, ack |-> Add(peer.irs, ack), win |-> Win(ack)]
  BY DEF InSegment
<1>4. peer.rcvd \in Nat /\ peer.sent \in Nat /\ (peer.phase # "idle" => peer.rcvd > 0)
  BY DEF PeerInv
<1>. HIDE DEF Win
<1>5. \/ p = InSegment("SYN", PeerIsn, 0, 1)
      \/ peer.rcvd > 0 /\ p = InSegment("SYN_ACK", PeerIsn, 0, 1)
      \/ p = InSegment("SYN_ACK", PeerIsn, 0, 0)
      \/ \E a \in 1 .. peer.rcvd : p = InSegment("ACK", PeerSeq, 0, a)
      \/ \E i \in 0 .. peer.sent - 1, a \in 1 .. peer.rcvd :
           p = InSegment("ACK", Add(PeerIsn, 1 + i), 1, a)
      \/ peer.fin /\ \E a \in 1 .. peer.rcvd : p = InSegment("FIN", Add(PeerIsn, 1 + peer.sent), 0, a)
      \/ p = InSegment("RST", PeerSeq, 0, peer.rcvd)
  BY <1>2, <1>4 DEF Incoming
<1>6. CASE p = InSegment("SYN", PeerIsn, 0, 1)
  BY <1>1, <1>3, <1>6 DEF PacketIs
<1>7. CASE peer.rcvd > 0 /\ p = InSegment("SYN_ACK", PeerIsn, 0, 1)
  BY <1>1, <1>3, <1>4, <1>7 DEF PacketIs
<1>8. CASE p = InSegment("SYN_ACK", PeerIsn, 0, 0)
  BY <1>1, <1>3, <1>4, <1>8 DEF PacketIs
<1>9. CASE \E a \in 1 .. peer.rcvd : p = InSegment("ACK", PeerSeq, 0, a)
  BY <1>1, <1>3, <1>4, <1>9 DEF PacketIs
<1>10. CASE \E i \in 0 .. peer.sent - 1, a \in 1 .. peer.rcvd :
              p = InSegment("ACK", Add(PeerIsn, 1 + i), 1, a)
  <2>1. PICK i \in 0 .. peer.sent - 1, a \in 1 .. peer.rcvd :
               p = InSegment("ACK", Add(PeerIsn, 1 + i), 1, a)
    BY <1>10
  <2>2. 1 + i \in 1 .. peer.sent /\ a \in Nat /\ a \in 0 .. peer.rcvd /\ peer.rcvd > 0
    BY <1>4
  <2>3. p.seq = Add(PeerIsn, 1 + i) /\ p.len = 1 /\ p.kind = "ACK" /\ p.ack = Add(peer.irs, a) /\ p.win = Win(a)
    BY <1>3, <2>1
  <2>. QED BY <1>1, <2>2, <2>3 DEF PacketIs
<1>11. CASE peer.fin /\ \E a \in 1 .. peer.rcvd : p = InSegment("FIN", Add(PeerIsn, 1 + peer.sent), 0, a)
  BY <1>1, <1>3, <1>4, <1>11 DEF PacketIs
<1>12. CASE p = InSegment("RST", PeerSeq, 0, peer.rcvd)
  BY <1>1, <1>3, <1>4, <1>12 DEF PacketIs
<1>. QED BY <1>5, <1>6, <1>7, <1>8, <1>9, <1>10, <1>11, <1>12

(* What the peer has received and sent only grows, and after its FIN it    *)
(* sends nothing more. *)
LEMMA PeerStep ==
  ASSUME Shape, PeerInv, Numbers, [Next]_sessionVars
  PROVE  /\ PeerInv'
         /\ peer'.rcvd >= peer.rcvd /\ peer'.sent >= peer.sent
         /\ peer.fin => peer'.fin /\ peer'.sent = peer.sent
<1>0. peer = [plan |-> peer.plan, calls |-> peer.calls, phase |-> peer.phase, irs |-> peer.irs,
              rcvd |-> peer.rcvd, sent |-> peer.sent, fin |-> peer.fin, credit |-> peer.credit,
              told |-> peer.told]
  BY DEF Shape
<1>1. CASE UNCHANGED peer
  BY <1>1 DEF PeerInv, PeerBytes
<1>2. CASE Arrives
  <2>1. PICK p \in Incoming : peer' = [peer EXCEPT !.told = IF p.ack = peer.irs THEN @ ELSE Heard(p.ack)]
    BY <1>2 DEF Arrives
  <2>2. p.ack \in Seqs
    BY IncomingIs DEF PacketIs
  <2>3. peer.told \in Nat \ {0} /\ (p.ack # peer.irs => Heard(p.ack) \in Nat \ {0})
    BY <2>2, Apart DEF PeerInv, Heard
  <2>4. peer'.told \in Nat \ {0} /\ peer'.plan = peer.plan /\ peer'.irs = peer.irs /\ peer'.rcvd = peer.rcvd /\ peer'.phase = peer.phase
        /\ peer'.sent = peer.sent /\ peer'.fin = peer.fin /\ peer'.credit = peer.credit
    BY <1>0, <2>1, <2>3
  <2>. QED BY <2>4 DEF PeerInv, PeerBytes
<1>3. CASE PeerSends
  <2>1. peer.sent \in Nat /\ PeerBytes \in Nat /\ peer.sent <= PeerBytes
    BY PlanAssumption DEF PeerInv, PeerBytes
  <2>2. CASE peer.sent < PeerBytes /\ ~peer.fin /\ peer' = [peer EXCEPT !.sent = @ + 1]
    <3>1. peer'.sent = peer.sent + 1 /\ peer'.plan = peer.plan /\ peer'.irs = peer.irs /\ peer'.rcvd = peer.rcvd /\ peer'.phase = peer.phase
          /\ peer'.told = peer.told /\ peer'.fin = peer.fin /\ peer'.credit = peer.credit
      BY <1>0, <2>2
    <3>2. PeerBytes' = PeerBytes /\ peer'.sent \in 0 .. PeerBytes
      BY <2>1, <2>2, <3>1 DEF PeerBytes
    <3>. QED BY <2>1, <2>2, <3>1, <3>2 DEF PeerInv
  <2>3. CASE ~peer.fin /\ peer' = [peer EXCEPT !.fin = TRUE]
    BY <1>0, <2>1, <2>3 DEF PeerInv, PeerBytes
  <2>4. CASE peer' = [peer EXCEPT !.phase = "aborted"]
    BY <1>0, <1>3, <2>1, <2>4 DEF PeerInv, PeerBytes, PeerSends
  <2>. QED BY <1>3, <2>2, <2>3, <2>4 DEF PeerSends
<1>4. CASE PeerReads
  BY <1>0, <1>4 DEF PeerReads, PeerInv, PeerBytes
<1>5. CASE \E seg \in wire : PeerReceives(seg)
  <2>1. PICK seg \in wire : PeerReceives(seg)
    BY <1>5
  <2>2. seg.seq \in Seqs /\ seg.len \in Nat /\ Heard(seg.seq) \in Nat
    BY SeqsClosed DEF Numbers, PeerInv, Heard
  <2>3. \E n \in Nat : \E ph : \E i \in Seqs :
          /\ n >= peer.rcvd /\ (ph = "idle" <=> n = 0)
          /\ peer' = [peer EXCEPT !.rcvd = n, !.phase = ph, !.irs = i]
    <3>0. peer.irs \in Seqs /\ peer.rcvd \in Nat /\ (peer.phase = "idle" <=> peer.rcvd = 0)
      BY DEF PeerInv
    <3>1. CASE /\ peer.phase = "idle"
               /\ \E ph \in {"syn", "open"} :
                    peer' = [peer EXCEPT !.rcvd = 1, !.phase = ph, !.irs = seg.seq]
      <4>1. PICK ph \in {"syn", "open"} :
                    peer' = [peer EXCEPT !.rcvd = 1, !.phase = ph, !.irs = seg.seq]
        BY <3>1
      <4>2. 1 >= peer.rcvd /\ 1 \in Nat /\ (ph = "idle" <=> 1 = 0)
        BY <3>0, <3>1
      <4>. QED BY <2>2, <4>1, <4>2
    <3>2. CASE peer.phase # "idle" /\ \E ph \in {"open", "gone"} : peer' = [peer EXCEPT !.phase = ph]
      <4>1. PICK ph \in {"open", "gone"} : peer' = [peer EXCEPT !.phase = ph]
        BY <3>2
      <4>2. PICK n \in Nat : n = peer.rcvd
        BY <3>0
      <4>3. peer' = [peer EXCEPT !.rcvd = n, !.phase = ph, !.irs = peer.irs]
        BY <1>0, <4>1, <4>2
      <4>4. n >= peer.rcvd /\ (ph = "idle" <=> n = 0)
        BY <3>0, <3>2, <4>2
      <4>. QED BY <3>0, <4>3, <4>4
    <3>3. CASE /\ Heard(seg.seq) <= peer.rcvd /\ peer.rcvd < Heard(seg.seq) + seg.len
               /\ peer' = [peer EXCEPT !.rcvd = Heard(seg.seq) + seg.len, !.phase = "open"]
      <4>1. PICK n : n = Heard(seg.seq) + seg.len
        OBVIOUS
      <4>2. n \in Nat /\ n >= peer.rcvd /\ n # 0
        BY <2>2, <3>0, <3>3, <4>1
      <4>3. peer' = [peer EXCEPT !.rcvd = n, !.phase = "open", !.irs = peer.irs]
        BY <1>0, <3>3, <4>1
      <4>. QED BY <3>0, <4>2, <4>3
    <3>4. CASE peer' = [peer EXCEPT !.rcvd = @ + 1, !.phase = "ended"]
      <4>1. peer.rcvd + 1 \in Nat /\ peer.rcvd + 1 >= peer.rcvd /\ peer.rcvd + 1 # 0
        BY <3>0
      <4>2. peer' = [peer EXCEPT !.rcvd = @ + 1, !.phase = "ended", !.irs = peer.irs]
        BY <1>0, <3>4
      <4>. QED BY <3>0, <4>1, <4>2
    <3>. QED BY <2>1, <3>1, <3>2, <3>3, <3>4 DEF PeerReceives
  <2>4. PICK n \in Nat : \E ph : \E i \in Seqs :
          /\ n >= peer.rcvd /\ (ph = "idle" <=> n = 0)
          /\ peer' = [peer EXCEPT !.rcvd = n, !.phase = ph, !.irs = i]
    BY <2>3
  <2>5. PICK ph : \E i \in Seqs :
          /\ n >= peer.rcvd /\ (ph = "idle" <=> n = 0)
          /\ peer' = [peer EXCEPT !.rcvd = n, !.phase = ph, !.irs = i]
    BY <2>4
  <2>. QED BY <1>0, <2>5 DEF PeerInv, PeerBytes
<1>. QED BY <1>1, <1>2, <1>3, <1>4, <1>5
     DEF Next, Expires, Local, RtDue, ProbeDue, CloseDue, RtExpires, ProbeExpires, CloseExpires,
         RxTransition, TxStep, TxLoad, TxData, TxRetransmit, TxFin, TxSyn, TxSynAck, TxOpening, TxAck,
         TxRst, MetaRest, EventStep, DelayedAckFires, TakeTimerEvent, TakeAppEvent, ReleaseStep,
         TimerRelease, LookupRelease, AppRequest, AppIfStep, AppOpen, AppClose, StreamRequest,
         StatusOk, StreamWrite, sessionVars

(* A segment that waits in rx_engine stays within what the peer has done. *)
LEMMA PacketStep ==
  ASSUME Shape, PeerInv, Numbers, PacketInv, [Next]_sessionVars
  PROVE  PacketInv'
<1>1. CASE Arrives
  <2>1. PICK p \in Incoming : rxPkt' = <<p>> /\ peer' = [peer EXCEPT !.told = IF p.ack = peer.irs THEN @ ELSE Heard(p.ack)]
    BY <1>1 DEF Arrives, RxLoad
  <2>2. peer'.rcvd = peer.rcvd /\ peer'.sent = peer.sent /\ peer'.fin = peer.fin
    BY <2>1 DEF Shape
  <2>3. rxPkt'[1] = p
    BY <2>1
  <2>. QED BY <2>2, <2>3, IncomingIs DEF PacketInv, PacketIs
<1>2. CASE rxPkt' = <<>>
  BY <1>2 DEF PacketInv, PacketIs
<1>3. CASE rxPkt' = rxPkt
  <2>. DEFINE p == rxPkt[1]
  <2>0. SUFFICES ASSUME rxPkt # <<>> PROVE PacketInv'
    BY <1>3 DEF PacketInv, PacketIs
  <2>1. /\ peer.rcvd \in Nat /\ peer.sent \in Nat /\ peer'.rcvd \in Nat /\ peer'.sent \in Nat
        /\ peer'.rcvd >= peer.rcvd /\ peer'.sent >= peer.sent
        /\ peer.fin => peer'.fin /\ peer'.sent = peer.sent
    BY PeerStep DEF PeerInv
  <2>2. 0 .. peer.rcvd \subseteq 0 .. peer'.rcvd /\ 1 .. peer.sent \subseteq 1 .. peer'.sent
    BY <2>1
  <2>. QED BY <1>3, <2>0, <2>1, <2>2 DEF PacketInv, PacketIs
<1>. QED BY <1>1, <1>2, <1>3
     DEF Next, Expires, Local, RtDue, ProbeDue, CloseDue, RtExpires, ProbeExpires, CloseExpires,
         RxTransition, TxStep, TxLoad, TxData, TxRetransmit, TxFin, TxSyn, TxSynAck, TxOpening, TxAck,
         TxRst, MetaRest, EventStep, DelayedAckFires, TakeTimerEvent, TakeAppEvent, ReleaseStep,
         TimerRelease, LookupRelease, AppRequest, AppIfStep, AppOpen, AppClose, StreamRequest,
         StatusOk, StreamWrite, PeerSends, PeerReads, PeerReceives, engine, rxEng, sessionVars

(* The peer keeps to the number that it took first. *)
LEMMA IrsStep ==
  ASSUME Shape, PeerInv, FirstNumbers, [Next]_sessionVars
  PROVE  peer'.irs = Isn
<1>0. peer = [plan |-> peer.plan, calls |-> peer.calls, phase |-> peer.phase, irs |-> peer.irs,
              rcvd |-> peer.rcvd, sent |-> peer.sent, fin |-> peer.fin, credit |-> peer.credit,
              told |-> peer.told]
  BY DEF Shape
<1>1. peer.irs = Isn /\ (peer.phase = "idle" => \A seg \in wire : seg.kind \in Openers => seg.seq = Isn)
  BY DEF FirstNumbers, PeerInv
<1>2. CASE \E seg \in wire : PeerReceives(seg)
  <2>1. PICK seg \in wire : PeerReceives(seg)
    BY <1>2
  <2>2. peer'.irs = peer.irs \/ (seg.kind \in Openers /\ peer.phase = "idle" /\ peer'.irs = seg.seq)
    BY <1>0, <2>1, Received DEF Openers
  <2>. QED BY <1>1, <2>2
<1>3. CASE Arrives \/ PeerSends \/ PeerReads
  BY <1>0, <1>1, <1>3 DEF Arrives, PeerSends, PeerReads
<1>4. CASE UNCHANGED peer
  BY <1>1, <1>4
<1>. QED BY <1>2, <1>3, <1>4
     DEF Next, Expires, Local, RtDue, ProbeDue, CloseDue, RtExpires, ProbeExpires, CloseExpires,
         RxTransition, TxStep, TxLoad, TxData, TxRetransmit, TxFin, TxSyn, TxSynAck, TxOpening, TxAck,
         TxRst, MetaRest, EventStep, DelayedAckFires, TakeTimerEvent, TakeAppEvent, ReleaseStep,
         TimerRelease, LookupRelease, AppRequest, AppIfStep, AppOpen, AppClose, StreamRequest,
         StatusOk, StreamWrite, sessionVars

(* Nor does it acknowledge what the peer has not received. *)
LEMMA SegmentStep ==
  ASSUME Shape, PeerInv, Numbers, FirstNumbers, PacketInv, SegmentInv, [Next]_sessionVars
  PROVE  SegmentInv'
<1>0. PacketInv'
  BY PacketStep
<1>. DEFINE Acked(p, n) == p.kind # "SYN" => \E a \in 0 .. n : p.ack = Add(Isn, a)
<1>1. SUFFICES ASSUME rxPkt' # <<>> PROVE Acked(rxPkt'[1], peer'.rcvd)
  BY <1>0 DEF SegmentInv, PacketInv
<1>2. CASE Arrives
  <2>1. PICK p \in Incoming : rxPkt' = <<p>> /\ peer' = [peer EXCEPT !.told = IF p.ack = peer.irs THEN @ ELSE Heard(p.ack)]
    BY <1>2 DEF Arrives, RxLoad
  <2>2. peer'.rcvd = peer.rcvd /\ rxPkt'[1] = p /\ peer.irs = Isn
    BY <2>1 DEF Shape, FirstNumbers
  <2>. QED BY <2>2, IncomingIs
<1>3. CASE rxPkt' = rxPkt
  <2>1. peer.rcvd \in Nat /\ peer'.rcvd \in Nat /\ peer'.rcvd >= peer.rcvd
    BY PeerStep DEF PeerInv
  <2>2. 0 .. peer.rcvd \subseteq 0 .. peer'.rcvd
    BY <2>1
  <2>. QED BY <1>1, <1>3, <2>2 DEF SegmentInv
<1>4. CASE rxPkt' = <<>>
  BY <1>1, <1>4
<1>. QED BY <1>2, <1>3, <1>4
     DEF Next, Expires, Local, RtDue, ProbeDue, CloseDue, RtExpires, ProbeExpires, CloseExpires,
         RxTransition, TxStep, TxLoad, TxData, TxRetransmit, TxFin, TxSyn, TxSynAck, TxOpening, TxAck,
         TxRst, MetaRest, EventStep, DelayedAckFires, TakeTimerEvent, TakeAppEvent, ReleaseStep,
         TimerRelease, LookupRelease, AppRequest, AppIfStep, AppOpen, AppClose, StreamRequest,
         StatusOk, StreamWrite, PeerSends, PeerReads, PeerReceives, engine, rxEng, sessionVars

(* What a segment does to the numbers of the engine.  An acknowledgement   *)
(* of everything that was sent is always in the range that OnAck asks for. *)
LEMMA TransitionNumbers ==
  ASSUME Numbers, PacketInv, RxTransition, NEW p, p = rxPkt[1]
  PROVE  /\ rxPkt # <<>>
         /\ tx' \in TxSar /\ tx'.not_ackd = tx.not_ackd
         /\ \/ tx'.ackd = tx.ackd
            \/ p.kind # "SYN" /\ tx'.ackd = p.ack
            \/ state' = "SYN_RECEIVED"
         /\ \/ recvd' = recvd
            \/ p.kind \in {"SYN", "SYN_ACK"} /\ recvd' = Add(p.seq, 1)
            \/ p.kind = "ACK" /\ p.len # 0 /\ p.seq = recvd /\ recvd' = Add(recvd, p.len)
            \/ p.kind = "FIN" /\ recvd' = Add(p.seq, p.len + 1)
         /\ state' \in Opened /\ state \notin Opened =>
              /\ p.kind # "SYN" /\ tx'.ackd = p.ack
              /\ \/ p.kind = "ACK" /\ state = "SYN_RECEIVED"
                 \/ /\ p.kind = "SYN_ACK" /\ state = "SYN_SENT" /\ p.ack = snap.nextByte
                    /\ recvd' = Add(p.seq, 1)
         /\ state' = "SYN_RECEIVED" =>
              \/ state = "SYN_RECEIVED"
              \/ p.kind = "SYN" /\ recvd' = Add(p.seq, 1)
<1>0. /\ rxPkt # <<>> /\ p.win \in Nat /\ (p.kind # "SYN" => p.ack \in Seqs)
      /\ tx \in TxSar /\ snap \in [prevAck : Seqs, nextByte : Seqs, count : Nat] /\ 0 \in Seqs
  BY SeqsClosed DEF RxTransition, PacketInv, PacketIs, Numbers
<1>1. \A a \in Seqs, w, c \in Nat :
        LET t == TxSarFromRx(a, w, c)  u == TxSarInitFromRx(a, w)
        IN  /\ t \in TxSar /\ t.ackd = a /\ t.not_ackd = tx.not_ackd
            /\ u \in TxSar /\ u.ackd = a /\ u.not_ackd = tx.not_ackd
  BY <1>0 DEF TxSarFromRx, TxSarInitFromRx, TxSar
<1>2. \/ p.kind = "ACK" /\ OnAck(p)
      \/ p.kind = "SYN" /\ OnSyn(p)
      \/ p.kind = "SYN_ACK" /\ OnSynAck(p)
      \/ p.kind = "FIN" /\ OnFin(p)
      \/ p.kind = "RST" /\ OnRst(p)
  BY DEF RxTransition
<1>3. Opened = {"ESTABLISHED", "FIN_WAIT_1", "CLOSING", "TIME_WAIT", "LAST_ACK", "FIN_WAIT_2"}
  BY DEF Opened, Synchronized
<1>4. CASE p.kind = "ACK" /\ OnAck(p)
  <2>1. CASE state \notin Acking
    <3>1. UNCHANGED <<tx, recvd>> /\ state' = state
      BY <1>4, <2>1 DEF OnAck, WriteState
    <3>. QED BY <1>0, <1>3, <3>1
  <2>2. CASE state \in Acking
    <3>. DEFINE repeated == p.ack = snap.prevAck /\ snap.prevAck # snap.nextByte
                count    == IF repeated THEN (snap.count + 1) % 4 ELSE 0
                next     == IF p.ack = snap.nextByte THEN AllAckedMoves(state) ELSE state
    <3>1. /\ tx' = IF Between(snap.prevAck, p.ack, snap.nextByte) THEN TxSarFromRx(p.ack, p.win, count) ELSE tx
          /\ (p.len # 0 /\ p.seq = recvd /\ recvd' = Add(recvd, p.len)) \/ UNCHANGED recvd
          /\ state' = next
      BY <1>4, <2>2, Zenon DEF OnAck, WriteState, InOrder
    <3>2. count \in Nat
      <4>1. \A n \in Nat : (n + 1) % 4 \in Nat
        OBVIOUS
      <4>. QED BY <1>0, <4>1
    <3>3. /\ next \in Opened /\ state \notin Opened => p.ack = snap.nextByte /\ state = "SYN_RECEIVED"
          /\ next = "SYN_RECEIVED" => state = "SYN_RECEIVED"
      <4>1. Moves["SYN_RECEIVED"] = "ESTABLISHED" /\ Moves["CLOSING"] = "TIME_WAIT" /\ Moves["LAST_ACK"] = "CLOSED"
        BY DEF Moves
      <4>2. DOMAIN Moves = {"SYN_RECEIVED", "CLOSING", "LAST_ACK"}
        BY DEF Moves
      <4>3. state \in {"ESTABLISHED", "SYN_RECEIVED", "FIN_WAIT_1", "CLOSING", "LAST_ACK"}
        BY <2>2 DEF Acking
      <4>. QED BY <1>3, <4>1, <4>2, <4>3 DEF AllAckedMoves
    <3>4. p.ack = snap.nextByte => Between(snap.prevAck, p.ack, snap.nextByte)
      <4>1. snap.prevAck \in Nat /\ snap.nextByte \in Nat
        BY <1>0, SeqsClosed
      <4>. QED BY <4>1 DEF Between
    <3>. HIDE DEF count, next
    <3>5. tx' \in TxSar /\ tx'.not_ackd = tx.not_ackd /\ (tx'.ackd = p.ack \/ tx' = tx)
      <4>1. p.ack \in Seqs /\ p.win \in Nat
        BY <1>0, <1>4
      <4>2. LET t == TxSarFromRx(p.ack, p.win, count)
            IN  t \in TxSar /\ t.ackd = p.ack /\ t.not_ackd = tx.not_ackd
        BY ONLY <1>1, <3>2, <4>1
      <4>3. tx' = TxSarFromRx(p.ack, p.win, count) \/ tx' = tx
        BY <3>1
      <4>. QED BY <1>0, <4>2, <4>3
    <3>6. p.ack = snap.nextByte => tx'.ackd = p.ack
      BY <1>0, <1>1, <1>4, <3>1, <3>2, <3>4
    <3>. QED BY <1>0, <1>4, <3>1, <3>3, <3>5, <3>6
  <2>. QED BY <2>1, <2>2
<1>5. CASE p.kind = "SYN" /\ OnSyn(p)
  <2>1. CASE state \in {"CLOSED", "SYN_SENT"}
    <3>1. tx' = TxSarInitFromRx(0, p.win) /\ recvd' = Add(p.seq, 1) /\ state' = "SYN_RECEIVED"
      BY <1>5, <2>1 DEF OnSyn, WriteState
    <3>2. tx' \in TxSar /\ tx'.not_ackd = tx.not_ackd
      BY <1>0, <1>1, <3>1
    <3>. QED BY <1>0, <1>3, <1>5, <3>1, <3>2
  <2>2. CASE state \notin {"CLOSED", "SYN_SENT"}
    <3>1. UNCHANGED <<tx, recvd>> /\ (state' = state \/ state' = "CLOSED")
      BY <1>5, <2>2 DEF OnSyn, WriteState
    <3>. QED BY <1>0, <1>3, <3>1
  <2>. QED BY <2>1, <2>2
<1>6. CASE p.kind = "SYN_ACK" /\ OnSynAck(p)
  <2>1. CASE state = "SYN_SENT" /\ p.ack = snap.nextByte
    <3>1. tx' = TxSarInitFromRx(p.ack, p.win) /\ recvd' = Add(p.seq, 1) /\ state' = "ESTABLISHED"
      BY <1>6, <2>1 DEF OnSynAck, WriteState
    <3>2. tx' \in TxSar /\ tx'.not_ackd = tx.not_ackd /\ tx'.ackd = p.ack
      BY <1>0, <1>1, <1>6, <3>1
    <3>. QED BY <1>0, <1>6, <2>1, <3>1, <3>2
  <2>2. CASE ~(state = "SYN_SENT" /\ p.ack = snap.nextByte)
    <3>1. UNCHANGED <<tx, recvd>> /\ (state' = state \/ state' = "CLOSED")
      BY <1>6, <2>2 DEF OnSynAck, WriteState
    <3>. QED BY <1>0, <1>3, <3>1
  <2>. QED BY <2>1, <2>2
<1>7. CASE p.kind = "FIN" /\ OnFin(p)
  <2>1. CASE state \in Closeable /\ InOrder(p)
    <3>1. tx' = TxSarFromRx(p.ack, p.win, snap.count) /\ recvd' = Add(p.seq, p.len + 1)
          /\ state' # "SYN_RECEIVED" /\ state \in Opened
      BY <1>3, <1>7, <2>1 DEF OnFin, WriteState, Closeable
    <3>2. tx' \in TxSar /\ tx'.not_ackd = tx.not_ackd /\ tx'.ackd = p.ack
      BY <1>0, <1>1, <1>7, <3>1
    <3>. QED BY <1>0, <1>7, <3>1, <3>2
  <2>2. CASE ~(state \in Closeable /\ InOrder(p))
    <3>1. UNCHANGED <<tx, recvd>> /\ state' = state
      BY <1>7, <2>2 DEF OnFin, WriteState
    <3>. QED BY <1>0, <1>3, <3>1
  <2>. QED BY <2>1, <2>2
<1>8. CASE p.kind = "RST" /\ OnRst(p)
  <2>1. UNCHANGED <<tx, recvd>> /\ (state' = state \/ state' = "CLOSED")
    BY <1>8 DEF OnRst, WriteState
  <2>. QED BY <1>0, <1>3, <2>1
<1>. QED BY <1>2, <1>4, <1>5, <1>6, <1>7, <1>8

(* The number of the SYN is the one before the number of the first byte. *)
LEMMA SynIsBehind ==
  Sub(Add(Isn, 1), 1) = Isn /\ Add(Isn, 1) \in Seqs /\ Add(Isn, 1) # Isn /\ Add(Isn, 0) = Isn
<1>0. SeqMod \in Nat /\ SeqMod >= 2 /\ Isn \in 1 .. SeqMod - 1
  BY Wraps
<1>1. Add(Isn, 0) = Isn
  BY <1>0, Wraps DEF Add, Seqs
<1>2. CASE Isn = SeqMod - 1
  <2>1. Add(Isn, 1) = 0
    <3>1. Isn + 1 \in SeqMod .. 2 * SeqMod - 1 /\ Isn + 1 = SeqMod
      BY <1>0, <1>2
    <3>. QED BY <1>0, <3>1, Wraps DEF Add
  <2>2. Sub(0, 1) = Isn
    <3>1. 0 + SeqMod - 1 \in Seqs /\ 0 + SeqMod - 1 = Isn
      BY <1>0, <1>2 DEF Seqs
    <3>. QED BY <3>1, Wraps DEF Sub
  <2>. QED BY <1>0, <1>1, <2>1, <2>2 DEF Seqs
<1>3. CASE Isn # SeqMod - 1
  <2>1. Add(Isn, 1) = Isn + 1 /\ Isn + 1 \in Seqs
    BY <1>0, <1>3, Wraps DEF Add, Seqs
  <2>2. Sub(Isn + 1, 1) = Isn
    <3>1. (Isn + 1) + SeqMod - 1 \in SeqMod .. 2 * SeqMod - 1 /\ (Isn + 1) + SeqMod - 1 = SeqMod + Isn
      BY <1>0
    <3>. QED BY <1>0, <3>1, Wraps DEF Sub
  <2>. QED BY <1>0, <1>1, <2>1, <2>2
<1>. QED BY <1>2, <1>3

(* Numbers that are drawn are numbers, and nothing else is drawn at first. *)
LEMMA DrawsTyped ==
  Draws \subseteq Seqs /\ (~Called => Draws = {Isn})
  BY Wraps, SeqAssumption DEF Draws, Seqs

LEMMA AddSubOne ==
  ASSUME NEW x \in Seqs
  PROVE  Sub(Add(x, 1), 1) = x
<1>0. SeqMod \in Nat /\ SeqMod >= 2
  BY Wraps
<1>1. CASE x = SeqMod - 1
  <2>1. Add(x, 1) = 0
    <3>1. x + 1 \in SeqMod .. 2 * SeqMod - 1 /\ x + 1 = SeqMod
      BY <1>0, <1>1
    <3>. QED BY <1>0, <3>1, Wraps DEF Add
  <2>2. 0 + SeqMod - 1 \in Seqs /\ 0 + SeqMod - 1 = x
    BY <1>0, <1>1 DEF Seqs
  <2>3. Sub(0, 1) = x
    BY <2>2, Wraps DEF Sub
  <2>. QED BY <2>1, <2>3
<1>2. CASE x # SeqMod - 1
  <2>1. x + 1 \in Seqs
    BY <1>0, <1>2 DEF Seqs
  <2>2. Add(x, 1) = x + 1
    BY <2>1, Wraps DEF Add
  <2>3. (x + 1) + SeqMod - 1 \in SeqMod .. 2 * SeqMod - 1 /\ (x + 1) + SeqMod - 1 = SeqMod + x
    BY <1>0 DEF Seqs
  <2>4. Sub(x + 1, 1) = x
    BY <1>0, <2>3, Wraps DEF Sub, Seqs
  <2>. QED BY <2>2, <2>4
<1>. QED BY <1>1, <1>2

(* What a session that is opened once sends to open. *)
LEMMA OpeningOnce ==
  ASSUME FirstNumbers, NEW type \in Openers, NEW kind, TxOpening(type, kind)
  PROVE  LET seq == IF ml[1].rt = 0 THEN Isn ELSE ml[1].sar.ackd
         IN  /\ ml # <<>> /\ ml[1].type = type
             /\ Send(Segment(kind, seq, 0), type)
             /\ IF ml[1].rt = 0
                THEN tx' = TxSarInitFromTx(Add(Isn, 1)) /\ mempt' = Add(Isn, 1)
                ELSE UNCHANGED <<tx, mempt>>
             /\ ml' = <<>>
             /\ UNCHANGED <<table, recvd, rxEng, events, probe, closeTimer, giveUp, cache,
                            streamReq, app, answers, told, peer>>
<1>1. ml # <<>> /\ ml[1].type = type
  BY DEF TxOpening, Handles
<1>2. ml[1].rt = 0 => Draws = {Isn}
  BY <1>1, DrawsTyped DEF FirstNumbers, Opens
<1>. QED BY <1>1, <1>2, Zenon DEF TxOpening

LEMMA FromTxTyped ==
  ASSUME tx \in TxSar, NEW n \in Seqs, NEW x \in BOOLEAN, NEW y \in BOOLEAN
  PROVE  TxSarFromTx(n, x, y) \in TxSar /\ TxSarFromTx(n, x, y).ackd = tx.ackd
<1>1. tx.finReady \in BOOLEAN /\ tx.finSent \in BOOLEAN
  BY DEF TxSar
<1>2. PICK b \in BOOLEAN, c \in BOOLEAN : b = (tx.finReady \/ x) /\ c = (tx.finSent \/ y)
  BY Zenon
<1>3. TxSarFromTx(n, x, y) = [tx EXCEPT !.not_ackd = n, !.finReady = b, !.finSent = c]
  BY <1>2, Zenon DEF TxSarFromTx
<1>. QED BY <1>3 DEF TxSar

(* tx_engine keeps the numbers in range, and moves ackd only to the number *)
(* that it draws for a SYN or SYN_ACK. *)
LEMMA TransmitNumbers ==
  ASSUME Numbers, TxStep
  PROVE  Numbers' /\ (tx'.ackd = tx.ackd \/ (ml # <<>> /\ Opens(ml[1]) /\ tx'.ackd \in Draws))
<1>0. /\ tx \in TxSar /\ Seqs \subseteq Nat /\ 0 \in Seqs /\ 1 \in Seqs /\ Isn \in Seqs /\ Mms \in Nat
      /\ \A a \in Seqs, n \in Nat : Add(a, n) \in Seqs
      /\ \A a, b \in Seqs : Sub(a, b) \in Seqs
      /\ \A a, b \in Nat : Lesser(a, b) \in Nat
  BY SeqsClosed DEF Numbers, Lesser
<1>4. CASE TxLoad
  <2>1. ml'[1] = [type |-> Head(pipe).type, rt |-> Head(pipe).rt, sar |-> tx, count |-> 0]
        /\ ml' = <<[type |-> Head(pipe).type, rt |-> Head(pipe).rt, sar |-> tx, count |-> 0]>>
    BY <1>4 DEF TxLoad
  <2>2. ml' = <<[type |-> ml'[1].type, rt |-> ml'[1].rt, sar |-> ml'[1].sar, count |-> ml'[1].count]>>
        /\ ml'[1].sar \in TxSar
    BY <1>0, <2>1
  <2>. QED BY <1>4, <2>2 DEF TxLoad, Numbers, rxEng, appSide
<1>11. SUFFICES ASSUME ~TxLoad
               PROVE  Numbers' /\ (tx'.ackd = tx.ackd \/ (ml # <<>> /\ Opens(ml[1]) /\ tx'.ackd \in Draws))
  BY <1>4
<1>9. ml # <<>> /\ UNCHANGED <<snap, cache>> /\ mempt' \in Seqs
  <2>1. \/ TxData \/ TxRetransmit \/ TxFin \/ TxAck \/ TxRst
        \/ TxOpening("SYN", "SYN") \/ TxOpening("SYN_ACK", "SYN_ACK")
    BY <1>11 DEF TxStep, TxSyn, TxSynAck
  <2>2. mempt \in Seqs /\ \A isn \in Draws : Add(isn, 1) \in Seqs
    BY DrawsTyped, SeqsClosed DEF Numbers
  <2>. QED BY <2>1, <2>2
       DEF TxData, TxRetransmit, TxFin, TxAck, TxRst, TxOpening, Handles, MetaRest, rxEng, appSide
<1>. DEFINE m == ml[1]  sar == ml[1].sar
<1>1. /\ m = [type |-> m.type, rt |-> m.rt, sar |-> m.sar, count |-> m.count]
      /\ sar \in TxSar /\ m.sar = sar
      /\ sar.not_ackd \in Seqs /\ sar.ackd \in Seqs /\ sar.app \in Seqs /\ sar.window \in Nat
  BY <1>9 DEF Numbers, TxSar
<1>. HIDE DEF m, sar
<1>2. \A kind : \A s \in Seqs, n \in Nat : Segment(kind, s, n).seq \in Seqs /\ Segment(kind, s, n).len \in Nat
  BY DEF Segment
<1>12. \A e : <<e>>[1] = e
  OBVIOUS
<1>5. CASE TxData
  <2>1. Unsent(sar) \in Nat /\ Usable(sar) \in Nat
    <3>1. Unsent(sar) \in Seqs /\ InFlight(sar) \in Seqs
      BY <1>0, <1>1 DEF Unsent, InFlight
    <3>2. \A a, b \in Nat : (IF a > b THEN a - b ELSE 0) \in Nat
      OBVIOUS
    <3>. QED BY <1>0, <1>1, <3>1, <3>2 DEF Usable
  <2>2. PICK length \in Nat : length = DataLength(sar)
    BY <1>0, <2>1 DEF DataLength
  <2>3. PICK sent : sent = [sar EXCEPT !.not_ackd = Add(@, length)]
    OBVIOUS
  <2>4. sent \in TxSar /\ sent.not_ackd \in Seqs
    BY <1>0, <1>1, <2>3 DEF TxSar
  <2>5. /\ \/ wire' = wire
           \/ wire' = wire \cup {Segment("DATA", sar.not_ackd, length)}
        /\ \/ tx' = tx
           \/ tx' = TxSarFromTx(sent.not_ackd, FALSE, FALSE)
        /\ \/ ml' = <<[m EXCEPT !.sar = sent]>>
           \/ ml' = <<[m EXCEPT !.type = "FIN", !.sar = sent]>>
           \/ ml' = <<>>
    BY <1>5, <2>2, <2>3 DEF TxData, SendData, Send, m, sar
  <2>6. tx' \in TxSar /\ tx'.ackd = tx.ackd
    <3>1. CASE tx' = tx
      BY <1>0, <3>1
    <3>2. CASE tx' = TxSarFromTx(sent.not_ackd, FALSE, FALSE)
      <4>1. FALSE \in BOOLEAN
        OBVIOUS
      <4>2. TxSarFromTx(sent.not_ackd, FALSE, FALSE) \in TxSar /\ TxSarFromTx(sent.not_ackd, FALSE, FALSE).ackd = tx.ackd
        BY <1>0, <2>4, <4>1, FromTxTyped
      <4>. QED BY <3>2, <4>2
    <3>. QED BY <2>5, <3>1, <3>2
  <2>7. \A seg \in wire' : seg.seq \in Seqs /\ seg.len \in Nat
    BY <1>1, <1>2, <2>5 DEF Numbers
  <2>8. ml' = <<>> \/ /\ ml' = <<[type |-> ml'[1].type, rt |-> ml'[1].rt, sar |-> ml'[1].sar,
                                 count |-> ml'[1].count]>>
                      /\ ml'[1].sar \in TxSar
    <3>1. CASE ml' = <<[m EXCEPT !.sar = sent]>>
      <4>1. PICK e : e = [m EXCEPT !.sar = sent]
        OBVIOUS
      <4>2. e = [type |-> e.type, rt |-> e.rt, sar |-> e.sar, count |-> e.count] /\ e.sar = sent
        BY <1>1, <4>1
      <4>. QED BY <1>12, <2>4, <3>1, <4>1, <4>2
    <3>2. CASE ml' = <<[m EXCEPT !.type = "FIN", !.sar = sent]>>
      <4>1. PICK e : e = [m EXCEPT !.type = "FIN", !.sar = sent]
        OBVIOUS
      <4>2. e = [type |-> e.type, rt |-> e.rt, sar |-> e.sar, count |-> e.count] /\ e.sar = sent
        BY <1>1, <4>1
      <4>. QED BY <1>12, <2>4, <3>2, <4>1, <4>2
    <3>. QED BY <2>5, <3>1, <3>2
  <2>. QED BY <1>9, <2>6, <2>7, <2>8 DEF Numbers
<1>6. CASE TxRetransmit
  <2>1. PICK unackd \in Nat : unackd = Sub(Sub(sar.not_ackd, sar.ackd), IF sar.finSent THEN 1 ELSE 0)
    BY <1>0, <1>1
  <2>2. PICK sent : sent = [sar EXCEPT !.ackd = Add(@, Mms)]
    OBVIOUS
  <2>3. sent \in TxSar
    BY <1>0, <1>1, <2>2 DEF TxSar
  <2>5. /\ \/ wire' = wire
           \/ wire' = wire \cup {Segment("DATA", sar.ackd, Lesser(unackd, Mms))}
        /\ tx' = tx
        /\ \/ ml' = <<[m EXCEPT !.sar.ackd = Add(@, Mms), !.count = @ + 1]>>
           \/ ml' = <<[m EXCEPT !.type = "FIN"]>>
           \/ ml' = <<>>
    BY <1>6, <2>1 DEF TxRetransmit, SendData, Send, m, sar
  <2>6. \A seg \in wire' : seg.seq \in Seqs /\ seg.len \in Nat
    BY <1>0, <1>1, <1>2, <2>5 DEF Numbers
  <2>7. ml' = <<>> \/ /\ ml' = <<[type |-> ml'[1].type, rt |-> ml'[1].rt, sar |-> ml'[1].sar,
                                 count |-> ml'[1].count]>>
                      /\ ml'[1].sar \in TxSar
    <3>1. CASE ml' = <<[m EXCEPT !.sar.ackd = Add(@, Mms), !.count = @ + 1]>>
      <4>1. PICK e : e = [m EXCEPT !.sar.ackd = Add(@, Mms), !.count = @ + 1]
        OBVIOUS
      <4>2. e = [type |-> e.type, rt |-> e.rt, sar |-> e.sar, count |-> e.count] /\ e.sar = sent
        BY <1>1, <2>2, <4>1
      <4>. QED BY <1>12, <2>3, <3>1, <4>1, <4>2
    <3>2. CASE ml' = <<[m EXCEPT !.type = "FIN"]>>
      <4>1. PICK e : e = [m EXCEPT !.type = "FIN"]
        OBVIOUS
      <4>2. e = [type |-> e.type, rt |-> e.rt, sar |-> e.sar, count |-> e.count] /\ e.sar \in TxSar
        BY <1>1, <4>1
      <4>. QED BY <1>12, <3>2, <4>1, <4>2
    <3>. QED BY <2>5, <3>1, <3>2
  <2>. QED BY <1>9, <2>5, <2>6, <2>7, <1>0 DEF Numbers
<1>7. CASE TxFin
  <2>1. PICK seq \in Seqs : seq = IF m.rt # 0 THEN Sub(sar.not_ackd, 1) ELSE sar.not_ackd
    BY <1>0, <1>1
  <2>2. /\ \/ wire' = wire
           \/ wire' = wire \cup {Segment("FIN", seq, 0)}
        /\ \/ tx' = tx
           \/ tx' = TxSarFromTx(Add(sar.not_ackd, 1), TRUE, TRUE)
           \/ tx' = TxSarFromTx(sar.not_ackd, TRUE, FALSE)
        /\ ml' = <<>>
    BY <1>7, <2>1 DEF TxFin, Send, m, sar
  <2>3. tx' \in TxSar /\ tx'.ackd = tx.ackd
    <3>1. Add(sar.not_ackd, 1) \in Seqs
      BY <1>0, <1>1
    <3>2. TRUE \in BOOLEAN /\ FALSE \in BOOLEAN
      OBVIOUS
    <3>3. CASE tx' = tx
      BY <1>0, <3>3
    <3>4. CASE tx' = TxSarFromTx(Add(sar.not_ackd, 1), TRUE, TRUE)
      BY <1>0, <3>1, <3>2, <3>4, FromTxTyped
    <3>5. CASE tx' = TxSarFromTx(sar.not_ackd, TRUE, FALSE)
      BY <1>0, <1>1, <3>2, <3>5, FromTxTyped
    <3>. QED BY <2>2, <3>3, <3>4, <3>5
  <2>4. \A seg \in wire' : seg.seq \in Seqs /\ seg.len \in Nat
    BY <1>0, <1>2, <2>2 DEF Numbers
  <2>. QED BY <1>9, <2>2, <2>3, <2>4 DEF Numbers
<1>8. CASE TxAck \/ TxRst
  <2>1. \/ wire' = wire \cup {Segment("ACK", 0, 0)}
        \/ wire' = wire \cup {Segment("RST", sar.not_ackd, 0)}
    BY <1>8 DEF TxAck, TxRst, sar
  <2>2. \A seg \in wire' : seg.seq \in Seqs /\ seg.len \in Nat
    BY <1>0, <1>1, <1>2, <2>1 DEF Numbers
  <2>3. tx' = tx /\ ml' = <<>>
    BY <1>8 DEF TxAck, TxRst
  <2>. QED BY <1>9, <2>2, <2>3 DEF Numbers
<1>10. CASE \E type \in Openers : TxOpening(type, type)
  <2>1. PICK kind \in Openers : TxOpening(kind, kind)
    BY <1>10
  <2>2. CASE m.rt = 0
    <3>1. PICK isn \in Draws :
            wire' = wire \cup {Segment(kind, isn, 0)} /\ tx' = TxSarInitFromTx(Add(isn, 1))
      BY <2>1, <2>2 DEF TxOpening, Send, m
    <3>2. isn \in Seqs /\ Add(isn, 1) \in Seqs
      BY DrawsTyped, SeqsClosed
    <3>3. \A seg \in wire' : seg.seq \in Seqs /\ seg.len \in Nat
      BY <1>0, <1>2, <3>1, <3>2 DEF Numbers
    <3>4. tx' \in TxSar /\ tx'.ackd = isn
      <4>1. Sub(Add(isn, 1), 1) = isn
        BY <3>2, AddSubOne
      <4>. QED BY <1>0, <3>1, <3>2, <4>1 DEF TxSarInitFromTx, TxSar
    <3>5. Opens(ml[1]) /\ ml' = <<>>
      BY <2>1, <2>2 DEF Opens, TxOpening, Handles, m
    <3>. QED BY <1>9, <3>3, <3>4, <3>5 DEF Numbers
  <2>3. CASE m.rt # 0
    <3>1. wire' = wire \cup {Segment(kind, sar.ackd, 0)} /\ ml' = <<>> /\ tx' = tx
      BY <2>1, <2>3 DEF TxOpening, Send, m, sar
    <3>2. \A seg \in wire' : seg.seq \in Seqs /\ seg.len \in Nat
      BY <1>0, <1>1, <1>2, <3>1 DEF Numbers
    <3>. QED BY <1>0, <1>9, <3>1, <3>2 DEF Numbers
  <2>. QED BY <2>2, <2>3
<1>. QED BY <1>11, <1>5, <1>6, <1>7, <1>8, <1>10 DEF TxStep, TxSyn, TxSynAck, Openers

LEMMA NumbersStep ==
  ASSUME Numbers, PacketInv, [Next]_sessionVars
  PROVE  Numbers'
<1>. DEFINE Entry == [type : {"SYN", "FIN", "TX"}, end : Seqs]
<1>0. /\ tx \in TxSar /\ mempt \in Seqs /\ cache \in Seq(Entry) /\ 0 \in Seqs
      /\ \A a \in Seqs, n \in Nat : Add(a, n) \in Seqs
  BY SeqsClosed DEF Numbers
<1>1. CASE TxStep
  BY <1>1, TransmitNumbers
<1>2. CASE RxTransition
  <2>1. tx' \in TxSar
    BY <1>2, TransitionNumbers
  <2>. QED BY <1>2, <2>1 DEF RxTransition, Numbers, appSide
<1>3. CASE Arrives
  <2>1. snap' = [prevAck |-> tx.ackd, nextByte |-> tx.not_ackd, count |-> tx.count]
    BY <1>3 DEF Arrives, RxLoad
  <2>2. snap' \in [prevAck : Seqs, nextByte : Seqs, count : Nat]
    BY <1>0, <2>1 DEF TxSar
  <2>. QED BY <1>3, <2>2 DEF Arrives, RxLoad, Numbers, appSide
<1>4. \A T : \A q \in Seq(T) : \A e \in T :
        Append(q, e) \in Seq(T) /\ (q # <<>> => Head(q) \in T /\ Tail(q) \in Seq(T))
  OBVIOUS
<1>5. CASE StatusOk
  <2>1. Head(cache) \in Entry /\ cache' \in Seq(Entry)
    <3>1. cache # <<>> /\ cache' = Tail(cache)
      BY <1>5 DEF StatusOk
    <3>2. \A T : \A q \in Seq(T) : q # <<>> => Head(q) \in T /\ Tail(q) \in Seq(T)
      OBVIOUS
    <3>. QED BY <1>0, <3>1, <3>2
  <2>2. tx' \in TxSar
    BY <1>0, <1>5, <2>1 DEF StatusOk, TxSar
  <2>. QED BY <1>5, <2>1, <2>2 DEF StatusOk, Numbers, rxEng
<1>6. CASE \E n \in WriteSizes : StreamWrite(n)
  <2>1. PICK n \in WriteSizes : StreamWrite(n)
    BY <1>6
  <2>2. Add(mempt, n) \in Seqs
    BY <1>0, WriteSizesAssumption
  <2>3. Cached("TX", Add(mempt, n)) \in Entry
    BY <2>2 DEF Cached
  <2>. HIDE DEF Entry
  <2>4. mempt' \in Seqs /\ cache' \in Seq(Entry)
    BY <1>0, <1>4, <2>1, <2>2, <2>3 DEF StreamWrite
  <2>. QED BY <2>1, <2>4 DEF StreamWrite, Numbers, rxEng, Entry
<1>7. CASE AppOpen \/ AppClose
  <2>1. Cached("SYN", 0) \in Entry /\ Cached("FIN", 0) \in Entry
    BY <1>0 DEF Cached
  <2>. HIDE DEF Entry
  <2>2. cache' \in Seq(Entry)
    BY <1>0, <1>4, <1>7, <2>1 DEF AppOpen, AppClose
  <2>. QED BY <1>7, <2>2 DEF AppOpen, AppClose, Numbers, rxEng, Entry
<1>8. CASE UNCHANGED <<tx, mempt, snap, cache, ml, wire>>
  BY <1>8 DEF Numbers
<1>. QED BY <1>1, <1>2, <1>3, <1>5, <1>6, <1>7, <1>8
     DEF Next, Expires, Local, RtDue, ProbeDue, CloseDue, RtExpires, ProbeExpires, CloseExpires,
         EventStep, DelayedAckFires, TakeTimerEvent, TakeAppEvent, ReleaseStep, TimerRelease,
         LookupRelease, AppRequest, AppIfStep, StreamRequest, PeerSends, PeerReads, PeerReceives,
         engine, rxEng, appSide, sessionVars

(* In SYN_SENT only the SYN moves not_ackd. *)
LEMMA SynNumberStep ==
  ASSUME CloseInv, Numbers, PacketInv, FirstNumbers, SynNumber, [Next]_sessionVars
  PROVE  SynNumber'
<1>1. SUFFICES ASSUME state' = "SYN_SENT" PROVE SynNumber'
  BY DEF SynNumber
<1>2. tx \in TxSar
  BY DEF Numbers
<1>3. CASE AppOpen
  <2>1. Untouched
    BY <1>3 DEF AppOpen, CloseInv
  <2>. QED BY <1>3, <2>1 DEF AppOpen, Untouched, SynNumber, TxSarReset, rxEng
<1>4. CASE RxTransition
  <2>1. state = "SYN_SENT"
    <3>1. \E p : OnAck(p) \/ OnSyn(p) \/ OnSynAck(p) \/ OnFin(p) \/ OnRst(p)
      BY <1>4 DEF RxTransition
    <3>. QED BY <1>1, <3>1
         DEF OnAck, OnSyn, OnSynAck, OnFin, OnRst, WriteState, AllAckedMoves, Moves, Acking
  <2>2. tx'.not_ackd = tx.not_ackd /\ rxPkt' = <<>>
    BY <1>4, TransitionNumbers DEF RxTransition
  <2>. QED BY <2>1, <2>2 DEF SynNumber
<1>5. CASE state = "SYN_SENT" /\ ~RxTransition
  <2>1. OpenUnderWay /\ tx.not_ackd \in {0, Add(Isn, 1)}
    BY <1>5 DEF CloseInv, SynNumber
  <2>2. CASE TxStep
    <3>1. TxLoad \/ TxSyn \/ TxAck \/ TxRst
      BY <2>1, <2>2 DEF TxStep, TxData, TxRetransmit, TxFin, TxSynAck, TxOpening, Handles, OpenUnderWay, Opening
    <3>2. tx' = tx \/ tx' = TxSarInitFromTx(Add(Isn, 1))
      <4>1. CASE TxSyn
        <5>1. TxOpening("SYN", "SYN") /\ "SYN" \in Openers
          BY <4>1 DEF TxSyn, Openers
        <5>. QED BY <5>1, OpeningOnce
      <4>. QED BY <3>1, <4>1 DEF TxLoad, TxAck, TxRst
    <3>3. tx'.not_ackd \in {0, Add(Isn, 1)}
      BY <1>2, <2>1, <3>2 DEF TxSarInitFromTx, TxSar
    <3>. QED BY <1>5, <3>1, <3>3 DEF SynNumber, TxLoad, TxSyn, TxOpening, TxAck, TxRst, MetaRest, rxEng
  <2>3. CASE Arrives
    <3>1. tx' = tx /\ snap'.nextByte = tx.not_ackd
      BY <2>3 DEF Arrives, RxLoad
    <3>. QED BY <2>1, <3>1 DEF SynNumber
  <2>4. CASE StatusOk
    <3>1. tx'.not_ackd = tx.not_ackd
      BY <1>2, <2>4 DEF StatusOk, TxSar
    <3>. QED BY <1>5, <2>1, <2>4, <3>1 DEF StatusOk, SynNumber, rxEng
  <2>5. CASE UNCHANGED <<tx, snap, rxPkt>>
    BY <1>5, <2>5 DEF SynNumber
  <2>. QED BY <1>3, <1>5, <2>2, <2>3, <2>4, <2>5
       DEF Next, Expires, Local, RtDue, ProbeDue, CloseDue, RtExpires, ProbeExpires, CloseExpires,
           EventStep, DelayedAckFires, TakeTimerEvent, TakeAppEvent, ReleaseStep, TimerRelease,
           LookupRelease, AppRequest, AppIfStep, AppClose, StreamWrite, StreamRequest, PeerSends, PeerReads,
           PeerReceives, engine, rxEng, sessionVars
<1>6. CASE state # "SYN_SENT" /\ ~RxTransition /\ ~AppOpen
  <2>1. FALSE
    <3>1. state' = state \/ state' = "CLOSED" \/ state' = AppCloseWrites(state)
      BY <1>6
         DEF Next, Expires, Local, RtDue, ProbeDue, CloseDue, RtExpires, ProbeExpires, CloseExpires,
             EventStep, DelayedAckFires, TakeTimerEvent, TakeAppEvent, ReleaseStep, TimerRelease,
             LookupRelease, AppRequest, AppIfStep, AppClose, StreamWrite, StreamRequest, StatusOk, PeerSends,
             PeerReads, PeerReceives, Arrives, RxLoad, WriteState, TxStep, TxLoad, TxData, TxRetransmit,
             TxFin, TxSyn, TxSynAck, TxOpening, TxAck, TxRst, MetaRest, engine, table, sessionVars
    <3>. QED BY <1>1, <1>6, <3>1 DEF AppCloseWrites
  <2>. QED BY <2>1
<1>. QED BY <1>3, <1>4, <1>5, <1>6

(* What the engine knows of the peer's stream stays true.  The session is  *)
(* opened either by a segment of the peer that has received the SYN_ACK,   *)
(* or actively, when the number of the SYN is the only one that there is.  *)
LEMMA RecvdStep ==
  ASSUME BothInv, OpenedOnce => SegmentInv /\ SynNumber, [Next]_sessionVars
  PROVE  RecvdInv'
<1>0. /\ peer.rcvd \in Nat /\ peer'.rcvd \in Nat /\ peer'.rcvd >= peer.rcvd
      /\ peer.sent \in Nat /\ peer'.sent \in Nat /\ peer'.sent >= peer.sent
      /\ peer.fin \in BOOLEAN /\ peer'.fin \in BOOLEAN
      /\ peer.fin => peer'.fin /\ peer'.sent = peer.sent
  BY PeerStep DEF BothInv, CloseInv, PeerInv, PeerBytes
<1>1. PICK used \in Nat : used = PeerUsed
  BY <1>0 DEF PeerUsed
<1>2. PICK used1 \in Nat : used1 = PeerUsed'
  BY <1>0 DEF PeerUsed
<1>3. used >= 1 + peer.sent /\ used1 >= used /\ used >= 1 /\ (peer.fin => used = 2 + peer.sent)
  <2>1. used = 1 + peer.sent + (IF peer.fin THEN 1 ELSE 0)
    BY <1>1 DEF PeerUsed
  <2>2. used1 = 1 + peer'.sent + (IF peer'.fin THEN 1 ELSE 0)
    BY <1>2 DEF PeerUsed
  <2>. QED BY <1>0, <2>1, <2>2
<1>4. used <= SeqMod - 1
  <2>1. peer.sent <= peer.plan.peerBytes /\ peer.plan.peerBytes \in Nat /\ peer.plan.peerBytes + 2 < SeqMod
    BY PlanAssumption DEF BothInv, PeerInv, PeerBytes
  <2>2. used <= 2 + peer.sent
    BY <1>0, <1>1 DEF PeerUsed
  <2>3. SeqMod \in Nat
    BY Wraps
  <2>. QED BY <1>0, <1>1, <2>1, <2>2, <2>3
<1>. DEFINE Taken(seq, n) == \E r \in 1 .. n : seq = Add(PeerIsn, r)
<1>5. \A seq : Taken(seq, used) => Taken(seq, used1)
  BY <1>0, <1>3
<1>7. SUFFICES
        /\ state' \in Opened => peer'.rcvd > 0
        /\ state' \in Opened \cup {"SYN_RECEIVED"} => Taken(recvd', used1)
  BY <1>2 DEF RecvdInv
<1>8. /\ state \in Opened => peer.rcvd > 0
      /\ state \in Opened \cup {"SYN_RECEIVED"} => Taken(recvd, used)
  BY <1>1 DEF BothInv, RecvdInv
<1>. HIDE DEF Taken
<1>9. CASE RxTransition
  <2>1. PICK p : p = rxPkt[1]
    OBVIOUS
  <2>2. /\ rxPkt # <<>>
        /\ \/ tx'.ackd = tx.ackd
           \/ p.kind # "SYN" /\ tx'.ackd = p.ack
           \/ state' = "SYN_RECEIVED"
        /\ \/ recvd' = recvd
           \/ p.kind \in {"SYN", "SYN_ACK"} /\ recvd' = Add(p.seq, 1)
           \/ p.kind = "ACK" /\ p.len # 0 /\ p.seq = recvd /\ recvd' = Add(recvd, p.len)
           \/ p.kind = "FIN" /\ recvd' = Add(p.seq, p.len + 1)
        /\ state' \in Opened /\ state \notin Opened =>
             /\ p.kind # "SYN" /\ tx'.ackd = p.ack
             /\ \/ p.kind = "ACK" /\ state = "SYN_RECEIVED"
                \/ /\ p.kind = "SYN_ACK" /\ state = "SYN_SENT" /\ p.ack = snap.nextByte
                   /\ recvd' = Add(p.seq, 1)
        /\ state' = "SYN_RECEIVED" =>
             \/ state = "SYN_RECEIVED"
             \/ p.kind = "SYN" /\ recvd' = Add(p.seq, 1)
    BY <1>9, <2>1, TransitionNumbers DEF BothInv
  <2>3. /\ p.kind \in {"SYN", "SYN_ACK"} => p.seq = PeerIsn
        /\ p.kind \in {"ACK", "FIN"} => peer.rcvd > 0
        /\ p.kind = "ACK" /\ p.len # 0 => p.len = 1 /\ \E i \in 1 .. peer.sent : p.seq = Add(PeerIsn, i)
        /\ p.kind = "FIN" => p.len = 0 /\ peer.fin /\ p.seq = Add(PeerIsn, 1 + peer.sent)
    BY <2>1, <2>2 DEF BothInv, PacketInv, PacketIs
  <2>4. p.kind \in {"SYN", "SYN_ACK"} => Taken(Add(p.seq, 1), used)
    BY <1>3, <2>3 DEF Taken
  <2>5. p.kind = "ACK" /\ p.len # 0 => Taken(Add(p.seq, p.len), used)
    <3>1. SUFFICES ASSUME p.kind = "ACK", p.len # 0 PROVE Taken(Add(p.seq, 1), used)
      BY <2>3
    <3>2. PICK i \in 1 .. peer.sent : p.seq = Add(PeerIsn, i)
      BY <2>3, <3>1
    <3>3. i \in 0 .. SeqMod - 1 /\ i < SeqMod - 1 /\ i + 1 \in 1 .. used
      BY <1>0, <1>3, <1>4, Wraps
    <3>4. Add(p.seq, 1) = Add(PeerIsn, i + 1)
      BY <3>2, <3>3, PeerNumbers
    <3>. QED BY <3>3, <3>4 DEF Taken
  <2>6. p.kind = "FIN" => Taken(Add(p.seq, p.len + 1), used)
    <3>1. SUFFICES ASSUME p.kind = "FIN" PROVE Taken(Add(p.seq, 1), used)
      <4>1. p.kind = "FIN" => p.len + 1 = 1
        BY <2>3
      <4>. QED BY <4>1
    <3>2. PICK i : i = 1 + peer.sent
      OBVIOUS
    <3>3. i \in 0 .. SeqMod - 1 /\ i < SeqMod - 1 /\ i + 1 \in 1 .. used /\ p.seq = Add(PeerIsn, i)
      BY <1>0, <1>3, <1>4, <2>3, <3>1, <3>2, Wraps
    <3>4. Add(p.seq, 1) = Add(PeerIsn, i + 1)
      BY <3>3, PeerNumbers
    <3>. QED BY <3>3, <3>4 DEF Taken
  <2>7. state' \in Opened \cup {"SYN_RECEIVED"} => Taken(recvd', used1)
    <3>1. recvd' = recvd \/ Taken(recvd', used)
      BY <2>2, <2>4, <2>5, <2>6
    <3>2. state' \in Opened \cup {"SYN_RECEIVED"} =>
            state \in Opened \cup {"SYN_RECEIVED"} \/ Taken(recvd', used)
      BY <2>2, <2>3, <2>4
    <3>. QED BY <1>5, <1>8, <3>1, <3>2
  <2>8. state' \in Opened => peer'.rcvd > 0
    <3>1. SUFFICES ASSUME state' \in Opened, state \notin Opened, p.kind # "ACK" PROVE peer.rcvd > 0
      BY <1>0, <1>8, <2>3
    <3>2. p.kind = "SYN_ACK" /\ state = "SYN_SENT" /\ p.ack = snap.nextByte
      BY <2>2, <3>1
    <3>3. SegmentInv /\ SynNumber
      BY <3>2 DEF BothInv, CloseInv, OpenUnderWay, OpenedOnce
    <3>4. p.ack # Isn
      <4>1. snap.nextByte \in {0, Add(Isn, 1)}
        BY <2>2, <3>2, <3>3 DEF SynNumber
      <4>. QED BY <3>2, <4>1, SynIsBehind, IsnAssumption
    <3>5. PICK a \in 0 .. peer.rcvd : p.ack = Add(Isn, a)
      BY <2>1, <2>2, <3>2, <3>3 DEF SegmentInv
    <3>6. a # 0
      BY <3>4, <3>5, SynIsBehind
    <3>. QED BY <1>0, <3>6
  <2>. QED BY <2>7, <2>8
<1>10. CASE ~RxTransition
  <2>1. recvd' = recvd
    BY <1>10
       DEF Next, Expires, Local, RtDue, ProbeDue, CloseDue, RtExpires, ProbeExpires, CloseExpires,
           EventStep, DelayedAckFires, TakeTimerEvent, TakeAppEvent, ReleaseStep, TimerRelease,
           LookupRelease, AppRequest, AppOpen, AppIfStep, AppClose, StreamWrite, StreamRequest, StatusOk,
           PeerSends, PeerReads, PeerReceives, Arrives, RxLoad, TxStep, TxLoad, TxData, TxRetransmit,
           TxFin, TxSyn, TxSynAck, TxOpening, TxAck, TxRst, MetaRest, engine, sessionVars
  <2>3. state' \in Opened \cup {"SYN_RECEIVED"} => state' = state \/ (state \in Opened /\ state' \in Opened)
    <3>1. state' = state \/ state' \in {"CLOSED", "SYN_SENT"} \/ state' = AppCloseWrites(state)
      BY <1>10
         DEF Next, Expires, Local, RtDue, ProbeDue, CloseDue, RtExpires, ProbeExpires, CloseExpires,
             EventStep, DelayedAckFires, TakeTimerEvent, TakeAppEvent, ReleaseStep, TimerRelease,
             LookupRelease, AppRequest, AppOpen, AppIfStep, AppClose, StreamWrite, StreamRequest, StatusOk,
             PeerSends, PeerReads, PeerReceives, Arrives, RxLoad, WriteState, TxStep, TxLoad, TxData,
             TxRetransmit, TxFin, TxSyn, TxSynAck, TxOpening, TxAck, TxRst, MetaRest, engine, table, sessionVars
    <3>. QED BY <3>1 DEF AppCloseWrites, Closeable, Opened, Synchronized
  <2>. QED BY <1>0, <1>5, <1>8, <2>1, <2>3
<1>. QED BY <1>9, <1>10

(* ackd is a number that the peer has told. *)
LEMMA StreamStep ==
  ASSUME AgreeInv, [Next]_sessionVars
  PROVE  StreamInv'
<1>0. /\ Numbers /\ PeerInv /\ PacketInv /\ CloseInv /\ FirstNumbers /\ StreamInv
      /\ peer.rcvd \in Nat /\ peer'.rcvd \in Nat /\ peer'.rcvd >= peer.rcvd
  BY PeerStep DEF AgreeInv, BothInv, CloseInv, PeerInv
<1>1. RecvdInv'
  BY RecvdStep DEF AgreeInv
<1>. DEFINE Acked(seq, n) == \E a \in 0 .. n : seq = Add(Isn, a)
<1>2. \A seq : Acked(seq, peer.rcvd) => Acked(seq, peer'.rcvd)
  BY <1>0
<1>3. Acked(Isn, peer'.rcvd)
  <2>1. 0 \in 0 .. peer'.rcvd /\ Isn = Add(Isn, 0)
    BY <1>0, SynIsBehind
  <2>. QED BY <2>1
<1>4. SUFFICES ASSUME state' \in Opened PROVE Acked(tx'.ackd, peer'.rcvd)
  BY <1>1 DEF StreamInv
<1>5. state \in Opened => Acked(tx.ackd, peer.rcvd)
  BY <1>0 DEF StreamInv
<1>6. rxPkt # <<>> /\ rxPkt[1].kind # "SYN" => Acked(rxPkt[1].ack, peer.rcvd)
  BY DEF AgreeInv, SegmentInv
<1>. HIDE DEF Acked
<1>7. CASE RxTransition
  <2>1. PICK p : p = rxPkt[1]
    OBVIOUS
  <2>2. /\ rxPkt # <<>>
        /\ \/ tx'.ackd = tx.ackd
           \/ p.kind # "SYN" /\ tx'.ackd = p.ack
           \/ state' = "SYN_RECEIVED"
        /\ state' \in Opened /\ state \notin Opened => p.kind # "SYN" /\ tx'.ackd = p.ack
    BY <1>0, <1>7, <2>1, TransitionNumbers
  <2>3. state' # "SYN_RECEIVED"
    BY <1>4 DEF Opened, Synchronized
  <2>. QED BY <1>2, <1>4, <1>5, <1>6, <2>1, <2>2, <2>3
<1>8. CASE ~RxTransition
  <2>1. tx'.ackd = tx.ackd \/ tx'.ackd = Isn
    <3>1. CASE TxStep
      BY <1>0, <3>1, TransmitNumbers, DrawsTyped DEF FirstNumbers
    <3>2. CASE StatusOk
      BY <1>0, <3>2 DEF StatusOk, Numbers, TxSar
    <3>3. CASE UNCHANGED tx
      BY <3>3
    <3>. QED BY <1>8, <3>1, <3>2, <3>3
         DEF Next, Expires, Local, RtDue, ProbeDue, CloseDue, RtExpires, ProbeExpires, CloseExpires,
             EventStep, DelayedAckFires, TakeTimerEvent, TakeAppEvent, ReleaseStep, TimerRelease,
             LookupRelease, AppRequest, AppOpen, AppIfStep, AppClose, StreamWrite, StreamRequest,
             PeerSends, PeerReads, PeerReceives, Arrives, RxLoad, engine, sessionVars
  <2>2. state \in Opened
    <3>1. state' = state \/ state' \in {"CLOSED", "SYN_SENT"} \/ state' = AppCloseWrites(state)
      BY <1>8
         DEF Next, Expires, Local, RtDue, ProbeDue, CloseDue, RtExpires, ProbeExpires, CloseExpires,
             EventStep, DelayedAckFires, TakeTimerEvent, TakeAppEvent, ReleaseStep, TimerRelease,
             LookupRelease, AppRequest, AppOpen, AppIfStep, AppClose, StreamWrite, StreamRequest, StatusOk,
             PeerSends, PeerReads, PeerReceives, Arrives, RxLoad, WriteState, TxStep, TxLoad, TxData,
             TxRetransmit, TxFin, TxSyn, TxSynAck, TxOpening, TxAck, TxRst, MetaRest, engine, table, sessionVars
    <3>. QED BY <1>4, <3>1 DEF AppCloseWrites, Closeable, Opened, Synchronized
  <2>. QED BY <1>2, <1>3, <1>5, <2>1, <2>2
<1>. QED BY <1>7, <1>8

(* The invariants, at first and from step to step. *)
LEMMA AgreeInit ==
  Init => BothInv /\ AgreeInv
<1>1. SUFFICES ASSUME Init PROVE BothInv /\ AgreeInv
  OBVIOUS
<1>2. CloseInv
  BY <1>1, CloseInit
<1>3. Numbers
  <2>1. tx \in TxSar
    BY <1>1, SeqsClosed DEF Init, TxSarReset, TxSar
  <2>2. snap \in [prevAck : Seqs, nextByte : Seqs, count : Nat]
    BY <1>1, SeqsClosed DEF Init
  <2>. QED BY <1>1, <2>1, <2>2, SeqsClosed DEF Init, Numbers
<1>4. PICK plan \in Plans : \E calls \in plan.calls :
        peer = [plan |-> plan, calls |-> calls, phase |-> "idle", irs |-> Isn, rcvd |-> 0,
                sent |-> 0, fin |-> FALSE, credit |-> plan.firstCredit, told |-> 1]
  BY <1>1 DEF Init
<1>5. PeerInv
  BY <1>4, PlanAssumption, SeqsClosed DEF PeerInv, PeerBytes
<1>6. PacketInv /\ SegmentInv /\ SynNumber /\ RecvdInv /\ StreamInv
  BY <1>1 DEF Init, PacketInv, SegmentInv, SynNumber, StreamInv, RecvdInv, Opened, Synchronized
<1>7. FirstNumbers
  BY <1>1, <1>4 DEF Init, FirstNumbers, OpenedOnce
<1>. QED BY <1>2, <1>3, <1>5, <1>6, <1>7 DEF AgreeInv, BothInv

LEMMA BothStep ==
  ASSUME BothInv, OpenedOnce => AgreeInv, [Next]_sessionVars
  PROVE  BothInv'
<1>1. Shape /\ CloseInv /\ Numbers /\ PeerInv /\ PacketInv
  BY DEF BothInv, CloseInv
<1>2. CloseInv'
  BY <1>1, CloseStep
<1>3. RecvdInv'
  BY RecvdStep DEF AgreeInv
<1>. QED BY <1>1, <1>2, <1>3, NumbersStep, PeerStep, PacketStep DEF BothInv

(* That the session is opened with the first number is proved below. *)
LEMMA AgreeStep ==
  ASSUME AgreeInv, [Next]_sessionVars, FirstNumbers'
  PROVE  AgreeInv'
<1>1. Shape /\ CloseInv /\ Numbers /\ PeerInv /\ PacketInv /\ FirstNumbers /\ SegmentInv /\ SynNumber
  BY DEF AgreeInv, BothInv, CloseInv
<1>2. BothInv' /\ StreamInv'
  BY BothStep, StreamStep DEF AgreeInv
<1>3. SegmentInv' /\ SynNumber'
  BY <1>1, SegmentStep, SynNumberStep
<1>. QED BY <1>2, <1>3 DEF AgreeInv

-----------------------------------------------------------------------------
(* NoGaps.  The copies of metaLoader and the table agree that everything   *)
(* below not_ackd was sent, but only after the number of the SYN has been  *)
(* written, which says 0 before; and finSent, which the phantom byte of    *)
(* the FIN sets for good, is reset by the segment that opens a session.    *)
(* So the invariant also says that an opening comes first: until the peer  *)
(* has been reached, or while an opening segment is handled, there is no   *)
(* data and no FIN under way anywhere, and the first SYN or SYN_ACK that   *)
(* tx_engine handles is not a repetition, which would not write the table. *)

Calm == Openers \cup {"RST", "ACK", "ACK_NODELAY"}
CalmEvent == [type : Calm, rt : Nat]
FirstSyn == [type : {"SYN"}, rt : {0}]

(* The segments of w hold every byte before seq. *)
CoveredBy(w, seq) == \A i \in 1 .. Pos(seq) - 1 : \E seg \in w : Covers(seg, i)

(* Nothing but an opening is under way. *)
Fresh ==
  /\ ~Known /\ streamReq = <<>> /\ ~probe
  /\ cache \in Seq([type : {"SYN"}, end : {0}]) /\ appEv \in Seq(FirstSyn)
  /\ pipe \in Seq(CalmEvent) /\ timerEv \in Seq(CalmEvent)
  /\ rt \in [active : BOOLEAN, retries : Nat, type : Openers \cup {"RT"}]
  /\ rt.active => rt.type \in Openers
  /\ ~tx.finSent
  /\ ml # <<>> => ml[1].type \in Calm /\ ~ml[1].sar.finSent

OpeningSegment == rxPkt # <<>> /\ rxPkt[1].kind = "SYN"

(* The peer has not been reached, or the session opens just now. *)
Starts == peer.rcvd = 0 \/ OpeningSegment \/ state = "SYN_SENT"

FreshInv == Starts => Fresh

(* In the queue q, which is handled after m, an opening for the first time *)
(* comes before place k. *)
OpeningFirst(m, q, k) ==
  \/ m # <<>> /\ m[1].type \in Openers
  \/ \E j \in 1 .. k - 1 : q[j].type \in Openers /\ q[j].rt = 0

(* One comes before every repetition. *)
Ordered(m, q) ==
  \A k \in 1 .. Len(q) : q[k].type \in Openers /\ q[k].rt # 0 => OpeningFirst(m, q, k)

OrderInv ==
  ~Called =>
    /\ timerEv = <<>> /\ ~rt.active
    /\ ml # <<>> /\ ml[1].type \in Openers => ml[1].rt = 0
    /\ Ordered(ml, pipe)
    /\ state = "SYN_RECEIVED" => OpeningFirst(ml, pipe, Len(pipe) + 1)

CoverInv ==
  /\ peer.rcvd > 0 => Called
  /\ Called /\ ~tx.finSent =>
       /\ CoveredBy(wire, tx.not_ackd)
       /\ ml # <<>> /\ ml[1].type \in {"TX", "FIN"} => CoveredBy(wire, ml[1].sar.not_ackd)
  /\ ml # <<>> /\ ml[1].sar.finSent => tx.finSent

GapInv == AgreeInv /\ FreshInv /\ OrderInv /\ CoverInv

(* A sum moves the position on, unless it passes the number of the SYN.    *)
LEMMA PosOfSum ==
  ASSUME NEW s \in Seqs, NEW n \in 0 .. SeqMod - 1
  PROVE  /\ Pos(s) \in Seqs /\ Pos(Add(s, n)) \in Seqs
         /\ Pos(Add(s, n)) = Pos(s) + n \/ Pos(Add(s, n)) = Pos(s) + n - SeqMod
<1>0. SeqMod \in Nat /\ SeqMod >= 2 /\ Isn \in 1 .. SeqMod - 1
  BY Wraps
<1>1. \A x \in Seqs : Pos(x) = IF x >= Isn THEN x - Isn ELSE x + SeqMod - Isn
  <2>1. SUFFICES ASSUME NEW x \in Seqs PROVE Pos(x) = IF x >= Isn THEN x - Isn ELSE x + SeqMod - Isn
    OBVIOUS
  <2>2. CASE x >= Isn
    <3>1. PICK y : y = x + SeqMod - Isn
      OBVIOUS
    <3>2. y \in SeqMod .. 2 * SeqMod - 1 /\ y - SeqMod = x - Isn
      BY <1>0, <2>2, <3>1 DEF Seqs
    <3>3. Pos(x) = y % SeqMod
      BY <3>1 DEF Pos, Sub
    <3>4. Pos(x) = y - SeqMod
      BY <3>2, <3>3, Wraps
    <3>. QED BY <2>2, <3>2, <3>4
  <2>3. CASE x < Isn
    <3>1. x + SeqMod - Isn \in Seqs
      BY <1>0, <2>3 DEF Seqs
    <3>. QED BY <1>0, <2>3, <3>1, Wraps DEF Pos, Sub, Seqs
  <2>. QED BY <1>0, <2>2, <2>3 DEF Seqs
<1>2. PICK t \in Seqs : t = Add(s, n) /\ (t = s + n \/ t = s + n - SeqMod)
  <2>0. Add(s, n) \in Seqs
    BY <1>0, SeqsClosed
  <2>1. ASSUME s + n < SeqMod PROVE Add(s, n) = s + n
    BY <1>0, <2>1, Wraps DEF Add, Seqs
  <2>2. ASSUME s + n >= SeqMod PROVE Add(s, n) = s + n - SeqMod
    <3>1. PICK y : y = s + n
      OBVIOUS
    <3>2. y \in SeqMod .. 2 * SeqMod - 1
      BY <1>0, <2>2, <3>1 DEF Seqs
    <3>3. Add(s, n) = y % SeqMod
      BY <3>1 DEF Add
    <3>4. Add(s, n) = y - SeqMod
      BY <3>2, <3>3, Wraps
    <3>. QED BY <1>0, <3>1, <3>4 DEF Seqs
  <2>3. s + n < SeqMod \/ s + n >= SeqMod
    BY <1>0 DEF Seqs
  <2>4. Add(s, n) = s + n \/ Add(s, n) = s + n - SeqMod
    BY <2>1, <2>2, <2>3
  <2>. QED BY <2>0, <2>4
<1>3. Pos(s) = (IF s >= Isn THEN s - Isn ELSE s + SeqMod - Isn)
      /\ Pos(t) = IF t >= Isn THEN t - Isn ELSE t + SeqMod - Isn
  BY <1>1
<1>. QED BY <1>0, <1>2, <1>3 DEF Seqs

(* Bytes that are sent next to what is covered are covered.  When the      *)
(* position falls back, everything before it was covered already. *)
LEMMA CoverMore ==
  ASSUME NEW w, NEW w1, w \subseteq w1, NEW s \in Seqs, NEW n \in 0 .. Mms, CoveredBy(w, s),
         n # 0 => Segment("DATA", s, n) \in w1
  PROVE  CoveredBy(w1, Add(s, n))
<1>0. SeqMod \in Nat /\ n \in 0 .. SeqMod - 1 /\ Pos(s) \in Nat /\ Pos(Add(s, n)) \in Nat
      /\ (Pos(Add(s, n)) = Pos(s) + n \/ Pos(Add(s, n)) = Pos(s) + n - SeqMod)
  <2>1. SeqMod \in Nat /\ n \in 0 .. SeqMod - 1
    BY Wraps, SeqAssumption
  <2>. QED BY <2>1, PosOfSum, SeqsClosed
<1>1. SUFFICES ASSUME NEW i \in 1 .. Pos(Add(s, n)) - 1 PROVE \E seg \in w1 : Covers(seg, i)
  BY DEF CoveredBy
<1>2. CASE i < Pos(s)
  <2>1. i \in 1 .. Pos(s) - 1
    BY <1>0, <1>2
  <2>. QED BY <2>1 DEF CoveredBy
<1>3. CASE i >= Pos(s)
  <2>1. n # 0 /\ i < Pos(s) + n
    BY <1>0, <1>3
  <2>2. Covers(Segment("DATA", s, n), i)
    BY <1>3, <2>1 DEF Covers, Segment
  <2>. QED BY <2>1, <2>2
<1>. QED BY <1>0, <1>2, <1>3

(* Nothing lies before the first byte. *)
LEMMA CoverFirst ==
  ASSUME NEW w
  PROVE  CoveredBy(w, Add(Isn, 1))
<1>1. Pos(Add(Isn, 1)) <= 1 /\ Pos(Add(Isn, 1)) \in Nat
  BY PosOfAdd, SynIsBehind, SeqsClosed DEF Pos
<1>. QED BY <1>1 DEF CoveredBy

LEMMA CoverKept ==
  ASSUME NEW w, NEW w1, w \subseteq w1, NEW s, CoveredBy(w, s)
  PROVE  CoveredBy(w1, s)
  BY DEF CoveredBy

-----------------------------------------------------------------------------
(* The steps of what is fresh. *)

LEMMA CalmEvents ==
  ASSUME NEW q \in Seq(CalmEvent), NEW e \in CalmEvent
  PROVE  /\ Append(q, e) \in Seq(CalmEvent)
         /\ q # <<>> => Head(q) \in CalmEvent /\ Tail(q) \in Seq(CalmEvent) /\ Head(q).type \in Calm
<1>1. \A T : \A r \in Seq(T) : \A x \in T :
        Append(r, x) \in Seq(T) /\ (r # <<>> => Head(r) \in T /\ Tail(r) \in Seq(T))
  OBVIOUS
<1>2. \A x \in CalmEvent : x.type \in Calm
  BY DEF CalmEvent
<1>. QED BY <1>1, <1>2

LEMMA CalmPasses ==
  ASSUME NEW type \in Calm, NEW n \in Nat, pipe \in Seq(CalmEvent), Passes(pipe, Ev(type, n))
  PROVE  pipe' \in Seq(CalmEvent)
<1>1. Ev(type, n) \in CalmEvent
  BY DEF Ev, CalmEvent
<1>. QED BY <1>1, CalmEvents DEF Passes

(* A failure does not make the session known. *)
LEMMA StaysUnknown ==
  ASSUME answers \in Seq(BOOLEAN), ~Known, "DATA" \notin told',
         answers' = answers \/ answers' = Append(answers, FALSE)
  PROVE  ~Known'
<1>1. CASE answers' = answers
  BY <1>1 DEF Known
<1>2. CASE answers' = Append(answers, FALSE)
  <2>1. answers' # <<>> /\ answers'[1] = IF answers = <<>> THEN FALSE ELSE answers[1]
    BY <1>2, AnswersGrow
  <2>. QED BY <2>1 DEF Known
<1>. QED BY <1>1, <1>2

LEMMA RtCleared ==
  ASSUME Fresh, NEW stop \in BOOLEAN, ClearRetransmit(stop)
  PROVE  /\ rt' \in [active : BOOLEAN, retries : Nat, type : Openers \cup {"RT"}]
         /\ rt'.active => rt'.type \in Openers
         /\ rt'.active => rt.active
  BY DEF Fresh, ClearRetransmit

(* Where a session goes that opens, it was opening before. *)
LEMMA StartBefore ==
  ASSUME AgreeInv, [Next]_sessionVars, Starts'
  PROVE  Starts
<1>1. Shape /\ Numbers /\ PeerInv /\ CloseInv
  BY DEF AgreeInv, BothInv, CloseInv
<1>2. ASSUME peer'.rcvd = 0 PROVE peer.rcvd = 0
  <2>1. peer.rcvd \in Nat /\ peer'.rcvd >= peer.rcvd
    BY <1>1, PeerStep DEF PeerInv
  <2>. QED BY <1>2, <2>1
<1>3. ASSUME OpeningSegment' PROVE OpeningSegment \/ peer.rcvd = 0
  <2>1. CASE Arrives
    <3>1. PICK p \in Incoming : rxPkt' = <<p>>
      BY <2>1 DEF Arrives, RxLoad
    <3>2. p.kind = "SYN"
      BY <1>3, <3>1 DEF OpeningSegment
    <3>3. peer.phase = "idle"
      BY <3>2 DEF Incoming, InSegment
    <3>. QED BY <1>1, <3>3 DEF PeerInv
  <2>2. CASE rxPkt' = <<>>
    BY <1>3, <2>2 DEF OpeningSegment
  <2>3. CASE rxPkt' = rxPkt
    BY <1>3, <2>3 DEF OpeningSegment
  <2>. QED BY <2>1, <2>2, <2>3
       DEF Next, Expires, Local, RtDue, ProbeDue, CloseDue, RtExpires, ProbeExpires, CloseExpires,
           RxTransition, TxStep, TxLoad, TxData, TxRetransmit, TxFin, TxSyn, TxSynAck, TxOpening, TxAck,
           TxRst, MetaRest, EventStep, DelayedAckFires, TakeTimerEvent, TakeAppEvent, ReleaseStep,
           TimerRelease, LookupRelease, AppRequest, AppIfStep, AppOpen, AppClose, StreamRequest,
           StatusOk, StreamWrite, PeerSends, PeerReads, PeerReceives, engine, rxEng, sessionVars
<1>4. ASSUME state' = "SYN_SENT" PROVE state = "SYN_SENT" \/ peer.rcvd = 0
  <2>1. CASE AppOpen
    <3>1. Untouched
      BY <1>1, <2>1 DEF AppOpen, CloseInv
    <3>. QED BY <1>1, <3>1 DEF Untouched, PeerInv
  <2>2. CASE RxTransition
    <3>1. \E p : OnAck(p) \/ OnSyn(p) \/ OnSynAck(p) \/ OnFin(p) \/ OnRst(p)
      BY <2>2 DEF RxTransition
    <3>. QED BY <1>4, <3>1
         DEF OnAck, OnSyn, OnSynAck, OnFin, OnRst, WriteState, AllAckedMoves, Moves, Acking
  <2>3. CASE state' = state \/ state' = "CLOSED" \/ state' = AppCloseWrites(state)
    BY <1>4, <2>3 DEF AppCloseWrites
  <2>. QED BY <2>1, <2>2, <2>3
       DEF Next, Expires, Local, RtDue, ProbeDue, CloseDue, RtExpires, ProbeExpires, CloseExpires,
           EventStep, DelayedAckFires, TakeTimerEvent, TakeAppEvent, ReleaseStep, TimerRelease,
           LookupRelease, AppRequest, AppIfStep, AppClose, StreamWrite, StreamRequest, StatusOk, PeerSends,
           PeerReads, PeerReceives, Arrives, RxLoad, WriteState, TxStep, TxLoad, TxData, TxRetransmit,
           TxFin, TxSyn, TxSynAck, TxOpening, TxAck, TxRst, MetaRest, engine, table, sessionVars
<1>. QED BY <1>2, <1>3, <1>4 DEF Starts


(* A segment that leaves the session opening. *)
LEMMA FreshTransition ==
  ASSUME AgreeInv, AgreeInv', Fresh, RxTransition, [Next]_sessionVars,
         peer'.rcvd = 0 \/ state' = "SYN_SENT"
  PROVE  Fresh'
<1>. DEFINE p == rxPkt[1]
<1>0. /\ answers \in Seq(BOOLEAN) /\ tx \in TxSar /\ peer.rcvd \in Nat /\ peer'.rcvd >= peer.rcvd
      /\ state' \in Opened => peer'.rcvd > 0
      /\ rxPkt # <<>> /\ "DATA" \notin told
  <2>1. peer.rcvd \in Nat /\ peer'.rcvd >= peer.rcvd
    BY PeerStep DEF AgreeInv, BothInv, CloseInv, PeerInv
  <2>2. answers \in Seq(BOOLEAN) /\ tx \in TxSar /\ (state' \in Opened => peer'.rcvd > 0)
    BY DEF AgreeInv, BothInv, CloseInv, Numbers, StreamInv, RecvdInv
  <2>. QED BY <2>1, <2>2 DEF RxTransition, Fresh, Known
<1>1. UNCHANGED <<timerEv, appEv, cache, streamReq, ml>>
  BY DEF RxTransition, appSide
<1>2. SUFFICES
        /\ ~Known' /\ ~probe' /\ pipe' \in Seq(CalmEvent)
        /\ rt' \in [active : BOOLEAN, retries : Nat, type : Openers \cup {"RT"}]
        /\ rt'.active => rt'.type \in Openers
        /\ ~tx'.finSent
  BY <1>1 DEF Fresh
<1>3. Calm = {"SYN", "SYN_ACK", "RST", "ACK", "ACK_NODELAY"} /\ 0 \in Nat /\ 1 \in Nat
  BY DEF Calm, Openers
<1>4. /\ ~probe /\ pipe \in Seq(CalmEvent) /\ ~tx.finSent /\ ~Known
      /\ rt \in [active : BOOLEAN, retries : Nat, type : Openers \cup {"RT"}]
      /\ rt.active => rt.type \in Openers
  BY DEF Fresh
<1>5. \/ p.kind = "ACK" /\ OnAck(p)
      \/ p.kind = "SYN" /\ OnSyn(p)
      \/ p.kind = "SYN_ACK" /\ OnSynAck(p)
      \/ p.kind = "FIN" /\ OnFin(p)
      \/ p.kind = "RST" /\ OnRst(p)
  BY DEF RxTransition
<1>6. p.kind \in {"ACK", "FIN"} => peer.rcvd > 0 /\ state' = "SYN_SENT"
  <2>1. p.kind \in {"ACK", "FIN"} => peer.rcvd > 0
    BY <1>0 DEF AgreeInv, BothInv, SegmentInv, PacketIs
  <2>. QED BY <1>0, <2>1
<1>. HIDE DEF p
<1>7. CASE p.kind = "ACK" /\ OnAck(p)
  <2>1. state \notin Acking
    <3>1. SUFFICES ASSUME state \in Acking PROVE FALSE
      OBVIOUS
    <3>2. state' = state \/ state' = AllAckedMoves(state)
      BY <1>7, <3>1 DEF OnAck, WriteState
    <3>. QED BY <1>6, <1>7, <3>1, <3>2 DEF AllAckedMoves, Moves, Acking
  <2>2. RxEvent(Ev("RST", 1)) /\ UNCHANGED <<tx, probe, told, answers>>
        /\ ClearRetransmit(p.ack = snap.nextByte)
    BY <1>7, <2>1 DEF OnAck
  <2>3. pipe' \in Seq(CalmEvent)
    BY <1>3, <1>4, <2>2, CalmPasses DEF RxEvent
  <2>. QED BY <1>0, <1>4, <2>2, <2>3, RtCleared, StaysUnknown
<1>8. CASE p.kind = "FIN" /\ OnFin(p)
  <2>1. ~(state \in Closeable /\ InOrder(p))
    BY <1>6, <1>8 DEF OnFin, WriteState
  <2>2. RxEvent(Ev("ACK", 0)) /\ UNCHANGED <<tx, probe, told, answers>>
        /\ ClearRetransmit(p.ack = snap.nextByte)
    BY <1>8, <2>1 DEF OnFin
  <2>3. pipe' \in Seq(CalmEvent)
    BY <1>3, <1>4, <2>2, CalmPasses DEF RxEvent
  <2>. QED BY <1>0, <1>4, <2>2, <2>3, RtCleared, StaysUnknown
<1>9. CASE p.kind = "SYN" /\ OnSyn(p)
  <2>1. /\ UNCHANGED <<rt, probe, told, answers>>
        /\ tx' = tx \/ tx' = TxSarInitFromRx(0, p.win)
        /\ \E type \in Calm : \E n \in {0, 1} : RxEvent(Ev(type, n))
    BY <1>3, <1>9 DEF OnSyn
  <2>2. ~tx'.finSent
    BY <1>0, <1>4, <2>1 DEF TxSarInitFromRx, TxSarFromRx, TxSar
  <2>3. pipe' \in Seq(CalmEvent)
    <3>1. PICK type \in Calm, n \in Nat : RxEvent(Ev(type, n))
      BY <1>3, <2>1
    <3>. QED BY <1>4, <3>1, CalmPasses DEF RxEvent
  <2>. QED BY <1>0, <1>4, <2>1, <2>2, <2>3, StaysUnknown
<1>10. CASE p.kind = "SYN_ACK" /\ OnSynAck(p)
  <2>1. ~(state = "SYN_SENT" /\ p.ack = snap.nextByte)
    <3>1. SUFFICES ASSUME state = "SYN_SENT", p.ack = snap.nextByte PROVE FALSE
      OBVIOUS
    <3>2. state' = "ESTABLISHED"
      BY <1>10, <3>1 DEF OnSynAck, WriteState
    <3>. QED BY <1>0, <3>2 DEF Opened, Synchronized
  <2>2. /\ UNCHANGED <<tx, probe, told, answers>>
        /\ ClearRetransmit(p.ack = snap.nextByte)
        /\ RxEvent(Ev("RST", 1)) \/ RxEvent(Ev("ACK_NODELAY", 0))
    BY <1>10, <2>1 DEF OnSynAck
  <2>3. pipe' \in Seq(CalmEvent)
    BY <1>3, <1>4, <2>2, CalmPasses DEF RxEvent
  <2>. QED BY <1>0, <1>4, <2>2, <2>3, RtCleared, StaysUnknown
<1>11. CASE p.kind = "RST" /\ OnRst(p)
  <2>1. /\ UNCHANGED <<tx, probe, pipe>> /\ (rt' = rt \/ ClearRetransmit(TRUE))
        /\ answers' = answers \/ answers' = Append(answers, FALSE)
        /\ "DATA" \notin told'
    BY <1>0, <1>11 DEF OnRst, NoRxEvent, TellFailure, TellClose
  <2>. QED BY <1>0, <1>4, <2>1, RtCleared, StaysUnknown
<1>. QED BY <1>5, <1>7, <1>8, <1>9, <1>10, <1>11

(* tx_engine opens the session, answers and resets, and that is all. *)
LEMMA FreshTransmit ==
  ASSUME AgreeInv, Fresh, TxStep
  PROVE  Fresh'
<1>0. /\ ~Known /\ streamReq = <<>> /\ ~probe
      /\ pipe \in Seq(CalmEvent)
      /\ rt \in [active : BOOLEAN, retries : Nat, type : Openers \cup {"RT"}]
      /\ rt.active => rt.type \in Openers
      /\ tx \in TxSar /\ ~tx.finSent
      /\ ml # <<>> => ml[1].type \in Calm /\ ~ml[1].sar.finSent
      /\ Calm = {"SYN", "SYN_ACK", "RST", "ACK", "ACK_NODELAY"}
  BY DEF Fresh, AgreeInv, BothInv, Numbers, Calm, Openers
<1>1. CASE TxLoad
  <2>1. Head(pipe).type \in Calm /\ pipe' \in Seq(CalmEvent)
    <3>1. pipe # <<>> /\ pipe' = Tail(pipe)
      BY <1>1 DEF TxLoad
    <3>2. \A e \in CalmEvent : Head(pipe).type \in Calm /\ Tail(pipe) \in Seq(CalmEvent)
      BY <1>0, <3>1, CalmEvents
    <3>3. Ev("ACK", 0) \in CalmEvent
      BY <1>0 DEF Ev, CalmEvent
    <3>. QED BY <3>1, <3>2, <3>3
  <2>2. ml'[1].type \in Calm /\ ~ml'[1].sar.finSent
    BY <1>0, <1>1, <2>1 DEF TxLoad
  <2>. QED BY <1>1, <2>1, <2>2 DEF TxLoad, Fresh, timers, appSide, Known
<1>2. ~(TxData \/ TxRetransmit \/ TxFin)
  BY <1>0 DEF TxData, TxRetransmit, TxFin, Handles
<1>3. CASE TxSyn \/ TxSynAck
  <2>1. PICK type \in Openers : TxOpening(type, type)
    BY <1>3 DEF TxSyn, TxSynAck, Openers
  <2>2. rt' = [rt EXCEPT !.active = TRUE, !.type = type] /\ ml' = <<>>
        /\ (tx' = tx \/ tx' = TxSarInitFromTx(Add(Isn, 1)))
    BY <2>1, OpeningOnce DEF AgreeInv, Send, SetRetransmit
  <2>3. ~tx'.finSent
    BY <1>0, <2>2 DEF TxSarInitFromTx, TxSar
  <2>4. rt' \in [active : BOOLEAN, retries : Nat, type : Openers \cup {"RT"}] /\ rt'.type \in Openers
    BY <1>0, <2>2
  <2>. QED BY <2>1, <2>2, <2>3, <2>4 DEF TxOpening, Fresh, events, Known
<1>4. CASE TxAck \/ TxRst
  BY <1>4 DEF TxAck, TxRst, MetaRest, Fresh, events, appSide, Known
<1>. QED BY <1>1, <1>2, <1>3, <1>4 DEF TxStep

(* The timers and the event engine pass on what is there. *)
LEMMA FreshEvents ==
  ASSUME AgreeInv, Fresh, EventStep \/ Expires \/ ReleaseStep
  PROVE  Fresh'
<1>0. /\ ~Known /\ streamReq = <<>> /\ ~probe /\ answers \in Seq(BOOLEAN) /\ "DATA" \notin told
      /\ appEv \in Seq(FirstSyn) /\ pipe \in Seq(CalmEvent) /\ timerEv \in Seq(CalmEvent)
      /\ rt \in [active : BOOLEAN, retries : Nat, type : Openers \cup {"RT"}]
      /\ rt.active => rt.type \in Openers
      /\ Openers \subseteq Calm /\ "ACK" \in Calm /\ 0 \in Nat
  BY DEF Fresh, AgreeInv, BothInv, CloseInv, Known, Calm
<1>e. \A x \in CalmEvent : x = Ev(x.type, x.rt) /\ x.type \in Calm /\ x.rt \in Nat
  BY DEF CalmEvent, Ev
<1>1. CASE DelayedAckFires
  <2>1. Ev("ACK", 0) \in CalmEvent
    BY <1>0 DEF Ev, CalmEvent
  <2>2. pipe' \in Seq(CalmEvent)
    BY <1>0, <1>1, <2>1, CalmEvents DEF DelayedAckFires
  <2>. QED BY <1>1, <2>2 DEF DelayedAckFires, Fresh, timers, appSide, Known
<1>2. CASE TakeTimerEvent
  <2>1. PICK e : e = Head(timerEv)
    OBVIOUS
  <2>2. e \in CalmEvent /\ timerEv' \in Seq(CalmEvent)
    <3>1. timerEv # <<>> /\ timerEv' = Tail(timerEv)
      BY <1>2 DEF TakeTimerEvent
    <3>2. \A T : \A q \in Seq(T) : q # <<>> => Head(q) \in T /\ Tail(q) \in Seq(T)
      OBVIOUS
    <3>. QED BY <1>0, <2>1, <3>1, <3>2
  <2>3. Passes(pipe, Ev(e.type, e.rt))
    BY <1>2, <1>e, <2>1, <2>2 DEF TakeTimerEvent
  <2>4. pipe' \in Seq(CalmEvent)
    BY <1>0, <1>e, <2>2, <2>3, CalmPasses
  <2>. QED BY <1>2, <2>2, <2>4 DEF TakeTimerEvent, Fresh, timers, appSide, Known
<1>3. CASE TakeAppEvent
  <2>1. PICK e : e = Head(appEv)
    OBVIOUS
  <2>2. e \in FirstSyn /\ appEv' \in Seq(FirstSyn)
    <3>1. appEv # <<>> /\ appEv' = Tail(appEv)
      BY <1>3 DEF TakeAppEvent
    <3>2. \A T : \A q \in Seq(T) : q # <<>> => Head(q) \in T /\ Tail(q) \in Seq(T)
      OBVIOUS
    <3>. QED BY <1>0, <2>1, <3>1, <3>2
  <2>3. e = Ev("SYN", 0) /\ "SYN" \in Calm
    BY <2>2 DEF FirstSyn, Ev, Calm, Openers
  <2>4. pipe' \in Seq(CalmEvent)
    BY <1>0, <1>3, <2>1, <2>3, CalmPasses DEF TakeAppEvent
  <2>. QED BY <1>3, <2>2, <2>4 DEF TakeAppEvent, Fresh, timers, appSide, Known
<1>4. CASE RtDue
  <2>1. rt.active /\ rt.type \in Openers /\ UNCHANGED <<pipe, appEv, probe, cache, streamReq, tx, ml>>
    BY <1>0, <1>4 DEF RtDue, RtExpires, appSide
  <2>2. CASE RetriesLeft
    <3>1. /\ rt' = [rt EXCEPT !.active = FALSE, !.retries = @ + 1]
          /\ timerEv' = Append(timerEv, Ev(rt.type, rt.retries + 1)) /\ UNCHANGED <<answers, told>>
      BY <1>4, <2>2 DEF RtDue, RtExpires
    <3>2. Ev(rt.type, rt.retries + 1) \in CalmEvent
      BY <1>0, <2>1 DEF Ev, CalmEvent
    <3>3. timerEv' \in Seq(CalmEvent)
      BY <1>0, <3>1, <3>2, CalmEvents
    <3>4. rt' \in [active : BOOLEAN, retries : Nat, type : Openers \cup {"RT"}] /\ ~rt'.active
      <4>1. rt.retries + 1 \in Nat
        BY <1>0
      <4>. QED BY <1>0, <3>1, <4>1
    <3>. QED BY <2>1, <3>1, <3>3, <3>4 DEF Fresh, Known
  <2>3. CASE ~RetriesLeft
    <3>1. /\ rt' = [rt EXCEPT !.active = FALSE, !.retries = 0] /\ timerEv' = timerEv
          /\ answers' = answers \/ answers' = Append(answers, FALSE)
          /\ told' = told \/ told' = told \cup {"CLOSE"}
      BY <1>4, <2>3 DEF RtDue, RtExpires, TellFailure, TellClose
    <3>2. ~Known'
      BY <1>0, <3>1, StaysUnknown
    <3>3. rt' \in [active : BOOLEAN, retries : Nat, type : Openers \cup {"RT"}] /\ ~rt'.active
      BY <1>0, <3>1
    <3>. QED BY <2>1, <3>1, <3>2, <3>3 DEF Fresh
  <2>. QED BY <2>2, <2>3
<1>5. ~ProbeDue
  BY <1>0 DEF ProbeDue, ProbeExpires
<1>6. CASE CloseDue \/ ReleaseStep
  BY <1>6 DEF CloseDue, CloseExpires, ReleaseStep, TimerRelease, LookupRelease, events, timers, appSide,
              Fresh, Known
<1>. QED BY <1>1, <1>2, <1>3, <1>4, <1>5, <1>6 DEF EventStep, Expires

LEMMA FreshRequests ==
  ASSUME AgreeInv, Fresh, AppIfStep \/ AppRequest
  PROVE  Fresh'
<1>. DEFINE Entry == [type : {"SYN"}, end : {0}]
<1>0. /\ ~Known /\ streamReq = <<>> /\ cache \in Seq(Entry) /\ appEv \in Seq(FirstSyn)
  BY DEF Fresh
<1>1. CASE StatusOk
  <2>1. PICK e : e = Head(cache)
    OBVIOUS
  <2>2. e \in Entry /\ cache' \in Seq(Entry)
    <3>1. cache # <<>> /\ cache' = Tail(cache)
      BY <1>1 DEF StatusOk
    <3>2. \A T : \A q \in Seq(T) : q # <<>> => Head(q) \in T /\ Tail(q) \in Seq(T)
      OBVIOUS
    <3>. HIDE DEF Entry
    <3>. QED BY <1>0, <2>1, <3>1, <3>2
  <2>3. e.type = "SYN" /\ Ev("SYN", 0) \in FirstSyn
    BY <2>2 DEF Ev, FirstSyn
  <2>4. appEv' = Append(appEv, Ev("SYN", 0)) /\ tx' = tx
    BY <1>1, <2>1, <2>3 DEF StatusOk
  <2>5. appEv' \in Seq(FirstSyn)
    <3>1. \A T : \A q \in Seq(T) : \A x \in T : Append(q, x) \in Seq(T)
      OBVIOUS
    <3>. QED BY <1>0, <2>3, <2>4, <3>1
  <2>. QED BY <1>1, <2>2, <2>4, <2>5 DEF StatusOk, Fresh, timers, Known
<1>2. CASE AppOpen
  <2>1. Cached("SYN", 0) \in Entry /\ cache' = Append(cache, Cached("SYN", 0))
    BY <1>2 DEF AppOpen, Cached
  <2>2. cache' \in Seq(Entry)
    <3>1. \A T : \A q \in Seq(T) : \A x \in T : Append(q, x) \in Seq(T)
      OBVIOUS
    <3>. HIDE DEF Entry
    <3>. QED BY <1>0, <2>1, <3>1
  <2>. QED BY <1>2, <2>2 DEF AppOpen, Fresh, events, timers, Known
<1>3. ~AppClose /\ ~StreamRequest /\ ~\E n \in WriteSizes : StreamWrite(n)
  BY <1>0 DEF AppClose, StreamRequest, StreamWrite
<1>. QED BY <1>1, <1>2, <1>3 DEF AppIfStep, AppRequest

LEMMA FreshStep ==
  ASSUME AgreeInv, AgreeInv', FreshInv, [Next]_sessionVars
  PROVE  FreshInv'
<1>1. SUFFICES ASSUME Starts' PROVE Fresh'
  BY DEF FreshInv
<1>2. Fresh
  BY <1>1, StartBefore DEF FreshInv
<1>3. CASE RxTransition
  <2>1. ~OpeningSegment'
    BY <1>3 DEF RxTransition, OpeningSegment
  <2>. QED BY <1>1, <1>2, <1>3, <2>1, FreshTransition DEF Starts
<1>4. CASE TxStep
  BY <1>2, <1>4, FreshTransmit
<1>5. CASE EventStep \/ Expires \/ ReleaseStep
  BY <1>2, <1>5, FreshEvents
<1>6. CASE AppIfStep \/ AppRequest
  BY <1>2, <1>6, FreshRequests
<1>7. CASE Arrives
  BY <1>2, <1>7 DEF Arrives, RxLoad, Fresh, Known, events, timers, appSide
<1>8. CASE PeerSends \/ PeerReads \/ (\E seg \in wire : PeerReceives(seg)) \/ UNCHANGED sessionVars
  <2>1. UNCHANGED engine
    BY <1>8 DEF PeerSends, PeerReads, PeerReceives, sessionVars, engine
  <2>. QED BY <1>2, <2>1 DEF engine, Fresh, Known, events, timers, appSide
<1>. QED BY <1>3, <1>4, <1>5, <1>6, <1>7, <1>8 DEF Next, Local

-----------------------------------------------------------------------------
(* The first opening is handled before any repetition. *)

LEMMA WireGrows ==
  ASSUME [Next]_sessionVars
  PROVE  wire \subseteq wire' /\ (Called => Called')
<1>1. wire \subseteq wire'
  <2>1. CASE UNCHANGED wire
    BY <2>1
  <2>2. CASE TxStep
    BY <2>2 DEF TxStep, TxLoad, TxData, TxRetransmit, TxFin, TxSyn, TxSynAck, TxOpening, TxAck, TxRst,
                SendData, Send
  <2>. QED BY <2>1, <2>2
       DEF Next, Expires, Local, RtDue, ProbeDue, CloseDue, RtExpires, ProbeExpires, CloseExpires,
           RxTransition, EventStep, DelayedAckFires, TakeTimerEvent, TakeAppEvent, ReleaseStep,
           TimerRelease, LookupRelease, AppRequest, AppIfStep, AppOpen, AppClose, StreamRequest,
           StatusOk, StreamWrite, Arrives, RxLoad, PeerSends, PeerReads, PeerReceives, sessionVars
<1>. QED BY <1>1 DEF Called

LEMMA OrderedAppend ==
  ASSUME NEW m, NEW q \in Seq(CalmEvent), NEW e \in CalmEvent, Ordered(m, q),
         e.type \in Openers /\ e.rt # 0 => OpeningFirst(m, q, Len(q) + 1)
  PROVE  /\ Ordered(m, Append(q, e))
         /\ OpeningFirst(m, q, Len(q) + 1) \/ (e.type \in Openers /\ e.rt = 0)
              => OpeningFirst(m, Append(q, e), Len(Append(q, e)) + 1)
<1>1. PICK r, n : r = Append(q, e) /\ n = Len(q)
  OBVIOUS
<1>2. n \in Nat /\ Len(r) = n + 1 /\ r[n + 1] = e /\ \A k \in 1 .. n : r[k] = q[k]
  BY <1>1
<1>3. \A k \in 1 .. n + 1 : OpeningFirst(m, q, k) => OpeningFirst(m, r, k)
  BY <1>2 DEF OpeningFirst
<1>4. Ordered(m, r)
  <2>1. SUFFICES ASSUME NEW k \in 1 .. n + 1, r[k].type \in Openers, r[k].rt # 0
                 PROVE  OpeningFirst(m, r, k)
    BY <1>2 DEF Ordered
  <2>2. CASE k = n + 1
    BY <1>1, <1>2, <1>3, <2>1, <2>2
  <2>3. CASE k \in 1 .. n
    BY <1>1, <1>2, <1>3, <2>1, <2>3 DEF Ordered
  <2>. QED BY <1>2, <2>2, <2>3
<1>5. ASSUME OpeningFirst(m, q, n + 1) PROVE OpeningFirst(m, r, n + 2)
  BY <1>2, <1>5 DEF OpeningFirst
<1>6. ASSUME e.type \in Openers, e.rt = 0 PROVE OpeningFirst(m, r, n + 2)
  <2>1. n + 1 \in 1 .. (n + 2) - 1
    BY <1>2
  <2>. QED BY <1>2, <1>6, <2>1 DEF OpeningFirst
<1>7. Len(r) + 1 = n + 2
  BY <1>2
<1>. QED BY <1>1, <1>4, <1>5, <1>6, <1>7

LEMMA OrderedLoad ==
  ASSUME NEW q \in Seq(CalmEvent), q # <<>>, NEW m, m # <<>>, m[1].type = Head(q).type, Ordered(<<>>, q)
  PROVE  /\ Head(q).type \in Openers => Head(q).rt = 0
         /\ Ordered(m, Tail(q))
         /\ OpeningFirst(<<>>, q, Len(q) + 1) => OpeningFirst(m, Tail(q), Len(Tail(q)) + 1)
<1>1. PICK r, n : r = Tail(q) /\ n = Len(q)
  OBVIOUS
<1>2. n \in Nat \ {0} /\ Len(r) = n - 1 /\ q[1] = Head(q) /\ \A k \in 1 .. n - 1 : r[k] = q[k + 1]
  BY <1>1
<1>3. ASSUME Head(q).type \in Openers, Head(q).rt # 0 PROVE FALSE
  <2>1. OpeningFirst(<<>>, q, 1)
    BY <1>1, <1>2, <1>3 DEF Ordered
  <2>. QED BY <2>1 DEF OpeningFirst
<1>4. ASSUME NEW k \in 1 .. n, OpeningFirst(<<>>, q, k + 1) PROVE OpeningFirst(m, r, k)
  <2>1. PICK j \in 1 .. k : q[j].type \in Openers /\ q[j].rt = 0
    BY <1>4 DEF OpeningFirst
  <2>2. CASE j = 1
    BY <1>2, <2>1, <2>2 DEF OpeningFirst
  <2>3. CASE j # 1
    <3>1. j - 1 \in 1 .. k - 1 /\ j - 1 \in 1 .. n - 1 /\ r[j - 1] = q[j]
      BY <1>2, <2>3
    <3>. QED BY <2>1, <3>1 DEF OpeningFirst
  <2>. QED BY <2>2, <2>3
<1>5. Ordered(m, r)
  <2>1. SUFFICES ASSUME NEW k \in 1 .. n - 1, r[k].type \in Openers, r[k].rt # 0
                 PROVE  OpeningFirst(m, r, k)
    BY <1>2 DEF Ordered
  <2>2. k + 1 \in 1 .. n /\ k \in 1 .. n /\ r[k] = q[k + 1]
    BY <1>2
  <2>3. OpeningFirst(<<>>, q, k + 1)
    BY <1>1, <2>1, <2>2 DEF Ordered
  <2>. QED BY <1>4, <2>2, <2>3
<1>6. OpeningFirst(<<>>, q, n + 1) => OpeningFirst(m, r, n)
  <2>1. n \in 1 .. n
    BY <1>2
  <2>. QED BY <1>4, <2>1
<1>7. Len(r) + 1 = n
  BY <1>2
<1>. QED BY <1>1, <1>3, <1>5, <1>6, <1>7

LEMMA OrderedPass ==
  ASSUME pipe \in Seq(CalmEvent), NEW type \in Calm, NEW n \in Nat, Passes(pipe, Ev(type, n)), Ordered(ml, pipe),
         type \in Openers /\ n # 0 => OpeningFirst(ml, pipe, Len(pipe) + 1)
  PROVE  /\ Ordered(ml, pipe')
         /\ OpeningFirst(ml, pipe, Len(pipe) + 1) \/ (type \in Openers /\ n = 0)
              => OpeningFirst(ml, pipe', Len(pipe') + 1)
<1>1. PICK e \in CalmEvent : e = Ev(type, n) /\ e.type = type /\ e.rt = n
  BY DEF Ev, CalmEvent
<1>2. CASE pipe' = pipe /\ type = "ACK"
  BY <1>2 DEF Openers
<1>3. CASE pipe' = Append(pipe, e)
  BY <1>1, <1>3, OrderedAppend
<1>. QED BY <1>1, <1>2, <1>3 DEF Passes

(* What is behind an event that opens nothing. *)
LEMMA OrderedDone ==
  ASSUME NEW m, m # <<>>, m[1].type \notin Openers, NEW q, Ordered(m, q)
  PROVE  /\ Ordered(<<>>, q)
         /\ OpeningFirst(m, q, Len(q) + 1) => OpeningFirst(<<>>, q, Len(q) + 1)
  BY DEF Ordered, OpeningFirst

LEMMA OrderStep ==
  ASSUME AgreeInv, FreshInv, OrderInv, peer.rcvd > 0 => Called, [Next]_sessionVars
  PROVE  OrderInv'
<1>. DEFINE Behind == OpeningFirst(ml, pipe, Len(pipe) + 1)
<1>1. SUFFICES ASSUME ~Called'
               PROVE  /\ timerEv' = <<>> /\ ~rt'.active
                      /\ ml' # <<>> /\ ml'[1].type \in Openers => ml'[1].rt = 0
                      /\ Ordered(ml', pipe')
                      /\ state' = "SYN_RECEIVED" => OpeningFirst(ml', pipe', Len(pipe') + 1)
  BY DEF OrderInv
<1>2. /\ ~Called /\ peer.rcvd = 0 /\ Fresh
      /\ timerEv = <<>> /\ ~rt.active /\ Ordered(ml, pipe)
      /\ ml # <<>> /\ ml[1].type \in Openers => ml[1].rt = 0
      /\ state = "SYN_RECEIVED" => Behind
  <2>1. ~Called
    BY <1>1, WireGrows
  <2>2. peer.rcvd = 0
    BY <2>1 DEF AgreeInv, BothInv, PeerInv
  <2>. QED BY <2>1, <2>2 DEF FreshInv, Starts, OrderInv
<1>3. /\ pipe \in Seq(CalmEvent) /\ ~Known /\ streamReq = <<>> /\ ~probe /\ appEv \in Seq(FirstSyn)
      /\ ml # <<>> => ml[1].type \in Calm
      /\ Calm = {"SYN", "SYN_ACK", "RST", "ACK", "ACK_NODELAY"} /\ Openers = {"SYN", "SYN_ACK"}
      /\ 0 \in Nat /\ 1 \in Nat
  BY <1>2 DEF Fresh, Calm, Openers
<1>4. ASSUME NEW type \in Calm, NEW n \in {0, 1}, Passes(pipe, Ev(type, n)),
             type \in Openers /\ n # 0 => Behind
      PROVE  /\ Ordered(ml, pipe')
             /\ Behind \/ (type \in Openers /\ n = 0) => OpeningFirst(ml, pipe', Len(pipe') + 1)
  BY <1>2, <1>3, <1>4, OrderedPass
<1>5. CASE RxTransition
  <2>. DEFINE p == rxPkt[1]
  <2>1. rxPkt # <<>> /\ UNCHANGED <<ml, timerEv>>
    BY <1>5 DEF RxTransition
  <2>2. \/ p.kind = "SYN" /\ OnSyn(p)
        \/ p.kind = "SYN_ACK" /\ OnSynAck(p)
        \/ p.kind = "RST" /\ OnRst(p)
    <3>1. p.kind \notin {"ACK", "FIN"}
      <4>1. p.kind \in {"ACK", "FIN"} => peer.rcvd > 0
        BY <2>1 DEF AgreeInv, BothInv, SegmentInv, PacketIs
      <4>. QED BY <1>2, <4>1
    <3>. QED BY <1>5, <3>1 DEF RxTransition
  <2>. HIDE DEF p
  <2>3. ~rt'.active
    <3>1. rt' = rt \/ \E stop \in BOOLEAN : ClearRetransmit(stop)
      BY <2>2 DEF OnSyn, OnSynAck, OnRst
    <3>. QED BY <1>2, <3>1, RtCleared
  <2>4. CASE OnSyn(p)
    <3>1. CASE state \in {"CLOSED", "SYN_SENT"}
      <4>1. Passes(pipe, Ev("SYN_ACK", 0))
        BY <2>4, <3>1 DEF OnSyn, RxEvent
      <4>. QED BY <1>2, <1>3, <1>4, <2>1, <2>3, <4>1
    <3>2. CASE state = "SYN_RECEIVED"
      <4>1. Passes(pipe, Ev("SYN_ACK", 1)) \/ Passes(pipe, Ev("RST", 1))
        BY <2>4, <3>2 DEF OnSyn, RxEvent
      <4>. QED BY <1>2, <1>3, <1>4, <2>1, <2>3, <3>2, <4>1
    <3>3. CASE state \notin {"CLOSED", "SYN_SENT", "SYN_RECEIVED"}
      <4>1. Passes(pipe, Ev("ACK_NODELAY", 0)) /\ state' = state
        BY <2>4, <3>3 DEF OnSyn, RxEvent, WriteState
      <4>. QED BY <1>2, <1>3, <1>4, <2>1, <2>3, <3>3, <4>1
    <3>. QED BY <3>1, <3>2, <3>3
  <2>5. CASE OnSynAck(p)
    <3>1. /\ Passes(pipe, Ev("ACK_NODELAY", 0)) \/ Passes(pipe, Ev("RST", 1))
          /\ state' = "SYN_RECEIVED" => state = "SYN_RECEIVED"
      BY <2>5 DEF OnSynAck, RxEvent, WriteState
    <3>. QED BY <1>2, <1>3, <1>4, <2>1, <2>3, <3>1
  <2>6. CASE OnRst(p)
    <3>1. pipe' = pipe /\ (state' = "SYN_RECEIVED" => state = "SYN_RECEIVED")
      BY <2>6 DEF OnRst, NoRxEvent, WriteState
    <3>. QED BY <1>2, <2>1, <2>3, <3>1
  <2>. QED BY <2>2, <2>4, <2>5, <2>6
<1>6. CASE TxLoad
  <2>1. /\ ml = <<>> /\ pipe # <<>> /\ pipe' = Tail(pipe) /\ ml' # <<>>
        /\ ml'[1].type = Head(pipe).type /\ ml'[1].rt = Head(pipe).rt
        /\ UNCHANGED <<state, timerEv, rt>>
    BY <1>6 DEF TxLoad, table, timers
  <2>2. PICK m : m = ml' /\ m # <<>> /\ m[1].type = Head(pipe).type /\ m[1].rt = Head(pipe).rt
    BY <2>1
  <2>3. /\ Head(pipe).type \in Openers => Head(pipe).rt = 0
        /\ Ordered(m, Tail(pipe))
        /\ OpeningFirst(<<>>, pipe, Len(pipe) + 1) => OpeningFirst(m, Tail(pipe), Len(Tail(pipe)) + 1)
    BY <1>2, <1>3, <2>1, <2>2, OrderedLoad
  <2>. QED BY <1>2, <2>1, <2>2, <2>3
<1>7. ~(TxData \/ TxRetransmit \/ TxFin)
  BY <1>3 DEF TxData, TxRetransmit, TxFin, Handles
<1>8. ~(TxSyn \/ TxSynAck)
  <2>1. SUFFICES ASSUME NEW kind \in Openers, TxOpening(kind, kind) PROVE FALSE
    BY <1>3 DEF TxSyn, TxSynAck
  <2>2. \E seq : Segment(kind, seq, 0) \in wire'
    BY <2>1 DEF TxOpening, Send
  <2>. QED BY <1>1, <2>2 DEF Called, Segment
<1>9. CASE TxAck \/ TxRst
  <2>1. ml # <<>> /\ ml[1].type \notin Openers /\ ml' = <<>> /\ UNCHANGED <<state, pipe, timerEv, rt>>
    BY <1>3, <1>9 DEF TxAck, TxRst, Handles, MetaRest, table, events
  <2>2. Ordered(<<>>, pipe) /\ (Behind => OpeningFirst(<<>>, pipe, Len(pipe) + 1))
    BY <1>2, <2>1, OrderedDone
  <2>. QED BY <1>2, <2>1, <2>2
<1>10. CASE EventStep
  <2>1. ~TakeTimerEvent
    BY <1>2 DEF TakeTimerEvent
  <2>2. CASE DelayedAckFires
    <3>1. UNCHANGED <<ml, timerEv, rt, state>> /\ pipe' = Append(pipe, Ev("ACK", 0))
      BY <2>2 DEF DelayedAckFires, table, timers
    <3>2. PICK e \in CalmEvent : e = Ev("ACK", 0) /\ e.type \notin Openers
      <4>1. Ev("ACK", 0) \in CalmEvent /\ Ev("ACK", 0).type = "ACK"
        BY <1>3 DEF Ev, CalmEvent
      <4>. QED BY <1>3, <4>1
    <3>3. Ordered(ml, Append(pipe, e)) /\ (Behind => OpeningFirst(ml, Append(pipe, e), Len(Append(pipe, e)) + 1))
      BY <1>2, <1>3, <3>2, OrderedAppend
    <3>. QED BY <1>2, <3>1, <3>2, <3>3
  <2>3. CASE TakeAppEvent
    <3>1. UNCHANGED <<ml, timerEv, rt, state>> /\ Passes(pipe, Head(appEv)) /\ appEv # <<>>
      BY <2>3 DEF TakeAppEvent, table, timers
    <3>2. Head(appEv) = Ev("SYN", 0)
      <4>1. Head(appEv) \in FirstSyn
        BY <1>3, <3>1
      <4>. QED BY <4>1 DEF FirstSyn, Ev
    <3>. QED BY <1>2, <1>3, <1>4, <3>1, <3>2
  <2>. QED BY <1>10, <2>1, <2>2, <2>3 DEF EventStep
<1>11. ~RtDue /\ ~ProbeDue
  BY <1>2, <1>3 DEF RtDue, RtExpires, ProbeDue, ProbeExpires
<1>12. CASE AppIfStep \/ AppRequest \/ ReleaseStep
  <2>1. UNCHANGED <<ml, pipe, timerEv, rt>> /\ (state' = state \/ state' \in {"CLOSED", "SYN_SENT"})
    BY <1>3, <1>12 DEF AppIfStep, AppRequest, ReleaseStep, StatusOk, StreamWrite, AppOpen, AppClose,
                       StreamRequest, TimerRelease, LookupRelease, WriteState, table, events, timers
  <2>. QED BY <1>2, <2>1
<1>13. CASE UNCHANGED <<ml, pipe, timerEv, rt, state>>
  BY <1>2, <1>13
<1>. QED BY <1>5, <1>6, <1>7, <1>8, <1>9, <1>10, <1>11, <1>12, <1>13
     DEF Next, Local, Expires, CloseDue, CloseExpires, TxStep, Arrives, RxLoad, PeerSends, PeerReads,
         PeerReceives, engine, table, events, timers, sessionVars

-----------------------------------------------------------------------------
(* What is below not_ackd was sent. *)

(* The peer hears of the engine first by a SYN or a SYN_ACK. *)
LEMMA CalledFirst ==
  ASSUME AgreeInv, peer.rcvd > 0 => Called, [Next]_sessionVars
  PROVE  peer'.rcvd > 0 => Called'
<1>1. CASE peer'.rcvd = peer.rcvd
  BY <1>1, WireGrows
<1>2. CASE \E seg \in wire : PeerReceives(seg)
  <2>1. PICK seg \in wire : PeerReceives(seg)
    BY <1>2
  <2>2. seg.kind \in Openers \/ peer.phase # "idle"
    BY <2>1 DEF PeerReceives, Openers
  <2>3. peer.phase # "idle" => peer.rcvd > 0
    BY DEF AgreeInv, BothInv, PeerInv
  <2>4. Called
    BY <2>2, <2>3 DEF Called
  <2>. QED BY <2>4, WireGrows
<1>3. CASE Arrives \/ PeerSends \/ PeerReads
  <2>1. peer'.rcvd = peer.rcvd
    BY <1>3 DEF Arrives, PeerSends, PeerReads, AgreeInv, BothInv, CloseInv, Shape
  <2>. QED BY <1>1, <2>1
<1>. QED BY <1>1, <1>2, <1>3
     DEF Next, Expires, Local, RtDue, ProbeDue, CloseDue, RtExpires, ProbeExpires, CloseExpires,
         RxTransition, TxStep, TxLoad, TxData, TxRetransmit, TxFin, TxSyn, TxSynAck, TxOpening, TxAck,
         TxRst, MetaRest, EventStep, DelayedAckFires, TakeTimerEvent, TakeAppEvent, ReleaseStep,
         TimerRelease, LookupRelease, AppRequest, AppIfStep, AppOpen, AppClose, StreamRequest,
         StatusOk, StreamWrite, sessionVars

(* A segment leaves not_ackd alone, and forgets a FIN only of a session    *)
(* that opens. *)
LEMMA FinForgotten ==
  ASSUME AgreeInv, FreshInv, RxTransition
  PROVE  tx'.not_ackd = tx.not_ackd /\ (tx'.finSent = tx.finSent \/ Fresh)
<1>. DEFINE p == rxPkt[1]
<1>0. rxPkt # <<>> /\ tx \in TxSar
  BY DEF RxTransition, AgreeInv, BothInv, Numbers
<1>1. tx'.not_ackd = tx.not_ackd
  BY TransitionNumbers DEF AgreeInv, BothInv
<1>2. \/ tx' = tx \/ \E a, w, n : tx' = TxSarFromRx(a, w, n)
      \/ p.kind = "SYN" \/ state = "SYN_SENT"
  <2>1. OnAck(p) \/ p.kind = "SYN" \/ OnSynAck(p) \/ OnFin(p) \/ OnRst(p)
    BY DEF RxTransition
  <2>. HIDE DEF p
  <2>2. OnAck(p) => tx' = tx \/ \E a, w, n : tx' = TxSarFromRx(a, w, n)
    BY Zenon DEF OnAck
  <2>3. OnFin(p) => tx' = tx \/ \E a, w, n : tx' = TxSarFromRx(a, w, n)
    BY Zenon DEF OnFin
  <2>4. OnSynAck(p) => tx' = tx \/ state = "SYN_SENT"
    BY Zenon DEF OnSynAck
  <2>5. OnRst(p) => tx' = tx
    BY DEF OnRst
  <2>. QED BY <2>1, <2>2, <2>3, <2>4, <2>5
<1>3. \A a, w, n : TxSarFromRx(a, w, n).finSent = tx.finSent
  BY <1>0 DEF TxSarFromRx, TxSar
<1>4. p.kind = "SYN" \/ state = "SYN_SENT" => Fresh
  BY <1>0 DEF FreshInv, Starts, OpeningSegment
<1>. QED BY <1>1, <1>2, <1>3, <1>4

LEMMA FromTx ==
  ASSUME tx \in TxSar, NEW n \in Seqs, NEW x \in BOOLEAN, NEW y \in BOOLEAN
  PROVE  /\ TxSarFromTx(n, x, y).not_ackd = n
         /\ TxSarFromTx(n, x, y).finSent <=> tx.finSent \/ y
<1>1. tx.finReady \in BOOLEAN /\ tx.finSent \in BOOLEAN
  BY DEF TxSar
<1>2. PICK b \in BOOLEAN, c \in BOOLEAN : b = (tx.finReady \/ x) /\ c = (tx.finSent \/ y)
  BY Zenon
<1>3. TxSarFromTx(n, x, y) = [tx EXCEPT !.not_ackd = n, !.finReady = b, !.finSent = c]
  BY <1>2, Zenon DEF TxSarFromTx
<1>. QED BY <1>2, <1>3 DEF TxSar

(* What the writes of metaLoader need of its copy. *)
LEMMA CopyIs ==
  ASSUME AgreeInv, FreshInv, CoverInv, ml # <<>>
  PROVE  /\ tx \in TxSar /\ ml[1].sar \in TxSar
         /\ ml[1] = [type |-> ml[1].type, rt |-> ml[1].rt, sar |-> ml[1].sar, count |-> ml[1].count]
         /\ ml[1].sar.finSent => tx.finSent
         /\ ml[1].type \notin Calm => Called
         /\ ml[1].type \in {"TX", "FIN"} /\ ~tx.finSent =>
              CoveredBy(wire, tx.not_ackd) /\ CoveredBy(wire, ml[1].sar.not_ackd)
<1>1. /\ tx \in TxSar /\ ml[1].sar \in TxSar
      /\ ml[1] = [type |-> ml[1].type, rt |-> ml[1].rt, sar |-> ml[1].sar, count |-> ml[1].count]
  BY DEF AgreeInv, BothInv, Numbers
<1>2. ml[1].type \notin Calm => Called
  <2>1. ml[1].type \notin Calm => peer.rcvd # 0 /\ peer.rcvd \in Nat
    BY DEF FreshInv, Starts, Fresh, AgreeInv, BothInv, PeerInv
  <2>. QED BY <2>1 DEF CoverInv
<1>3. "TX" \notin Calm /\ "FIN" \notin Calm
  BY DEF Calm, Openers
<1>. QED BY <1>1, <1>2, <1>3 DEF CoverInv

LEMMA CoverTransmit ==
  ASSUME AgreeInv, FreshInv, OrderInv, CoverInv, [Next]_sessionVars, TxStep
  PROVE  CoverInv'
<1>. DEFINE m == ml[1]  sar == ml[1].sar
<1>0. wire \subseteq wire' /\ (Called => Called') /\ (peer'.rcvd > 0 => Called') /\ tx \in TxSar
  BY WireGrows, CalledFirst DEF CoverInv, AgreeInv, BothInv, Numbers
<1>1. SUFFICES
        /\ Called' /\ ~tx'.finSent =>
             /\ CoveredBy(wire', tx'.not_ackd)
             /\ ml' # <<>> /\ ml'[1].type \in {"TX", "FIN"} => CoveredBy(wire', ml'[1].sar.not_ackd)
        /\ ml' # <<>> /\ ml'[1].sar.finSent => tx'.finSent
  BY <1>0 DEF CoverInv
<1>2. CASE TxLoad
  <2>1. wire' = wire /\ tx' = tx /\ ml' # <<>> /\ ml'[1].sar = tx
    BY <1>2 DEF TxLoad
  <2>. QED BY <2>1 DEF CoverInv, Called
<1>3. SUFFICES ASSUME ~TxLoad, ml # <<>>
               PROVE  /\ Called' /\ ~tx'.finSent =>
                           /\ CoveredBy(wire', tx'.not_ackd)
                           /\ ml' # <<>> /\ ml'[1].type \in {"TX", "FIN"} =>
                                CoveredBy(wire', ml'[1].sar.not_ackd)
                      /\ ml' # <<>> /\ ml'[1].sar.finSent => tx'.finSent
  BY <1>2 DEF TxStep, TxData, TxRetransmit, TxFin, TxSyn, TxSynAck, TxOpening, TxAck, TxRst, Handles
<1>4. /\ sar \in TxSar /\ m.sar = sar
      /\ m = [type |-> m.type, rt |-> m.rt, sar |-> m.sar, count |-> m.count]
      /\ sar.finSent => tx.finSent
      /\ m.type \in {"TX", "FIN"} /\ ~tx.finSent => CoveredBy(wire, sar.not_ackd)
      /\ m.type \notin Calm => Called
      /\ Called /\ ~tx.finSent => CoveredBy(wire', tx.not_ackd)
  BY <1>0, <1>3, CopyIs, CoverKept DEF CoverInv
<1>5. /\ sar.not_ackd \in Seqs /\ sar.app \in Seqs /\ sar.ackd \in Seqs /\ sar.window \in Nat
      /\ Seqs \subseteq Nat /\ Mms \in Nat
      /\ \A a, b \in Seqs : Sub(a, b) \in Seqs
      /\ \A a \in Seqs, n \in Nat : Add(a, n) \in Seqs
  BY <1>4, SeqsClosed DEF TxSar
<1>6. \A e : <<e>>[1] = e /\ <<e>> # <<>>
  OBVIOUS
<1>. HIDE DEF m, sar
<1>7. CASE TxData
  <2>1. PICK length : length = DataLength(sar)
    OBVIOUS
  <2>2. length \in 0 .. Mms
    <3>1. Unsent(sar) \in Nat /\ InFlight(sar) \in Nat
      BY <1>5 DEF Unsent, InFlight
    <3>2. Usable(sar) \in Nat
      <4>1. \A a, b \in Nat : (IF a > b THEN a - b ELSE 0) \in Nat
        OBVIOUS
      <4>. QED BY <1>5, <3>1, <4>1 DEF Usable
    <3>3. \A a, b \in Nat : Lesser(Lesser(a, b), Mms) \in 0 .. Mms
      BY <1>5 DEF Lesser
    <3>. QED BY <2>1, <3>1, <3>2, <3>3 DEF DataLength
  <2>3. PICK next \in Seqs : next = Add(sar.not_ackd, length)
    <3>1. length \in Nat
      BY <1>5, <2>2
    <3>2. Add(sar.not_ackd, length) \in Seqs
      BY <1>5, <3>1
    <3>. QED BY <3>2
  <2>4. PICK sent : sent = [sar EXCEPT !.not_ackd = Add(@, length)]
    OBVIOUS
  <2>5. sent.not_ackd = next /\ sent.finSent = sar.finSent
    BY <1>4, <2>3, <2>4 DEF TxSar
  <2>6. m.type = "TX" /\ "TX" \notin Calm
    BY <1>7 DEF TxData, Handles, m, Calm, Openers
  <2>7. /\ length # 0 => Segment("DATA", sar.not_ackd, length) \in wire'
        /\ tx' = tx \/ tx' = TxSarFromTx(next, FALSE, FALSE)
        /\ \/ ml' = <<[m EXCEPT !.sar = sent]>>
           \/ ml' = <<[m EXCEPT !.type = "FIN", !.sar = sent]>>
           \/ ml' = <<>>
    BY <1>7, <2>1, <2>4, <2>5 DEF TxData, SendData, Send, m, sar
  <2>8. ml' # <<>> => ml'[1].sar = sent
    <3>1. \A e : e = [m EXCEPT !.sar = sent] \/ e = [m EXCEPT !.type = "FIN", !.sar = sent] => e.sar = sent
      BY <1>4
    <3>. QED BY <1>6, <2>7, <3>1
  <2>9. ~tx.finSent => CoveredBy(wire', next)
    <3>1. SUFFICES ASSUME CoveredBy(wire, sar.not_ackd) PROVE CoveredBy(wire', next)
      BY <1>4, <2>6
    <3>2. PICK s \in Seqs : s = sar.not_ackd
      BY <1>5
    <3>. QED BY <1>0, <2>2, <2>3, <2>7, <3>1, <3>2, CoverMore
  <2>10. tx'.finSent = tx.finSent /\ (tx'.not_ackd = tx.not_ackd \/ tx'.not_ackd = next)
    <3>1. FALSE \in BOOLEAN
      OBVIOUS
    <3>2. tx.finSent \in BOOLEAN
      BY <1>0 DEF TxSar
    <3>3. PICK t : t = TxSarFromTx(next, FALSE, FALSE)
      OBVIOUS
    <3>4. t.not_ackd = next /\ (t.finSent <=> tx.finSent)
      BY <1>0, <3>1, <3>3, FromTx
    <3>5. t.finSent = tx.finSent
      <4>1. t \in TxSar
        BY <1>0, <3>1, <3>3, FromTxTyped
      <4>2. t.finSent \in BOOLEAN
        BY <4>1 DEF TxSar
      <4>. QED BY <3>2, <3>4, <4>2
    <3>. QED BY <2>7, <3>3, <3>4, <3>5
  <2>. QED BY <1>4, <2>5, <2>6, <2>8, <2>9, <2>10
<1>8. CASE TxRetransmit
  <2>1. m.type = "RT" /\ "RT" \notin Calm
    BY <1>8 DEF TxRetransmit, Handles, m, Calm, Openers
  <2>2. /\ tx' = tx
        /\ \/ ml' = <<[m EXCEPT !.sar.ackd = Add(@, Mms), !.count = @ + 1]>>
           \/ sar.finSent /\ ml' = <<[m EXCEPT !.type = "FIN"]>>
           \/ ml' = <<>>
    BY <1>8 DEF TxRetransmit, m, sar
  <2>3. PICK again : again = [m EXCEPT !.sar.ackd = Add(@, Mms), !.count = @ + 1]
    OBVIOUS
  <2>4. again.type = "RT" /\ again.sar.finSent = sar.finSent
    <3>1. again.sar = [m.sar EXCEPT !.ackd = Add(@, Mms)] /\ again.type = m.type
      BY <1>4, <2>3
    <3>2. again.sar.finSent = sar.finSent
      BY <1>4, <3>1 DEF TxSar
    <3>. QED BY <2>1, <3>1, <3>2
  <2>5. [m EXCEPT !.type = "FIN"].sar = sar
    BY <1>4
  <2>. QED BY <1>4, <1>6, <2>1, <2>2, <2>3, <2>4, <2>5
<1>9. CASE TxFin
  <2>1. m.type = "FIN" /\ "FIN" \notin Calm /\ ml' = <<>>
    BY <1>9 DEF TxFin, Handles, m, Calm, Openers
  <2>2. \/ tx' = tx
        \/ tx' = TxSarFromTx(Add(sar.not_ackd, 1), TRUE, TRUE)
        \/ tx' = TxSarFromTx(sar.not_ackd, TRUE, FALSE)
    BY <1>9 DEF TxFin, sar
  <2>3. PICK s \in Seqs, next \in Seqs : s = sar.not_ackd /\ next = Add(sar.not_ackd, 1)
    BY <1>5
  <2>4. TRUE \in BOOLEAN /\ FALSE \in BOOLEAN
    OBVIOUS
  <2>5. TxSarFromTx(next, TRUE, TRUE).finSent
    BY <1>0, <2>4, FromTx
  <2>6. TxSarFromTx(s, TRUE, FALSE).not_ackd = s /\ (TxSarFromTx(s, TRUE, FALSE).finSent <=> tx.finSent)
    BY <1>0, <2>4, FromTx
  <2>7. ~tx.finSent => CoveredBy(wire', s)
    BY <1>0, <1>4, <2>1, <2>3, CoverKept
  <2>. QED BY <1>4, <2>1, <2>2, <2>3, <2>5, <2>6, <2>7
<1>10. CASE TxSyn \/ TxSynAck
  <2>1. PICK kind \in Openers : TxOpening(kind, kind)
    BY <1>10 DEF TxSyn, TxSynAck, Openers
  <2>2. /\ m.type \in Openers /\ ml' = <<>>
        /\ m.rt = 0 => tx' = TxSarInitFromTx(Add(Isn, 1))
        /\ m.rt # 0 => tx' = tx
    BY <2>1, OpeningOnce DEF AgreeInv, m
  <2>3. CASE m.rt = 0
    <3>1. tx'.not_ackd = Add(Isn, 1)
      BY <1>0, <2>2, <2>3, SynIsBehind DEF TxSarInitFromTx, TxSar
    <3>. QED BY <2>2, <3>1, CoverFirst
  <2>4. CASE m.rt # 0
    <3>1. Called
      BY <1>3, <2>2, <2>4 DEF OrderInv, m
    <3>. QED BY <1>4, <2>2, <2>4, <3>1
  <2>. QED BY <2>3, <2>4
<1>11. CASE TxAck \/ TxRst
  <2>1. tx' = tx /\ ml' = <<>> /\ \E kind \in {"ACK", "RST"} : \E s : wire' = wire \cup {Segment(kind, s, 0)}
    BY <1>11 DEF TxAck, TxRst
  <2>2. Called' => Called
    BY <2>1 DEF Called, Segment, Openers
  <2>. QED BY <1>4, <2>1, <2>2
<1>. QED BY <1>3, <1>7, <1>8, <1>9, <1>10, <1>11 DEF TxStep

LEMMA CoverStep ==
  ASSUME AgreeInv, FreshInv, OrderInv, CoverInv, [Next]_sessionVars
  PROVE  CoverInv'
<1>0. peer'.rcvd > 0 => Called'
  BY CalledFirst DEF CoverInv
<1>1. CASE TxStep
  BY <1>1, CoverTransmit
<1>2. CASE RxTransition
  <2>1. UNCHANGED <<ml, wire>> /\ tx'.not_ackd = tx.not_ackd
    BY <1>2, FinForgotten DEF RxTransition
  <2>2. CASE tx'.finSent = tx.finSent
    BY <1>0, <2>1, <2>2 DEF CoverInv, Called
  <2>3. CASE Fresh
    BY <1>0, <2>1, <2>3 DEF CoverInv, Called, Fresh
  <2>. QED BY <1>2, <2>2, <2>3, FinForgotten
<1>3. CASE StatusOk
  <2>1. UNCHANGED <<ml, wire>> /\ tx'.not_ackd = tx.not_ackd /\ tx'.finSent = tx.finSent
    BY <1>3 DEF StatusOk, AgreeInv, BothInv, Numbers, TxSar
  <2>. QED BY <1>0, <2>1 DEF CoverInv, Called
<1>4. CASE UNCHANGED <<ml, wire, tx>>
  BY <1>0, <1>4 DEF CoverInv, Called
<1>. QED BY <1>1, <1>2, <1>3, <1>4
     DEF Next, Expires, Local, RtDue, ProbeDue, CloseDue, RtExpires, ProbeExpires, CloseExpires,
         EventStep, DelayedAckFires, TakeTimerEvent, TakeAppEvent, ReleaseStep, TimerRelease,
         LookupRelease, AppRequest, AppIfStep, AppOpen, AppClose, StreamRequest, StreamWrite, Arrives,
         RxLoad, PeerSends, PeerReads, PeerReceives, engine, sessionVars

LEMMA GapInit == Init => GapInv
<1>1. SUFFICES ASSUME Init PROVE GapInv
  OBVIOUS
<1>2. FreshInv
  <2>1. RtReset \in [active : BOOLEAN, retries : Nat, type : Openers \cup {"RT"}] /\ ~RtReset.active
    BY DEF RtReset
  <2>2. \A T : <<>> \in Seq(T)
    OBVIOUS
  <2>3. ~TxSarReset.finSent
    BY DEF TxSarReset
  <2>. QED BY <1>1, <2>1, <2>2, <2>3 DEF Init, FreshInv, Starts, Fresh, Known
<1>3. OrderInv
  BY <1>1 DEF Init, OrderInv, Ordered, RtReset
<1>4. ~Called /\ peer.rcvd = 0 /\ ml = <<>>
  BY <1>1 DEF Init, Called
<1>5. CoverInv
  BY <1>4 DEF CoverInv
<1>. QED BY <1>1, <1>2, <1>3, <1>5, AgreeInit DEF GapInv

LEMMA GapStep ==
  ASSUME GapInv, [Next]_sessionVars, FirstNumbers'
  PROVE  GapInv'
<1>1. AgreeInv /\ FreshInv /\ OrderInv /\ CoverInv
  BY DEF GapInv
<1>2. AgreeInv'
  BY <1>1, AgreeStep
<1>3. FreshInv' /\ CoverInv'
  BY <1>1, <1>2, FreshStep, CoverStep
<1>4. OrderInv'
  BY <1>1, OrderStep DEF CoverInv
<1>. QED BY <1>2, <1>3, <1>4 DEF GapInv

-----------------------------------------------------------------------------
(***************************************************************************)
(* The send side: WindowKept, SentIsWritten and AckdNeverBack.             *)
(*                                                                         *)
(* All three compare positions in the stream of the engine.  What they     *)
(* speak of is computed by metaLoader from a copy of tx_sar_table, and     *)
(* written to the table after the segment was sent; in between rx_engine   *)
(* writes ackd and the window, and tx_app_interface the pointer app.  The  *)
(* invariants say of the table, the copy, the segments on the wire and the *)
(* segment that waits in rx_engine how far they may be apart.              *)
(***************************************************************************)

(* The events that can be under way, with the number of the repetition. *)
EventTypes == Calm \cup {"TX", "RT", "FIN"}
Events == [type : EventTypes, rt : Nat]

(* The FIFOs hold events; neither a timer nor the application fires the    *)
(* openings that are not theirs. *)
FifoInv ==
  /\ pipe \in Seq(Events) /\ timerEv \in Seq(Events) /\ appEv \in Seq(Events)
  /\ rt \in [active : BOOLEAN, retries : Nat, type : EventTypes]
  /\ ml # <<>> => ml[1].type \in EventTypes /\ ml[1].rt \in Nat
  /\ \A i \in 1 .. Len(timerEv) : ~Opens(timerEv[i])
  /\ \A i \in 1 .. Len(appEv) : appEv[i].type # "SYN_ACK"

(* One is on its way to tx_engine. *)
Early == (ml # <<>> /\ Opens(ml[1])) \/ \E k \in 1 .. Len(pipe) : Opens(pipe[k])

NothingSent == \A seg \in wire : seg.kind \notin {"DATA", "FIN"}

(* Nothing but openings and answers is under way. *)
Quiet ==
  /\ NothingSent /\ ~probe
  /\ \A i \in 1 .. Len(timerEv) : timerEv[i].type \in Calm
  /\ rt.active => rt.type \in Openers
  /\ ml # <<>> => ml[1].type \in Calm

CalmBefore ==
  \A k \in 1 .. Len(pipe) : Opens(pipe[k]) => \A j \in 1 .. k - 1 : pipe[j].type \in Calm

(* An opening that is still to write the table, and sets its pointers back *)
(* to the start, comes before everything that uses them. *)
EarlyInv ==
  /\ Starts => NothingSent
  /\ Early => Quiet /\ CalmBefore

(* The application has asked for a connection. *)
Asked ==
  \/ \E i \in 1 .. Len(cache) : cache[i].type = "SYN"
  \/ \E i \in 1 .. Len(appEv) : appEv[i].type = "SYN"

(* It asks once, before anything else is under way, and for a session that *)
(* no peer calls. *)
AskedInv ==
  /\ OpeningSegment => peer.calls
  /\ Asked =>
       /\ ~Called /\ ~peer.calls /\ Len(cache) + Len(appEv) = 1
       /\ \A k \in 1 .. Len(pipe) : pipe[k].type \notin Openers
       /\ ml # <<>> => ml[1].type \notin Openers

(* The session is open and no opening is on its way to the table. *)
Steady == Called /\ ~Early

(* The window of an entry ends where the peer's does, or before. *)
Allowed(sar) == sar.window = 0 \/ Pos(sar.ackd) + sar.window <= peer.credit + 1

(* What the table, the copy of metaLoader and the segment in rx_engine say *)
(* of the window was said by the peer, and the peer takes nothing back.    *)
(* Only a copy for TX is Allowed: the others are not sent by the window. *)
WindowInv ==
  /\ peer.credit <= Credit
  /\ rxPkt # <<>> => rxPkt[1].ack \in Seqs /\ rxPkt[1].win <= peer.credit + 1
  /\ rxPkt # <<>> => rxPkt[1].win = 0 \/ Pos(rxPkt[1].ack) + rxPkt[1].win <= peer.credit + 1
  /\ tx.window <= peer.credit + 1
  /\ Steady => Allowed(tx)
  /\ ml # <<>> /\ ml[1].type = "TX" => Allowed(ml[1].sar)

(* Up to where data was sent: while TX is in work its copy is ahead of the *)
(* table. *)
Top == IF ml # <<>> /\ ml[1].type = "TX" THEN ml[1].sar.not_ackd ELSE tx.not_ackd

(* Until a FIN is sent, Top is the end of what is on the wire and of what  *)
(* the peer has, and stays within the window. *)
LimitInv ==
  /\ tx.finSent => ~NoFinYet
  /\ NothingSent => peer.rcvd <= 1
  /\ NoFinYet =>
       /\ \A seg \in wire : seg.kind = "DATA" => Pos(seg.seq) + seg.len <= Pos(Top)
       /\ Called => 1 <= Pos(Top) /\ peer.rcvd <= Pos(Top) /\ Pos(Top) <= peer.credit + 1
       /\ Steady => Pos(tx.ackd) <= peer.rcvd
       /\ ml # <<>> /\ ml[1].type \in {"RT", "FIN"} => ml[1].sar.not_ackd = tx.not_ackd
       /\ ml # <<>> /\ ml[1].type = "RT" => Pos(ml[1].sar.ackd) <= Pos(ml[1].sar.not_ackd)

-----------------------------------------------------------------------------
(* Positions in the stream of the engine. *)

(* A position, without a remainder. *)
LEMMA PosIs ==
  ASSUME NEW s \in Seqs
  PROVE  /\ Pos(s) \in Seqs
         /\ Pos(s) = IF s >= Isn THEN s - Isn ELSE s + SeqMod - Isn
<1>0. SeqMod \in Nat /\ SeqMod >= 2 /\ Isn \in 1 .. SeqMod - 1
  BY Wraps
<1>1. PICK y : y = s + SeqMod - Isn
  OBVIOUS
<1>2. Pos(s) = y % SeqMod
  BY <1>1 DEF Pos, Sub
<1>3. CASE s >= Isn
  <2>1. y \in SeqMod .. 2 * SeqMod - 1 /\ y - SeqMod = s - Isn
    BY <1>0, <1>1, <1>3 DEF Seqs
  <2>2. Pos(s) = y - SeqMod
    BY <1>2, <2>1, Wraps
  <2>. QED BY <1>0, <1>3, <2>1, <2>2 DEF Seqs
<1>4. CASE s < Isn
  <2>1. y \in Seqs
    BY <1>0, <1>1, <1>4 DEF Seqs
  <2>. QED BY <1>0, <1>1, <1>2, <1>4, <2>1, Wraps DEF Seqs
<1>. QED BY <1>0, <1>3, <1>4 DEF Seqs

(* What is added moves the position, unless it goes round. *)
LEMMA PosPlus ==
  ASSUME NEW s \in Seqs, NEW n \in Nat, Pos(s) + n < SeqMod
  PROVE  Add(s, n) \in Seqs /\ Pos(Add(s, n)) = Pos(s) + n
<1>0. SeqMod \in Nat /\ Pos(s) \in Nat /\ n \in 0 .. SeqMod - 1 /\ Add(s, n) \in Seqs
  BY Wraps, PosIs, SeqsClosed DEF Seqs
<1>1. Pos(Add(s, n)) \in Nat
  BY <1>0, PosIs DEF Seqs
<1>. QED BY <1>0, <1>1, PosOfSum

LEMMA PosOfIsn ==
  /\ Isn \in Seqs /\ Pos(Isn) = 0
  /\ Add(Isn, 1) \in Seqs /\ Pos(Add(Isn, 1)) = 1
  /\ \A a \in Seqs : Add(Isn, a) \in Seqs /\ Pos(Add(Isn, a)) = a
<1>0. SeqMod \in Nat /\ SeqMod >= 2 /\ Isn \in Seqs /\ Isn \in Nat /\ 1 \in Seqs
  BY Wraps, SeqsClosed
<1>1. Pos(Isn) = 0
  BY <1>0, PosIs DEF Seqs
<1>2. ASSUME NEW a \in Seqs PROVE Add(Isn, a) \in Seqs /\ Pos(Add(Isn, a)) = a
  <2>1. a \in Nat /\ Pos(Isn) + a = a /\ a < SeqMod
    BY <1>0, <1>1 DEF Seqs
  <2>. QED BY <1>0, <2>1, PosPlus
<1>. QED BY <1>0, <1>1, <1>2

(* A difference of numbers is one of positions. *)
LEMMA PosMinus ==
  ASSUME NEW a \in Seqs, NEW b \in Seqs
  PROVE  /\ Sub(a, b) \in Seqs
         /\ Sub(a, b) = IF Pos(b) <= Pos(a) THEN Pos(a) - Pos(b) ELSE SeqMod - (Pos(b) - Pos(a))
<1>0. SeqMod \in Nat /\ SeqMod >= 2 /\ Isn \in 1 .. SeqMod - 1
  BY Wraps
<1>1. /\ Pos(a) = IF a >= Isn THEN a - Isn ELSE a + SeqMod - Isn
      /\ Pos(b) = IF b >= Isn THEN b - Isn ELSE b + SeqMod - Isn
  BY PosIs
<1>2. PICK y : y = a + SeqMod - b
  OBVIOUS
<1>3. Sub(a, b) = y % SeqMod /\ Sub(a, b) \in Seqs
  BY <1>2, SeqsClosed DEF Sub
<1>4. CASE a >= b
  <2>1. y \in SeqMod .. 2 * SeqMod - 1 /\ y - SeqMod = a - b
    BY <1>0, <1>2, <1>4 DEF Seqs
  <2>2. Sub(a, b) = a - b
    BY <1>3, <2>1, Wraps
  <2>. QED BY <1>0, <1>1, <1>3, <1>4, <2>2 DEF Seqs
<1>5. CASE a < b
  <2>1. y \in Seqs
    BY <1>0, <1>2, <1>5 DEF Seqs
  <2>2. Sub(a, b) = (a + SeqMod) - b
    BY <1>0, <1>2, <1>3, <2>1, Wraps DEF Seqs
  <2>. QED BY <1>0, <1>1, <1>3, <1>5, <2>2 DEF Seqs
<1>. QED BY <1>0, <1>4, <1>5 DEF Seqs

(* The test of rx_engine compares numbers, but means positions. *)
LEMMA PosBetween ==
  ASSUME NEW low \in Seqs, NEW a \in Seqs, NEW high \in Seqs,
         Pos(low) <= Pos(high), Between(low, a, high)
  PROVE  Pos(low) <= Pos(a) /\ Pos(a) <= Pos(high)
<1>0. SeqMod \in Nat /\ SeqMod >= 2 /\ Isn \in 1 .. SeqMod - 1
  BY Wraps
<1>1. \A s \in {low, a, high} : Pos(s) = IF s >= Isn THEN s - Isn ELSE s + SeqMod - Isn
  BY PosIs
<1>. QED BY <1>0, <1>1 DEF Between, Seqs

-----------------------------------------------------------------------------
(* Events on their way. *)

(* The places of what is put into a queue, and of what is left in it. *)
LEMMA QueueAppend ==
  ASSUME NEW T, NEW q \in Seq(T), NEW e \in T
  PROVE  /\ Append(q, e) \in Seq(T) /\ Len(q) \in Nat /\ Len(Append(q, e)) = Len(q) + 1
         /\ Append(q, e)[Len(q) + 1] = e
         /\ \A i \in 1 .. Len(q) : q[i] \in T /\ Append(q, e)[i] = q[i]
  OBVIOUS

LEMMA QueueTail ==
  ASSUME NEW T, NEW q \in Seq(T), q # <<>>
  PROVE  /\ Tail(q) \in Seq(T) /\ Head(q) \in T /\ Head(q) = q[1]
         /\ Len(q) \in Nat \ {0} /\ Len(Tail(q)) = Len(q) - 1
         /\ \A i \in 1 .. Len(Tail(q)) : i + 1 \in 1 .. Len(q) /\ Tail(q)[i] = q[i + 1]
  OBVIOUS

(* What is fired is an event. *)
LEMMA EventIs ==
  /\ \A type \in EventTypes, n \in Nat : Ev(type, n) \in Events /\ Ev(type, n).type = type /\ Ev(type, n).rt = n
  /\ \A e \in Events : e.type \in EventTypes /\ e.rt \in Nat
  /\ EventTypes = {"SYN", "SYN_ACK", "RST", "ACK", "ACK_NODELAY", "TX", "RT", "FIN"}
  /\ Calm = {"SYN", "SYN_ACK", "RST", "ACK", "ACK_NODELAY"} /\ Openers = {"SYN", "SYN_ACK"}
  /\ 0 \in Nat /\ 1 \in Nat
  BY DEF Ev, Events, EventTypes, Calm, Openers

(* What a segment that is handled does to the events. *)
LEMMA RxEffects ==
  ASSUME FifoInv, RxTransition
  PROVE  /\ UNCHANGED <<ml, timerEv, appEv, wire, peer, cache, mempt, app, streamReq>>
         /\ rxPkt # <<>> /\ rxPkt' = <<>>
         /\ rt' \in [active : BOOLEAN, retries : Nat, type : EventTypes] /\ rt'.type = rt.type
         /\ rt'.active => rt.active
         /\ probe' => probe
         /\ \/ pipe' = pipe
            \/ \E e \in Events : /\ pipe' = Append(pipe, e) /\ e.type \notin {"SYN", "TX"}
                                 /\ e.type \in Openers => OpeningSegment
                                 /\ Opens(e) => state \in {"CLOSED", "SYN_SENT"}
<1>. DEFINE p == rxPkt[1]
<1>0. /\ UNCHANGED <<ml, timerEv, appEv, wire, peer, cache, mempt, app, streamReq>>
      /\ rxPkt # <<>> /\ rxPkt' = <<>>
  BY DEF RxTransition, appSide
<1>1. \/ p.kind = "ACK" /\ OnAck(p)
      \/ p.kind = "SYN" /\ OnSyn(p)
      \/ p.kind = "SYN_ACK" /\ OnSynAck(p)
      \/ p.kind = "FIN" /\ OnFin(p)
      \/ p.kind = "RST" /\ OnRst(p)
  BY DEF RxTransition
<1>2. p.kind = "SYN" => OpeningSegment
  BY <1>0 DEF OpeningSegment
<1>. HIDE DEF p
<1>3. /\ rt' \in [active : BOOLEAN, retries : Nat, type : EventTypes] /\ rt'.type = rt.type
      /\ rt'.active => rt.active
  <2>1. rt' = rt \/ \E stop \in BOOLEAN : ClearRetransmit(stop)
    BY <1>1 DEF OnAck, OnSyn, OnSynAck, OnFin, OnRst
  <2>2. rt \in [active : BOOLEAN, retries : Nat, type : EventTypes]
    BY DEF FifoInv
  <2>3. CASE rt' = rt
    BY <2>2, <2>3
  <2>4. CASE \E stop \in BOOLEAN : ClearRetransmit(stop)
    <3>1. PICK stop \in BOOLEAN : ClearRetransmit(stop)
      BY <2>4
    <3>2. rt' = [rt EXCEPT !.retries = 0, !.active = @ /\ ~stop]
      BY <3>1 DEF ClearRetransmit
    <3>. QED BY <2>2, <3>2
  <2>. QED BY <2>1, <2>3, <2>4
<1>4. probe' => probe
  <2>1. OnAck(p) => (probe' => probe)
    BY Zenon DEF OnAck
  <2>. QED BY <1>1, <2>1 DEF OnSyn, OnSynAck, OnFin, OnRst
<1>5. \/ pipe' = pipe
      \/ \E type \in {"RT", "ACK", "RST", "ACK_NODELAY", "FIN", "SYN_ACK"} : \E n \in {0, 1} :
           /\ Passes(pipe, Ev(type, n))
           /\ type = "SYN_ACK" => p.kind = "SYN" /\ (n = 0 => state \in {"CLOSED", "SYN_SENT"})
  <2>1. OnAck(p) => \/ pipe' = pipe \/ Passes(pipe, Ev("RT", 0)) \/ Passes(pipe, Ev("ACK", 0))
                    \/ Passes(pipe, Ev("RST", 1))
    BY Zenon DEF OnAck, RxEvent, NoRxEvent
  <2>2. p.kind = "SYN" /\ OnSyn(p) =>
          \/ Passes(pipe, Ev("SYN_ACK", 0)) /\ state \in {"CLOSED", "SYN_SENT"}
          \/ p.kind = "SYN" /\ Passes(pipe, Ev("SYN_ACK", 1))
          \/ Passes(pipe, Ev("RST", 1)) \/ Passes(pipe, Ev("ACK_NODELAY", 0))
    BY DEF OnSyn, RxEvent
  <2>3. OnSynAck(p) => Passes(pipe, Ev("RST", 1)) \/ Passes(pipe, Ev("ACK_NODELAY", 0))
    BY DEF OnSynAck, RxEvent
  <2>4. OnFin(p) => Passes(pipe, Ev("FIN", 0)) \/ Passes(pipe, Ev("ACK", 0))
    BY DEF OnFin, RxEvent
  <2>5. OnRst(p) => pipe' = pipe
    BY DEF OnRst, NoRxEvent
  <2>. QED BY <1>1, <2>1, <2>2, <2>3, <2>4, <2>5
<1>6. \/ pipe' = pipe
      \/ \E e \in Events : /\ pipe' = Append(pipe, e) /\ e.type \notin {"SYN", "TX"}
                           /\ e.type \in Openers => OpeningSegment
                           /\ Opens(e) => state \in {"CLOSED", "SYN_SENT"}
  <2>1. CASE pipe' = pipe
    BY <2>1
  <2>2. CASE pipe' # pipe
    <3>1. PICK type \in {"RT", "ACK", "RST", "ACK_NODELAY", "FIN", "SYN_ACK"}, n \in {0, 1} :
           /\ Passes(pipe, Ev(type, n))
           /\ type = "SYN_ACK" => p.kind = "SYN" /\ (n = 0 => state \in {"CLOSED", "SYN_SENT"})
      BY <1>5, <2>2
    <3>2. type \in EventTypes /\ n \in Nat
      BY EventIs
    <3>3. PICK e \in Events : e = Ev(type, n) /\ e.type = type /\ e.rt = n
      BY <3>2, EventIs
    <3>4. pipe' = Append(pipe, e)
      BY <2>2, <3>1, <3>3 DEF Passes
    <3>. QED BY <1>2, <3>1, <3>3, <3>4, EventIs DEF Opens
  <2>. QED BY <2>1, <2>2
<1>. QED BY <1>0, <1>3, <1>4, <1>6

(* The events, of every other step: passed on, fired by a timer or by the  *)
(* application. *)
LEMMA EventEffects ==
  ASSUME FifoInv, EventStep \/ Expires \/ ReleaseStep
  PROVE  /\ UNCHANGED <<ml, tx, wire, peer, cache, mempt, app, streamReq, rxPkt, recvd, snap>>
         /\ \/ /\ UNCHANGED <<appEv, timerEv, rt>> /\ (probe' => probe)
               /\ pipe' = pipe \/ pipe' = Append(pipe, Ev("ACK", 0))
            \/ /\ UNCHANGED <<appEv, rt, probe>> /\ timerEv # <<>> /\ timerEv' = Tail(timerEv)
               /\ \E e \in Events : /\ e = timerEv[1] /\ pipe = <<>>
                                    /\ pipe' = pipe \/ pipe' = Append(pipe, e)
            \/ /\ UNCHANGED <<timerEv, rt, probe>> /\ appEv # <<>> /\ appEv' = Tail(appEv)
               /\ \E e \in Events : /\ e = appEv[1] /\ pipe = <<>>
                                    /\ pipe' = Append(pipe, e) \/ (pipe' = pipe /\ e.type = "ACK")
            \/ /\ UNCHANGED <<appEv, pipe>> /\ rt.active /\ probe' = probe
               /\ rt' \in [active : BOOLEAN, retries : Nat, type : EventTypes] /\ rt'.type = rt.type /\ ~rt'.active
               /\ timerEv' = timerEv \/ \E n \in Nat \ {0} : timerEv' = Append(timerEv, Ev(rt.type, n))
            \/ /\ UNCHANGED <<appEv, pipe, rt>> /\ probe /\ ~probe'
               /\ timerEv' = Append(timerEv, Ev("TX", 0))
<1>1. CASE DelayedAckFires
  BY <1>1 DEF DelayedAckFires, rxEng, timers, appSide
<1>2. CASE TakeTimerEvent
  <2>1. /\ UNCHANGED <<ml, tx, wire, peer, cache, mempt, app, streamReq, rxPkt, recvd, snap, appEv, rt, probe>>
        /\ timerEv # <<>> /\ timerEv' = Tail(timerEv) /\ pipe = <<>> /\ Passes(pipe, Head(timerEv))
    BY <1>2 DEF TakeTimerEvent, rxEng, timers, appSide
  <2>2. PICK e \in Events : e = timerEv[1] /\ e = Head(timerEv)
    BY <2>1, QueueTail DEF FifoInv
  <2>3. pipe' = pipe \/ pipe' = Append(pipe, e)
    BY <2>1, <2>2 DEF Passes
  <2>. QED BY <2>1, <2>2, <2>3
<1>3. CASE TakeAppEvent
  <2>1. /\ UNCHANGED <<ml, tx, wire, peer, cache, mempt, app, streamReq, rxPkt, recvd, snap, timerEv, rt, probe>>
        /\ appEv # <<>> /\ appEv' = Tail(appEv) /\ pipe = <<>> /\ Passes(pipe, Head(appEv))
    BY <1>3 DEF TakeAppEvent, rxEng, timers, appSide
  <2>2. PICK e \in Events : e = appEv[1] /\ e = Head(appEv)
    BY <2>1, QueueTail DEF FifoInv
  <2>3. pipe' = Append(pipe, e) \/ (pipe' = pipe /\ e.type = "ACK")
    BY <2>1, <2>2 DEF Passes
  <2>. QED BY <2>1, <2>2, <2>3
<1>4. CASE RtDue
  <2>1. rt \in [active : BOOLEAN, retries : Nat, type : EventTypes]
    BY DEF FifoInv
  <2>2. UNCHANGED <<ml, tx, wire, peer, cache, mempt, app, streamReq, rxPkt, recvd, snap, appEv, pipe, probe>>
        /\ rt.active
    BY <1>4 DEF RtDue, RtExpires, rxEng, appSide
  <2>3. \/ /\ rt' = [rt EXCEPT !.active = FALSE, !.retries = @ + 1]
           /\ timerEv' = Append(timerEv, Ev(rt.type, rt.retries + 1))
        \/ rt' = [rt EXCEPT !.active = FALSE, !.retries = 0] /\ timerEv' = timerEv
    BY <1>4 DEF RtDue, RtExpires
  <2>4. PICK n \in Nat \ {0} : n = rt.retries + 1
    BY <2>1
  <2>5. rt' \in [active : BOOLEAN, retries : Nat, type : EventTypes] /\ rt'.type = rt.type /\ ~rt'.active
    <3>1. PICK m \in Nat : rt' = [rt EXCEPT !.active = FALSE, !.retries = m]
      BY <2>1, <2>3, <2>4
    <3>. QED BY <2>1, <3>1
  <2>. QED BY <2>2, <2>3, <2>4, <2>5
<1>5. CASE ProbeDue
  BY <1>5 DEF ProbeDue, ProbeExpires, rxEng, appSide
<1>6. CASE CloseDue \/ ReleaseStep
  BY <1>6 DEF CloseDue, CloseExpires, ReleaseStep, TimerRelease, LookupRelease, events, rxEng, appSide, timers
<1>. QED BY <1>1, <1>2, <1>3, <1>4, <1>5, <1>6 DEF EventStep, Expires

(* What tx_engine does to the events. *)
LEMMA TxEffects ==
  ASSUME FifoInv, Numbers, TxStep
  PROVE  /\ UNCHANGED <<state, recvd, rxPkt, snap, timerEv, appEv, cache, streamReq, app, peer, answers, told>>
         /\ rt' \in [active : BOOLEAN, retries : Nat, type : EventTypes]
         /\ \/ /\ ml = <<>> /\ pipe # <<>> /\ pipe' = Tail(pipe) /\ ml' # <<>>
               /\ ml'[1].type = pipe[1].type /\ ml'[1].rt = pipe[1].rt /\ ml'[1].sar = tx
               /\ UNCHANGED <<tx, wire, rt, probe, mempt>>
            \/ /\ ml # <<>> /\ pipe' = pipe /\ ml[1].type \in {"TX", "RT", "FIN"}
               /\ ml' # <<>> => ml'[1].type \in {"TX", "RT", "FIN"} /\ ml'[1].rt = ml[1].rt
               /\ (rt' = rt \/ rt'.type = "RT") /\ mempt' = mempt
               /\ \A seg \in wire' \ wire : seg.kind \in {"DATA", "FIN"}
            \/ /\ ml # <<>> /\ pipe' = pipe /\ ml' = <<>> /\ probe' = probe
               /\ \/ /\ ml[1].type \in Openers /\ rt'.active /\ rt'.type = ml[1].type
                     /\ TxOpening(ml[1].type, ml[1].type)
                  \/ ml[1].type \in Calm \ Openers /\ rt' = rt /\ tx' = tx /\ mempt' = mempt
               /\ \A seg \in wire' \ wire : seg.kind \in Openers \cup {"ACK", "RST"}
               /\ (\A seg \in wire' \ wire : seg.kind \notin Openers) \/ ml[1].type \in Openers
<1>. DEFINE Timer == [active : BOOLEAN, retries : Nat, type : EventTypes]
<1>0. /\ rt \in Timer /\ Calm = {"SYN", "SYN_ACK", "RST", "ACK", "ACK_NODELAY"}
      /\ Openers = {"SYN", "SYN_ACK"} /\ "RT" \in EventTypes /\ Openers \subseteq EventTypes
  BY EventIs DEF FifoInv
<1>1. ASSUME NEW type \in EventTypes, SetRetransmit(type)
      PROVE  rt' \in Timer /\ rt'.active /\ rt'.type = type
  BY <1>0, <1>1 DEF SetRetransmit
<1>2. /\ UNCHANGED <<state, recvd, rxPkt, snap, timerEv, appEv, cache, streamReq, app, peer, answers, told>>
  BY DEF TxStep, TxLoad, TxData, TxRetransmit, TxFin, TxSyn, TxSynAck, TxOpening, TxAck, TxRst, MetaRest,
         table, rxEng, events, appSide
<1>3. CASE TxLoad
  <2>1. /\ ml = <<>> /\ pipe # <<>> /\ pipe' = Tail(pipe) /\ UNCHANGED <<tx, wire, rt, probe, mempt>>
        /\ ml' = <<[type |-> Head(pipe).type, rt |-> Head(pipe).rt, sar |-> tx, count |-> 0]>>
    BY <1>3 DEF TxLoad, timers, appSide
  <2>2. ml' # <<>> /\ ml'[1].type = Head(pipe).type /\ ml'[1].rt = Head(pipe).rt /\ ml'[1].sar = tx
    BY <2>1
  <2>3. Head(pipe) = pipe[1]
    BY <2>1, QueueTail DEF FifoInv
  <2>. HIDE DEF Timer
  <2>. QED BY <1>0, <1>2, <2>1, <2>2, <2>3 DEF Timer
<1>4. ASSUME NEW kind \in {"DATA", "FIN"}, NEW seq, NEW n,
             (wire' = wire /\ rt' = rt) \/ Send(Segment(kind, seq, n), "RT")
      PROVE  /\ rt' \in Timer /\ (rt' = rt \/ rt'.type = "RT")
             /\ \A seg \in wire' \ wire : seg.kind \in {"DATA", "FIN"}
  <2>1. rt' = rt \/ SetRetransmit("RT")
    BY <1>4 DEF Send
  <2>2. \A seg \in wire' \ wire : seg = Segment(kind, seq, n)
    BY <1>4 DEF Send
  <2>. HIDE DEF Timer
  <2>. QED BY <1>0, <1>1, <2>1, <2>2 DEF Segment
<1>m. ASSUME ml # <<>>
      PROVE  /\ \A e, sar : e = [ml[1] EXCEPT !.sar = sar] => e.type = ml[1].type /\ e.rt = ml[1].rt
             /\ \A e, sar : e = [ml[1] EXCEPT !.type = "FIN", !.sar = sar] => e.type = "FIN" /\ e.rt = ml[1].rt
             /\ \A e : e = [ml[1] EXCEPT !.type = "FIN"] => e.type = "FIN" /\ e.rt = ml[1].rt
             /\ \A e : e = [ml[1] EXCEPT !.sar.ackd = Add(@, Mms), !.count = @ + 1]
                    => e.type = ml[1].type /\ e.rt = ml[1].rt
  <2>1. PICK m : m = ml[1] /\ m = [type |-> m.type, rt |-> m.rt, sar |-> m.sar, count |-> m.count]
    <3>1. ml[1] = [type |-> ml[1].type, rt |-> ml[1].rt, sar |-> ml[1].sar, count |-> ml[1].count]
      BY <1>m DEF Numbers
    <3>. QED BY <3>1
  <2>. QED BY <2>1
<1>5. CASE TxData
  <2>1. ml # <<>> /\ ml[1].type = "TX" /\ pipe' = pipe /\ mempt' = mempt
    BY <1>5 DEF TxData, Handles, MetaRest, events, appSide
  <2>2. \E seq, n : (wire' = wire /\ rt' = rt) \/ Send(Segment("DATA", seq, n), "RT")
    BY <1>5 DEF TxData, SendData
  <2>3. ml' = <<>> \/ \E e, sar : /\ ml' = <<e>>
                                  /\ e = [ml[1] EXCEPT !.sar = sar] \/ e = [ml[1] EXCEPT !.type = "FIN", !.sar = sar]
    BY <1>5 DEF TxData
  <2>4. ml' # <<>> => ml'[1].type \in {"TX", "RT", "FIN"} /\ ml'[1].rt = ml[1].rt
    <3>1. SUFFICES ASSUME ml' # <<>> PROVE ml'[1].type \in {"TX", "RT", "FIN"} /\ ml'[1].rt = ml[1].rt
      OBVIOUS
    <3>2. PICK e, sar : /\ ml' = <<e>>
                        /\ e = [ml[1] EXCEPT !.sar = sar] \/ e = [ml[1] EXCEPT !.type = "FIN", !.sar = sar]
      BY <2>3, <3>1
    <3>3. e.type \in {"TX", "RT", "FIN"} /\ e.rt = ml[1].rt
      BY <1>m, <2>1, <3>2
    <3>. QED BY <3>2, <3>3
  <2>5. /\ rt' \in Timer /\ (rt' = rt \/ rt'.type = "RT")
        /\ \A seg \in wire' \ wire : seg.kind \in {"DATA", "FIN"}
    BY <1>4, <2>2
  <2>. QED BY <1>2, <2>1, <2>4, <2>5
<1>6. CASE TxRetransmit
  <2>1. ml # <<>> /\ ml[1].type = "RT" /\ pipe' = pipe /\ mempt' = mempt
    BY <1>6 DEF TxRetransmit, Handles, MetaRest, events, appSide
  <2>2. \E seq, n : (wire' = wire /\ rt' = rt) \/ Send(Segment("DATA", seq, n), "RT")
    BY <1>6 DEF TxRetransmit, SendData
  <2>3. ml' = <<>> \/ \E e : /\ ml' = <<e>>
                             /\ \/ e = [ml[1] EXCEPT !.type = "FIN"]
                                \/ e = [ml[1] EXCEPT !.sar.ackd = Add(@, Mms), !.count = @ + 1]
    BY <1>6 DEF TxRetransmit
  <2>4. ml' # <<>> => ml'[1].type \in {"TX", "RT", "FIN"} /\ ml'[1].rt = ml[1].rt
    <3>1. SUFFICES ASSUME ml' # <<>> PROVE ml'[1].type \in {"TX", "RT", "FIN"} /\ ml'[1].rt = ml[1].rt
      OBVIOUS
    <3>2. PICK e : /\ ml' = <<e>>
                   /\ \/ e = [ml[1] EXCEPT !.type = "FIN"]
                      \/ e = [ml[1] EXCEPT !.sar.ackd = Add(@, Mms), !.count = @ + 1]
      BY <2>3, <3>1
    <3>3. e.type \in {"TX", "RT", "FIN"} /\ e.rt = ml[1].rt
      BY <1>m, <2>1, <3>2
    <3>. QED BY <3>2, <3>3
  <2>5. /\ rt' \in Timer /\ (rt' = rt \/ rt'.type = "RT")
        /\ \A seg \in wire' \ wire : seg.kind \in {"DATA", "FIN"}
    BY <1>4, <2>2
  <2>. QED BY <1>2, <2>1, <2>4, <2>5
<1>7. CASE TxFin
  <2>1. ml # <<>> /\ ml[1].type = "FIN" /\ pipe' = pipe /\ mempt' = mempt /\ ml' = <<>>
    BY <1>7 DEF TxFin, Handles, MetaRest, events, appSide
  <2>2. \E seq, n : (wire' = wire /\ rt' = rt) \/ Send(Segment("FIN", seq, n), "RT")
    BY <1>7 DEF TxFin
  <2>5. /\ rt' \in Timer /\ (rt' = rt \/ rt'.type = "RT")
        /\ \A seg \in wire' \ wire : seg.kind \in {"DATA", "FIN"}
    BY <1>4, <2>2
  <2>. QED BY <1>2, <2>1, <2>5
<1>8. CASE TxSyn \/ TxSynAck
  <2>1. PICK type \in Openers : TxOpening(type, type)
    BY <1>0, <1>8 DEF TxSyn, TxSynAck
  <2>2. ml # <<>> /\ ml[1].type = type /\ pipe' = pipe /\ ml' = <<>> /\ probe' = probe
        /\ \E seq : Send(Segment(type, seq, 0), type)
    BY <2>1 DEF TxOpening, Handles, events
  <2>3. rt' \in Timer /\ rt'.active /\ rt'.type = type /\ \A seg \in wire' \ wire : seg.kind = type
    BY <1>0, <1>1, <2>2 DEF Send, Segment
  <2>. HIDE DEF Timer
  <2>. QED BY <1>2, <2>1, <2>2, <2>3 DEF Timer
<1>9. CASE TxAck \/ TxRst
  <2>1. /\ ml # <<>> /\ ml[1].type \in Calm \ Openers /\ pipe' = pipe /\ ml' = <<>>
        /\ UNCHANGED <<probe, rt, tx, mempt>>
        /\ \E seq : \E kind \in {"ACK", "RST"} : wire' = wire \cup {Segment(kind, seq, 0)}
    BY <1>0, <1>9 DEF TxAck, TxRst, Handles, MetaRest, events, appSide
  <2>2. \A seg \in wire' \ wire : seg.kind \in {"ACK", "RST"}
    BY <2>1 DEF Segment
  <2>. QED BY <1>0, <1>2, <2>1, <2>2
<1>. HIDE DEF Timer
<1>. QED BY <1>3, <1>5, <1>6, <1>7, <1>8, <1>9 DEF TxStep

(* What waits in tx_app_interface. *)
LEMMA CacheIs ==
  ASSUME Numbers
  PROVE  /\ \A i \in 1 .. Len(cache) : cache[i].type \in {"SYN", "FIN", "TX"} /\ cache[i].end \in Seqs
         /\ Len(cache) \in Nat
         /\ cache # <<>> => /\ Head(cache) = cache[1] /\ Len(cache) >= 1 /\ Len(Tail(cache)) = Len(cache) - 1
                            /\ \A i \in 1 .. Len(cache) - 1 : Tail(cache)[i] = cache[i + 1]
         /\ \A type, end : LET e == Cached(type, end)
                           IN  /\ Len(Append(cache, e)) = Len(cache) + 1
                               /\ Append(cache, e)[Len(cache) + 1].type = type
                               /\ Append(cache, e)[Len(cache) + 1].end = end
                               /\ \A i \in 1 .. Len(cache) : Append(cache, e)[i] = cache[i]
<1>. DEFINE Entry == [type : {"SYN", "FIN", "TX"}, end : Seqs]
<1>1. cache \in Seq(Entry) /\ \A e \in Entry : e.type \in {"SYN", "FIN", "TX"} /\ e.end \in Seqs
  BY DEF Numbers
<1>. HIDE DEF Entry
<1>2. \A i \in 1 .. Len(cache) : cache[i] \in Entry
  BY <1>1
<1>3. cache # <<>> => /\ Head(cache) = cache[1] /\ Len(cache) >= 1 /\ Len(Tail(cache)) = Len(cache) - 1
                      /\ \A i \in 1 .. Len(cache) - 1 : Tail(cache)[i] = cache[i + 1]
  BY <1>1
<1>4. ASSUME NEW e PROVE /\ Len(Append(cache, e)) = Len(cache) + 1 /\ Append(cache, e)[Len(cache) + 1] = e
                         /\ \A i \in 1 .. Len(cache) : Append(cache, e)[i] = cache[i]
  BY <1>1
<1>. QED BY <1>1, <1>2, <1>3, <1>4 DEF Cached

(* What the application interface does. *)
LEMMA AppEffects ==
  ASSUME Numbers, AppIfStep \/ AppRequest
  PROVE  /\ UNCHANGED <<pipe, timerEv, rt, probe, ml, wire, peer, rxPkt, recvd, snap, answers, told>>
         /\ \/ /\ cache # <<>> /\ cache' = Tail(cache) /\ appEv' = Append(appEv, Ev(cache[1].type, 0))
               /\ UNCHANGED <<state, streamReq, mempt, app>>
               /\ tx' = IF cache[1].type = "TX" THEN [tx EXCEPT !.app = cache[1].end] ELSE tx
            \/ /\ AppOpen /\ app.open /\ cache' = Append(cache, Cached("SYN", 0)) /\ UNCHANGED <<appEv, tx, mempt>>
               /\ app' = [app EXCEPT !.open = FALSE] /\ state' = "SYN_SENT"
            \/ /\ Known /\ UNCHANGED <<appEv, tx, mempt>> /\ state' = AppCloseWrites(state)
               /\ (cache' = cache \/ cache' = Append(cache, Cached("FIN", 0)))
               /\ app' = [app EXCEPT !.closes = @ - 1]
            \/ streamReq = <<>> /\ Known /\ UNCHANGED <<appEv, tx, state, cache, mempt, app>>
            \/ /\ streamReq # <<>> /\ UNCHANGED <<appEv, tx, state>>
               /\ \/ UNCHANGED <<cache, mempt, app>>
                  \/ \E n \in WriteSizes : /\ n <= app.left /\ mempt' = Add(mempt, n)
                                           /\ cache' = Append(cache, Cached("TX", Add(mempt, n)))
                                           /\ app' = [app EXCEPT !.left = @ - n]
<1>1. CASE StatusOk
  <2>1. cache # <<>> /\ Head(cache) = cache[1]
    BY <1>1, CacheIs DEF StatusOk
  <2>. QED BY <1>1, <2>1 DEF StatusOk, table, rxEng, timers
<1>2. CASE AppOpen
  BY <1>2 DEF AppOpen, rxEng, events, timers
<1>3. CASE AppClose
  BY <1>3 DEF AppClose, rxEng, events, timers
<1>4. CASE StreamRequest
  BY <1>4 DEF StreamRequest, table, rxEng, events, timers
<1>5. CASE \E n \in WriteSizes : StreamWrite(n)
  BY <1>5 DEF StreamWrite, table, rxEng, events, timers
<1>. QED BY <1>1, <1>2, <1>3, <1>4, <1>5 DEF AppIfStep, AppRequest

(* The steps of the peer leave the engine alone, but for the segment that  *)
(* arrives. *)
LEMMA PeerEffects ==
  ASSUME Arrives \/ PeerSends \/ PeerReads \/ (\E seg \in wire : PeerReceives(seg)) \/ UNCHANGED sessionVars
  PROVE  /\ UNCHANGED <<state, recvd, tx, ml, pipe, timerEv, appEv, rt, probe, closeTimer, giveUp, cache, streamReq, mempt,
                        app, answers, told, wire>>
         /\ Arrives \/ UNCHANGED <<rxPkt, snap>>
  BY DEF Arrives, RxLoad, PeerSends, PeerReads, PeerReceives, engine, table, rxEng, events, timers, appSide,
         sessionVars

(* The steps, by what they do to the events. *)
LEMMA NextIs ==
  ASSUME [Next]_sessionVars
  PROVE  \/ RxTransition \/ TxStep \/ (EventStep \/ Expires \/ ReleaseStep) \/ (AppIfStep \/ AppRequest)
         \/ Arrives \/ PeerSends \/ PeerReads \/ (\E seg \in wire : PeerReceives(seg)) \/ UNCHANGED sessionVars
  BY DEF Next, Local

(* What is under way stays an event. *)
LEMMA FifoStep ==
  ASSUME FifoInv, Numbers, [Next]_sessionVars
  PROVE  FifoInv'
<1>. DEFINE Timer == [active : BOOLEAN, retries : Nat, type : EventTypes]
<1>0. /\ pipe \in Seq(Events) /\ timerEv \in Seq(Events) /\ appEv \in Seq(Events) /\ rt \in Timer
      /\ ml # <<>> => ml[1].type \in EventTypes /\ ml[1].rt \in Nat
      /\ \A i \in 1 .. Len(timerEv) : ~Opens(timerEv[i])
      /\ \A i \in 1 .. Len(appEv) : appEv[i].type # "SYN_ACK"
  BY DEF FifoInv
<1>1. SUFFICES /\ pipe' \in Seq(Events) /\ timerEv' \in Seq(Events) /\ appEv' \in Seq(Events) /\ rt' \in Timer
               /\ ml' # <<>> => ml'[1].type \in EventTypes /\ ml'[1].rt \in Nat
               /\ \A i \in 1 .. Len(timerEv') : ~Opens(timerEv'[i])
               /\ \A i \in 1 .. Len(appEv') : appEv'[i].type # "SYN_ACK"
  BY DEF FifoInv, Opens
<1>2. \A type \in EventTypes, n \in Nat : Ev(type, n) \in Events
  BY EventIs
<1>3. \A q \in Seq(Events), e \in Events : Append(q, e) \in Seq(Events)
  OBVIOUS
<1>. HIDE DEF Timer
<1>4. CASE RxTransition
  <2>1. UNCHANGED <<ml, timerEv, appEv>> /\ (pipe' = pipe \/ \E e \in Events : pipe' = Append(pipe, e)) /\ rt' \in Timer
    BY <1>4, RxEffects DEF Timer
  <2>. QED BY <1>0, <1>3, <2>1
<1>5. CASE TxStep
  <2>1. rt' \in Timer /\ UNCHANGED <<timerEv, appEv>>
    BY <1>5, TxEffects DEF Timer
  <2>2. CASE ml = <<>>
    <3>1. pipe # <<>> /\ pipe' = Tail(pipe) /\ ml'[1].type = pipe[1].type /\ ml'[1].rt = pipe[1].rt
      BY <1>5, <2>2, TxEffects
    <3>2. Tail(pipe) \in Seq(Events) /\ pipe[1] \in Events
      BY <1>0, <3>1, QueueTail
    <3>. QED BY <1>0, <2>1, <3>1, <3>2, EventIs
  <2>3. CASE ml # <<>>
    <3>1. pipe' = pipe /\ (ml' # <<>> => ml'[1].type \in {"TX", "RT", "FIN"} /\ ml'[1].rt = ml[1].rt)
      BY <1>5, <2>3, TxEffects
    <3>. QED BY <1>0, <2>1, <2>3, <3>1, EventIs
  <2>. QED BY <2>2, <2>3
<1>6. CASE EventStep \/ Expires \/ ReleaseStep
  <2>0. ml' = ml
    BY <1>6, EventEffects
  <2>1. CASE UNCHANGED <<appEv, timerEv, rt>> /\ (pipe' = pipe \/ pipe' = Append(pipe, Ev("ACK", 0)))
    <3>1. Ev("ACK", 0) \in Events
      BY EventIs
    <3>. QED BY <1>0, <1>3, <2>0, <2>1, <3>1
  <2>2. CASE /\ UNCHANGED <<appEv, rt>> /\ timerEv # <<>> /\ timerEv' = Tail(timerEv)
             /\ \E e \in Events : pipe' = pipe \/ pipe' = Append(pipe, e)
    <3>1. timerEv' \in Seq(Events) /\ \A i \in 1 .. Len(timerEv') : i + 1 \in 1 .. Len(timerEv) /\ timerEv'[i] = timerEv[i + 1]
      BY <1>0, <2>2, QueueTail
    <3>. QED BY <1>0, <1>3, <2>0, <2>2, <3>1
  <2>3. CASE /\ UNCHANGED <<timerEv, rt>> /\ appEv # <<>> /\ appEv' = Tail(appEv)
             /\ \E e \in Events : pipe' = pipe \/ pipe' = Append(pipe, e)
    <3>1. /\ appEv' \in Seq(Events)
          /\ \A i \in 1 .. Len(appEv') : i + 1 \in 1 .. Len(appEv) /\ appEv'[i] = appEv[i + 1]
      BY <1>0, <2>3, QueueTail
    <3>. QED BY <1>0, <1>3, <2>0, <2>3, <3>1
  <2>4. CASE /\ UNCHANGED <<appEv, pipe>> /\ rt' \in Timer
             /\ \/ timerEv' = timerEv
                \/ \E e \in Events : ~Opens(e) /\ timerEv' = Append(timerEv, e)
    <3>1. CASE \E e \in Events : ~Opens(e) /\ timerEv' = Append(timerEv, e)
      <4>1. PICK e \in Events : ~Opens(e) /\ timerEv' = Append(timerEv, e)
        BY <3>1
      <4>2. /\ timerEv' \in Seq(Events) /\ Len(timerEv) \in Nat /\ Len(timerEv') = Len(timerEv) + 1
            /\ timerEv'[Len(timerEv) + 1] = e /\ \A i \in 1 .. Len(timerEv) : timerEv'[i] = timerEv[i]
        BY <1>0, <4>1, QueueAppend
      <4>3. \A i \in 1 .. Len(timerEv') : ~Opens(timerEv'[i])
        <5>1. PICK n : n = Len(timerEv)
          OBVIOUS
        <5>2. n \in Nat /\ \A i \in 1 .. n + 1 : i \in 1 .. n \/ i = n + 1
          BY <4>2, <5>1
        <5>. QED BY <1>0, <4>1, <4>2, <5>1, <5>2
      <4>. QED BY <1>0, <2>0, <2>4, <4>2, <4>3
    <3>. QED BY <1>0, <2>0, <2>4, <3>1
  <2>5. ASSUME NEW n \in Nat \ {0} PROVE Ev(rt.type, n) \in Events /\ ~Opens(Ev(rt.type, n))
    <3>1. rt.type \in EventTypes
      BY <1>0 DEF Timer
    <3>. QED BY <3>1, EventIs DEF Opens
  <2>6. Ev("TX", 0) \in Events /\ ~Opens(Ev("TX", 0))
    BY EventIs DEF Opens
  <2>7. \/ UNCHANGED <<appEv, timerEv, rt>> /\ (pipe' = pipe \/ pipe' = Append(pipe, Ev("ACK", 0)))
        \/ /\ UNCHANGED <<appEv, rt>> /\ timerEv # <<>> /\ timerEv' = Tail(timerEv)
           /\ \E e \in Events : pipe' = pipe \/ pipe' = Append(pipe, e)
        \/ /\ UNCHANGED <<timerEv, rt>> /\ appEv # <<>> /\ appEv' = Tail(appEv)
           /\ \E e \in Events : pipe' = pipe \/ pipe' = Append(pipe, e)
        \/ /\ UNCHANGED <<appEv, pipe>> /\ rt' \in Timer
           /\ timerEv' = timerEv \/ \E n \in Nat \ {0} : timerEv' = Append(timerEv, Ev(rt.type, n))
        \/ UNCHANGED <<appEv, pipe, rt>> /\ timerEv' = Append(timerEv, Ev("TX", 0))
    BY <1>6, EventEffects DEF Timer
  <2>. QED BY <1>0, <2>1, <2>2, <2>3, <2>4, <2>5, <2>6, <2>7
<1>7. CASE AppIfStep \/ AppRequest
  <2>1. UNCHANGED <<ml, pipe, timerEv, rt>>
    BY <1>7, AppEffects
  <2>2. appEv' = appEv \/ (cache # <<>> /\ appEv' = Append(appEv, Ev(cache[1].type, 0)))
    BY <1>7, AppEffects
  <2>3. CASE cache # <<>> /\ appEv' = Append(appEv, Ev(cache[1].type, 0))
    <3>1. 1 \in 1 .. Len(cache)
      BY <2>3, CacheIs
    <3>2. cache[1].type \in EventTypes /\ cache[1].type # "SYN_ACK"
      BY <3>1, CacheIs, EventIs
    <3>3. PICK e \in Events : e = Ev(cache[1].type, 0) /\ e.type # "SYN_ACK"
      BY <3>2, EventIs
    <3>4. PICK n \in Nat : /\ n = Len(appEv) /\ Len(appEv') = n + 1 /\ appEv' \in Seq(Events) /\ appEv'[n + 1] = e
                           /\ \A i \in 1 .. n : appEv'[i] = appEv[i]
      BY <1>0, <2>3, <3>3, QueueAppend
    <3>5. \A i \in 1 .. n + 1 : i \in 1 .. n \/ i = n + 1
      OBVIOUS
    <3>. QED BY <1>0, <2>1, <3>3, <3>4, <3>5
  <2>. QED BY <1>0, <2>1, <2>2, <2>3
<1>8. CASE UNCHANGED <<ml, pipe, timerEv, appEv, rt>>
  BY <1>0, <1>8
<1>. QED BY <1>4, <1>5, <1>6, <1>7, <1>8, NextIs, PeerEffects

(* Of a session that nothing was done to, only openings are under way. *)
LEMMA FreshIs ==
  ASSUME Fresh
  PROVE  /\ ~Known /\ streamReq = <<>> /\ ~probe /\ ~tx.finSent
         /\ \A k \in 1 .. Len(pipe) : pipe[k].type \in Calm
         /\ \A k \in 1 .. Len(timerEv) : timerEv[k].type \in Calm
         /\ rt.active => rt.type \in Openers
         /\ ml # <<>> => ml[1].type \in Calm
<1>1. pipe \in Seq(CalmEvent) /\ timerEv \in Seq(CalmEvent)
  BY DEF Fresh
<1>2. \A k \in 1 .. Len(pipe) : pipe[k] \in CalmEvent
  BY <1>1
<1>3. \A k \in 1 .. Len(timerEv) : timerEv[k] \in CalmEvent
  BY <1>1
<1>4. \A e \in CalmEvent : e.type \in Calm
  BY DEF CalmEvent
<1>. QED BY <1>2, <1>3, <1>4 DEF Fresh

-----------------------------------------------------------------------------
(* An opening comes when nothing else is under way, and the application's  *)
(* before everything. *)

(* What the peer is does not change; what it admits grows by one. *)
LEMMA PeerKept ==
  ASSUME Shape, [Next]_sessionVars
  PROVE  /\ peer'.calls = peer.calls /\ peer'.plan = peer.plan
         /\ peer'.credit = peer.credit \/ (peer.credit < Credit /\ peer'.credit = peer.credit + 1)
         /\ (\E seg \in wire : PeerReceives(seg)) \/ peer'.rcvd = peer.rcvd
<1>0. peer = [plan |-> peer.plan, calls |-> peer.calls, phase |-> peer.phase, irs |-> peer.irs,
              rcvd |-> peer.rcvd, sent |-> peer.sent, fin |-> peer.fin, credit |-> peer.credit,
              told |-> peer.told]
  BY DEF Shape
<1>1. CASE UNCHANGED peer
  BY <1>1
<1>2. CASE Arrives
  BY <1>0, <1>2 DEF Arrives
<1>3. CASE PeerSends \/ PeerReads
  BY <1>0, <1>3 DEF PeerSends, PeerReads
<1>4. CASE \E seg \in wire : PeerReceives(seg)
  <2>1. PICK seg \in wire : PeerReceives(seg)
    BY <1>4
  <2>2. peer'.calls = peer.calls /\ peer'.plan = peer.plan /\ peer'.credit = peer.credit
    BY <1>0, <2>1, Received
  <2>. QED BY <1>4, <2>2
<1>5. RxTransition \/ AppIfStep \/ AppRequest => UNCHANGED peer
  BY DEF RxTransition, AppIfStep, AppRequest, StatusOk, StreamWrite, AppOpen, AppClose, StreamRequest
<1>6. TxStep => UNCHANGED peer
  BY DEF TxStep, TxLoad, TxData, TxRetransmit, TxFin, TxSyn, TxSynAck, TxOpening, TxAck, TxRst, MetaRest
<1>7. EventStep \/ Expires \/ ReleaseStep => UNCHANGED peer
  BY DEF EventStep, DelayedAckFires, TakeTimerEvent, TakeAppEvent, Expires, RtDue, ProbeDue, CloseDue, RtExpires,
         ProbeExpires, CloseExpires, ReleaseStep, TimerRelease, LookupRelease
<1>. QED BY <1>1, <1>2, <1>3, <1>4, <1>5, <1>6, <1>7, NextIs DEF sessionVars

(* A segment that opens arrives only from a peer that calls. *)
LEMMA OpeningArrives ==
  ASSUME Shape, OpeningSegment => peer.calls, [Next]_sessionVars
  PROVE  OpeningSegment' => peer'.calls
<1>0. peer'.calls = peer.calls
  BY PeerKept
<1>1. CASE Arrives
  <2>1. PICK p \in Incoming : rxPkt' = <<p>>
    BY <1>1 DEF Arrives, RxLoad
  <2>2. p.kind = "SYN" => peer.calls
    BY DEF Incoming, InSegment
  <2>. QED BY <1>0, <2>1, <2>2 DEF OpeningSegment
<1>2. CASE rxPkt' = rxPkt \/ rxPkt' = <<>>
  BY <1>0, <1>2 DEF OpeningSegment
<1>3. RxTransition => rxPkt' = <<>>
  BY DEF RxTransition
<1>4. TxStep => rxPkt' = rxPkt
  BY DEF TxStep, TxLoad, TxData, TxRetransmit, TxFin, TxSyn, TxSynAck, TxOpening, TxAck, TxRst, MetaRest, rxEng
<1>5. EventStep \/ Expires \/ ReleaseStep \/ AppIfStep \/ AppRequest => rxPkt' = rxPkt
  BY DEF EventStep, DelayedAckFires, TakeTimerEvent, TakeAppEvent, Expires, RtDue, ProbeDue, CloseDue, RtExpires,
         ProbeExpires, CloseExpires, ReleaseStep, TimerRelease, LookupRelease, AppIfStep, AppRequest, StatusOk,
         StreamWrite, AppOpen, AppClose, StreamRequest, rxEng
<1>. QED BY <1>1, <1>2, <1>3, <1>4, <1>5, NextIs, PeerEffects

(* While the peer has not been reached, everything is fresh. *)
LEMMA FreshUncalled ==
  ASSUME AgreeInv, FreshInv, CoverInv, ~Called
  PROVE  /\ peer.rcvd = 0 /\ Starts /\ Fresh /\ ~Known /\ streamReq = <<>>
         /\ \A k \in 1 .. Len(pipe) : pipe[k].type \in Calm
<1>1. peer.rcvd \in Nat
  BY DEF AgreeInv, BothInv, PeerInv
<1>2. peer.rcvd = 0 /\ Starts /\ Fresh
  BY <1>1 DEF CoverInv, FreshInv, Starts
<1>. QED BY <1>2, FreshIs

(* The request of the application is served before anything else. *)
LEMMA AskedStep ==
  ASSUME GapInv, FifoInv, AskedInv, [Next]_sessionVars
  PROVE  AskedInv'
<1>0. AgreeInv /\ FreshInv /\ OrderInv /\ CoverInv /\ CloseInv /\ Shape /\ Numbers
  BY DEF GapInv, AgreeInv, BothInv, CloseInv
<1>1. OpeningSegment' => peer'.calls
  BY <1>0, OpeningArrives DEF AskedInv
<1>2. SUFFICES ASSUME Asked'
               PROVE  /\ ~Called' /\ ~peer'.calls /\ Len(cache') + Len(appEv') = 1
                      /\ \A k \in 1 .. Len(pipe') : pipe'[k].type \notin Openers
                      /\ ml' # <<>> => ml'[1].type \notin Openers
  BY <1>1 DEF AskedInv
<1>3. CASE AppOpen
  <2>1. Untouched /\ UNCHANGED <<wire, peer, pipe, ml, appEv>> /\ cache' = Append(cache, Cached("SYN", 0))
    BY <1>0, <1>3 DEF AppOpen, CloseInv, events
  <2>2. cache' = <<Cached("SYN", 0)>> /\ appEv' = <<>> /\ pipe' = <<>> /\ ml' = <<>> /\ wire' = {} /\ ~peer'.calls
    BY <2>1 DEF Untouched
  <2>3. Len(cache') = 1 /\ Len(appEv') = 0
    BY <2>2
  <2>. QED BY <2>2, <2>3 DEF Called
<1>4. ASSUME Asked, ~AppOpen
      PROVE  /\ ~Called' /\ ~peer'.calls /\ Len(cache') + Len(appEv') = 1
             /\ \A k \in 1 .. Len(pipe') : pipe'[k].type \notin Openers
             /\ ml' # <<>> => ml'[1].type \notin Openers
  <2>1. /\ ~Called /\ ~peer.calls /\ Len(cache) + Len(appEv) = 1
        /\ \A k \in 1 .. Len(pipe) : pipe[k].type \notin Openers
        /\ ml # <<>> => ml[1].type \notin Openers
        /\ OpeningSegment => peer.calls
    BY <1>4 DEF AskedInv
  <2>2. /\ ~Known /\ streamReq = <<>> /\ timerEv = <<>> /\ ~rt.active /\ peer'.calls = peer.calls
        /\ pipe \in Seq(Events) /\ appEv \in Seq(Events) /\ Len(cache) \in Nat /\ Len(appEv) \in Nat
    BY <1>0, <2>1, FreshUncalled, PeerKept, CacheIs DEF OrderInv, FifoInv
  <2>3. ASSUME NEW e \in Events, e.type \notin Openers, pipe' = Append(pipe, e)
        PROVE  \A k \in 1 .. Len(pipe') : pipe'[k].type \notin Openers
    <3>1. PICK n \in Nat : n = Len(pipe) /\ Len(pipe') = n + 1 /\ pipe'[n + 1] = e /\ \A k \in 1 .. n : pipe'[k] = pipe[k]
      BY <2>2, <2>3, QueueAppend
    <3>2. \A k \in 1 .. n + 1 : k \in 1 .. n \/ k = n + 1
      OBVIOUS
    <3>. QED BY <2>1, <2>3, <3>1, <3>2
  <2>4. CASE RxTransition
    <3>1. UNCHANGED <<ml, wire, cache, appEv>>
      BY <2>4, RxEffects
    <3>2. pipe' = pipe \/ \E e \in Events : pipe' = Append(pipe, e) /\ e.type \notin Openers
      BY <2>1, <2>4, RxEffects
    <3>. QED BY <2>1, <2>2, <2>3, <3>1, <3>2 DEF Called
  <2>5. CASE TxStep
    <3>1. UNCHANGED <<cache, appEv>>
      BY <1>0, <2>5, TxEffects
    <3>2. CASE ml = <<>>
      <4>1. pipe # <<>> /\ pipe' = Tail(pipe) /\ ml'[1].type = pipe[1].type /\ wire' = wire
        BY <1>0, <2>5, <3>2, TxEffects
      <4>2. 1 \in 1 .. Len(pipe) /\ \A i \in 1 .. Len(pipe') : i + 1 \in 1 .. Len(pipe) /\ pipe'[i] = pipe[i + 1]
        BY <2>2, <4>1, QueueTail
      <4>. QED BY <2>1, <2>2, <3>1, <4>1, <4>2 DEF Called
    <3>3. CASE ml # <<>>
      <4>1. pipe' = pipe /\ (ml' # <<>> => ml'[1].type \in {"TX", "RT", "FIN"})
            /\ \A seg \in wire' \ wire : seg.kind \notin Openers
        BY <1>0, <2>1, <2>5, <3>3, TxEffects DEF Openers
      <4>. QED BY <2>1, <2>2, <3>1, <4>1 DEF Called, Openers
    <3>. QED BY <3>2, <3>3
  <2>6. CASE EventStep \/ Expires \/ ReleaseStep
    <3>1. UNCHANGED <<ml, wire, cache>>
      BY <2>6, EventEffects
    <3>2. CASE UNCHANGED <<appEv, pipe>>
      BY <2>1, <2>2, <3>1, <3>2 DEF Called
    <3>3. CASE UNCHANGED appEv /\ pipe' = Append(pipe, Ev("ACK", 0))
      <4>1. PICK e \in Events : e = Ev("ACK", 0) /\ e.type \notin Openers
        BY EventIs
      <4>. QED BY <2>1, <2>2, <2>3, <3>1, <3>3, <4>1 DEF Called
    <3>4. ASSUME appEv # <<>>, appEv' = Tail(appEv) PROVE FALSE
      <4>1. Len(appEv) >= 1 /\ Len(appEv') = Len(appEv) - 1
        BY <2>2, <3>4, QueueTail
      <4>2. Len(cache') = 0 /\ Len(appEv') = 0
        BY <2>1, <2>2, <3>1, <4>1
      <4>3. \A i : i \notin 1 .. 0
        OBVIOUS
      <4>. QED BY <1>2, <4>2, <4>3 DEF Asked
    <3>. QED BY <2>2, <2>6, <3>2, <3>3, <3>4, EventEffects
  <2>7. CASE AppIfStep \/ AppRequest
    <3>1. /\ UNCHANGED <<ml, wire, pipe>>
          /\ \/ UNCHANGED <<cache, appEv>>
             \/ cache # <<>> /\ cache' = Tail(cache) /\ appEv' = Append(appEv, Ev(cache[1].type, 0))
      BY <1>0, <1>4, <2>2, <2>7, AppEffects
    <3>2. CASE cache # <<>> /\ cache' = Tail(cache) /\ appEv' = Append(appEv, Ev(cache[1].type, 0))
      <4>1. Len(cache') = Len(cache) - 1
        BY <1>0, <3>2, CacheIs
      <4>2. Len(appEv') = Len(appEv) + 1
        BY <2>2, <3>2
      <4>. QED BY <2>1, <2>2, <3>1, <4>1, <4>2 DEF Called
    <3>. QED BY <2>1, <2>2, <3>1, <3>2 DEF Called
  <2>8. CASE UNCHANGED <<ml, wire, pipe, cache, appEv>>
    BY <2>1, <2>2, <2>8 DEF Called
  <2>. QED BY <2>4, <2>5, <2>6, <2>7, <2>8, NextIs, PeerEffects
<1>5. ASSUME ~Asked, ~AppOpen PROVE FALSE
  <2>1. /\ \A i \in 1 .. Len(cache) : cache[i].type # "SYN"
        /\ \A i \in 1 .. Len(appEv) : appEv[i].type # "SYN"
    BY <1>5 DEF Asked
  <2>2. appEv \in Seq(Events) /\ Len(cache) \in Nat /\ Len(appEv) \in Nat
    BY <1>0, CacheIs DEF FifoInv
  <2>3. UNCHANGED appEv \/ (appEv # <<>> /\ appEv' = Tail(appEv))
          \/ (cache # <<>> /\ appEv' = Append(appEv, Ev(cache[1].type, 0)))
    <3>1. RxTransition => appEv' = appEv
      BY RxEffects
    <3>2. TxStep => appEv' = appEv
      BY <1>0, TxEffects
    <3>3. EventStep \/ Expires \/ ReleaseStep => UNCHANGED appEv \/ (appEv # <<>> /\ appEv' = Tail(appEv))
      BY EventEffects
    <3>4. AppIfStep \/ AppRequest =>
            UNCHANGED appEv \/ (cache # <<>> /\ appEv' = Append(appEv, Ev(cache[1].type, 0)))
      BY <1>0, AppEffects
    <3>. QED BY <3>1, <3>2, <3>3, <3>4, NextIs, PeerEffects
  <2>4. UNCHANGED cache \/ (cache # <<>> /\ cache' = Tail(cache))
          \/ \E type \in {"FIN", "TX"}, end \in Seqs : cache' = Append(cache, Cached(type, end))
    <3>1. RxTransition => cache' = cache
      BY RxEffects
    <3>2. TxStep => cache' = cache
      BY <1>0, TxEffects
    <3>3. EventStep \/ Expires \/ ReleaseStep => UNCHANGED cache
      BY EventEffects
    <3>4. AppIfStep \/ AppRequest =>
            UNCHANGED cache \/ (cache # <<>> /\ cache' = Tail(cache))
              \/ \E type \in {"FIN", "TX"}, end \in Seqs : cache' = Append(cache, Cached(type, end))
      <4>1. 0 \in Seqs /\ \A n \in WriteSizes : Add(mempt, n) \in Seqs
        BY <1>0, SeqsClosed, WriteSizesAssumption DEF Numbers
      <4>. QED BY <1>0, <1>5, <4>1, AppEffects
    <3>. QED BY <3>1, <3>2, <3>3, <3>4, NextIs, PeerEffects
  <2>5. \A i \in 1 .. Len(cache') : cache'[i].type # "SYN"
    <3>1. CASE UNCHANGED cache
      BY <2>1, <3>1
    <3>2. CASE cache # <<>> /\ cache' = Tail(cache)
      <4>1. PICK n \in Nat : n = Len(cache) /\ Len(cache') = n - 1 /\ \A i \in 1 .. n - 1 : cache'[i] = cache[i + 1]
        BY <1>0, <2>2, <3>2, CacheIs
      <4>2. \A i \in 1 .. n - 1 : i + 1 \in 1 .. n
        OBVIOUS
      <4>. QED BY <2>1, <4>1, <4>2
    <3>3. CASE \E type \in {"FIN", "TX"}, end \in Seqs : cache' = Append(cache, Cached(type, end))
      <4>1. PICK type \in {"FIN", "TX"}, end \in Seqs : cache' = Append(cache, Cached(type, end))
        BY <3>3
      <4>2. PICK n \in Nat : /\ n = Len(cache) /\ Len(cache') = n + 1 /\ cache'[n + 1].type = type
                             /\ \A i \in 1 .. n : cache'[i] = cache[i]
        BY <1>0, <2>2, <4>1, CacheIs
      <4>3. \A i \in 1 .. n + 1 : i \in 1 .. n \/ i = n + 1
        OBVIOUS
      <4>. QED BY <2>1, <4>2, <4>3
    <3>. QED BY <2>4, <3>1, <3>2, <3>3
  <2>6. \A i \in 1 .. Len(appEv') : appEv'[i].type # "SYN"
    <3>1. CASE UNCHANGED appEv
      BY <2>1, <3>1
    <3>2. CASE appEv # <<>> /\ appEv' = Tail(appEv)
      <4>1. \A i \in 1 .. Len(appEv') : i + 1 \in 1 .. Len(appEv) /\ appEv'[i] = appEv[i + 1]
        BY <2>2, <3>2, QueueTail
      <4>. QED BY <2>1, <4>1
    <3>3. CASE cache # <<>> /\ appEv' = Append(appEv, Ev(cache[1].type, 0))
      <4>1. cache[1].type # "SYN" /\ cache[1].type \in EventTypes
        <5>1. 1 \in 1 .. Len(cache)
          BY <1>0, <3>3, CacheIs
        <5>. QED BY <1>0, <2>1, <5>1, CacheIs, EventIs
      <4>2. PICK e \in Events : e = Ev(cache[1].type, 0) /\ e.type # "SYN"
        BY <4>1, EventIs
      <4>3. PICK n \in Nat : /\ n = Len(appEv) /\ Len(appEv') = n + 1 /\ appEv'[n + 1] = e
                             /\ \A i \in 1 .. n : appEv'[i] = appEv[i]
        BY <2>2, <3>3, <4>2, QueueAppend
      <4>4. \A i \in 1 .. n + 1 : i \in 1 .. n \/ i = n + 1
        OBVIOUS
      <4>. QED BY <2>1, <4>2, <4>3, <4>4
    <3>. QED BY <2>3, <3>1, <3>2, <3>3
  <2>. QED BY <1>2, <2>5, <2>6 DEF Asked
<1>. QED BY <1>3, <1>4, <1>5

(* What tx_engine and the timers send while an opening is on its way. *)
LEMMA QuietStep ==
  ASSUME Quiet, FifoInv, Numbers, Shape, ml = <<>> /\ pipe # <<>> => pipe[1].type \in Calm, [Next]_sessionVars
  PROVE  Quiet'
<1>0. /\ NothingSent /\ ~probe
      /\ \A i \in 1 .. Len(timerEv) : timerEv[i].type \in Calm
      /\ rt.active => rt.type \in Openers
      /\ ml # <<>> => ml[1].type \in Calm
      /\ timerEv \in Seq(Events) /\ Openers = {"SYN", "SYN_ACK"} /\ Openers \subseteq EventTypes
      /\ Calm = {"SYN", "SYN_ACK", "RST", "ACK", "ACK_NODELAY"}
  BY EventIs DEF Quiet, FifoInv
<1>1. CASE RxTransition
  <2>1. UNCHANGED <<wire, timerEv, ml>> /\ (rt'.active => rt.active) /\ rt'.type = rt.type /\ (probe' => probe)
    BY <1>1, RxEffects
  <2>. QED BY <1>0, <2>1 DEF Quiet, NothingSent
<1>2. CASE TxStep
  <2>1. timerEv' = timerEv
    BY <1>2, TxEffects
  <2>2. CASE ml = <<>>
    <3>1. pipe # <<>> /\ ml'[1].type = pipe[1].type /\ UNCHANGED <<wire, rt, probe>>
      BY <1>2, <2>2, TxEffects
    <3>. QED BY <1>0, <2>1, <2>2, <3>1 DEF Quiet, NothingSent
  <2>3. CASE ml # <<>>
    <3>1. /\ ml' = <<>> /\ probe' = probe
          /\ rt' = rt \/ rt'.type \in Openers
          /\ \A seg \in wire' \ wire : seg.kind \notin {"DATA", "FIN"}
      BY <1>0, <1>2, <2>3, TxEffects
    <3>. QED BY <1>0, <2>1, <3>1 DEF Quiet, NothingSent
  <2>. QED BY <2>2, <2>3
<1>3. CASE EventStep \/ Expires \/ ReleaseStep
  <2>1. UNCHANGED <<wire, ml>>
    BY <1>3, EventEffects
  <2>2. CASE UNCHANGED <<timerEv, rt>> /\ (probe' => probe)
    BY <1>0, <2>1, <2>2 DEF Quiet, NothingSent
  <2>3. CASE UNCHANGED <<rt, probe>> /\ timerEv # <<>> /\ timerEv' = Tail(timerEv)
    <3>1. \A i \in 1 .. Len(timerEv') : i + 1 \in 1 .. Len(timerEv) /\ timerEv'[i] = timerEv[i + 1]
      BY <1>0, <2>3, QueueTail
    <3>. QED BY <1>0, <2>1, <2>3, <3>1 DEF Quiet, NothingSent
  <2>4. CASE /\ rt.active /\ probe' = probe /\ ~rt'.active
             /\ timerEv' = timerEv \/ \E n \in Nat \ {0} : timerEv' = Append(timerEv, Ev(rt.type, n))
    <3>1. CASE timerEv' = timerEv
      BY <1>0, <2>1, <2>4, <3>1 DEF Quiet, NothingSent
    <3>2. CASE \E n \in Nat \ {0} : timerEv' = Append(timerEv, Ev(rt.type, n))
      <4>1. PICK n \in Nat \ {0} : timerEv' = Append(timerEv, Ev(rt.type, n))
        BY <3>2
      <4>2. PICK e \in Events : e = Ev(rt.type, n) /\ e.type \in Calm
        <5>1. rt.type \in EventTypes /\ rt.type \in Calm
          BY <1>0, <2>4
        <5>. QED BY <5>1, EventIs
      <4>3. PICK m \in Nat : /\ m = Len(timerEv) /\ Len(timerEv') = m + 1 /\ timerEv'[m + 1] = e
                             /\ \A i \in 1 .. m : timerEv'[i] = timerEv[i]
        BY <1>0, <4>1, <4>2, QueueAppend
      <4>4. \A i \in 1 .. m + 1 : i \in 1 .. m \/ i = m + 1
        OBVIOUS
      <4>5. \A i \in 1 .. Len(timerEv') : timerEv'[i].type \in Calm
        BY <1>0, <4>2, <4>3, <4>4
      <4>. QED BY <1>0, <2>1, <2>4, <4>5 DEF Quiet, NothingSent
    <3>. QED BY <2>4, <3>1, <3>2
  <2>. QED BY <1>0, <1>3, <2>2, <2>3, <2>4, EventEffects
<1>4. CASE UNCHANGED <<wire, timerEv, ml, rt, probe>>
  BY <1>0, <1>4 DEF Quiet, NothingSent
<1>. QED BY <1>1, <1>2, <1>3, <1>4, NextIs, PeerEffects, AppEffects

(* Where the events go. *)
LEMMA PipeIs ==
  ASSUME GapInv, FifoInv, AskedInv, [Next]_sessionVars
  PROVE  \/ pipe' = pipe /\ (ml' # <<>> /\ ml'[1].type \in Openers => ml' = ml)
         \/ /\ TxLoad /\ ml = <<>> /\ pipe # <<>> /\ pipe' = Tail(pipe) /\ ml' # <<>>
            /\ ml'[1].type = pipe[1].type /\ ml'[1].rt = pipe[1].rt
         \/ /\ ml' = ml
            /\ \E e \in Events : /\ pipe' = Append(pipe, e)
                                 /\ Opens(e) => Starts /\ Fresh
                                 /\ Opens(e) => \/ Asked /\ e.type = "SYN" /\ pipe = <<>>
                                                \/ OpeningSegment /\ RxTransition /\ state \in {"CLOSED", "SYN_SENT"}
<1>0. AgreeInv /\ FreshInv /\ OrderInv /\ CoverInv /\ CloseInv /\ Shape /\ Numbers
  BY DEF GapInv, AgreeInv, BothInv, CloseInv
<1>1. CASE RxTransition
  <2>1. ml' = ml
    BY <1>1, RxEffects
  <2>2. pipe' = pipe \/ \E e \in Events : pipe' = Append(pipe, e)
                          /\ (Opens(e) => OpeningSegment /\ state \in {"CLOSED", "SYN_SENT"})
    BY <1>1, RxEffects DEF Opens
  <2>3. OpeningSegment => Starts /\ Fresh
    BY <1>0 DEF FreshInv, Starts
  <2>. QED BY <1>1, <2>1, <2>2, <2>3
<1>2. CASE TxStep
  <2>1. CASE ml = <<>>
    <3>1. TxLoad
      BY <1>2, <2>1 DEF TxStep, TxData, TxRetransmit, TxFin, TxSyn, TxSynAck, TxOpening, TxAck, TxRst, Handles
    <3>. QED BY <1>0, <1>2, <2>1, <3>1, TxEffects
  <2>2. CASE ml # <<>>
    <3>1. pipe' = pipe /\ (ml' # <<>> => ml'[1].type \in {"TX", "RT", "FIN"})
      BY <1>0, <1>2, <2>2, TxEffects
    <3>. QED BY <3>1 DEF Openers
  <2>. QED BY <2>1, <2>2
<1>3. CASE EventStep \/ Expires \/ ReleaseStep
  <2>1. ml' = ml
    BY <1>3, EventEffects
  <2>2. CASE pipe' = pipe
    BY <2>1, <2>2
  <2>3. CASE pipe' = Append(pipe, Ev("ACK", 0))
    <3>1. PICK e \in Events : e = Ev("ACK", 0) /\ e.type = "ACK"
      BY EventIs
    <3>2. ~Opens(e)
      BY <3>1, EventIs DEF Opens
    <3>. QED BY <2>1, <2>3, <3>1, <3>2
  <2>4. CASE timerEv # <<>> /\ \E e \in Events : e = timerEv[1] /\ pipe' = Append(pipe, e)
    <3>1. 1 \in 1 .. Len(timerEv)
      BY <2>4, QueueTail DEF FifoInv
    <3>2. PICK e \in Events : e = timerEv[1] /\ pipe' = Append(pipe, e)
      BY <2>4
    <3>3. ~Opens(e)
      BY <3>1, <3>2 DEF FifoInv
    <3>. QED BY <2>1, <3>2, <3>3
  <2>5. CASE appEv # <<>> /\ pipe = <<>> /\ \E e \in Events : e = appEv[1] /\ pipe' = Append(pipe, e)
    <3>1. 1 \in 1 .. Len(appEv)
      BY <2>5, QueueTail DEF FifoInv
    <3>2. PICK e \in Events : e = appEv[1] /\ pipe' = Append(pipe, e)
      BY <2>5
    <3>3. CASE e.type = "SYN"
      <4>1. Asked
        BY <3>1, <3>2, <3>3 DEF Asked
      <4>2. Starts /\ Fresh
        BY <1>0, <4>1, FreshUncalled DEF AskedInv
      <4>. QED BY <2>1, <2>5, <3>2, <3>3, <4>1, <4>2
    <3>4. CASE ~Opens(e)
      BY <2>1, <3>2, <3>4
    <3>5. e.type # "SYN_ACK"
      BY <3>1, <3>2 DEF FifoInv
    <3>. QED BY <3>3, <3>4, <3>5 DEF Opens, Openers
  <2>. QED BY <1>3, <2>2, <2>3, <2>4, <2>5, EventEffects
<1>4. CASE UNCHANGED <<pipe, ml>>
  BY <1>4
<1>5. AppIfStep \/ AppRequest => UNCHANGED <<pipe, ml>>
  BY <1>0, AppEffects
<1>. QED BY <1>1, <1>2, <1>3, <1>4, <1>5, NextIs, PeerEffects

(* An opening stays ahead of the data. *)
LEMMA EarlyStep ==
  ASSUME GapInv, GapInv', FifoInv, AskedInv, EarlyInv, [Next]_sessionVars
  PROVE  EarlyInv'
<1>0. /\ AgreeInv /\ FreshInv /\ Shape /\ Numbers /\ pipe \in Seq(Events)
      /\ Openers \subseteq Calm
  BY DEF GapInv, AgreeInv, BothInv, CloseInv, FifoInv, Calm
<1>1. ASSUME Starts, NothingSent PROVE Quiet /\ \A k \in 1 .. Len(pipe) : pipe[k].type \in Calm
  BY <1>0, <1>1, FreshIs DEF FreshInv, Quiet
<1>2. ASSUME Starts, NothingSent PROVE Quiet'
  <2>1. ml = <<>> /\ pipe # <<>> => pipe[1].type \in Calm
    BY <1>0, <1>1, <1>2, QueueTail
  <2>. QED BY <1>0, <1>1, <1>2, <2>1, QuietStep
<1>3. Starts' => NothingSent'
  <2>1. Starts' => Starts
    BY <1>0, StartBefore
  <2>. QED BY <1>2, <2>1 DEF EarlyInv, Quiet
<1>4. SUFFICES ASSUME Early' PROVE Quiet' /\ CalmBefore'
  BY <1>3 DEF EarlyInv
<1>5. Early \/ Starts
  <2>1. CASE pipe' = pipe /\ (ml' # <<>> /\ ml'[1].type \in Openers => ml' = ml)
    BY <1>4, <2>1 DEF Early, Opens
  <2>2. CASE /\ pipe # <<>> /\ pipe' = Tail(pipe) /\ ml' # <<>>
             /\ ml'[1].type = pipe[1].type /\ ml'[1].rt = pipe[1].rt
    <3>1. 1 \in 1 .. Len(pipe) /\ \A i \in 1 .. Len(pipe') : i + 1 \in 1 .. Len(pipe) /\ pipe'[i] = pipe[i + 1]
      BY <1>0, <2>2, QueueTail
    <3>. QED BY <1>4, <2>2, <3>1 DEF Early, Opens
  <2>3. CASE ml' = ml /\ \E e \in Events : pipe' = Append(pipe, e) /\ (Opens(e) => Starts /\ Fresh)
    <3>1. PICK e \in Events : pipe' = Append(pipe, e) /\ (Opens(e) => Starts /\ Fresh)
      BY <2>3
    <3>2. PICK n \in Nat : n = Len(pipe) /\ Len(pipe') = n + 1 /\ pipe'[n + 1] = e /\ \A i \in 1 .. n : pipe'[i] = pipe[i]
      BY <1>0, <3>1, QueueAppend
    <3>3. \A i \in 1 .. n + 1 : i \in 1 .. n \/ i = n + 1
      OBVIOUS
    <3>. QED BY <1>4, <2>3, <3>1, <3>2, <3>3 DEF Early
  <2>. QED BY <2>1, <2>2, <2>3, PipeIs
<1>6. /\ ml = <<>> /\ pipe # <<>> => pipe[1].type \in Calm
      /\ Quiet /\ CalmBefore
  <2>1. CASE Starts
    <3>1. Quiet /\ \A k \in 1 .. Len(pipe) : pipe[k].type \in Calm
      BY <1>1, <2>1 DEF EarlyInv
    <3>2. CalmBefore
      <4>1. \A k \in 1 .. Len(pipe) : \A j \in 1 .. k - 1 : j \in 1 .. Len(pipe)
        BY <1>0
      <4>. QED BY <3>1, <4>1 DEF CalmBefore
    <3>3. pipe # <<>> => 1 \in 1 .. Len(pipe)
      BY <1>0
    <3>. QED BY <3>1, <3>2, <3>3
  <2>2. CASE Early
    <3>1. Quiet /\ CalmBefore
      BY <2>2 DEF EarlyInv
    <3>2. ASSUME ml = <<>>, pipe # <<>> PROVE pipe[1].type \in Calm
      <4>1. PICK k \in 1 .. Len(pipe) : Opens(pipe[k])
        BY <2>2, <3>2 DEF Early
      <4>2. k = 1 \/ 1 \in 1 .. k - 1
        BY <1>0
      <4>. QED BY <1>0, <3>1, <4>1, <4>2 DEF CalmBefore, Opens
    <3>. QED BY <3>1, <3>2
  <2>. QED BY <1>5, <2>1, <2>2
<1>7. Quiet'
  BY <1>0, <1>6, QuietStep
<1>8. CalmBefore'
  <2>1. CASE pipe' = pipe
    BY <1>6, <2>1 DEF CalmBefore, Opens
  <2>2. CASE pipe # <<>> /\ pipe' = Tail(pipe)
    <3>1. \A i \in 1 .. Len(pipe') : i + 1 \in 1 .. Len(pipe) /\ pipe'[i] = pipe[i + 1]
      BY <1>0, <2>2, QueueTail
    <3>2. Len(pipe') \in Nat
      BY <1>0, <2>2
    <3>3. ASSUME NEW k \in 1 .. Len(pipe'), Opens(pipe'[k]), NEW j \in 1 .. k - 1 PROVE pipe'[j].type \in Calm
      <4>1. k + 1 \in 1 .. Len(pipe) /\ pipe'[k] = pipe[k + 1] /\ j \in 1 .. Len(pipe') /\ j + 1 \in 1 .. (k + 1) - 1
        BY <3>1, <3>2
      <4>2. pipe'[j] = pipe[j + 1]
        BY <3>1, <4>1
      <4>. QED BY <1>6, <3>3, <4>1, <4>2 DEF CalmBefore
    <3>. QED BY <3>3 DEF CalmBefore, Opens
  <2>3. CASE \E e \in Events : pipe' = Append(pipe, e) /\ (Opens(e) => Starts /\ Fresh)
    <3>1. PICK e \in Events : pipe' = Append(pipe, e) /\ (Opens(e) => Starts /\ Fresh)
      BY <2>3
    <3>2. PICK n \in Nat : n = Len(pipe) /\ Len(pipe') = n + 1 /\ pipe'[n + 1] = e /\ \A i \in 1 .. n : pipe'[i] = pipe[i]
      BY <1>0, <3>1, QueueAppend
    <3>3. Opens(e) => \A i \in 1 .. n : pipe[i].type \in Calm
      BY <3>1, <3>2, FreshIs
    <3>4. ASSUME NEW k \in 1 .. n + 1, Opens(pipe'[k]), NEW j \in 1 .. k - 1 PROVE pipe'[j].type \in Calm
      <4>1. j \in 1 .. n /\ pipe'[j] = pipe[j]
        BY <3>2
      <4>2. CASE k = n + 1
        BY <3>2, <3>3, <3>4, <4>1, <4>2
      <4>3. CASE k # n + 1
        <5>1. k \in 1 .. n /\ pipe'[k] = pipe[k]
          BY <3>2, <4>3
        <5>. QED BY <1>6, <3>2, <3>4, <4>1, <5>1 DEF CalmBefore
      <4>. QED BY <4>2, <4>3
    <3>. QED BY <3>2, <3>4 DEF CalmBefore, Opens
  <2>. QED BY <2>1, <2>2, <2>3, PipeIs
<1>. QED BY <1>7, <1>8

-----------------------------------------------------------------------------
(* What the steps do to the entry of tx_sar_table and to the copy of it.   *)

(* The three writes of tx_sar_table, each of which leaves fields alone. *)
LEMMA TxFields ==
  ASSUME tx \in TxSar
  PROVE  /\ \A a, w, c : LET t == TxSarFromRx(a, w, c)
                         IN  /\ t.ackd = a /\ t.window = w /\ t.not_ackd = tx.not_ackd /\ t.app = tx.app
                             /\ t.finSent = tx.finSent /\ t.finReady = tx.finReady
         /\ \A a, w : LET t == TxSarInitFromRx(a, w)
                      IN  t.ackd = a /\ t.window = w /\ t.not_ackd = tx.not_ackd /\ t.app = tx.app /\ ~t.finSent
         /\ \A n : LET t == TxSarInitFromTx(n)
                   IN  /\ t.ackd = Sub(n, 1) /\ t.window = tx.window /\ t.not_ackd = n /\ t.app = n
                       /\ t.finSent = tx.finSent
         /\ \A e : LET t == [tx EXCEPT !.app = e]
                   IN  /\ t.ackd = tx.ackd /\ t.window = tx.window /\ t.not_ackd = tx.not_ackd /\ t.app = e
                       /\ t.finSent = tx.finSent
  BY DEF TxSarFromRx, TxSarInitFromRx, TxSarInitFromTx, TxSar

LEMMA FromTxFields ==
  ASSUME tx \in TxSar, NEW n \in Seqs, NEW x \in BOOLEAN, NEW y \in BOOLEAN, NEW t, t = TxSarFromTx(n, x, y)
  PROVE  /\ t.not_ackd = n /\ t.ackd = tx.ackd /\ t.window = tx.window /\ t.app = tx.app
         /\ ~y => t.finSent = tx.finSent
<1>1. tx.finReady \in BOOLEAN /\ tx.finSent \in BOOLEAN
  BY DEF TxSar
<1>2. PICK b \in BOOLEAN, c \in BOOLEAN : b = (tx.finReady \/ x) /\ c = (tx.finSent \/ y)
  BY Zenon
<1>3. t = [tx EXCEPT !.not_ackd = n, !.finReady = b, !.finSent = c]
  BY <1>2, Zenon DEF TxSarFromTx
<1>4. t.not_ackd = n /\ t.ackd = tx.ackd /\ t.window = tx.window /\ t.app = tx.app /\ t.finSent = c
  BY <1>3 DEF TxSar
<1>5. ~y => c = tx.finSent
  BY <1>1, <1>2
<1>. QED BY <1>4, <1>5

(* A segment. *)
LEMMA TransitionTx ==
  ASSUME Numbers, SegmentInv, RxTransition, NEW p, p = rxPkt[1]
  PROVE  \/ tx' = tx
         \/ /\ p.kind = "ACK" /\ state \in Acking /\ Between(snap.prevAck, p.ack, snap.nextByte)
            /\ \E c : tx' = TxSarFromRx(p.ack, p.win, c)
         \/ /\ p.kind = "SYN" /\ state \in {"CLOSED", "SYN_SENT"}
            /\ pipe' = Append(pipe, Ev("SYN_ACK", 0)) /\ tx' = TxSarInitFromRx(0, p.win)
         \/ /\ p.kind = "SYN_ACK" /\ state = "SYN_SENT" /\ p.ack = snap.nextByte
            /\ tx' = TxSarInitFromRx(p.ack, p.win)
         \/ p.kind = "FIN" /\ \E c : tx' = TxSarFromRx(p.ack, p.win, c)
<1>1. \/ p.kind = "ACK" /\ OnAck(p)
      \/ p.kind = "SYN" /\ OnSyn(p)
      \/ p.kind = "SYN_ACK" /\ OnSynAck(p)
      \/ p.kind = "FIN" /\ OnFin(p)
      \/ p.kind = "RST" /\ OnRst(p)
  BY DEF RxTransition
<1>2. OnAck(p) => \/ tx' = tx
                  \/ /\ state \in Acking /\ Between(snap.prevAck, p.ack, snap.nextByte)
                     /\ \E c : tx' = TxSarFromRx(p.ack, p.win, c)
  BY Zenon DEF OnAck
<1>3. OnSyn(p) => \/ tx' = tx
                  \/ /\ state \in {"CLOSED", "SYN_SENT"} /\ tx' = TxSarInitFromRx(0, p.win)
                     /\ RxEvent(Ev("SYN_ACK", 0))
  BY DEF OnSyn
<1>4. RxEvent(Ev("SYN_ACK", 0)) => pipe' = Append(pipe, Ev("SYN_ACK", 0))
  BY DEF RxEvent, Passes, Ev
<1>5. OnSynAck(p) => \/ tx' = tx
                     \/ state = "SYN_SENT" /\ p.ack = snap.nextByte /\ tx' = TxSarInitFromRx(p.ack, p.win)
  BY Zenon DEF OnSynAck
<1>6. OnFin(p) => tx' = tx \/ \E c : tx' = TxSarFromRx(p.ack, p.win, c)
  BY Zenon DEF OnFin
<1>7. OnRst(p) => tx' = tx
  BY DEF OnRst
<1>. QED BY <1>1, <1>2, <1>3, <1>4, <1>5, <1>6, <1>7

(* The numbers in a copy, but for not_ackd, are those of another. *)
SameBut(a, b) == /\ a.app = b.app /\ a.window = b.window /\ a.finSent = b.finSent

(* A segment is as long as the numbers in the copy are apart. *)
LEMMA LengthIs ==
  ASSUME NEW sar \in TxSar
  PROVE  /\ DataLength(sar) \in 0 .. Mms /\ DataLength(sar) <= Unsent(sar) /\ DataLength(sar) <= Usable(sar)
         /\ Unsent(sar) \in Seqs /\ InFlight(sar) \in Seqs /\ Usable(sar) \in Nat
         /\ Usable(sar) = IF sar.window > InFlight(sar) THEN sar.window - InFlight(sar) ELSE 0
<1>1. Unsent(sar) \in Seqs /\ InFlight(sar) \in Seqs /\ sar.window \in Nat /\ Seqs \subseteq Nat /\ Mms \in Nat
  BY SeqsClosed DEF TxSar, Unsent, InFlight
<1>2. Usable(sar) \in Nat
  <2>1. \A a, b \in Nat : (IF a > b THEN a - b ELSE 0) \in Nat
    OBVIOUS
  <2>. QED BY <1>1, <2>1 DEF Usable
<1>3. \A a, b \in Nat : LET l == Lesser(Lesser(a, b), Mms) IN l \in 0 .. Mms /\ l <= a /\ l <= b
  BY <1>1 DEF Lesser
<1>. QED BY <1>1, <1>2, <1>3 DEF DataLength, Usable

(* TX. *)
LEMMA TxDataIs ==
  ASSUME Numbers, TxData, NEW sar, sar = ml[1].sar
  PROVE  /\ ml # <<>> /\ ml[1].type = "TX" /\ sar \in TxSar /\ tx \in TxSar
         /\ DataLength(sar) \in 0 .. Mms /\ Add(sar.not_ackd, DataLength(sar)) \in Seqs
         /\ \A seg \in wire' : \/ seg \in wire
                               \/ DataLength(sar) # 0 /\ seg = Segment("DATA", sar.not_ackd, DataLength(sar))
         /\ \/ /\ tx' = tx /\ ml' # <<>> /\ ml'[1].type = "TX"
            \/ /\ tx'.not_ackd = Add(sar.not_ackd, DataLength(sar)) /\ tx'.ackd = tx.ackd /\ SameBut(tx', tx)
               /\ ml' # <<>> => ml'[1].type = "FIN" /\ Unsent(sar) <= Usable(sar) /\ DataLength(sar) < Mms
         /\ ml' # <<>> => /\ ml'[1].sar.not_ackd = Add(sar.not_ackd, DataLength(sar))
                          /\ ml'[1].sar.ackd = sar.ackd /\ SameBut(ml'[1].sar, sar) /\ ml'[1].rt = ml[1].rt
<1>. DEFINE m == ml[1]
<1>1. ml # <<>> /\ m.type = "TX" /\ sar \in TxSar /\ tx \in TxSar /\ m.sar = sar
      /\ m = [type |-> m.type, rt |-> m.rt, sar |-> m.sar, count |-> m.count]
  BY DEF TxData, Handles, Numbers
<1>2. PICK length : length = DataLength(sar)
  OBVIOUS
<1>3. length \in 0 .. Mms /\ length \in Nat
  BY <1>1, <1>2, LengthIs, SeqsClosed
<1>4. PICK next \in Seqs : next = Add(sar.not_ackd, length)
  BY <1>1, <1>3, SeqsClosed DEF TxSar
<1>5. PICK sent : sent = [sar EXCEPT !.not_ackd = Add(@, length)]
  OBVIOUS
<1>6. sent.not_ackd = next /\ sent.ackd = sar.ackd /\ SameBut(sent, sar)
  BY <1>1, <1>4, <1>5 DEF TxSar, SameBut
<1>. HIDE DEF m
<1>7. /\ wire' = wire \/ (length # 0 /\ wire' = wire \cup {Segment("DATA", sar.not_ackd, length)})
      /\ \/ tx' = tx /\ \E e : ml' = <<e>> /\ e = [m EXCEPT !.sar = sent]
         \/ /\ tx' = TxSarFromTx(next, FALSE, FALSE) /\ length < Mms
            /\ ml' = <<>> \/ \E e : /\ ml' = <<e>> /\ e = [m EXCEPT !.type = "FIN", !.sar = sent]
                                    /\ Unsent(sar) <= Usable(sar)
  BY <1>2, <1>4, <1>5, <1>6 DEF TxData, SendData, Send, m
<1>8. \A seg \in wire' : seg \in wire \/ (length # 0 /\ seg = Segment("DATA", sar.not_ackd, length))
  BY <1>7
<1>9. /\ [m EXCEPT !.sar = sent].type = "TX" /\ [m EXCEPT !.sar = sent].sar = sent /\ [m EXCEPT !.sar = sent].rt = m.rt
      /\ [m EXCEPT !.type = "FIN", !.sar = sent].type = "FIN" /\ [m EXCEPT !.type = "FIN", !.sar = sent].sar = sent
      /\ [m EXCEPT !.type = "FIN", !.sar = sent].rt = m.rt
  BY <1>1
<1>10. FALSE \in BOOLEAN
  OBVIOUS
<1>11. PICK t : t = TxSarFromTx(next, FALSE, FALSE)
  OBVIOUS
<1>12. t.not_ackd = next /\ t.ackd = tx.ackd /\ SameBut(t, tx)
  BY <1>1, <1>10, <1>11, FromTxFields DEF SameBut
<1>13. CASE tx' = tx /\ \E e : ml' = <<e>> /\ e = [m EXCEPT !.sar = sent]
  <2>1. ml' # <<>> /\ ml'[1] = [m EXCEPT !.sar = sent]
    BY <1>13
  <2>. QED BY <1>1, <1>2, <1>3, <1>4, <1>6, <1>8, <1>9, <1>13, <2>1 DEF m
<1>14. CASE /\ tx' = TxSarFromTx(next, FALSE, FALSE) /\ length < Mms
            /\ ml' = <<>> \/ \E e : /\ ml' = <<e>> /\ e = [m EXCEPT !.type = "FIN", !.sar = sent]
                                    /\ Unsent(sar) <= Usable(sar)
  <2>1. ml' # <<>> => ml'[1] = [m EXCEPT !.type = "FIN", !.sar = sent] /\ Unsent(sar) <= Usable(sar)
    BY <1>14
  <2>. QED BY <1>1, <1>2, <1>3, <1>4, <1>6, <1>8, <1>9, <1>11, <1>12, <1>14, <2>1 DEF m
<1>. QED BY <1>7, <1>13, <1>14

(* RT. *)
LEMMA TxRetransmitIs ==
  ASSUME Numbers, TxRetransmit, NEW sar, sar = ml[1].sar
  PROVE  /\ ml # <<>> /\ ml[1].type = "RT" /\ sar \in TxSar /\ tx' = tx
         /\ \A seg \in wire' : \/ seg \in wire
                               \/ \E n \in Nat : /\ seg = Segment("DATA", sar.ackd, n)
                                                 /\ ~sar.finSent => n <= Sub(sar.not_ackd, sar.ackd)
         /\ ml' # <<>> => /\ ml'[1].sar.not_ackd = sar.not_ackd /\ SameBut(ml'[1].sar, sar)
                          /\ \/ /\ ml'[1].type = "RT" /\ ml'[1].sar.ackd = Add(sar.ackd, Mms)
                                /\ ~sar.finSent => Mms <= Sub(sar.not_ackd, sar.ackd)
                             \/ ml'[1].type = "FIN" /\ sar.finSent
<1>. DEFINE m == ml[1]
<1>1. ml # <<>> /\ m.type = "RT" /\ sar \in TxSar /\ m.sar = sar /\ tx' = tx
      /\ m = [type |-> m.type, rt |-> m.rt, sar |-> m.sar, count |-> m.count]
  BY DEF TxRetransmit, Handles, Numbers
<1>2. PICK unackd : unackd = Sub(Sub(sar.not_ackd, sar.ackd), IF sar.finSent THEN 1 ELSE 0)
  OBVIOUS
<1>3. unackd \in Seqs /\ (~sar.finSent => unackd = Sub(sar.not_ackd, sar.ackd))
  <2>1. Sub(sar.not_ackd, sar.ackd) \in Seqs /\ 0 \in Seqs /\ 1 \in Seqs
    BY <1>1, SeqsClosed DEF TxSar
  <2>2. unackd \in Seqs
    BY <1>2, <2>1, SeqsClosed
  <2>3. \A x \in Seqs : Sub(x, 0) = x
    <3>1. SUFFICES ASSUME NEW x \in Seqs PROVE Sub(x, 0) = x
      OBVIOUS
    <3>3. PICK y : y = x + SeqMod - 0
      OBVIOUS
    <3>4. y \in SeqMod .. 2 * SeqMod - 1 /\ y - SeqMod = x
      BY <3>3, Wraps DEF Seqs
    <3>5. Sub(x, 0) = y % SeqMod
      BY <3>3 DEF Sub
    <3>6. y % SeqMod = y - SeqMod
      BY <3>4, Wraps
    <3>. QED BY <3>4, <3>5, <3>6
  <2>. QED BY <1>2, <2>1, <2>2, <2>3
<1>4. PICK n \in Nat : n = Lesser(unackd, Mms) /\ n <= unackd
  <2>1. unackd \in Nat /\ Mms \in Nat
    BY <1>3, SeqsClosed
  <2>2. Lesser(unackd, Mms) \in Nat /\ Lesser(unackd, Mms) <= unackd
    BY <2>1 DEF Lesser
  <2>. QED BY <2>2
<1>5. PICK again : again = [m EXCEPT !.sar.ackd = Add(@, Mms), !.count = @ + 1]
  OBVIOUS
<1>6. again.type = "RT" /\ again.sar.ackd = Add(sar.ackd, Mms) /\ again.sar.not_ackd = sar.not_ackd
      /\ SameBut(again.sar, sar)
  <2>1. again.sar = [m.sar EXCEPT !.ackd = Add(@, Mms)] /\ again.type = m.type
    BY <1>1, <1>5
  <2>. QED BY <1>1, <2>1 DEF TxSar, SameBut
<1>7. PICK fin : fin = [m EXCEPT !.type = "FIN"]
  OBVIOUS
<1>17. fin.type = "FIN" /\ fin.sar = sar /\ SameBut(fin.sar, sar)
  BY <1>1, <1>7 DEF SameBut
<1>. HIDE DEF m
<1>8. /\ wire' = wire \/ wire' = wire \cup {Segment("DATA", sar.ackd, n)}
      /\ \/ ml' = <<>> \/ (unackd > Mms /\ ml' = <<again>>)
         \/ (sar.finSent /\ ml' = <<fin>>)
  BY <1>2, <1>4, <1>5, <1>7 DEF TxRetransmit, SendData, Send, m
<1>9. \A seg \in wire' : seg \in wire \/ seg = Segment("DATA", sar.ackd, n)
  BY <1>8
<1>10. ml' # <<>> => (ml'[1] = again /\ unackd > Mms) \/ (ml'[1] = fin /\ sar.finSent)
  BY <1>8
<1>11. unackd > Mms => Mms <= unackd
  BY <1>3, SeqsClosed
<1>. QED BY <1>1, <1>3, <1>4, <1>6, <1>17, <1>9, <1>10, <1>11 DEF m

(* FIN. *)
LEMMA TxFinIs ==
  ASSUME Numbers, TxFin, NEW sar, sar = ml[1].sar
  PROVE  /\ ml # <<>> /\ ml[1].type = "FIN" /\ sar \in TxSar /\ ml' = <<>> /\ tx \in TxSar
         /\ \A seg \in wire' : seg \in wire \/ seg.kind = "FIN"
         /\ \/ tx' = tx
            \/ /\ tx'.not_ackd = Add(sar.not_ackd, 1) /\ sar.app = sar.not_ackd
               /\ tx'.ackd = tx.ackd /\ tx'.window = tx.window /\ tx'.app = tx.app
               /\ \E seg \in wire' : seg.kind = "FIN"
            \/ /\ tx'.not_ackd = sar.not_ackd /\ tx'.ackd = tx.ackd /\ SameBut(tx', tx)
<1>. DEFINE m == ml[1]
<1>1. ml # <<>> /\ m.type = "FIN" /\ sar \in TxSar /\ ml' = <<>> /\ tx \in TxSar
  BY DEF TxFin, Handles, Numbers
<1>2. PICK s \in Seqs, next \in Seqs : s = sar.not_ackd /\ next = Add(sar.not_ackd, 1)
  BY <1>1, SeqsClosed DEF TxSar
<1>3. PICK seq : seq = IF m.rt # 0 THEN Sub(sar.not_ackd, 1) ELSE sar.not_ackd
  OBVIOUS
<1>. HIDE DEF m
<1>4. /\ tx' = IF m.rt # 0 THEN tx
               ELSE IF sar.app = s THEN TxSarFromTx(next, TRUE, TRUE) ELSE TxSarFromTx(s, TRUE, FALSE)
      /\ IF seq = sar.app THEN wire' = wire \cup {Segment("FIN", seq, 0)} ELSE wire' = wire
  BY <1>2, <1>3 DEF TxFin, Send, m
<1>5. Segment("FIN", seq, 0).kind = "FIN"
  BY DEF Segment
<1>6. TRUE \in BOOLEAN /\ FALSE \in BOOLEAN
  OBVIOUS
<1>7. PICK t, u : t = TxSarFromTx(next, TRUE, TRUE) /\ u = TxSarFromTx(s, TRUE, FALSE)
  OBVIOUS
<1>8. t.not_ackd = next /\ t.ackd = tx.ackd /\ t.window = tx.window /\ t.app = tx.app
  BY <1>1, <1>6, <1>7, FromTxFields
<1>9. u.not_ackd = s /\ u.ackd = tx.ackd /\ SameBut(u, tx)
  BY <1>1, <1>6, <1>7, FromTxFields DEF SameBut
<1>10. \A seg \in wire' : seg \in wire \/ seg.kind = "FIN"
  BY <1>4, <1>5
<1>11. CASE m.rt # 0
  BY <1>1, <1>4, <1>10, <1>11 DEF m
<1>12. CASE m.rt = 0 /\ sar.app = s
  BY <1>1, <1>2, <1>3, <1>4, <1>5, <1>7, <1>8, <1>10, <1>12 DEF m
<1>13. CASE m.rt = 0 /\ sar.app # s
  BY <1>1, <1>2, <1>4, <1>7, <1>9, <1>10, <1>13 DEF m
<1>. QED BY <1>11, <1>12, <1>13

(* SYN and SYN_ACK. *)
LEMMA TxOpeningIs ==
  ASSUME Numbers, FirstNumbers, NEW type \in Openers, TxOpening(type, type)
  PROVE  /\ ml # <<>> /\ ml[1].type = type /\ ml' = <<>>
         /\ \A seg \in wire' : seg \in wire \/ seg.kind \in Openers
         /\ \E seg \in wire' : seg.kind \in Openers
         /\ \A seg \in wire' : seg \in wire \/ seg.seq = IF ml[1].rt = 0 THEN Isn ELSE ml[1].sar.ackd
         /\ \/ ml[1].rt # 0 /\ tx' = tx /\ mempt' = mempt
            \/ /\ ml[1].rt = 0 /\ tx'.not_ackd = Add(Isn, 1) /\ tx'.app = Add(Isn, 1) /\ tx'.ackd = Isn
               /\ tx'.window = tx.window /\ tx'.finSent = tx.finSent /\ mempt' = Add(Isn, 1)
<1>1. PICK seq : seq = IF ml[1].rt = 0 THEN Isn ELSE ml[1].sar.ackd
  OBVIOUS
<1>2. /\ ml # <<>> /\ ml[1].type = type /\ ml' = <<>> /\ tx \in TxSar
      /\ wire' = wire \cup {Segment(type, seq, 0)}
      /\ \/ ml[1].rt # 0 /\ tx' = tx /\ mempt' = mempt
         \/ ml[1].rt = 0 /\ tx' = TxSarInitFromTx(Add(Isn, 1)) /\ mempt' = Add(Isn, 1)
  BY <1>1, OpeningOnce DEF Send, Numbers
<1>3. Segment(type, seq, 0).kind = type /\ Segment(type, seq, 0).seq = seq
  BY DEF Segment
<1>4. PICK t : t = TxSarInitFromTx(Add(Isn, 1))
  OBVIOUS
<1>5. t.not_ackd = Add(Isn, 1) /\ t.app = Add(Isn, 1) /\ t.ackd = Isn /\ t.window = tx.window /\ t.finSent = tx.finSent
  BY <1>2, <1>4, TxFields, SynIsBehind
<1>. QED BY <1>1, <1>2, <1>3, <1>4, <1>5

-----------------------------------------------------------------------------
(* WindowKept.  *)

(* What belongs to an open session is under way only when it is open. *)
LEMMA BusySteady ==
  ASSUME GapInv, FifoInv, EarlyInv,
         \/ ml # <<>> /\ ml[1].type \notin Calm
         \/ ml = <<>> /\ pipe # <<>> /\ pipe[1].type \notin Calm
  PROVE  Steady
<1>0. AgreeInv /\ FreshInv /\ CoverInv /\ Openers \subseteq Calm /\ pipe \in Seq(Events)
  BY DEF GapInv, Calm, FifoInv
<1>1. pipe # <<>> => 1 \in 1 .. Len(pipe)
  BY <1>0
<1>2. Called
  <2>1. CASE ~Called
    <3>1. Fresh /\ \A k \in 1 .. Len(pipe) : pipe[k].type \in Calm
      BY <1>0, <2>1, FreshUncalled
    <3>. QED BY <1>1, <3>1 DEF Fresh
  <2>. QED BY <2>1
<1>3. ASSUME Early PROVE FALSE
  <2>1. Quiet /\ CalmBefore
    BY <1>3 DEF EarlyInv
  <2>2. ml = <<>> /\ pipe # <<>> /\ pipe[1].type \notin Calm
    BY <2>1 DEF Quiet
  <2>3. PICK k \in 1 .. Len(pipe) : Opens(pipe[k])
    BY <1>3, <2>2 DEF Early
  <2>4. k = 1 \/ 1 \in 1 .. k - 1
    BY <1>0
  <2>. QED BY <1>0, <2>1, <2>2, <2>3, <2>4 DEF CalmBefore, Opens
<1>. QED BY <1>2, <1>3 DEF Steady

(* The steps of tx_engine. *)
LEMMA TxCases ==
  ASSUME Numbers, FifoInv, TxStep
  PROVE  /\ UNCHANGED <<state, recvd, rxPkt, snap, timerEv, appEv, cache, streamReq, app, peer, answers, told>>
         /\ \/ /\ ml = <<>> /\ pipe # <<>> /\ ml' # <<>> /\ ml'[1].type = pipe[1].type
               /\ ml'[1].sar = tx /\ UNCHANGED <<tx, wire, mempt>>
            \/ TxData \/ TxRetransmit \/ TxFin
            \/ \E type \in Openers : TxOpening(type, type)
            \/ /\ ml # <<>> /\ ml[1].type \in Calm \ Openers /\ ml' = <<>> /\ UNCHANGED <<tx, mempt>>
               /\ \A seg \in wire' : seg \in wire \/ seg.kind \in {"ACK", "RST"}
<1>1. UNCHANGED <<state, recvd, rxPkt, snap, timerEv, appEv, cache, streamReq, app, peer, answers, told>>
  BY TxEffects
<1>2. CASE TxLoad
  <2>1. ml = <<>>
    BY <1>2 DEF TxLoad
  <2>. QED BY <1>1, <2>1, TxEffects
<1>3. CASE TxSyn \/ TxSynAck
  <2>. QED BY <1>1, <1>3 DEF TxSyn, TxSynAck, Openers
<1>4. CASE TxAck \/ TxRst
  <2>1. /\ ml # <<>> /\ ml[1].type \in Calm \ Openers /\ ml' = <<>> /\ UNCHANGED <<tx, mempt>>
        /\ \E seq : \E kind \in {"ACK", "RST"} : wire' = wire \cup {Segment(kind, seq, 0)}
    BY <1>4 DEF TxAck, TxRst, Handles, MetaRest, appSide, Calm, Openers
  <2>2. \A seg \in wire' : seg \in wire \/ seg.kind \in {"ACK", "RST"}
    BY <2>1 DEF Segment
  <2>. QED BY <1>1, <2>1, <2>2
<1>. QED BY <1>1, <1>2, <1>3, <1>4 DEF TxStep

(* A session gets open when its SYN or SYN_ACK is sent. *)
LEMMA SteadyBefore ==
  ASSUME GapInv, FifoInv, AskedInv, [Next]_sessionVars, Steady'
  PROVE  Steady \/ /\ TxStep /\ ml # <<>> /\ Opens(ml[1]) /\ TxOpening(ml[1].type, ml[1].type)
<1>0. AgreeInv /\ FreshInv /\ OrderInv /\ CoverInv /\ CloseInv /\ Shape /\ Numbers /\ pipe \in Seq(Events)
  BY DEF GapInv, AgreeInv, BothInv, CloseInv, FifoInv
<1>1. ASSUME TxStep, ml # <<>>, ml[1].type \in Openers PROVE TxOpening(ml[1].type, ml[1].type)
  BY <1>0, <1>1, TxEffects DEF Openers
<1>2. ASSUME ~TxStep PROVE ml' = ml /\ wire' = wire
  BY <1>0, <1>2, NextIs, RxEffects, EventEffects, AppEffects, PeerEffects
<1>3. CASE Early
  <2>1. CASE \E k \in 1 .. Len(pipe) : Opens(pipe[k])
    <3>1. PICK k \in 1 .. Len(pipe) : Opens(pipe[k])
      BY <2>1
    <3>2. CASE pipe' = pipe
      BY <3>1, <3>2 DEF Early, Opens, Steady
    <3>3. CASE /\ pipe # <<>> /\ pipe' = Tail(pipe) /\ ml' # <<>>
               /\ ml'[1].type = pipe[1].type /\ ml'[1].rt = pipe[1].rt
      <4>1. PICK n \in Nat : n = Len(pipe) /\ Len(pipe') = n - 1
        BY <1>0, <3>3, QueueTail
      <4>2. \A i \in 1 .. n - 1 : pipe'[i] = pipe[i + 1]
        BY <1>0, <3>3, <4>1, QueueTail
      <4>3. k = 1 \/ (k - 1 \in 1 .. n - 1 /\ (k - 1) + 1 = k)
        BY <4>1
      <4>4. CASE k = 1
        BY <3>1, <3>3, <4>4 DEF Early, Opens, Steady
      <4>5. CASE k - 1 \in 1 .. n - 1 /\ (k - 1) + 1 = k
        <5>1. pipe'[k - 1] = pipe[k]
          BY <4>2, <4>5
        <5>. QED BY <3>1, <4>1, <4>5, <5>1 DEF Early, Opens, Steady
      <4>. QED BY <4>3, <4>4, <4>5
    <3>4. CASE \E e \in Events : pipe' = Append(pipe, e)
      <4>1. PICK n \in Nat : n = Len(pipe) /\ Len(pipe') = n + 1 /\ \A i \in 1 .. n : pipe'[i] = pipe[i]
        BY <1>0, <3>4, QueueAppend
      <4>2. k \in 1 .. n + 1
        BY <4>1
      <4>. QED BY <3>1, <4>1, <4>2 DEF Early, Opens, Steady
    <3>. QED BY <3>2, <3>3, <3>4, PipeIs
  <2>2. CASE ml # <<>> /\ Opens(ml[1])
    <3>1. CASE TxStep
      BY <1>1, <2>2, <3>1 DEF Opens
    <3>2. CASE ~TxStep
      <4>1. Early'
        BY <1>2, <2>2, <3>2 DEF Early, Opens
      <4>. QED BY <4>1 DEF Steady
    <3>. QED BY <3>1, <3>2
  <2>. QED BY <1>3, <2>1, <2>2 DEF Early
<1>4. CASE ~Early /\ ~Called
  <2>1. TxStep
    BY <1>2, <1>4 DEF Steady, Called
  <2>2. PICK seg \in wire' \ wire : seg.kind \in Openers
    BY <1>4 DEF Steady, Called
  <2>3. ml # <<>>
    BY <1>0, <2>1, <2>2, TxEffects
  <2>4. ml[1].type \in Openers
    BY <1>0, <2>1, <2>2, <2>3, TxEffects DEF Openers
  <2>5. Opens(ml[1])
    BY <1>0, <1>4, <2>3, <2>4 DEF OrderInv, Opens
  <2>. QED BY <1>1, <2>1, <2>3, <2>4, <2>5
<1>. QED BY <1>3, <1>4 DEF Steady

(* What the peer admits with a segment. *)
LEMMA IncomingWindow ==
  ASSUME PeerInv, FirstNumbers, NEW p \in Incoming
  PROVE  \E a \in Nat : p.ack = Add(Isn, a) /\ p.win = IF peer.credit + 1 > a THEN peer.credit + 1 - a ELSE 0
<1>. DEFINE Good(q) == \E a \in Nat : q.ack = Add(Isn, a)
                         /\ q.win = IF peer.credit + 1 > a THEN peer.credit + 1 - a ELSE 0
<1>1. \A kind, seq, len : \A a \in Nat : Good(InSegment(kind, seq, len, a))
  BY DEF InSegment, FirstNumbers
<1>2. Acks \subseteq Nat /\ peer.rcvd \in Nat /\ 0 \in Nat /\ 1 \in Nat
  BY DEF Acks, PeerInv
<1>. HIDE DEF Good
<1>3. \E kind, seq, len : \E a \in Nat : p = InSegment(kind, seq, len, a)
  <2>1. \/ \E kind, seq : \E a \in {0, 1, peer.rcvd} : p = InSegment(kind, seq, 0, a)
        \/ \E kind, seq, len : \E a \in Acks : p = InSegment(kind, seq, len, a)
    BY DEF Incoming
  <2>. QED BY <1>2, <2>1
<1>4. Good(p)
  BY <1>1, <1>3
<1>. QED BY <1>4 DEF Good

(* What is admitted counts in positions. *)
LEMMA WindowStep ==
  ASSUME GapInv, FifoInv, AskedInv, EarlyInv, WindowInv, Numbers', PeerInv', [Next]_sessionVars
  PROVE  WindowInv'
<1>0. AgreeInv /\ FirstNumbers /\ Shape /\ Numbers /\ PeerInv /\ SegmentInv
  BY DEF GapInv, AgreeInv, BothInv, CloseInv
<1>1. PICK c \in Nat, d \in Nat : c = peer.credit /\ d = peer'.credit /\ c <= d
  BY <1>0, PeerKept DEF PeerInv
<1>2. peer'.credit <= Credit'
  <2>1. Credit' = Credit /\ (d = c \/ (c < Credit /\ d = c + 1))
    BY <1>0, <1>1, PeerKept DEF Credit
  <2>2. Credit \in Nat
    BY <1>0, PlanAssumption DEF PeerInv, Credit
  <2>. QED BY <1>1, <2>1, <2>2 DEF WindowInv
<1>3. /\ rxPkt # <<>> => rxPkt[1].ack \in Seqs /\ rxPkt[1].win <= c + 1
      /\ rxPkt # <<>> => rxPkt[1].win = 0 \/ Pos(rxPkt[1].ack) + rxPkt[1].win <= c + 1
      /\ tx.window <= c + 1 /\ tx.window \in Nat
      /\ Steady => tx.window = 0 \/ Pos(tx.ackd) + tx.window <= c + 1
      /\ ml # <<>> /\ ml[1].type = "TX" => ml[1].sar.window = 0 \/ Pos(ml[1].sar.ackd) + ml[1].sar.window <= c + 1
  BY <1>0, <1>1 DEF WindowInv, Allowed, Numbers, TxSar
<1>4. SUFFICES /\ rxPkt' # <<>> => rxPkt'[1].ack \in Seqs /\ rxPkt'[1].win <= d + 1
               /\ rxPkt' # <<>> => rxPkt'[1].win = 0 \/ Pos(rxPkt'[1].ack) + rxPkt'[1].win <= d + 1
               /\ tx'.window <= d + 1
               /\ Steady' => tx'.window = 0 \/ Pos(tx'.ackd) + tx'.window <= d + 1
               /\ ml' # <<>> /\ ml'[1].type = "TX" =>
                    ml'[1].sar.window = 0 \/ Pos(ml'[1].sar.ackd) + ml'[1].sar.window <= d + 1
  BY <1>1, <1>2 DEF WindowInv, Allowed, Pos, Steady, Seqs
<1>5. \A a, w \in Nat : a + w <= c + 1 => w <= d + 1 /\ a + w <= d + 1 /\ w <= c + 1
  BY <1>1
<1>6. \A s \in Seqs : Pos(s) \in Nat
  BY PosIs, SeqsClosed
<1>7. \A sar \in TxSar : sar.ackd \in Seqs /\ sar.window \in Nat
  BY DEF TxSar
<1>8. tx \in TxSar /\ tx' \in TxSar /\ (ml # <<>> => ml[1].sar \in TxSar) /\ (ml' # <<>> => ml'[1].sar \in TxSar)
  BY <1>0 DEF Numbers
<1>9. rxPkt # <<>> => rxPkt[1].win \in Nat
  BY <1>0 DEF SegmentInv, PacketIs
<1>16. \A sar \in TxSar : sar.window = 0 \/ Pos(sar.ackd) + sar.window <= c + 1
                       => sar.window = 0 \/ Pos(sar.ackd) + sar.window <= d + 1
  BY <1>5, <1>6, <1>7
<1>17. rxPkt # <<>> => rxPkt[1].ack \in Seqs /\ rxPkt[1].win <= d + 1 /\ (rxPkt[1].win = 0 \/ Pos(rxPkt[1].ack) + rxPkt[1].win <= d + 1)
  <2>1. rxPkt # <<>> => rxPkt[1].win \in Nat /\ Pos(rxPkt[1].ack) \in Nat
    BY <1>3, <1>6, <1>9
  <2>. QED BY <1>1, <1>3, <2>1
<1>18. tx.window <= d + 1 /\ (tx.window = 0 \/ 0 + tx.window <= d + 1)
  BY <1>1, <1>3
<1>. HIDE DEF Steady
<1>10. CASE Arrives
  <2>1. PICK p \in Incoming : rxPkt' = <<p>>
    BY <1>10 DEF Arrives, RxLoad
  <2>2. UNCHANGED <<tx, ml>>
    BY <1>10, PeerEffects
  <2>3. \E a \in Nat : p.ack = Add(Isn, a) /\ p.win = IF c + 1 > a THEN c + 1 - a ELSE 0
    BY <1>0, <1>1, IncomingWindow
  <2>4. PICK a \in Nat : p.ack = Add(Isn, a) /\ p.win = IF c + 1 > a THEN c + 1 - a ELSE 0
    BY <2>3
  <2>5. Pos(p.ack) <= a /\ Pos(p.ack) \in Nat
    BY <2>4, PosOfAdd, PosIs, SeqsClosed
  <2>6. p.ack \in Seqs /\ p.win <= d + 1 /\ (p.win = 0 \/ Pos(p.ack) + p.win <= d + 1)
    BY <1>1, <2>4, <2>5, SeqsClosed
  <2>7. Steady' => Steady
    <3>1. ~TxStep
      BY <1>10, <2>1 DEF Arrives, RxLoad, TxStep, TxLoad, TxData, TxRetransmit, TxFin, TxSyn, TxSynAck, TxOpening,
                        TxAck, TxRst, MetaRest, rxEng
    <3>. QED BY <3>1, SteadyBefore
  <2>. QED BY <1>1, <1>3, <1>5, <1>6, <1>7, <1>8, <2>1, <2>2, <2>6, <2>7
<1>11. CASE RxTransition
  <2>1. rxPkt # <<>> /\ rxPkt' = <<>> /\ ml' = ml /\ UNCHANGED <<wire, peer>>
    BY <1>11, RxEffects DEF FifoInv
  <2>2. ~TxStep
    BY <2>1 DEF TxStep, TxLoad, TxData, TxRetransmit, TxFin, TxSyn, TxSynAck, TxOpening, TxAck, TxRst, MetaRest, rxEng
  <2>3. Steady' => Steady
    BY <2>2, SteadyBefore
  <2>4. CASE tx' = tx
    BY <1>1, <1>3, <1>5, <1>6, <1>7, <1>8, <2>1, <2>3, <2>4
  <2>5. CASE rxPkt[1].kind # "SYN" /\ \E w, k : tx'.ackd = rxPkt[1].ack /\ tx'.window = rxPkt[1].win
    BY <1>1, <1>3, <1>5, <1>6, <1>7, <1>8, <1>9, <2>1, <2>5
  <2>6. CASE /\ pipe' = Append(pipe, Ev("SYN_ACK", 0)) /\ tx'.window = rxPkt[1].win
             /\ rxPkt[1].kind = "SYN"
    <3>1. Early'
      <4>1. PICK e \in Events : e = Ev("SYN_ACK", 0) /\ e.type \in Openers /\ e.rt = 0
        BY EventIs
      <4>2. PICK n \in Nat : n = Len(pipe) /\ Len(pipe') = n + 1 /\ pipe'[n + 1] = e
        BY <2>6, <4>1, QueueAppend DEF FifoInv
      <4>3. n + 1 \in 1 .. n + 1
        OBVIOUS
      <4>. QED BY <4>1, <4>2, <4>3 DEF Early, Opens
    <3>. QED BY <1>1, <1>3, <1>5, <1>6, <1>7, <1>8, <1>9, <2>1, <2>6, <3>1 DEF Steady
  <2>. QED
    <3>1. \A a, w, k : TxSarFromRx(a, w, k).ackd = a /\ TxSarFromRx(a, w, k).window = w
                       /\ TxSarInitFromRx(a, w).ackd = a /\ TxSarInitFromRx(a, w).window = w
      BY <1>8, TxFields
    <3>. QED BY <1>0, <1>11, <2>4, <2>5, <2>6, <3>1, TransitionTx
<1>12. CASE TxStep
  <2>1. UNCHANGED <<rxPkt, peer>>
    BY <1>0, <1>12, TxCases DEF GapInv
  <2>2. /\ tx'.window = tx.window
        /\ tx'.ackd = tx.ackd \/ tx'.ackd = Isn
        /\ Steady' => Steady \/ tx'.ackd = Isn
    <3>1. \/ UNCHANGED tx \/ TxData \/ TxRetransmit \/ TxFin \/ \E type \in Openers : TxOpening(type, type)
      BY <1>0, <1>12, TxCases
    <3>2. tx'.window = tx.window /\ (tx'.ackd = tx.ackd \/ tx'.ackd = Isn)
      <4>1. TxData => tx'.window = tx.window /\ tx'.ackd = tx.ackd
        BY <1>0, TxDataIs DEF SameBut
      <4>2. TxRetransmit => tx' = tx
        BY <1>0, TxRetransmitIs
      <4>3. TxFin => tx'.window = tx.window /\ tx'.ackd = tx.ackd
        BY <1>0, TxFinIs DEF SameBut
      <4>4. ASSUME NEW type \in Openers, TxOpening(type, type)
            PROVE  tx'.window = tx.window /\ (tx'.ackd = tx.ackd \/ tx'.ackd = Isn)
        BY <1>0, <4>4, TxOpeningIs
      <4>. QED BY <3>1, <4>1, <4>2, <4>3, <4>4
    <3>3. ASSUME Opens(ml[1]), TxOpening(ml[1].type, ml[1].type) PROVE tx'.ackd = Isn
      BY <1>0, <3>3, TxOpeningIs DEF Opens
    <3>. QED BY <3>2, <3>3, SteadyBefore
  <2>3. Pos(Isn) = 0
    BY PosOfIsn
  <2>4. ml' # <<>> /\ ml'[1].type = "TX" =>
           \/ ml'[1].sar = tx /\ Steady
           \/ /\ ml # <<>> /\ ml[1].type = "TX" /\ ml'[1].sar.ackd = ml[1].sar.ackd
              /\ ml'[1].sar.window = ml[1].sar.window
    <3>1. CASE ml = <<>>
      <4>1. pipe # <<>> /\ ml'[1].type = pipe[1].type /\ ml'[1].sar = tx
        BY <1>0, <1>12, <3>1, TxEffects
      <4>2. "TX" \notin Calm
        BY EventIs
      <4>. QED BY <3>1, <4>1, <4>2, BusySteady
    <3>2. TxData => /\ ml # <<>> /\ ml[1].type = "TX"
                    /\ ml' # <<>> => ml'[1].sar.ackd = ml[1].sar.ackd /\ ml'[1].sar.window = ml[1].sar.window
      BY <1>0, TxDataIs DEF SameBut
    <3>3. TxRetransmit => ml' = <<>> \/ ml'[1].type \in {"RT", "FIN"}
      BY <1>0, TxRetransmitIs
    <3>4. TxFin => ml' = <<>>
      BY <1>0, TxFinIs
    <3>5. (\E type \in Openers : TxOpening(type, type)) => ml' = <<>>
      BY DEF TxOpening
    <3>. QED BY <1>0, <1>12, <3>1, <3>2, <3>3, <3>4, <3>5, TxCases
  <2>8. Steady' => tx'.window = 0 \/ Pos(tx'.ackd) + tx'.window <= d + 1
    BY <1>3, <1>8, <2>2, <2>3, <1>16, <1>18
  <2>9. ml' # <<>> /\ ml'[1].type = "TX" =>
           ml'[1].sar.window = 0 \/ Pos(ml'[1].sar.ackd) + ml'[1].sar.window <= d + 1
    BY <1>3, <1>8, <2>4, <1>16
  <2>10. /\ rxPkt' # <<>> => rxPkt'[1].ack \in Seqs /\ rxPkt'[1].win <= d + 1
         /\ rxPkt' # <<>> => rxPkt'[1].win = 0 \/ Pos(rxPkt'[1].ack) + rxPkt'[1].win <= d + 1
    BY <2>1, <1>17
  <2>11. tx'.window <= d + 1
    BY <2>2, <1>18
  <2>. QED BY <2>8, <2>9, <2>10, <2>11
<1>13. CASE UNCHANGED <<rxPkt, ml>> /\ tx'.ackd = tx.ackd /\ tx'.window = tx.window /\ ~TxStep
  <2>1. Steady' => Steady
    BY <1>13, SteadyBefore
  <2>2. tx.window = 0 \/ Pos(tx.ackd) + tx.window <= c + 1 => tx.window = 0 \/ Pos(tx.ackd) + tx.window <= d + 1
    BY <1>8, <1>16
  <2>3. ml # <<>> /\ ml[1].type = "TX" => ml[1].sar.window = 0 \/ Pos(ml[1].sar.ackd) + ml[1].sar.window <= d + 1
    BY <1>3, <1>8, <1>16
  <2>. QED BY <1>3, <1>13, <1>17, <1>18, <2>1, <2>2, <2>3
<1>14. EventStep \/ Expires \/ ReleaseStep => UNCHANGED <<rxPkt, ml, tx>>
  BY EventEffects
<1>15. AppIfStep \/ AppRequest => UNCHANGED <<rxPkt, ml>> /\ tx'.ackd = tx.ackd /\ tx'.window = tx.window
  <2>1. \A e : [tx EXCEPT !.app = e].ackd = tx.ackd /\ [tx EXCEPT !.app = e].window = tx.window
    BY <1>8, TxFields
  <2>2. AppIfStep \/ AppRequest => UNCHANGED <<rxPkt, ml>> /\ (tx' = tx \/ \E e : tx' = [tx EXCEPT !.app = e])
    BY <1>0, AppEffects
  <2>. QED BY <2>1, <2>2
<1>. QED BY <1>10, <1>11, <1>12, <1>13, <1>14, <1>15, NextIs, PeerEffects

(* What a segment that is handled does to the entry. *)
LEMMA RxEntry ==
  ASSUME GapInv, FifoInv, RxTransition
  PROVE  /\ tx'.not_ackd = tx.not_ackd /\ tx'.app = tx.app /\ (tx'.finSent => tx.finSent)
         /\ \/ tx' = tx
            \/ rxPkt[1].kind # "SYN" /\ tx'.ackd = rxPkt[1].ack
            \/ rxPkt[1].kind = "SYN" /\ state \in {"CLOSED", "SYN_SENT"} /\ Early'
<1>0. tx \in TxSar /\ Numbers /\ SegmentInv
  BY DEF GapInv, AgreeInv, BothInv, Numbers
<1>1. CASE /\ rxPkt[1].kind = "SYN" /\ state \in {"CLOSED", "SYN_SENT"}
           /\ pipe' = Append(pipe, Ev("SYN_ACK", 0)) /\ tx' = TxSarInitFromRx(0, rxPkt[1].win)
  <2>1. PICK e \in Events : e = Ev("SYN_ACK", 0) /\ e.type \in Openers /\ e.rt = 0
    BY EventIs
  <2>2. PICK n \in Nat : n = Len(pipe) /\ Len(pipe') = n + 1 /\ pipe'[n + 1] = e
    BY <1>1, <2>1, QueueAppend DEF FifoInv
  <2>3. n + 1 \in 1 .. n + 1
    OBVIOUS
  <2>4. Early'
    BY <2>1, <2>2, <2>3 DEF Early, Opens
  <2>. QED BY <1>0, <1>1, <2>4, TxFields
<1>2. CASE tx' = tx
  BY <1>2
<1>3. CASE rxPkt[1].kind # "SYN" /\ \E c : tx' = TxSarFromRx(rxPkt[1].ack, rxPkt[1].win, c)
  BY <1>0, <1>3, TxFields
<1>4. CASE rxPkt[1].kind # "SYN" /\ tx' = TxSarInitFromRx(rxPkt[1].ack, rxPkt[1].win)
  BY <1>0, <1>4, TxFields
<1>. QED BY <1>0, <1>1, <1>2, <1>3, <1>4, TransitionTx

(* What is sent is admitted. *)
LEMMA RoomLeft ==
  ASSUME NEW sar \in TxSar, NEW c \in Nat, c + 2 < SeqMod,
         sar.window = 0 \/ Pos(sar.ackd) + sar.window <= c + 1, Pos(sar.not_ackd) <= c + 1
  PROVE  /\ Pos(sar.not_ackd) + DataLength(sar) <= c + 1
         /\ Add(sar.not_ackd, DataLength(sar)) \in Seqs
         /\ Pos(Add(sar.not_ackd, DataLength(sar))) = Pos(sar.not_ackd) + DataLength(sar)
<1>0. SeqMod \in Nat /\ sar.not_ackd \in Seqs /\ sar.ackd \in Seqs /\ sar.window \in Nat
  BY Wraps DEF TxSar
<1>1. PICK n \in Seqs, a \in Seqs : n = Pos(sar.not_ackd) /\ a = Pos(sar.ackd)
  BY <1>0, PosIs
<1>2. PICK f \in Seqs : f = InFlight(sar) /\ f = IF a <= n THEN n - a ELSE SeqMod - (a - n)
  BY <1>0, <1>1, PosMinus DEF InFlight
<1>3. PICK w \in Nat, u \in Nat : w = sar.window /\ u = Usable(sar) /\ u = IF w > f THEN w - f ELSE 0
  BY <1>0, <1>2, LengthIs
<1>4. PICK l \in Nat : l = DataLength(sar) /\ l <= u
  <2>1. DataLength(sar) \in Nat /\ DataLength(sar) <= Usable(sar)
    BY LengthIs, SeqsClosed
  <2>. QED BY <1>3, <2>1
<1>5. w = 0 \/ a + w <= c + 1
  BY <1>1, <1>3
<1>6. n \in Nat /\ a \in Nat /\ f \in Nat /\ n <= c + 1
  BY <1>1, SeqsClosed
<1>7. n + u <= c + 1
  <2>1. CASE a <= n
    BY <1>2, <1>3, <1>5, <1>6, <2>1
  <2>2. CASE a > n
    BY <1>0, <1>2, <1>3, <1>5, <1>6, <2>2
  <2>. QED BY <1>6, <2>1, <2>2
<1>8. n + l <= c + 1 /\ n + l < SeqMod
  BY <1>0, <1>4, <1>6, <1>7
<1>. QED BY <1>0, <1>1, <1>4, <1>8, PosPlus

(* What a segment does to the peer. *)
LEMMA PeerTakes ==
  ASSUME PeerInv, Shape, FirstNumbers, NEW seg \in wire, PeerReceives(seg)
  PROVE  \/ peer'.rcvd = peer.rcvd
         \/ seg.kind \in Openers /\ peer.rcvd = 0 /\ peer'.rcvd = 1
         \/ /\ seg.kind = "DATA" /\ peer'.rcvd = Pos(seg.seq) + seg.len
            /\ peer.rcvd < Pos(seg.seq) + seg.len
         \/ seg.kind = "FIN" /\ peer'.rcvd = peer.rcvd + 1
<1>1. peer = [plan |-> peer.plan, calls |-> peer.calls, phase |-> peer.phase, irs |-> peer.irs,
              rcvd |-> peer.rcvd, sent |-> peer.sent, fin |-> peer.fin, credit |-> peer.credit,
              told |-> peer.told]
  BY DEF Shape
<1>2. Heard(seg.seq) = Pos(seg.seq)
  BY DEF FirstNumbers, Heard, Pos
<1>3. \/ \E ph : peer' = [peer EXCEPT !.phase = ph]
      \/ /\ seg.kind \in Openers /\ peer.phase = "idle"
         /\ \E ph : peer' = [peer EXCEPT !.rcvd = 1, !.phase = ph, !.irs = seg.seq]
      \/ /\ seg.kind = "DATA" /\ peer.rcvd < Pos(seg.seq) + seg.len
         /\ peer' = [peer EXCEPT !.rcvd = Pos(seg.seq) + seg.len, !.phase = "open"]
      \/ seg.kind = "FIN" /\ peer' = [peer EXCEPT !.rcvd = peer.rcvd + 1, !.phase = "ended"]
  BY <1>1, <1>2 DEF PeerReceives, Openers
<1>. QED BY <1>1, <1>3 DEF PeerInv

(* What is on the wire stays below Top, and Top within the window. *)
LEMMA LimitStep ==
  ASSUME GapInv, GapInv', FifoInv, AskedInv, EarlyInv, WindowInv, LimitInv, [Next]_sessionVars
  PROVE  LimitInv'
<1>0. AgreeInv /\ FirstNumbers /\ FreshInv /\ OrderInv /\ CoverInv /\ Shape /\ Numbers /\ PeerInv /\ SegmentInv /\ Numbers' /\ PeerInv'
  BY DEF GapInv, AgreeInv, BothInv, CloseInv
<1>1. PICK c \in Nat, d \in Nat : c = peer.credit /\ d = peer'.credit /\ c <= d
  BY <1>0, PeerKept DEF PeerInv
<1>2. PICK r \in Nat, q \in Nat : r = peer.rcvd /\ q = peer'.rcvd
  BY <1>0 DEF PeerInv
<1>3. c + 2 < SeqMod
  <2>1. Credit \in Nat /\ Credit + 2 < SeqMod /\ c <= Credit
    BY <1>0, <1>1, PlanAssumption DEF PeerInv, Credit, WindowInv
  <2>. QED BY <1>1, <2>1, Wraps
<1>4. /\ tx.finSent => ~NoFinYet
      /\ NothingSent => r <= 1
      /\ NoFinYet => \A seg \in wire : seg.kind = "DATA" => Pos(seg.seq) + seg.len <= Pos(Top)
      /\ NoFinYet /\ Called => 1 <= Pos(Top) /\ r <= Pos(Top) /\ Pos(Top) <= c + 1
      /\ NoFinYet /\ Steady => Pos(tx.ackd) <= r
      /\ NoFinYet /\ ml # <<>> /\ ml[1].type \in {"RT", "FIN"} => ml[1].sar.not_ackd = tx.not_ackd
      /\ NoFinYet /\ ml # <<>> /\ ml[1].type = "RT" => Pos(ml[1].sar.ackd) <= Pos(ml[1].sar.not_ackd)
  BY <1>1, <1>2 DEF LimitInv
<1>5. SUFFICES
      /\ tx'.finSent => ~NoFinYet'
      /\ NothingSent' => q <= 1
      /\ NoFinYet' => \A seg \in wire' : seg.kind = "DATA" => Pos(seg.seq) + seg.len <= Pos(Top')
      /\ NoFinYet' /\ Called' => 1 <= Pos(Top') /\ q <= Pos(Top') /\ Pos(Top') <= d + 1
      /\ NoFinYet' /\ Steady' => Pos(tx'.ackd) <= q
      /\ NoFinYet' /\ ml' # <<>> /\ ml'[1].type \in {"RT", "FIN"} => ml'[1].sar.not_ackd = tx'.not_ackd
      /\ NoFinYet' /\ ml' # <<>> /\ ml'[1].type = "RT" => Pos(ml'[1].sar.ackd) <= Pos(ml'[1].sar.not_ackd)
  BY <1>1, <1>2 DEF LimitInv, Pos
<1>6. (NoFinYet' => NoFinYet) /\ (NothingSent' => NothingSent) /\ wire \subseteq wire'
  BY WireGrows DEF NoFinYet, NothingSent
<1>7. /\ \A s \in Seqs : Pos(s) \in Nat
      /\ tx \in TxSar /\ tx' \in TxSar /\ (ml # <<>> => ml[1].sar \in TxSar) /\ (ml' # <<>> => ml'[1].sar \in TxSar)
      /\ \A sar \in TxSar : sar.ackd \in Seqs /\ sar.not_ackd \in Seqs /\ sar.app \in Seqs
      /\ \A seg \in wire : seg.seq \in Seqs /\ seg.len \in Nat
  BY <1>0, PosIs, SeqsClosed DEF Numbers, TxSar
<1>8. Top \in Seqs /\ Top' \in Seqs /\ Pos(Top) \in Nat /\ Pos(Top') \in Nat
  BY <1>7 DEF Top
<1>9. CASE ~TxStep
  <2>1. UNCHANGED <<ml, wire>> /\ tx'.not_ackd = tx.not_ackd /\ (tx'.finSent => tx.finSent)
    <3>1. RxTransition => UNCHANGED <<ml, wire>> /\ tx'.not_ackd = tx.not_ackd /\ (tx'.finSent => tx.finSent)
      BY RxEntry, RxEffects
    <3>2. EventStep \/ Expires \/ ReleaseStep => UNCHANGED <<ml, wire, tx>>
      BY EventEffects
    <3>3. AppIfStep \/ AppRequest => /\ UNCHANGED <<ml, wire>> /\ tx'.not_ackd = tx.not_ackd
                                     /\ tx'.finSent => tx.finSent
      <4>1. AppIfStep \/ AppRequest => UNCHANGED <<ml, wire>> /\ (tx' = tx \/ \E e : tx' = [tx EXCEPT !.app = e])
        BY <1>0, AppEffects
      <4>2. \A e : [tx EXCEPT !.app = e].not_ackd = tx.not_ackd /\ [tx EXCEPT !.app = e].finSent = tx.finSent
        BY <1>7, TxFields
      <4>. QED BY <4>1, <4>2
    <3>. QED BY <1>9, <3>1, <3>2, <3>3, NextIs, PeerEffects
  <2>2. Top' = Top /\ Called' = Called /\ NoFinYet' = NoFinYet /\ NothingSent' = NothingSent /\ (Steady' => Steady)
    BY <1>9, <2>1, SteadyBefore DEF Top, Called, NoFinYet, NothingSent
  <2>3. r <= q /\ (NothingSent => q <= 1) /\ (NoFinYet /\ Called => q <= Pos(Top))
    <3>1. CASE q = r
      BY <1>2, <1>4, <3>1
    <3>2. CASE \E seg \in wire : PeerReceives(seg)
      <4>1. PICK seg \in wire : PeerReceives(seg)
        BY <3>2
      <4>2. CASE q = r
        BY <3>1, <4>2
      <4>3. CASE r = 0 /\ q = 1
        BY <1>4, <1>8, <4>3
      <4>4. CASE seg.kind = "DATA" /\ q = Pos(seg.seq) + seg.len /\ r < Pos(seg.seq) + seg.len
        <5>1. ~NothingSent
          BY <4>1, <4>4 DEF NothingSent
        <5>. QED BY <1>2, <1>4, <4>1, <4>4, <5>1
      <4>5. CASE seg.kind = "FIN" /\ q = r + 1
        <5>1. ~NothingSent /\ ~NoFinYet
          BY <4>1, <4>5 DEF NothingSent, NoFinYet
        <5>. QED BY <1>2, <4>5, <5>1
      <4>. QED BY <1>0, <1>2, <4>1, <4>2, <4>3, <4>4, <4>5, PeerTakes
    <3>. QED BY <1>0, <1>2, <3>1, <3>2, PeerKept
  <2>4. NoFinYet /\ Steady' => Pos(tx'.ackd) <= q
    <3>1. CASE tx'.ackd = tx.ackd
      BY <1>2, <1>4, <1>7, <2>2, <2>3, <3>1
    <3>2. CASE RxTransition
      <4>1. CASE rxPkt[1].kind # "SYN" /\ tx'.ackd = rxPkt[1].ack
        <5>1. rxPkt # <<>> /\ q = r
          BY <1>2, <3>2, RxEffects
        <5>2. PICK a \in 0 .. r : tx'.ackd = Add(Isn, a)
          BY <1>0, <1>2, <4>1, <5>1 DEF SegmentInv, PacketIs
        <5>3. Pos(tx'.ackd) <= a /\ a \in Nat /\ a <= r /\ Pos(tx'.ackd) \in Nat
          BY <1>2, <1>7, <5>2, PosOfAdd
        <5>. QED BY <1>2, <5>1, <5>3
      <4>2. CASE Early'
        BY <4>2 DEF Steady
      <4>. QED BY <3>1, <3>2, <4>1, <4>2, RxEntry
    <3>3. RxTransition \/ tx'.ackd = tx.ackd
      <4>1. AppIfStep \/ AppRequest => tx' = tx \/ \E e : tx' = [tx EXCEPT !.app = e]
        BY <1>0, AppEffects
      <4>2. \A e : [tx EXCEPT !.app = e].ackd = tx.ackd
        BY <1>7, TxFields
      <4>3. EventStep \/ Expires \/ ReleaseStep => UNCHANGED tx
        BY EventEffects
      <4>. QED BY <1>9, <4>1, <4>2, <4>3, NextIs, PeerEffects
    <3>. QED BY <3>1, <3>2, <3>3
  <2>5. NoFinYet /\ Called => Pos(Top) <= d + 1
    BY <1>1, <1>4, <1>8
  <2>. QED BY <1>4, <2>1, <2>2, <2>3, <2>4, <2>5
<1>10. CASE TxStep
  <2>1. d = c /\ q = r
    BY <1>0, <1>1, <1>2, <1>10, TxCases
  <2>2. CASE /\ ml = <<>> /\ pipe # <<>> /\ ml' # <<>> /\ ml'[1].type = pipe[1].type
             /\ ml'[1].sar = tx /\ UNCHANGED <<tx, wire, mempt>>
    <3>1. Top' = Top /\ Called' = Called /\ NoFinYet' = NoFinYet /\ NothingSent' = NothingSent
      BY <2>2 DEF Top, Called, NoFinYet, NothingSent
    <3>2. Steady' => Steady
      BY <2>2, SteadyBefore
    <3>3. ml'[1].type = "RT" => Steady
      <4>1. "RT" \notin Calm
        BY EventIs
      <4>. QED BY <2>2, <4>1, BusySteady
    <3>4. Top = tx.not_ackd
      BY <2>2 DEF Top
    <3>5. NoFinYet /\ Steady => Pos(tx.ackd) <= Pos(tx.not_ackd)
      <4>1. Pos(tx.ackd) \in Nat
        BY <1>7
      <4>. QED BY <1>2, <1>4, <1>8, <3>4, <4>1 DEF Steady
    <3>. QED BY <1>4, <2>1, <2>2, <3>1, <3>2, <3>3, <3>5
  <2>3. CASE TxData
    <3>. DEFINE sar == ml[1].sar
    <3>1. PICK l \in Nat : l = DataLength(sar)
      BY <1>0, <2>3, TxDataIs, SeqsClosed
    <3>2. /\ ml # <<>> /\ ml[1].type = "TX" /\ sar \in TxSar
          /\ \A seg \in wire' : seg \in wire \/ (l # 0 /\ seg = Segment("DATA", sar.not_ackd, l))
          /\ \/ tx' = tx /\ ml' # <<>> /\ ml'[1].type = "TX"
             \/ /\ tx'.not_ackd = Add(sar.not_ackd, l) /\ tx'.ackd = tx.ackd /\ tx'.finSent = tx.finSent
                /\ ml' # <<>> => ml'[1].type = "FIN"
          /\ ml' # <<>> => ml'[1].sar.not_ackd = Add(sar.not_ackd, l)
      BY <1>0, <2>3, <3>1, TxDataIs DEF SameBut
    <3>3. Top = sar.not_ackd /\ Top' = Add(Top, l)
      BY <3>2 DEF Top
    <3>4. Called /\ Steady /\ (Steady' => Steady) /\ tx'.ackd = tx.ackd /\ tx'.finSent = tx.finSent
      <4>1. "TX" \notin Calm
        BY EventIs
      <4>. QED BY <3>2, <4>1, BusySteady DEF Steady
    <3>5. sar.window = 0 \/ Pos(sar.ackd) + sar.window <= c + 1
      BY <1>1, <3>2 DEF WindowInv, Allowed
    <3>6. NoFinYet => Pos(Top) + l <= c + 1 /\ Pos(Top') = Pos(Top) + l
      <4>1. NoFinYet => Pos(sar.not_ackd) <= c + 1
        BY <1>4, <3>3, <3>4
      <4>. QED BY <1>1, <1>3, <3>1, <3>2, <3>3, <3>5, <4>1, RoomLeft
    <3>. HIDE DEF sar
    <3>7. ASSUME NoFinYet', NEW seg \in wire', seg.kind = "DATA" PROVE Pos(seg.seq) + seg.len <= Pos(Top')
      <4>1. CASE seg \in wire
        <5>1. Pos(seg.seq) + seg.len <= Pos(Top) /\ Pos(seg.seq) \in Nat /\ seg.len \in Nat
          BY <1>4, <1>6, <1>7, <3>7, <4>1
        <5>. QED BY <1>6, <1>8, <3>1, <3>6, <3>7, <5>1
      <4>2. CASE seg = Segment("DATA", sar.not_ackd, l)
        <5>1. seg.seq = Top /\ seg.len = l
          BY <3>3, <4>2 DEF Segment
        <5>2. Pos(Top') = Pos(Top) + l
          BY <1>6, <3>6, <3>7
        <5>. QED BY <1>8, <5>1, <5>2
      <4>. QED BY <3>2, <4>1, <4>2
    <3>8. NoFinYet => 1 <= Pos(Top') /\ q <= Pos(Top') /\ Pos(Top') <= d + 1
      BY <1>1, <1>2, <1>4, <1>8, <2>1, <3>1, <3>4, <3>6
    <3>9. /\ ml' # <<>> /\ ml'[1].type \in {"RT", "FIN"} => ml'[1].sar.not_ackd = tx'.not_ackd
          /\ ml' # <<>> => ml'[1].type # "RT"
      BY <3>2
    <3>. QED BY <1>4, <1>6, <2>1, <3>4, <3>7, <3>8, <3>9
  <2>4. CASE TxRetransmit
    <3>. DEFINE sar == ml[1].sar
    <3>1. /\ ml # <<>> /\ ml[1].type = "RT" /\ sar \in TxSar /\ tx' = tx
          /\ \A seg \in wire' : \/ seg \in wire
                                \/ \E n \in Nat : /\ seg = Segment("DATA", sar.ackd, n)
                                                  /\ ~sar.finSent => n <= Sub(sar.not_ackd, sar.ackd)
          /\ ml' # <<>> => /\ ml'[1].sar.not_ackd = sar.not_ackd
                           /\ \/ /\ ml'[1].type = "RT" /\ ml'[1].sar.ackd = Add(sar.ackd, Mms)
                                 /\ ~sar.finSent => Mms <= Sub(sar.not_ackd, sar.ackd)
                              \/ ml'[1].type = "FIN"
      BY <1>0, <2>4, TxRetransmitIs
    <3>2. Top = tx.not_ackd /\ Top' = Top
      BY <3>1 DEF Top
    <3>3. Called /\ Steady
      <4>1. "RT" \notin Calm
        BY EventIs
      <4>. QED BY <3>1, <4>1, BusySteady DEF Steady
    <3>. HIDE DEF sar
    <3>4. NoFinYet => ~sar.finSent
      BY <1>0, <1>4, <3>1 DEF CoverInv, sar
    <3>5. PICK a \in Nat, b \in Nat : a = Pos(sar.ackd) /\ b = Pos(sar.not_ackd)
      BY <1>7, <3>1
    <3>6. NoFinYet => a <= b /\ Sub(sar.not_ackd, sar.ackd) = b - a /\ b = Pos(Top)
      <4>1. NoFinYet => a <= b /\ b = Pos(Top)
        BY <1>4, <3>1, <3>2, <3>5 DEF sar
      <4>2. sar.not_ackd \in Seqs /\ sar.ackd \in Seqs
        BY <1>7, <3>1
      <4>3. Pos(sar.ackd) <= Pos(sar.not_ackd) => Sub(sar.not_ackd, sar.ackd) = Pos(sar.not_ackd) - Pos(sar.ackd)
        BY <4>2, PosMinus
      <4>. QED BY <3>5, <4>1, <4>3
    <3>7. ASSUME NoFinYet', NEW seg \in wire', seg.kind = "DATA" PROVE Pos(seg.seq) + seg.len <= Pos(Top')
      <4>1. CASE seg \in wire
        BY <1>4, <1>6, <3>2, <3>7, <4>1
      <4>2. CASE \E n \in Nat : seg = Segment("DATA", sar.ackd, n) /\ n <= Sub(sar.not_ackd, sar.ackd)
        <5>1. PICK n \in Nat : seg = Segment("DATA", sar.ackd, n) /\ n <= b - a
          BY <1>6, <3>6, <3>7, <4>2
        <5>2. Pos(seg.seq) = a /\ seg.len = n
          BY <3>5, <5>1 DEF Segment
        <5>. QED BY <1>6, <3>2, <3>5, <3>6, <3>7, <5>1, <5>2
      <4>. QED BY <1>6, <3>1, <3>4, <3>7, <4>1, <4>2
    <3>8. ASSUME NoFinYet', ml' # <<>>, ml'[1].type = "RT" PROVE Pos(ml'[1].sar.ackd) <= Pos(ml'[1].sar.not_ackd)
      <4>1. ml'[1].sar.ackd = Add(sar.ackd, Mms) /\ Mms <= b - a /\ ml'[1].sar.not_ackd = sar.not_ackd
        BY <1>6, <3>1, <3>4, <3>6, <3>8
      <4>2. a + Mms <= b /\ Mms \in Nat /\ sar.ackd \in Seqs /\ b \in Seqs
        <5>1. sar.ackd \in Seqs /\ sar.not_ackd \in Seqs /\ Mms \in Nat
          BY <1>7, <3>1, SeqsClosed
        <5>2. b \in Seqs
          BY <3>5, <5>1, PosIs
        <5>3. a + Mms <= b
          BY <3>5, <4>1, <5>1
        <5>. QED BY <5>1, <5>2, <5>3
      <4>3. a + Mms < SeqMod
        BY <3>5, <4>2, Wraps DEF Seqs
      <4>4. Pos(Add(sar.ackd, Mms)) = a + Mms
        BY <3>5, <4>2, <4>3, PosPlus
      <4>. QED BY <3>5, <4>1, <4>2, <4>4
    <3>9. ml' # <<>> /\ NoFinYet => ml'[1].sar.not_ackd = tx'.not_ackd
      BY <1>4, <3>1 DEF sar
    <3>10. NoFinYet => 1 <= Pos(Top') /\ q <= Pos(Top') /\ Pos(Top') <= d + 1
      BY <1>4, <2>1, <3>2, <3>3
    <3>. QED BY <1>4, <1>6, <2>1, <3>1, <3>3, <3>7, <3>8, <3>9, <3>10
  <2>5. CASE TxFin
    <3>1. /\ ml # <<>> /\ ml[1].type = "FIN" /\ ml' = <<>>
          /\ \A seg \in wire' : seg \in wire \/ seg.kind = "FIN"
          /\ NoFinYet' => /\ tx'.not_ackd \in {tx.not_ackd, ml[1].sar.not_ackd}
                          /\ tx'.ackd = tx.ackd /\ tx'.finSent = tx.finSent
      BY <1>0, <2>5, TxFinIs DEF SameBut, NoFinYet
    <3>2. Top = tx.not_ackd /\ Top' = tx'.not_ackd
      BY <3>1 DEF Top
    <3>3. NoFinYet' => tx'.not_ackd = tx.not_ackd
      BY <1>4, <1>6, <3>1
    <3>4. Called /\ Steady
      <4>1. "FIN" \notin Calm
        BY EventIs
      <4>. QED BY <3>1, <4>1, BusySteady DEF Steady
    <3>5. \A seg \in wire' : seg.kind = "DATA" => seg \in wire
      BY <3>1
    <3>. QED BY <1>4, <1>6, <2>1, <3>1, <3>2, <3>3, <3>4, <3>5
  <2>6. CASE \E type \in Openers : TxOpening(type, type)
    <3>1. PICK type \in Openers : TxOpening(type, type)
      BY <2>6
    <3>2. /\ ml # <<>> /\ ml[1].type = type /\ ml' = <<>>
          /\ \A seg \in wire' : seg \in wire \/ seg.kind \in Openers
          /\ \/ ml[1].rt # 0 /\ tx' = tx
             \/ /\ ml[1].rt = 0 /\ tx'.not_ackd = Add(Isn, 1) /\ tx'.ackd = Isn /\ tx'.finSent = tx.finSent
      BY <1>0, <3>1, TxOpeningIs
    <3>3. Top = tx.not_ackd /\ Top' = tx'.not_ackd /\ type \in {"SYN", "SYN_ACK"}
      BY <3>2 DEF Top, Openers
    <3>4. \A seg \in wire' : seg.kind \in {"DATA", "FIN"} => seg \in wire
      BY <3>2 DEF Openers
    <3>5. CASE ml[1].rt # 0 /\ tx' = tx
      <4>1. Called
        BY <1>0, <3>2, <3>5 DEF OrderInv
      <4>2. Steady' => Steady
        BY <3>5, SteadyBefore DEF Opens
      <4>. QED BY <1>4, <1>6, <2>1, <3>2, <3>3, <3>4, <3>5, <4>1, <4>2
    <3>6. CASE ml[1].rt = 0 /\ tx'.not_ackd = Add(Isn, 1) /\ tx'.ackd = Isn /\ tx'.finSent = tx.finSent
      <4>1. NothingSent
        BY <3>2, <3>6 DEF EarlyInv, Early, Opens, Quiet
      <4>2. \A seg \in wire' : seg.kind \notin {"DATA", "FIN"}
        BY <3>4, <4>1 DEF NothingSent
      <4>3. Pos(tx'.ackd) = 0 /\ Pos(Top') = 1 /\ r <= 1
        BY <1>4, <3>3, <3>6, <4>1, PosOfIsn
      <4>4. 1 <= Pos(Top') /\ q <= Pos(Top') /\ Pos(Top') <= d + 1 /\ q <= 1 /\ Pos(tx'.ackd) <= q
        BY <1>1, <1>2, <2>1, <4>3
      <4>5. NoFinYet
        BY <4>1 DEF NoFinYet, NothingSent
      <4>. QED BY <1>4, <3>2, <3>6, <4>2, <4>4, <4>5
    <3>. QED BY <3>2, <3>5, <3>6
  <2>7. CASE /\ ml # <<>> /\ ml[1].type \in Calm \ Openers /\ ml' = <<>> /\ UNCHANGED <<tx, mempt>>
             /\ \A seg \in wire' : seg \in wire \/ seg.kind \in {"ACK", "RST"}
    <3>1. Top' = Top
      BY <2>7, EventIs DEF Top
    <3>2. (Called' <=> Called) /\ \A seg \in wire' : seg.kind = "DATA" => seg \in wire
      BY <1>6, <2>7 DEF Called, Openers
    <3>3. Steady' => Steady
      BY <2>7, SteadyBefore DEF Opens
    <3>. QED BY <1>4, <1>6, <2>1, <2>7, <3>1, <3>2, <3>3
  <2>. QED BY <1>0, <1>10, <2>2, <2>3, <2>4, <2>5, <2>6, <2>7, TxCases
<1>. QED BY <1>9, <1>10

(* The invariant of what is sent. *)
SendInv == GapInv /\ FifoInv /\ AskedInv /\ EarlyInv /\ WindowInv /\ LimitInv

LEMMA SendInit == Init => SendInv
<1>1. SUFFICES ASSUME Init PROVE SendInv
  OBVIOUS
<1>2. GapInv
  BY <1>1, GapInit
<1>3. FifoInv
  <2>1. RtReset \in [active : BOOLEAN, retries : Nat, type : EventTypes]
    BY EventIs DEF RtReset
  <2>. QED BY <1>1, <2>1 DEF Init, FifoInv
<1>4. wire = {} /\ ml = <<>> /\ pipe = <<>> /\ rxPkt = <<>> /\ appEv = <<>> /\ cache = <<>> /\ tx = TxSarReset
  BY <1>1 DEF Init
<1>5. ~Called /\ ~Early /\ ~Steady /\ NothingSent /\ ~Asked /\ ~OpeningSegment
  BY <1>4 DEF Called, Early, Steady, NothingSent, Asked, OpeningSegment
<1>6. AskedInv /\ EarlyInv
  BY <1>5 DEF AskedInv, EarlyInv
<1>7. peer.rcvd = 0 /\ peer.credit \in Nat /\ peer.credit <= Credit
  <2>1. PICK plan \in Plans : peer.credit = plan.firstCredit /\ peer.plan = plan /\ peer.rcvd = 0
    BY <1>1 DEF Init
  <2>. QED BY <2>1, PlanAssumption DEF Credit
<1>8. tx.window = 0 /\ ~tx.finSent
  BY <1>4 DEF TxSarReset
<1>9. WindowInv
  BY <1>4, <1>5, <1>7, <1>8 DEF WindowInv
<1>10. LimitInv
  BY <1>4, <1>5, <1>7, <1>8 DEF LimitInv
<1>. QED BY <1>2, <1>3, <1>6, <1>9, <1>10 DEF SendInv

(* It is inductive while the number stays the first one. *)
LEMMA SendStep ==
  ASSUME SendInv, [Next]_sessionVars, FirstNumbers'
  PROVE  SendInv'
<1>1. GapInv /\ FifoInv /\ AskedInv /\ EarlyInv /\ WindowInv /\ LimitInv
  BY DEF SendInv
<1>2. GapInv' /\ Numbers /\ Numbers' /\ PeerInv'
  <2>1. GapInv'
    BY <1>1, GapStep
  <2>. QED BY <1>1, <2>1 DEF GapInv, AgreeInv, BothInv
<1>3. FifoInv'
  BY <1>1, <1>2, FifoStep
<1>4. AskedInv' /\ EarlyInv' /\ WindowInv'
  BY <1>1, <1>2, AskedStep, EarlyStep, WindowStep
<1>5. LimitInv'
  BY <1>1, <1>2, LimitStep
<1>. QED BY <1>2, <1>3, <1>4, <1>5 DEF SendInv

-----------------------------------------------------------------------------
(***************************************************************************)
(* A session is opened once, and what that means for SentIsWritten and     *)
(* AckdNeverBack.                                                          *)
(***************************************************************************)

(* At most one opening is on its way to the table. *)
Single ==
  /\ ml # <<>> /\ Opens(ml[1]) => \A k \in 1 .. Len(pipe) : ~Opens(pipe[k])
  /\ \A j, k \in 1 .. Len(pipe) : Opens(pipe[j]) /\ Opens(pipe[k]) => j = k

(* Its opening comes before the table is written, and is not repeated. *)
OnceInv == OpenedOnce /\ Early => ~Called /\ Single

(* The engine asks no peer that calls. *)
NoSyn == {e \in Events : e.type # "SYN"}

PassiveInv ==
  peer.calls =>
    /\ state # "SYN_SENT" /\ ~app.open /\ rt.type # "SYN"
    /\ timerEv \in Seq(NoSyn) /\ pipe \in Seq(NoSyn)
    /\ ml # <<>> => ml[1].type # "SYN"

(* A peer that calls and has heard nothing yet finds a session that is     *)
(* closed and forgotten, unless the application was told of its end. *)
Unheard == peer.rcvd = 0 \/ OpeningSegment

FirstInv ==
  peer.calls /\ Unheard =>
    /\ state = "SYN_RECEIVED" => recvd = Add(PeerIsn, 1)
    /\ "CLOSE" \notin told => giveUp = 0 /\ ~closeTimer /\ (state = "CLOSED" => ~Called /\ ~Early)

(* Until the peer hears of the engine there is one number only: the table  *)
(* and what is repeated from it hold the one that was drawn. *)
CallInv ==
  peer.rcvd = 0 =>
    /\ \A seg \in wire : seg.kind \in Openers => seg.seq = Isn
    /\ Steady => tx.ackd = Isn
    /\ ml # <<>> /\ ml[1].type \in Openers /\ ml[1].rt # 0 => ml[1].sar.ackd = Isn

(* The pointer app of the table follows the writes that wait in the cache  *)
(* of tx_app_interface, which follow mempt, where the application is. *)
IsWrite(i) == cache[i].type = "TX"
WrittenInv ==
  /\ app.left \in 0 .. AppBytes
  /\ ~Called => app.left = AppBytes
  /\ OpenedOnce /\ Called =>
       /\ Pos(mempt) + app.left = AppBytes + 1
       /\ 1 <= Pos(tx.app) /\ Pos(tx.app) <= Pos(mempt)
       /\ \A i \in 1 .. Len(cache) : IsWrite(i) =>
            /\ Pos(tx.app) <= Pos(cache[i].end) /\ Pos(cache[i].end) <= Pos(mempt)
            /\ \A j \in 1 .. i : IsWrite(j) => Pos(cache[j].end) <= Pos(cache[i].end)
       /\ ml # <<>> => Pos(ml[1].sar.app) <= Pos(tx.app)

(* Top stays behind app, in the table and in the copy. *)
SentInv ==
  NoFinYet /\ OpenedOnce =>
    /\ Called => Pos(Top) <= Pos(tx.app)
    /\ ml # <<>> /\ ml[1].type = "TX" => Pos(ml[1].sar.not_ackd) <= Pos(ml[1].sar.app)

(* ackd stays behind not_ackd, and so do the two registers that rx_engine  *)
(* has copied when it tests an acknowledgement; ackd cannot have moved     *)
(* since, because only this test moves it. *)
AckInv ==
  OpenedOnce /\ ~peer.fin =>
    /\ ~Called => tx.not_ackd = 0
    /\ Called => Pos(tx.ackd) <= Pos(tx.not_ackd)
    /\ ml # <<>> /\ ml[1].type = "TX" => Pos(tx.not_ackd) <= Pos(ml[1].sar.not_ackd)
    /\ ml # <<>> /\ ml[1].type \in {"RT", "FIN"} => tx.not_ackd = ml[1].sar.not_ackd
    /\ rxPkt # <<>> =>
         \/ rxPkt[1].kind \in {"SYN", "RST"}
         \/ rxPkt[1].kind = "SYN_ACK" /\ rxPkt[1].ack # snap.nextByte
         \/ /\ Called /\ snap.prevAck = tx.ackd /\ Pos(snap.prevAck) <= Pos(snap.nextByte)
            /\ Pos(snap.nextByte) <= Pos(tx.not_ackd)

(* What a segment that is handled does to the state. *)
LEMMA RxState ==
  ASSUME RxTransition, NEW p, p = rxPkt[1]
  PROVE  /\ state' = "SYN_SENT" => state = "SYN_SENT"
         /\ p.kind = "SYN" /\ state \in {"CLOSED", "SYN_SENT"} =>
              state' = "SYN_RECEIVED" /\ recvd' = Add(p.seq, 1)
         /\ p.kind \notin {"ACK", "FIN"} =>
              /\ giveUp' = giveUp /\ closeTimer' = closeTimer
              /\ state' = "SYN_RECEIVED" =>
                   \/ p.kind = "SYN" /\ recvd' = Add(p.seq, 1) 
                   \/ state = "SYN_RECEIVED" /\ recvd' = recvd
              /\ state' = "CLOSED" =>
                   \/ state = "CLOSED" \/ state = "SYN_SENT"
                   \/ p.kind = "SYN" /\ state = "SYN_RECEIVED" /\ Add(p.seq, 1) # recvd
                   \/ "CLOSE" \in told'
         /\ told \subseteq told'
<1>1. \/ p.kind = "ACK" /\ OnAck(p)
      \/ p.kind = "SYN" /\ OnSyn(p)
      \/ p.kind = "SYN_ACK" /\ OnSynAck(p)
      \/ p.kind = "FIN" /\ OnFin(p)
      \/ p.kind = "RST" /\ OnRst(p)
  BY DEF RxTransition
<1>2. giveUp' = giveUp
  BY DEF RxTransition
<1>3. OnAck(p) => told \subseteq told' /\ (state' = "SYN_SENT" => state = "SYN_SENT")
  <2>1. AllAckedMoves(state) = "SYN_SENT" => state = "SYN_SENT"
    BY DEF AllAckedMoves, Moves
  <2>2. OnAck(p) => /\ told' = told \/ told' = told \cup {"DATA"}
                    /\ state' = state \/ state' = AllAckedMoves(state)
    BY Zenon DEF OnAck, WriteState
  <2>. QED BY <2>1, <2>2
<1>4. OnSyn(p) => /\ told' = told /\ closeTimer' = closeTimer /\ (state' = "SYN_SENT" => state = "SYN_SENT")
                  /\ state \in {"CLOSED", "SYN_SENT"} => state' = "SYN_RECEIVED" /\ recvd' = Add(p.seq, 1)
                  /\ state' = "SYN_RECEIVED" => recvd' = Add(p.seq, 1) \/ (state = "SYN_RECEIVED" /\ recvd' = recvd)
                  /\ state' = "CLOSED" => state = "SYN_RECEIVED" /\ Add(p.seq, 1) # recvd
  BY DEF OnSyn, WriteState
<1>5. OnSynAck(p) => /\ told' = told /\ closeTimer' = closeTimer /\ (state' = "SYN_SENT" => state = "SYN_SENT")
                     /\ state' = "SYN_RECEIVED" => state = "SYN_RECEIVED" /\ recvd' = recvd
                     /\ state' = "CLOSED" => state = "CLOSED" \/ state = "SYN_SENT"
  BY DEF OnSynAck, WriteState
<1>6. OnFin(p) => told \subseteq told' /\ (state' = "SYN_SENT" => state = "SYN_SENT")
  BY DEF OnFin, WriteState
<1>7. OnRst(p) => /\ told \subseteq told' /\ closeTimer' = closeTimer /\ (state' = "SYN_SENT" => state = "SYN_SENT")
                  /\ state' = "SYN_RECEIVED" => state = "SYN_RECEIVED" /\ recvd' = recvd
                  /\ state' = "CLOSED" => state = "CLOSED" \/ state = "SYN_SENT" \/ "CLOSE" \in told'
  BY DEF OnRst, WriteState, TellClose
<1>. QED BY <1>1, <1>2, <1>3, <1>4, <1>5, <1>6, <1>7

(* What the timers and the tables do to the state. *)
LEMMA EventState ==
  ASSUME EventStep \/ Expires \/ ReleaseStep
  PROVE  /\ state' = state \/ (state' = "CLOSED" /\ giveUp > 0)
         /\ told \subseteq told' /\ recvd' = recvd /\ rxPkt' = rxPkt
         /\ closeTimer' => closeTimer
         /\ \/ giveUp' = giveUp
            \/ giveUp > 0 \/ closeTimer
            \/ rt.type = "SYN" \/ "CLOSE" \in told'
<1>1. CASE EventStep
  BY <1>1 DEF EventStep, DelayedAckFires, TakeTimerEvent, TakeAppEvent, table, timers, rxEng
<1>2. CASE RtDue
  BY <1>2 DEF RtDue, RtExpires, TellClose, table, rxEng
<1>3. CASE ProbeDue \/ CloseDue
  BY <1>3 DEF ProbeDue, CloseDue, ProbeExpires, CloseExpires, table, rxEng
<1>4. CASE ReleaseStep
  BY <1>4 DEF ReleaseStep, TimerRelease, LookupRelease, WriteState, rxEng, timers
<1>. QED BY <1>1, <1>2, <1>3, <1>4 DEF Expires

(* What is opened once was so before. *)
LEMMA OpenedBefore ==
  ASSUME Shape, [Next]_sessionVars, OpenedOnce'
  PROVE  OpenedOnce
  BY ToldGrows, PeerKept DEF OpenedOnce

(* A session that a peer calls was not asked for by the application. *)
LEMMA PassiveStep ==
  ASSUME GapInv, FifoInv, AskedInv, PassiveInv, [Next]_sessionVars
  PROVE  PassiveInv'
<1>0. Numbers /\ Shape /\ peer'.calls = peer.calls /\ appEv \in Seq(Events) /\ NoSyn \subseteq Events
  BY PeerKept DEF GapInv, AgreeInv, BothInv, CloseInv, FifoInv, NoSyn
<1>1. SUFFICES ASSUME peer.calls
               PROVE  /\ state' # "SYN_SENT" /\ ~app'.open /\ rt'.type # "SYN"
                      /\ timerEv' \in Seq(NoSyn) /\ pipe' \in Seq(NoSyn)
                      /\ ml' # <<>> => ml'[1].type # "SYN"
  BY <1>0 DEF PassiveInv
<1>2. /\ state # "SYN_SENT" /\ ~app.open /\ rt.type # "SYN" /\ rt.type \in EventTypes
      /\ timerEv \in Seq(NoSyn) /\ pipe \in Seq(NoSyn)
      /\ ml # <<>> => ml[1].type # "SYN"
      /\ ~Asked
  BY <1>1 DEF PassiveInv, AskedInv, FifoInv
<1>3. /\ \A q \in Seq(NoSyn), e \in NoSyn : Append(q, e) \in Seq(NoSyn)
      /\ \A q \in Seq(NoSyn) : q # <<>> => Tail(q) \in Seq(NoSyn) /\ q[1].type # "SYN"
  <2>1. \A q \in Seq(NoSyn), e \in NoSyn : Append(q, e) \in Seq(NoSyn)
    OBVIOUS
  <2>2. ASSUME NEW q \in Seq(NoSyn), q # <<>> PROVE Tail(q) \in Seq(NoSyn) /\ q[1].type # "SYN"
    BY <2>2, QueueTail DEF NoSyn
  <2>. QED BY <2>1, <2>2
<1>4. \A e \in Events : e.type # "SYN" => e \in NoSyn
  BY DEF NoSyn
<1>. HIDE DEF NoSyn
<1>5. CASE RxTransition
  <2>1. /\ UNCHANGED <<ml, timerEv, app>> /\ rt'.type = rt.type
        /\ pipe' = pipe \/ \E e \in Events : pipe' = Append(pipe, e) /\ e.type \notin {"SYN", "TX"}
    BY <1>5, RxEffects
  <2>2. state' # "SYN_SENT"
    BY <1>2, <1>5, RxState
  <2>. QED BY <1>2, <1>3, <1>4, <2>1, <2>2
<1>6. CASE TxStep
  <2>1. UNCHANGED <<state, timerEv, app>>
    BY <1>0, <1>6, TxEffects
  <2>2. CASE ml = <<>>
    <3>1. pipe # <<>> /\ pipe' = Tail(pipe) /\ ml'[1].type = pipe[1].type /\ rt' = rt
      BY <1>0, <1>6, <2>2, TxEffects
    <3>. QED BY <1>2, <1>3, <2>1, <3>1
  <2>3. CASE ml # <<>>
    <3>1. /\ pipe' = pipe /\ (ml' # <<>> => ml'[1].type \in {"TX", "RT", "FIN"})
          /\ rt' = rt \/ rt'.type = "RT" \/ rt'.type = ml[1].type
      BY <1>0, <1>6, <2>3, TxEffects
    <3>. QED BY <1>2, <2>1, <2>3, <3>1
  <2>. QED BY <2>2, <2>3
<1>7. CASE EventStep \/ Expires \/ ReleaseStep
  <2>1. UNCHANGED <<ml, app>> /\ state' # "SYN_SENT"
    BY <1>2, <1>7, EventEffects, EventState
  <2>2. appEv # <<>> => appEv[1].type # "SYN"
    <3>1. appEv # <<>> => 1 \in 1 .. Len(appEv)
      BY <1>0, QueueTail
    <3>. QED BY <1>2, <3>1 DEF Asked
  <2>3. Ev("ACK", 0) \in NoSyn /\ Ev("TX", 0) \in NoSyn /\ \A n \in Nat : Ev(rt.type, n) \in NoSyn
    BY <1>2, <1>4, EventIs
  <2>4. rt'.type = rt.type
    BY <1>7, EventEffects
  <2>5. timerEv' \in Seq(NoSyn)
    <3>1. \/ timerEv' = timerEv \/ (timerEv # <<>> /\ timerEv' = Tail(timerEv))
          \/ timerEv' = Append(timerEv, Ev("TX", 0))
          \/ \E n \in Nat : timerEv' = Append(timerEv, Ev(rt.type, n))
      BY <1>7, EventEffects
    <3>. QED BY <1>2, <1>3, <2>3, <3>1
  <2>6. pipe' \in Seq(NoSyn)
    <3>1. \/ pipe' = pipe \/ pipe' = Append(pipe, Ev("ACK", 0))
          \/ timerEv # <<>> /\ \E e \in Events : e = timerEv[1] /\ pipe' = Append(pipe, e)
          \/ appEv # <<>> /\ \E e \in Events : e = appEv[1] /\ pipe' = Append(pipe, e)
      BY <1>7, EventEffects
    <3>. QED BY <1>2, <1>3, <1>4, <2>2, <2>3, <3>1
  <2>. QED BY <1>2, <2>1, <2>4, <2>5, <2>6
<1>8. CASE AppIfStep \/ AppRequest
  <2>1. UNCHANGED <<ml, pipe, timerEv, rt>>
    BY <1>0, <1>8, AppEffects
  <2>2. app = [open |-> app.open, closes |-> app.closes, left |-> app.left]
    BY <1>0 DEF Shape
  <2>3. state' = state \/ state' = AppCloseWrites(state)
    BY <1>0, <1>2, <1>8, AppEffects
  <2>4. app' = app \/ (\E n : app' = [app EXCEPT !.left = n]) \/ \E n : app' = [app EXCEPT !.closes = n]
    BY <1>0, <1>2, <1>8, AppEffects
  <2>5. ~app'.open
    BY <1>2, <2>2, <2>4
  <2>. QED BY <1>2, <2>1, <2>3, <2>5 DEF AppCloseWrites
<1>9. CASE UNCHANGED <<state, app, rt, timerEv, pipe, ml>>
  BY <1>2, <1>9
<1>. QED BY <1>5, <1>6, <1>7, <1>8, <1>9, NextIs, PeerEffects

(* The peer has not heard of the engine since. *)
LEMMA UnheardBefore ==
  ASSUME GapInv, [Next]_sessionVars, Unheard'
  PROVE  /\ Unheard
         /\ RxTransition => rxPkt[1].kind \notin {"ACK", "FIN"}
<1>0. FirstNumbers /\ Shape /\ PeerInv /\ SegmentInv /\ Numbers
  BY DEF GapInv, AgreeInv, BothInv, CloseInv
<1>1. peer'.rcvd = 0 => peer.rcvd = 0
  <2>1. PICK r \in Nat : r = peer.rcvd
    BY <1>0 DEF PeerInv
  <2>2. ASSUME NEW seg \in wire, PeerReceives(seg), peer'.rcvd = 0 PROVE r = 0
    BY <1>0, <2>1, <2>2, PeerTakes, PosIs DEF Numbers, Seqs
  <2>. QED BY <1>0, <2>1, <2>2, PeerKept
<1>2. OpeningSegment' => Unheard
  <2>1. CASE Arrives
    <3>1. PICK p \in Incoming : rxPkt' = <<p>>
      BY <2>1 DEF Arrives, RxLoad
    <3>2. p.kind = "SYN" => peer.phase = "idle"
      BY DEF Incoming, InSegment
    <3>. QED BY <1>0, <3>1, <3>2 DEF OpeningSegment, Unheard, PeerInv
  <2>2. CASE rxPkt' = rxPkt \/ rxPkt' = <<>>
    BY <2>2 DEF OpeningSegment, Unheard
  <2>3. RxTransition => rxPkt' = <<>>
    BY DEF RxTransition
  <2>4. TxStep => rxPkt' = rxPkt
    BY DEF TxStep, TxLoad, TxData, TxRetransmit, TxFin, TxSyn, TxSynAck, TxOpening, TxAck, TxRst, MetaRest, rxEng
  <2>5. EventStep \/ Expires \/ ReleaseStep => rxPkt' = rxPkt
    BY EventState
  <2>6. AppIfStep \/ AppRequest => rxPkt' = rxPkt
    BY <1>0, AppEffects
  <2>. QED BY <2>1, <2>2, <2>3, <2>4, <2>5, <2>6, NextIs, PeerEffects
<1>3. RxTransition => rxPkt[1].kind \notin {"ACK", "FIN"}
  <2>1. RxTransition => rxPkt # <<>> /\ rxPkt' = <<>>
    BY DEF RxTransition
  <2>2. RxTransition => peer'.rcvd = 0 /\ peer.rcvd = 0
    BY <1>1, <2>1 DEF Unheard, OpeningSegment
  <2>3. PICK r \in Nat : r = peer.rcvd
    BY <1>0 DEF PeerInv
  <2>. QED BY <1>0, <2>1, <2>2, <2>3 DEF SegmentInv, PacketIs
<1>. QED BY <1>1, <1>2, <1>3 DEF Unheard

(* How an opening gets under way. *)
LEMMA EarlyBefore ==
  ASSUME GapInv, FifoInv, AskedInv, [Next]_sessionVars, Early'
  PROVE  \/ Early
         \/ Asked /\ pipe = <<>> /\ Fresh
         \/ OpeningSegment /\ RxTransition /\ state \in {"CLOSED", "SYN_SENT"}
<1>0. pipe \in Seq(Events)
  BY DEF FifoInv
<1>1. CASE pipe' = pipe /\ (ml' # <<>> /\ ml'[1].type \in Openers => ml' = ml)
  BY <1>1 DEF Early, Opens
<1>2. CASE /\ pipe # <<>> /\ pipe' = Tail(pipe) /\ ml' # <<>>
           /\ ml'[1].type = pipe[1].type /\ ml'[1].rt = pipe[1].rt
  <2>1. 1 \in 1 .. Len(pipe) /\ \A i \in 1 .. Len(pipe') : i + 1 \in 1 .. Len(pipe) /\ pipe'[i] = pipe[i + 1]
    BY <1>0, <1>2, QueueTail
  <2>. QED BY <1>2, <2>1 DEF Early, Opens
<1>3. ASSUME ml' = ml, NEW e \in Events, pipe' = Append(pipe, e), ~Opens(e)
      PROVE  Early
  <2>1. PICK n \in Nat : n = Len(pipe) /\ Len(pipe') = n + 1 /\ pipe'[n + 1] = e /\ \A i \in 1 .. n : pipe'[i] = pipe[i]
    BY <1>0, <1>3, QueueAppend
  <2>2. \A i \in 1 .. n + 1 : i \in 1 .. n \/ i = n + 1
    OBVIOUS
  <2>. QED BY <1>3, <2>1, <2>2 DEF Early, Opens
<1>. QED BY <1>1, <1>2, <1>3, PipeIs

(* The engine speaks for the first time. *)
LEMMA FirstCall ==
  ASSUME GapInv, FifoInv, [Next]_sessionVars, ~Called, Called'
  PROVE  TxStep /\ ml # <<>> /\ Opens(ml[1]) /\ ml' = <<>> /\ pipe' = pipe
<1>0. Numbers /\ OrderInv
  BY DEF GapInv, AgreeInv, BothInv
<1>1. ASSUME ~TxStep PROVE wire' = wire
  BY <1>0, <1>1, NextIs, RxEffects, EventEffects, AppEffects, PeerEffects
<1>2. TxStep
  BY <1>1 DEF Called
<1>3. PICK seg \in wire' \ wire : seg.kind \in Openers
  BY DEF Called
<1>4. ml # <<>>
  BY <1>0, <1>2, <1>3, TxEffects
<1>5. ml[1].type \in Openers /\ ml' = <<>> /\ pipe' = pipe
  BY <1>0, <1>2, <1>3, <1>4, TxEffects DEF Openers
<1>6. Opens(ml[1])
  BY <1>0, <1>4, <1>5 DEF OrderInv, Opens
<1>. QED BY <1>2, <1>4, <1>5, <1>6

(* The first segment of a peer that calls finds the session closed. *)
LEMMA FirstStep ==
  ASSUME GapInv, FifoInv, AskedInv, PassiveInv, FirstInv, [Next]_sessionVars
  PROVE  FirstInv'
<1>0. Numbers /\ Shape /\ PeerInv /\ SegmentInv /\ OrderInv /\ peer'.calls = peer.calls
  BY PeerKept DEF GapInv, AgreeInv, BothInv, CloseInv
<1>1. SUFFICES ASSUME peer.calls, Unheard'
               PROVE  /\ state' = "SYN_RECEIVED" => recvd' = Add(PeerIsn, 1)
                      /\ "CLOSE" \notin told' =>
                           giveUp' = 0 /\ ~closeTimer' /\ (state' = "CLOSED" => ~Called' /\ ~Early')
  BY <1>0 DEF FirstInv
<1>2. /\ state = "SYN_RECEIVED" => recvd = Add(PeerIsn, 1)
      /\ "CLOSE" \notin told => giveUp = 0 /\ ~closeTimer /\ (state = "CLOSED" => ~Called /\ ~Early)
      /\ RxTransition => rxPkt[1].kind \notin {"ACK", "FIN"}
      /\ state # "SYN_SENT" /\ ~app.open /\ rt.type # "SYN" /\ ~Asked
  BY <1>1, UnheardBefore DEF FirstInv, PassiveInv, AskedInv
<1>3. "CLOSE" \notin told' => "CLOSE" \notin told
  BY <1>0, ToldGrows
<1>4. /\ state' = "SYN_RECEIVED" => recvd' = Add(PeerIsn, 1)
      /\ "CLOSE" \notin told' =>
           giveUp' = 0 /\ ~closeTimer' /\ (state' = "CLOSED" => state = "CLOSED")
  <2>1. CASE RxTransition
    <3>1. rxPkt # <<>> /\ (rxPkt[1].kind = "SYN" => rxPkt[1].seq = PeerIsn)
      BY <1>0, <2>1 DEF SegmentInv, PacketIs, RxTransition
    <3>. QED BY <1>2, <1>3, <2>1, <3>1, RxState
  <2>2. CASE EventStep \/ Expires \/ ReleaseStep
    <3>1. /\ state' = state \/ (state' = "CLOSED" /\ giveUp > 0)
          /\ recvd' = recvd /\ (closeTimer' => closeTimer)
          /\ giveUp' = giveUp \/ giveUp > 0 \/ closeTimer \/ rt.type = "SYN" \/ "CLOSE" \in told'
      BY <2>2, EventState
    <3>2. ~(0 > 0)
      OBVIOUS
    <3>. QED BY <1>2, <1>3, <3>1, <3>2
  <2>3. CASE UNCHANGED <<recvd, giveUp, closeTimer, told>> /\ (state' = state \/ state' = AppCloseWrites(state))
    BY <1>2, <2>3 DEF AppCloseWrites
  <2>4. TxStep => UNCHANGED <<recvd, giveUp, closeTimer, told, state>>
    BY DEF TxStep, TxLoad, TxData, TxRetransmit, TxFin, TxSyn, TxSynAck, TxOpening, TxAck, TxRst, MetaRest, table,
           timers
  <2>5. AppIfStep \/ AppRequest => /\ UNCHANGED <<recvd, giveUp, closeTimer, told>>
                                   /\ state' = state \/ state' = AppCloseWrites(state)
    BY <1>2 DEF AppIfStep, AppRequest, StatusOk, StreamWrite, AppOpen, AppClose, StreamRequest, table, timers
  <2>. QED BY <2>1, <2>2, <2>3, <2>4, <2>5, NextIs, PeerEffects
<1>5. ASSUME "CLOSE" \notin told', state' = "CLOSED" PROVE ~Called' /\ ~Early'
  <2>1. ~Called /\ ~Early /\ state = "CLOSED"
    BY <1>2, <1>3, <1>4, <1>5
  <2>2. ~Early'
    <3>1. OpeningSegment /\ RxTransition => state' = "SYN_RECEIVED"
      BY <2>1, RxState DEF OpeningSegment
    <3>. QED BY <1>2, <1>5, <2>1, <3>1, EarlyBefore
  <2>3. ~Called'
    <3>1. ASSUME Called' PROVE FALSE
      <4>1. Steady'
        BY <2>2, <3>1 DEF Steady
      <4>2. Steady \/ (ml # <<>> /\ Opens(ml[1]))
        BY <4>1, SteadyBefore
      <4>. QED BY <2>1, <4>2 DEF Steady, Early
    <3>. QED BY <3>1
  <2>. QED BY <2>2, <2>3
<1>. QED BY <1>4, <1>5

(* A session that is opened once is not opened again after it. *)
LEMMA OnceStep ==
  ASSUME GapInv, FifoInv, AskedInv, PassiveInv, FirstInv, OnceInv, [Next]_sessionVars
  PROVE  OnceInv'
<1>0. Numbers /\ Shape /\ PeerInv /\ SegmentInv /\ OrderInv /\ peer'.calls = peer.calls /\ pipe \in Seq(Events)
  BY PeerKept DEF GapInv, AgreeInv, BothInv, CloseInv, FifoInv
<1>1. SUFFICES ASSUME OpenedOnce', Early' PROVE ~Called' /\ Single'
  BY DEF OnceInv
<1>2. OpenedOnce
  BY <1>0, <1>1, OpenedBefore
<1>3. ~Called
  <2>1. CASE Early
    BY <1>2, <2>1 DEF OnceInv
  <2>2. CASE Asked
    BY <2>2 DEF AskedInv
  <2>3. CASE OpeningSegment /\ state \in {"CLOSED", "SYN_SENT"}
    BY <1>2, <2>3 DEF AskedInv, PassiveInv, FirstInv, Unheard, OpenedOnce
  <2>. QED BY <1>1, <2>1, <2>2, <2>3, EarlyBefore
<1>4. Early => Single
  BY <1>2 DEF OnceInv
<1>5. CASE pipe' = pipe /\ (ml' # <<>> /\ ml'[1].type \in Openers => ml' = ml)
  <2>1. Early /\ Single
    BY <1>1, <1>4, <1>5 DEF Early, Opens
  <2>2. Single'
    BY <1>5, <2>1 DEF Single, Opens
  <2>3. ASSUME Called' PROVE FALSE
    <3>1. ml # <<>> /\ Opens(ml[1]) /\ ml' = <<>>
      BY <1>3, <2>3, FirstCall
    <3>. QED BY <1>1, <1>5, <2>1, <3>1 DEF Early, Single, Opens
  <2>. QED BY <2>2, <2>3
<1>6. CASE /\ ml = <<>> /\ pipe # <<>> /\ pipe' = Tail(pipe) /\ ml' # <<>>
           /\ ml'[1].type = pipe[1].type /\ ml'[1].rt = pipe[1].rt
  <2>1. /\ 1 \in 1 .. Len(pipe)
        /\ \A i \in 1 .. Len(pipe') : i + 1 \in 1 .. Len(pipe) /\ pipe'[i] = pipe[i + 1] /\ i + 1 # 1
    <3>1. 1 \in 1 .. Len(pipe) /\ \A i \in 1 .. Len(pipe') : i + 1 \in 1 .. Len(pipe) /\ pipe'[i] = pipe[i + 1]
      BY <1>0, <1>6, QueueTail
    <3>2. \A n : \A i \in 1 .. n : i + 1 # 1
      OBVIOUS
    <3>. QED BY <3>1, <3>2
  <2>2. Single
    BY <1>1, <1>4, <1>6, <2>1 DEF Early, Opens
  <2>3. ml' # <<>> /\ Opens(ml'[1]) => \A k \in 1 .. Len(pipe') : ~Opens(pipe'[k])
    BY <1>6, <2>1, <2>2 DEF Single, Opens
  <2>4. ASSUME NEW j \in 1 .. Len(pipe'), NEW k \in 1 .. Len(pipe'), Opens(pipe'[j]), Opens(pipe'[k]) PROVE j = k
    <3>1. j + 1 = k + 1
      BY <2>1, <2>2, <2>4 DEF Single
    <3>. QED BY <3>1
  <2>5. ~Called'
    BY <1>3, <1>6, FirstCall
  <2>. QED BY <2>3, <2>4, <2>5 DEF Single, Opens
<1>7. ASSUME ml' = ml, NEW e \in Events, pipe' = Append(pipe, e),
             Opens(e) => \/ Asked /\ e.type = "SYN" /\ pipe = <<>>
                         \/ OpeningSegment /\ RxTransition /\ state \in {"CLOSED", "SYN_SENT"}
      PROVE  ~Called' /\ Single'
  <2>1. PICK n \in Nat : n = Len(pipe) /\ Len(pipe') = n + 1 /\ pipe'[n + 1] = e /\ \A i \in 1 .. n : pipe'[i] = pipe[i]
    BY <1>0, <1>7, QueueAppend
  <2>2. \A i \in 1 .. n + 1 : i \in 1 .. n \/ i = n + 1
    OBVIOUS
  <2>3. ~Called'
    <3>1. pipe' # pipe
      BY <2>1
    <3>. QED BY <1>3, <3>1, FirstCall
  <2>4. CASE Opens(e)
    <3>1. ~Early
      <4>1. CASE Asked
        BY <1>7, <2>1, <4>1 DEF AskedInv, Early, Opens
      <4>2. CASE OpeningSegment /\ state \in {"CLOSED", "SYN_SENT"}
        BY <1>2, <4>2 DEF AskedInv, PassiveInv, FirstInv, Unheard, OpenedOnce
      <4>. QED BY <1>7, <2>4, <4>1, <4>2
    <3>2. /\ ml # <<>> => ~Opens(ml[1])
          /\ \A i \in 1 .. n : ~Opens(pipe'[i])
      BY <2>1, <3>1 DEF Early
    <3>3. ml' # <<>> => ~Opens(ml'[1])
      BY <1>7, <3>2
    <3>4. \A j \in 1 .. n + 1 : Opens(pipe'[j]) => j = n + 1
      BY <2>2, <3>2
    <3>. QED BY <2>1, <2>3, <3>3, <3>4 DEF Single, Opens
  <2>5. CASE ~Opens(e)
    <3>1. Early /\ Single
      BY <1>1, <1>4, <1>7, <2>1, <2>2, <2>5 DEF Early, Opens
    <3>2. /\ ml' # <<>> /\ Opens(ml'[1]) => \A i \in 1 .. n + 1 : ~Opens(pipe'[i])
          /\ \A j, k \in 1 .. n + 1 : Opens(pipe'[j]) /\ Opens(pipe'[k]) => j = k
      BY <1>7, <2>1, <2>2, <2>5, <3>1 DEF Single
    <3>. QED BY <2>1, <2>3, <3>2 DEF Single, Opens
  <2>. QED BY <2>4, <2>5
<1>. QED BY <1>5, <1>6, <1>7, PipeIs

(* The number of the first opening is the only one that a peer can hear.   *)
LEMMA CallStep ==
  ASSUME GapInv, FifoInv, AskedInv, OnceInv, CallInv, [Next]_sessionVars
  PROVE  CallInv'
<1>0. /\ FirstNumbers /\ Numbers /\ Shape /\ PeerInv /\ SegmentInv /\ OrderInv /\ OpenedOnce
      /\ pipe \in Seq(Events)
  BY DEF GapInv, AgreeInv, BothInv, CloseInv, FirstNumbers, FifoInv
<1>1. SUFFICES ASSUME peer'.rcvd = 0
               PROVE  /\ \A seg \in wire' : seg.kind \in Openers => seg.seq = Isn
                      /\ Steady' => tx'.ackd = Isn
                      /\ ml' # <<>> /\ ml'[1].type \in Openers /\ ml'[1].rt # 0 => ml'[1].sar.ackd = Isn
  BY DEF CallInv
<1>2. peer.rcvd = 0
  <2>1. peer.rcvd \in Nat /\ peer'.rcvd >= peer.rcvd
    BY <1>0, PeerStep DEF PeerInv
  <2>. QED BY <1>1, <2>1
<1>3. /\ \A seg \in wire : seg.kind \in Openers => seg.seq = Isn
      /\ Steady => tx.ackd = Isn
      /\ ml # <<>> /\ ml[1].type \in Openers /\ ml[1].rt # 0 => ml[1].sar.ackd = Isn
  BY <1>2 DEF CallInv
<1>4. ASSUME NEW seg \in wire' \ wire, seg.kind \in Openers PROVE seg.seq = Isn
  <2>1. TxStep
    BY <1>0, <1>4, NextIs, RxEffects, EventEffects, AppEffects, PeerEffects
  <2>2. ml # <<>>
    BY <1>0, <1>4, <2>1, TxEffects
  <2>3. PICK type \in Openers : type = ml[1].type /\ TxOpening(type, type)
    BY <1>0, <1>4, <2>1, <2>2, TxEffects DEF Openers
  <2>. QED BY <1>0, <1>3, <1>4, <2>2, <2>3, TxOpeningIs
<1>5. ASSUME Steady' PROVE tx'.ackd = Isn
  <2>1. CASE TxStep /\ ml # <<>> /\ Opens(ml[1]) /\ TxOpening(ml[1].type, ml[1].type)
    BY <1>0, <2>1, TxOpeningIs DEF Opens
  <2>2. ASSUME Steady PROVE tx'.ackd = tx.ackd \/ tx'.ackd = Isn
    <3>1. CASE RxTransition
      <4>1. rxPkt # <<>>
        BY <3>1, RxEffects
      <4>2. /\ rxPkt[1].kind \notin {"ACK", "FIN"}
            /\ rxPkt[1].kind # "SYN" => rxPkt[1].ack = Add(Isn, 0)
        <5>1. ~(0 > 0) /\ \A a \in 0 .. 0 : a = 0
          OBVIOUS
        <5>. QED BY <1>0, <1>2, <4>1, <5>1 DEF SegmentInv, PacketIs
      <4>3. Add(Isn, 0) = Isn
        <5>1. Isn \in Seqs /\ Isn \in Nat
          BY SeqsClosed
        <5>. QED BY <5>1, Wraps DEF Add
      <4>. QED BY <1>5, <3>1, <4>2, <4>3, RxEntry DEF Steady
    <3>2. CASE TxStep
      <4>1. CASE TxData \/ TxRetransmit \/ TxFin \/ tx' = tx
        BY <1>0, <4>1, TxDataIs, TxRetransmitIs, TxFinIs
      <4>2. CASE \E type \in Openers : TxOpening(type, type)
        BY <1>0, <4>2, TxOpeningIs
      <4>. QED BY <1>0, <3>2, <4>1, <4>2, TxCases
    <3>3. CASE AppIfStep \/ AppRequest
      <4>1. tx' = tx \/ \E e : tx' = [tx EXCEPT !.app = e]
        BY <1>0, <3>3, AppEffects
      <4>2. \A e : [tx EXCEPT !.app = e].ackd = tx.ackd
        BY <1>0, TxFields DEF Numbers
      <4>. QED BY <4>1, <4>2
    <3>4. CASE tx' = tx
      BY <3>4
    <3>. QED BY <3>1, <3>2, <3>3, <3>4, NextIs, EventEffects, PeerEffects
  <2>. QED BY <1>3, <1>5, <2>1, <2>2, SteadyBefore
<1>6. ASSUME ml' # <<>>, ml'[1].type \in Openers, ml'[1].rt # 0 PROVE ml'[1].sar.ackd = Isn
  <2>1. CASE ml' = ml
    BY <1>3, <1>6, <2>1
  <2>2. CASE /\ TxLoad /\ ml = <<>> /\ pipe # <<>> /\ ml'[1].type = pipe[1].type /\ ml'[1].rt = pipe[1].rt
    <3>1. 1 \in 1 .. Len(pipe) /\ ml'[1].sar = tx
      <4>1. TxStep
        BY <2>2 DEF TxStep
      <4>. QED BY <1>0, <2>2, <4>1, QueueTail, TxEffects
    <3>2. Called
      <4>1. \A j : j \notin 1 .. 1 - 1
        OBVIOUS
      <4>. QED BY <1>0, <1>6, <2>2, <3>1, <4>1 DEF OrderInv, Ordered, OpeningFirst
    <3>3. Steady
      BY <1>0, <3>2 DEF OnceInv, Steady
    <3>. QED BY <1>3, <3>1, <3>3
  <2>. QED BY <1>6, <2>1, <2>2, PipeIs
<1>. QED BY <1>3, <1>4, <1>5, <1>6

-----------------------------------------------------------------------------
(* What was written, what is to be sent and what was sent. *)

(* The pointer app follows the writes of the application in their order. *)
LEMMA WrittenStep ==
  ASSUME GapInv, GapInv', FifoInv, AskedInv, OnceInv, WrittenInv, [Next]_sessionVars
  PROVE  /\ WrittenInv'
         /\ OpenedOnce' /\ Called => Pos(tx.app) <= Pos(tx'.app)
<1>0. FirstNumbers /\ Numbers /\ Numbers' /\ Shape /\ PeerInv /\ AgreeInv /\ FreshInv /\ CoverInv /\ OrderInv
  BY DEF GapInv, AgreeInv, BothInv, CloseInv
<1>1. /\ \A s \in Seqs : Pos(s) \in Nat /\ Pos(s) < SeqMod
      /\ tx \in TxSar /\ tx' \in TxSar /\ (ml # <<>> => ml[1].sar \in TxSar) /\ (ml' # <<>> => ml'[1].sar \in TxSar)
      /\ \A sar \in TxSar : sar.app \in Seqs
      /\ mempt \in Seqs /\ SeqMod \in Nat
  <2>1. \A s \in Seqs : Pos(s) \in Nat /\ Pos(s) < SeqMod
    BY PosIs, Wraps DEF Seqs
  <2>2. \A sar \in TxSar : sar.app \in Seqs
    BY DEF TxSar
  <2>. QED BY <1>0, <2>1, <2>2, Wraps DEF Numbers
<1>2. PICK total \in Nat : total = AppBytes /\ total = AppBytes' /\ total + 2 < SeqMod
  BY <1>0, PeerKept, PlanAssumption DEF PeerInv, AppBytes
<1>3. PICK left \in Nat : left = app.left /\ left <= total /\ (~Called => left = total)
  BY <1>2 DEF WrittenInv
<1>4. \A n : /\ [app EXCEPT !.open = FALSE].left = left /\ [app EXCEPT !.closes = @ - 1].left = left
             /\ [app EXCEPT !.left = @ - n].left = left - n
  BY <1>0, <1>3 DEF Shape
<1>5. OpenedOnce' => OpenedOnce
  BY <1>0, OpenedBefore
<1>6. Called => Called'
  BY WireGrows DEF Called
<1>7. CASE ~Called
  <2>1. streamReq = <<>> /\ cache \in Seq([type : {"SYN"}, end : {0}])
    BY <1>0, <1>7, FreshUncalled DEF Fresh
  <2>2. app'.left = left
    <3>1. AppIfStep \/ AppRequest => app' = app \/ app' = [app EXCEPT !.open = FALSE] \/ app' = [app EXCEPT !.closes = @ - 1]
      BY <1>0, <2>1, AppEffects
    <3>2. TxStep => app' = app
      BY <1>0, TxEffects
    <3>. QED BY <1>3, <1>4, <3>1, <3>2, NextIs, RxEffects, EventEffects, PeerEffects
  <2>3. CASE ~Called'
    BY <1>2, <1>3, <1>7, <2>2, <2>3 DEF WrittenInv
  <2>4. CASE Called'
    <3>1. TxStep /\ ml # <<>> /\ Opens(ml[1]) /\ ml' = <<>>
      BY <1>7, <2>4, FirstCall
    <3>2. TxOpening(ml[1].type, ml[1].type) /\ cache' = cache
      BY <1>0, <3>1, TxEffects DEF Opens, Openers
    <3>3. mempt' = Add(Isn, 1) /\ tx'.app = Add(Isn, 1)
      BY <1>0, <3>1, <3>2, TxOpeningIs DEF Opens
    <3>4. Pos(mempt') = 1 /\ Pos(tx'.app) = 1
      BY <3>3, PosOfIsn
    <3>5. \A i \in 1 .. Len(cache') : cache'[i].type # "TX"
      <4>1. \A i \in 1 .. Len(cache) : cache[i] \in [type : {"SYN"}, end : {0}]
        <5>. DEFINE Entry == [type : {"SYN"}, end : {0}]
        <5>1. cache \in Seq(Entry)
          BY <2>1
        <5>. HIDE DEF Entry
        <5>2. \A i \in 1 .. Len(cache) : cache[i] \in Entry
          BY <5>1
        <5>. QED BY <5>2 DEF Entry
      <4>2. \A e \in [type : {"SYN"}, end : {0}] : e.type = "SYN"
        OBVIOUS
      <4>. QED BY <3>2, <4>1, <4>2
    <3>6. app'.left \in 0 .. AppBytes' /\ Pos(mempt') + app'.left = AppBytes' + 1 /\ 1 <= Pos(tx'.app) /\ Pos(tx'.app) <= Pos(mempt')
      BY <1>2, <1>3, <1>7, <2>2, <3>4
    <3>. QED BY <1>7, <2>4, <3>1, <3>5, <3>6 DEF WrittenInv, IsWrite, Pos
  <2>. QED BY <1>7, <2>3, <2>4
<1>8. CASE Called
  <2>1. CASE ~OpenedOnce'
    <3>1. app'.left \in 0 .. total
      <4>1. AppIfStep \/ AppRequest =>
              \/ app' = app \/ app' = [app EXCEPT !.open = FALSE] \/ app' = [app EXCEPT !.closes = @ - 1]
              \/ \E n \in WriteSizes : n <= app.left /\ app' = [app EXCEPT !.left = @ - n]
        BY <1>0, AppEffects
      <4>2. TxStep => app' = app
        BY <1>0, TxEffects
      <4>3. \A n \in WriteSizes : n \in Nat /\ (n <= left => left - n \in 0 .. total)
        BY <1>3, WriteSizesAssumption
      <4>4. AppIfStep \/ AppRequest => app'.left = left \/ \E n \in WriteSizes : n <= left /\ app'.left = left - n
        BY <1>3, <1>4, <4>1
      <4>5. AppIfStep \/ AppRequest \/ app' = app
        BY <4>2, NextIs, RxEffects, EventEffects, PeerEffects
      <4>6. left \in 0 .. total
        BY <1>3
      <4>. QED BY <1>3, <4>3, <4>4, <4>5, <4>6
    <3>. QED BY <1>2, <1>6, <1>8, <2>1, <3>1 DEF WrittenInv
  <2>2. CASE OpenedOnce'
    <3>1. OpenedOnce /\ ~Early /\ Called'
      BY <1>5, <1>6, <1>8, <2>2 DEF OnceInv
    <3>2. PICK m \in Nat, t \in Nat : m = Pos(mempt) /\ t = Pos(tx.app) /\ m + left = total + 1 /\ 1 <= t /\ t <= m
      BY <1>1, <1>2, <1>3, <1>8, <3>1 DEF WrittenInv
    <3>3. /\ \A i \in 1 .. Len(cache) : IsWrite(i) => t <= Pos(cache[i].end) /\ Pos(cache[i].end) <= m
          /\ \A i \in 1 .. Len(cache) : \A j \in 1 .. i : IsWrite(i) /\ IsWrite(j) => Pos(cache[j].end) <= Pos(cache[i].end)
          /\ ml # <<>> => Pos(ml[1].sar.app) <= t
      BY <1>8, <3>1, <3>2 DEF WrittenInv
    <3>4. SUFFICES
          /\ app'.left \in Nat /\ Pos(mempt') + app'.left = total + 1
          /\ t <= Pos(tx'.app) /\ Pos(tx'.app) <= Pos(mempt')
          /\ \A i \in 1 .. Len(cache') : cache'[i].type = "TX" =>
               /\ Pos(tx'.app) <= Pos(cache'[i].end) /\ Pos(cache'[i].end) <= Pos(mempt')
               /\ \A j \in 1 .. i : cache'[j].type = "TX" => Pos(cache'[j].end) <= Pos(cache'[i].end)
          /\ ml' # <<>> => Pos(ml'[1].sar.app) <= Pos(tx'.app)
      <4>1. Pos(mempt') \in Nat /\ Pos(tx'.app) \in Nat
        BY <1>0, <1>1 DEF Numbers
      <4>2. ASSUME app'.left \in Nat, Pos(mempt') + app'.left = total + 1, t <= Pos(tx'.app), Pos(tx'.app) <= Pos(mempt')
            PROVE  1 <= Pos(tx'.app) /\ app'.left \in 0 .. total
        BY <3>2, <4>1, <4>2
      <4>. QED BY <1>2, <3>1, <3>2, <3>4, <4>2 DEF WrittenInv, IsWrite, Pos
    <3>5. CASE UNCHANGED <<mempt, cache, ml>> /\ app'.left = left /\ tx'.app = tx.app
      BY <3>2, <3>3, <3>5 DEF IsWrite
    <3>6. CASE AppIfStep \/ AppRequest
      <4>0. ml' = ml
        BY <1>0, <3>6, AppEffects
      <4>1. CASE /\ cache # <<>> /\ cache' = Tail(cache) /\ UNCHANGED <<mempt, app>>
                 /\ tx' = IF cache[1].type = "TX" THEN [tx EXCEPT !.app = cache[1].end] ELSE tx
        <5>1. PICK n \in Nat : n = Len(cache) /\ n >= 1
          BY <1>0, <4>1, CacheIs
        <5>2. Len(cache') = n - 1 /\ \A i \in 1 .. n - 1 : cache'[i] = cache[i + 1] /\ i + 1 \in 1 .. n
          BY <1>0, <4>1, <5>1, CacheIs
        <5>3. CASE cache[1].type = "TX"
          <6>1. tx'.app = cache[1].end
            BY <1>1, <4>1, <5>3, TxFields
          <6>2. t <= Pos(tx'.app) /\ Pos(tx'.app) <= m /\ 1 \in 1 .. Len(cache) /\ Pos(tx'.app) \in Nat
            BY <1>1, <3>3, <5>1, <5>3, <6>1 DEF IsWrite
          <6>3. ASSUME NEW i \in 1 .. n - 1, cache'[i].type = "TX"
                PROVE  /\ Pos(tx'.app) <= Pos(cache'[i].end) /\ Pos(cache'[i].end) <= m
                       /\ \A j \in 1 .. i : cache'[j].type = "TX" => Pos(cache'[j].end) <= Pos(cache'[i].end)
            <7>1. cache'[i] = cache[i + 1] /\ i + 1 \in 1 .. Len(cache) /\ 1 \in 1 .. i + 1
              BY <5>1, <5>2
            <7>2. \A j \in 1 .. i : j + 1 \in 1 .. i + 1 /\ j \in 1 .. n - 1
              BY <5>1
            <7>3. Pos(tx'.app) <= Pos(cache'[i].end) /\ Pos(cache'[i].end) <= m
              BY <3>3, <5>3, <6>1, <6>3, <7>1 DEF IsWrite
            <7>. QED BY <3>3, <5>2, <6>3, <7>1, <7>2, <7>3 DEF IsWrite
          <6>4. ml' # <<>> => Pos(ml'[1].sar.app) <= Pos(tx'.app)
            <7>1. ml # <<>> => Pos(ml[1].sar.app) \in Nat
              BY <1>1
            <7>. QED BY <3>2, <3>3, <4>0, <6>2, <7>1
          <6>. QED BY <1>3, <3>2, <4>1, <5>2, <6>2, <6>3, <6>4
        <5>4. CASE cache[1].type # "TX"
          <6>1. ASSUME NEW i \in 1 .. n - 1, cache'[i].type = "TX"
                PROVE  /\ t <= Pos(cache'[i].end) /\ Pos(cache'[i].end) <= m
                       /\ \A j \in 1 .. i : cache'[j].type = "TX" => Pos(cache'[j].end) <= Pos(cache'[i].end)
            <7>1. cache'[i] = cache[i + 1] /\ i + 1 \in 1 .. Len(cache)
              BY <5>1, <5>2
            <7>2. \A j \in 1 .. i : j + 1 \in 1 .. i + 1 /\ j \in 1 .. n - 1
              BY <5>1
            <7>. QED BY <3>3, <5>2, <6>1, <7>1, <7>2 DEF IsWrite
          <6>. QED BY <1>3, <3>2, <3>3, <4>0, <4>1, <5>2, <5>4, <6>1
        <5>. QED BY <5>3, <5>4
      <4>2. ASSUME UNCHANGED <<tx, mempt>>, app'.left = left, NEW type \in {"SYN", "FIN"}, cache' = Append(cache, Cached(type, 0))
            PROVE  /\ \A i \in 1 .. Len(cache') : cache'[i].type = "TX" =>
                        /\ t <= Pos(cache'[i].end) /\ Pos(cache'[i].end) <= m
                        /\ \A j \in 1 .. i : cache'[j].type = "TX" => Pos(cache'[j].end) <= Pos(cache'[i].end)
        <5>1. PICK n \in Nat : n = Len(cache)
          BY <1>0, CacheIs
        <5>2. /\ Len(cache') = n + 1 /\ cache'[n + 1].type = type
              /\ \A i \in 1 .. n : cache'[i] = cache[i]
          BY <1>0, <4>2, <5>1, CacheIs
        <5>3. ASSUME NEW i \in 1 .. n + 1, cache'[i].type = "TX" PROVE i \in 1 .. n /\ \A j \in 1 .. i : j \in 1 .. n
          BY <5>1, <5>2, <5>3
        <5>. QED BY <3>3, <5>1, <5>2, <5>3 DEF IsWrite
      <4>3. ASSUME tx' = tx, NEW n \in WriteSizes, n <= app.left, mempt' = Add(mempt, n),
                   cache' = Append(cache, Cached("TX", Add(mempt, n))), app' = [app EXCEPT !.left = @ - n]
            PROVE  /\ app'.left \in Nat /\ Pos(mempt') + app'.left = total + 1 /\ t <= Pos(mempt')
                   /\ \A i \in 1 .. Len(cache') : cache'[i].type = "TX" =>
                        /\ t <= Pos(cache'[i].end) /\ Pos(cache'[i].end) <= Pos(mempt')
                        /\ \A j \in 1 .. i : cache'[j].type = "TX" => Pos(cache'[j].end) <= Pos(cache'[i].end)
        <5>1. n \in Nat /\ n <= left /\ m + n < SeqMod
          BY <1>1, <1>2, <1>3, <3>2, <4>3, WriteSizesAssumption
        <5>2. Pos(mempt') = m + n
          BY <1>1, <3>2, <4>3, <5>1, PosPlus
        <5>3. app'.left \in Nat /\ Pos(mempt') + app'.left = total + 1 /\ t <= Pos(mempt')
          BY <1>3, <1>4, <3>2, <4>3, <5>1, <5>2
        <5>4. PICK k \in Nat : k = Len(cache)
          BY <1>0, CacheIs
        <5>5. /\ Len(cache') = k + 1 /\ cache'[k + 1].end = mempt'
              /\ \A i \in 1 .. k : cache'[i] = cache[i] /\ cache[i].end \in Seqs
          BY <1>0, <4>3, <5>4, CacheIs
        <5>6. \A i \in 1 .. k : cache'[i].type = "TX" =>
                /\ t <= Pos(cache'[i].end) /\ Pos(cache'[i].end) <= m /\ Pos(cache'[i].end) \in Nat
                /\ \A j \in 1 .. i : cache'[j].type = "TX" => Pos(cache'[j].end) <= Pos(cache'[i].end)
          <6>1. \A i \in 1 .. k : \A j \in 1 .. i : j \in 1 .. k
            OBVIOUS
          <6>. QED BY <1>1, <3>3, <5>4, <5>5, <6>1 DEF IsWrite
        <5>7. \A i \in 1 .. k : cache'[i].type = "TX" => Pos(cache'[i].end) <= m + n
          BY <3>2, <5>1, <5>6
        <5>8. ASSUME NEW i \in 1 .. k + 1, cache'[i].type = "TX"
              PROVE  /\ t <= Pos(cache'[i].end) /\ Pos(cache'[i].end) <= Pos(mempt')
                     /\ \A j \in 1 .. i : cache'[j].type = "TX" => Pos(cache'[j].end) <= Pos(cache'[i].end)
          <6>1. CASE i \in 1 .. k
            BY <5>2, <5>6, <5>7, <5>8, <6>1
          <6>2. CASE i = k + 1
            <7>1. Pos(cache'[i].end) = m + n /\ t <= m + n /\ m + n <= m + n
              BY <3>2, <5>1, <5>2, <5>5, <6>2
            <7>2. \A j \in 1 .. i : j \in 1 .. k \/ j = i
              BY <5>4, <6>2
            <7>. QED BY <5>2, <5>7, <7>1, <7>2
          <6>. QED BY <5>4, <6>1, <6>2
        <5>. QED BY <5>3, <5>5, <5>8
      <4>4. CASE UNCHANGED <<tx, mempt>> /\ app'.left = left /\ \E type \in {"SYN", "FIN"} : cache' = Append(cache, Cached(type, 0))
        BY <1>3, <3>2, <3>3, <4>0, <4>2, <4>4
      <4>5. CASE \E n \in WriteSizes : /\ tx' = tx /\ n <= app.left /\ mempt' = Add(mempt, n)
                                       /\ cache' = Append(cache, Cached("TX", Add(mempt, n)))
                                       /\ app' = [app EXCEPT !.left = @ - n]
        <5>1. /\ app'.left \in Nat /\ Pos(mempt') + app'.left = total + 1 /\ t <= Pos(mempt')
              /\ \A i \in 1 .. Len(cache') : cache'[i].type = "TX" =>
                   /\ t <= Pos(cache'[i].end) /\ Pos(cache'[i].end) <= Pos(mempt')
                   /\ \A j \in 1 .. i : cache'[j].type = "TX" => Pos(cache'[j].end) <= Pos(cache'[i].end)
          BY <4>3, <4>5
        <5>2. tx' = tx
          BY <4>5
        <5>. QED BY <3>2, <3>3, <4>0, <5>1, <5>2
      <4>6. \/ /\ cache # <<>> /\ cache' = Tail(cache) /\ UNCHANGED <<mempt, app>>
               /\ tx' = IF cache[1].type = "TX" THEN [tx EXCEPT !.app = cache[1].end] ELSE tx
            \/ /\ UNCHANGED <<tx, mempt>> /\ app'.left = left
               /\ \E type \in {"SYN", "FIN"} : cache' = Append(cache, Cached(type, 0))
            \/ UNCHANGED <<mempt, cache, tx>> /\ app'.left = left
            \/ \E n \in WriteSizes : /\ tx' = tx /\ n <= app.left /\ mempt' = Add(mempt, n)
                                     /\ cache' = Append(cache, Cached("TX", Add(mempt, n)))
                                     /\ app' = [app EXCEPT !.left = @ - n]
        BY <1>0, <1>3, <1>4, <3>6, AppEffects
      <4>. QED BY <3>5, <4>0, <4>1, <4>4, <4>5, <4>6
    <3>7. CASE TxStep
      <4>0. cache' = cache /\ app' = app
        BY <1>0, <3>7, TxEffects
      <4>1. mempt' = mempt /\ tx'.app = tx.app /\ (ml' # <<>> => Pos(ml'[1].sar.app) <= t)
        <5>1. CASE /\ ml = <<>> /\ ml' # <<>> /\ ml'[1].sar = tx /\ UNCHANGED <<tx, wire, mempt>>
          BY <3>2, <5>1
        <5>2. CASE TxData
          <6>1. mempt' = mempt
            BY <5>2 DEF TxData, MetaRest, appSide
          <6>. QED BY <1>0, <3>3, <5>2, <6>1, TxDataIs DEF SameBut
        <5>3. CASE TxRetransmit
          <6>1. mempt' = mempt
            BY <5>3 DEF TxRetransmit, MetaRest, appSide
          <6>. QED BY <1>0, <3>3, <5>3, <6>1, TxRetransmitIs DEF SameBut
        <5>4. CASE TxFin
          <6>1. mempt' = mempt
            BY <5>4 DEF TxFin, MetaRest, appSide
          <6>. QED BY <1>0, <5>4, <6>1, TxFinIs DEF SameBut
        <5>5. CASE \E type \in Openers : TxOpening(type, type)
          <6>1. ml # <<>> => ~Opens(ml[1])
            BY <3>1 DEF Early
          <6>. QED BY <1>0, <5>5, <6>1, TxOpeningIs DEF Opens
        <5>6. CASE ml' = <<>> /\ UNCHANGED <<tx, mempt>>
          BY <5>6
        <5>7. \/ ml = <<>> /\ ml' # <<>> /\ ml'[1].sar = tx /\ UNCHANGED <<tx, wire, mempt>>
              \/ TxData \/ TxRetransmit \/ TxFin \/ \E type \in Openers : TxOpening(type, type)
              \/ ml' = <<>> /\ UNCHANGED <<tx, mempt>>
          BY <1>0, <3>7, TxCases
        <5>. QED BY <5>1, <5>2, <5>3, <5>4, <5>5, <5>6, <5>7
      <4>2. Pos(tx'.app) = t /\ Pos(mempt') = m /\ app'.left = left
        BY <1>3, <3>2, <4>0, <4>1
      <4>3. \A i \in 1 .. Len(cache') : cache'[i].type = "TX" =>
              /\ t <= Pos(cache'[i].end) /\ Pos(cache'[i].end) <= m
              /\ \A j \in 1 .. i : cache'[j].type = "TX" => Pos(cache'[j].end) <= Pos(cache'[i].end)
        BY <3>3, <4>0 DEF IsWrite
      <4>. QED BY <1>3, <3>2, <4>1, <4>2, <4>3
    <3>. QED BY <1>3, <3>5, <3>6, <3>7, NextIs, RxEffects, RxEntry, EventEffects, PeerEffects
  <2>. QED BY <2>1, <2>2
<1>. QED BY <1>7, <1>8

(* metaLoader does not send what its copy does not say is written. *)
LEMMA SentStep ==
  ASSUME GapInv, GapInv', FifoInv, EarlyInv, AskedInv, OnceInv, WrittenInv, LimitInv, SentInv, [Next]_sessionVars
  PROVE  SentInv'
<1>0. FirstNumbers /\ Numbers /\ Numbers' /\ Shape /\ AgreeInv /\ CoverInv
  BY DEF GapInv, AgreeInv, BothInv, CloseInv
<1>1. SUFFICES ASSUME NoFinYet', OpenedOnce'
               PROVE  /\ Called' => Pos(Top') <= Pos(tx'.app)
                      /\ ml' # <<>> /\ ml'[1].type = "TX" => Pos(ml'[1].sar.not_ackd) <= Pos(ml'[1].sar.app)
  BY DEF SentInv, Pos
<1>2. NoFinYet /\ OpenedOnce
  BY <1>0, <1>1, OpenedBefore, WireGrows DEF NoFinYet
<1>3. /\ Called => Pos(Top) <= Pos(tx.app)
      /\ ml # <<>> /\ ml[1].type = "TX" => Pos(ml[1].sar.not_ackd) <= Pos(ml[1].sar.app)
      /\ Called => ~Early
  BY <1>2 DEF SentInv, OnceInv
<1>4. /\ \A s \in Seqs : Pos(s) \in Nat /\ Pos(s) < SeqMod
      /\ tx \in TxSar /\ tx' \in TxSar /\ (ml # <<>> => ml[1].sar \in TxSar) /\ (ml' # <<>> => ml'[1].sar \in TxSar)
      /\ \A sar \in TxSar : sar.app \in Seqs /\ sar.not_ackd \in Seqs
  <2>1. \A s \in Seqs : Pos(s) \in Nat /\ Pos(s) < SeqMod
    BY PosIs, Wraps DEF Seqs
  <2>2. \A sar \in TxSar : sar.app \in Seqs /\ sar.not_ackd \in Seqs
    BY DEF TxSar
  <2>. QED BY <1>0, <2>1, <2>2, Wraps DEF Numbers
<1>5. Called => Pos(tx.app) <= Pos(tx'.app)
  BY <1>1, WrittenStep
<1>6. PICK t \in Nat, u \in Nat : t = Pos(tx.app) /\ u = Pos(tx'.app) /\ (Called => t <= u)
  BY <1>4, <1>5
<1>7. Top \in Seqs /\ Top' \in Seqs /\ Pos(Top) \in Nat /\ Pos(Top') \in Nat
  BY <1>4 DEF Top
<1>8. ~Called /\ Called' =>
        TxStep /\ ml # <<>> /\ Opens(ml[1]) /\ TxOpening(ml[1].type, ml[1].type)
  <2>1. ~Called /\ Called' => TxStep /\ ml # <<>> /\ Opens(ml[1]) /\ ml' = <<>>
    BY FirstCall
  <2>. QED BY <1>0, <2>1, TxEffects DEF Opens, Openers
<1>9. CASE ~TxStep
  <2>1. UNCHANGED ml /\ tx'.not_ackd = tx.not_ackd
    <3>1. AppIfStep \/ AppRequest => UNCHANGED ml /\ tx'.not_ackd = tx.not_ackd
      <4>1. AppIfStep \/ AppRequest => UNCHANGED ml /\ (tx' = tx \/ \E e : tx' = [tx EXCEPT !.app = e])
        BY <1>0, AppEffects
      <4>2. \A e : [tx EXCEPT !.app = e].not_ackd = tx.not_ackd
        BY <1>4, TxFields
      <4>. QED BY <4>1, <4>2
    <3>. QED BY <1>9, <3>1, NextIs, RxEffects, RxEntry, EventEffects, PeerEffects
  <2>2. Top' = Top
    BY <2>1 DEF Top
  <2>. QED BY <1>3, <1>6, <1>7, <1>8, <1>9, <2>1, <2>2
<1>10. CASE TxStep
  <2>1. CASE /\ ml = <<>> /\ pipe # <<>> /\ ml' # <<>> /\ ml'[1].type = pipe[1].type
             /\ ml'[1].sar = tx /\ UNCHANGED <<tx, wire, mempt>>
    <3>1. Top' = Top /\ Top = tx.not_ackd /\ (Called' => Called)
      BY <1>8, <2>1 DEF Top
    <3>2. ml'[1].type = "TX" => Called
      <4>1. "TX" \notin Calm
        BY EventIs
      <4>. QED BY <1>0, <2>1, <4>1, BusySteady DEF Steady, GapInv, EarlyInv
    <3>. QED BY <1>3, <1>6, <2>1, <3>1, <3>2
  <2>2. CASE TxData
    <3>1. PICK sar : sar = ml[1].sar
      OBVIOUS
    <3>2. PICK l \in Nat : l = DataLength(sar) /\ l <= Unsent(sar)
      BY <1>0, <2>2, <3>1, TxDataIs, SeqsClosed, LengthIs
    <3>3. /\ ml # <<>> /\ ml[1].type = "TX" /\ sar \in TxSar
          /\ tx'.app = tx.app
          /\ \/ tx' = tx /\ ml' # <<>> /\ ml'[1].type = "TX"
             \/ tx'.not_ackd = Add(sar.not_ackd, l) /\ (ml' # <<>> => ml'[1].type = "FIN")
          /\ ml' # <<>> => ml'[1].sar.not_ackd = Add(sar.not_ackd, l) /\ ml'[1].sar.app = sar.app
      BY <1>0, <2>2, <3>1, <3>2, TxDataIs DEF SameBut
    <3>4. Top = sar.not_ackd /\ Top' = Add(sar.not_ackd, l)
      BY <3>1, <3>3 DEF Top
    <3>5. PICK n \in Nat, a \in Nat : n = Pos(sar.not_ackd) /\ a = Pos(sar.app) /\ n <= a /\ a < SeqMod
      BY <1>3, <1>4, <3>1, <3>3
    <3>6. n + l <= a
      <4>1. Unsent(sar) = a - n
        BY <1>4, <3>3, <3>5, PosMinus DEF Unsent
      <4>. QED BY <3>2, <3>5, <4>1
    <3>7. Pos(Top') = n + l
      <4>1. n + l < SeqMod
        BY <3>2, <3>5, <3>6, Wraps
      <4>. QED BY <1>4, <3>2, <3>3, <3>4, <3>5, <4>1, PosPlus
    <3>8. Called' => a <= t
      <4>1. Called' => Called
        BY <1>8, <3>3, EventIs DEF Opens
      <4>2. OpenedOnce /\ Called /\ ml # <<>> => Pos(ml[1].sar.app) <= Pos(tx.app)
        BY DEF WrittenInv
      <4>. QED BY <1>2, <1>6, <3>1, <3>3, <3>5, <4>1, <4>2
    <3>9. Called' => Pos(Top') <= Pos(tx'.app)
      BY <1>6, <3>2, <3>3, <3>5, <3>6, <3>7, <3>8
    <3>. QED BY <3>3, <3>4, <3>5, <3>6, <3>7, <3>9
  <2>3. CASE TxRetransmit
    <3>1. /\ ml # <<>> /\ ml[1].type = "RT" /\ tx' = tx
          /\ ml' # <<>> => ml'[1].type \in {"RT", "FIN"}
      BY <1>0, <2>3, TxRetransmitIs
    <3>2. Top = tx.not_ackd /\ Top' = tx.not_ackd /\ (Called' => Called)
      BY <1>8, <3>1, EventIs DEF Top, Opens
    <3>. QED BY <1>3, <1>6, <3>1, <3>2
  <2>4. CASE TxFin
    <3>1. /\ ml # <<>> /\ ml[1].type = "FIN" /\ ml' = <<>>
          /\ tx'.not_ackd \in {tx.not_ackd, ml[1].sar.not_ackd}
          /\ tx'.app = tx.app
      BY <1>0, <1>1, <2>4, TxFinIs DEF SameBut, NoFinYet
    <3>2. ml[1].sar.not_ackd = tx.not_ackd
      BY <1>2, <3>1 DEF LimitInv
    <3>3. Top = tx.not_ackd /\ Top' = tx.not_ackd /\ (Called' => Called)
      BY <1>8, <3>1, <3>2, EventIs DEF Top, Opens
    <3>. QED BY <1>3, <1>6, <3>1, <3>3
  <2>5. CASE \E type \in Openers : TxOpening(type, type)
    <3>1. PICK type \in Openers : TxOpening(type, type)
      BY <2>5
    <3>2. /\ ml # <<>> /\ ml[1].type = type /\ ml' = <<>>
          /\ \/ ml[1].rt # 0 /\ tx' = tx
             \/ ml[1].rt = 0 /\ tx'.not_ackd = Add(Isn, 1) /\ tx'.app = Add(Isn, 1)
      BY <1>0, <3>1, TxOpeningIs
    <3>3. Top' = tx'.not_ackd /\ (ml[1].rt # 0 => Top = tx.not_ackd)
      BY <3>2, EventIs DEF Top
    <3>4. CASE ml[1].rt # 0 /\ tx' = tx
      BY <1>3, <1>8, <3>2, <3>3, <3>4 DEF Opens, Top, Openers
    <3>5. CASE ml[1].rt = 0 /\ tx'.not_ackd = Add(Isn, 1) /\ tx'.app = Add(Isn, 1)
      BY <1>6, <3>2, <3>3, <3>5
    <3>. QED BY <3>2, <3>4, <3>5
  <2>6. CASE /\ ml # <<>> /\ ml[1].type \in Calm \ Openers /\ ml' = <<>> /\ UNCHANGED <<tx, mempt>>
    <3>1. Top' = Top /\ (Called' => Called)
      BY <1>8, <2>6, EventIs DEF Top, Opens
    <3>. QED BY <1>3, <2>6, <3>1
  <2>. QED BY <1>0, <1>10, <2>1, <2>2, <2>3, <2>4, <2>5, <2>6, TxCases
<1>. QED BY <1>9, <1>10

(* A segment is sent only within the window. *)
LEMMA SegmentFits ==
  ASSUME NEW sar \in TxSar, NEW c \in Nat, c + 2 < SeqMod,
         sar.window = 0 \/ Pos(sar.ackd) + sar.window <= c + 1
  PROVE  /\ Add(sar.not_ackd, DataLength(sar)) \in Seqs
         /\ Pos(sar.not_ackd) <= Pos(Add(sar.not_ackd, DataLength(sar)))
<1>0. SeqMod \in Nat /\ sar.not_ackd \in Seqs /\ sar.ackd \in Seqs /\ sar.window \in Nat
  BY Wraps DEF TxSar
<1>1. PICK n \in Seqs, a \in Seqs : n = Pos(sar.not_ackd) /\ a = Pos(sar.ackd)
  BY <1>0, PosIs
<1>2. PICK f \in Seqs : f = InFlight(sar) /\ f = IF a <= n THEN n - a ELSE SeqMod - (a - n)
  BY <1>0, <1>1, PosMinus DEF InFlight
<1>3. PICK w \in Nat, u \in Nat : w = sar.window /\ u = Usable(sar) /\ u = IF w > f THEN w - f ELSE 0
  BY <1>0, <1>2, LengthIs
<1>4. PICK l \in Nat : l = DataLength(sar) /\ l <= u
  <2>1. DataLength(sar) \in Nat /\ DataLength(sar) <= Usable(sar)
    BY LengthIs, SeqsClosed
  <2>. QED BY <1>3, <2>1
<1>5. w = 0 \/ a + w <= c + 1
  BY <1>1, <1>3
<1>6. n \in Nat /\ a \in Nat /\ f \in Nat /\ n < SeqMod /\ a < SeqMod
  <2>1. \A x \in Seqs : x \in Nat /\ x < SeqMod
    BY <1>0 DEF Seqs
  <2>. QED BY <2>1
<1>7. n + u < SeqMod
  <2>1. CASE u = 0
    BY <1>0, <1>6, <2>1
  <2>2. CASE u # 0 /\ a <= n
    BY <1>0, <1>2, <1>3, <1>5, <1>6, <2>2
  <2>3. CASE u # 0 /\ a > n
    BY <1>0, <1>2, <1>3, <1>5, <1>6, <2>3
  <2>. QED BY <1>6, <2>1, <2>2, <2>3
<1>8. n + l < SeqMod
  BY <1>0, <1>4, <1>6, <1>7
<1>9. Add(sar.not_ackd, l) \in Seqs /\ Pos(Add(sar.not_ackd, l)) = n + l
  BY <1>0, <1>1, <1>4, <1>8, PosPlus
<1>. QED BY <1>1, <1>4, <1>6, <1>9

(* A session that is opened once: its openings come before all. *)
LEMMA OpensOnce ==
  ASSUME GapInv, FifoInv, AskedInv, PassiveInv, FirstInv, OnceInv, OpenedOnce
  PROVE  /\ Called => ~Early
         /\ Called => ~(OpeningSegment /\ state \in {"CLOSED", "SYN_SENT"})
<1>1. Called => ~Early
  BY DEF OnceInv
<1>2. Called => ~(OpeningSegment /\ state \in {"CLOSED", "SYN_SENT"})
  BY DEF AskedInv, PassiveInv, FirstInv, Unheard, OpenedOnce
<1>. QED BY <1>1, <1>2

(* What is acknowledged moves only to an acknowledgement that is between   *)
(* what the two ends know. *)
LEMMA AckdMoves ==
  ASSUME GapInv, FifoInv, AskedInv, PassiveInv, FirstInv, OnceInv, AckInv, OpenedOnce, ~peer.fin,
         [Next]_sessionVars, Called
  PROVE  \/ tx'.ackd = tx.ackd
         \/ /\ RxTransition /\ tx'.not_ackd = tx.not_ackd /\ Pos(tx'.ackd) <= Pos(tx.not_ackd)
            /\ Pos(tx.ackd) <= Pos(tx'.ackd) \/ state = "SYN_SENT"
<1>0. FirstNumbers /\ Numbers /\ SegmentInv /\ tx \in TxSar
  BY DEF GapInv, AgreeInv, BothInv, Numbers
<1>1. ~Early /\ ~(OpeningSegment /\ state \in {"CLOSED", "SYN_SENT"})
  BY OpensOnce
<1>2. CASE RxTransition
  <2>1. PICK p : p = rxPkt[1] /\ rxPkt # <<>>
    BY <1>2, RxEffects
  <2>2. tx'.not_ackd = tx.not_ackd
    BY <1>2, RxEntry
  <2>3. CASE tx' = tx
    BY <2>3
  <2>4. CASE /\ p.kind = "ACK" /\ state \in Acking /\ Between(snap.prevAck, p.ack, snap.nextByte)
             /\ \E c : tx' = TxSarFromRx(p.ack, p.win, c)
    <3>1. /\ snap.prevAck = tx.ackd /\ Pos(snap.prevAck) <= Pos(snap.nextByte)
          /\ Pos(snap.nextByte) <= Pos(tx.not_ackd)
      BY <2>1, <2>4 DEF AckInv
    <3>2. p.ack \in Seqs /\ snap.prevAck \in Seqs /\ snap.nextByte \in Seqs /\ tx.not_ackd \in Seqs
      <4>1. PICK a \in 0 .. peer.rcvd : p.ack = Add(Isn, a)
        BY <1>0, <2>1, <2>4 DEF SegmentInv, PacketIs
      <4>2. a \in Nat /\ Isn \in Seqs
        BY SeqsClosed
      <4>. QED BY <1>0, <4>1, <4>2, SeqsClosed DEF Numbers, TxSar
    <3>3. tx'.ackd = p.ack
      BY <1>0, <2>4, TxFields
    <3>4. Pos(snap.prevAck) <= Pos(p.ack) /\ Pos(p.ack) <= Pos(snap.nextByte)
      BY <2>4, <3>1, <3>2, PosBetween
    <3>5. Pos(p.ack) <= Pos(tx.not_ackd)
      <4>1. \A s \in Seqs : Pos(s) \in Nat
        BY PosIs, SeqsClosed
      <4>2. PICK x \in Nat, y \in Nat, z \in Nat : x = Pos(p.ack) /\ y = Pos(snap.nextByte) /\ z = Pos(tx.not_ackd)
        BY <3>2, <4>1
      <4>. QED BY <3>1, <3>4, <4>2
    <3>. QED BY <1>2, <2>2, <3>1, <3>3, <3>4, <3>5
  <2>5. CASE p.kind = "SYN" /\ state \in {"CLOSED", "SYN_SENT"}
    BY <1>1, <2>1, <2>5 DEF OpeningSegment
  <2>6. CASE /\ p.kind = "SYN_ACK" /\ state = "SYN_SENT" /\ p.ack = snap.nextByte
             /\ tx' = TxSarInitFromRx(p.ack, p.win)
    <3>1. Pos(snap.nextByte) <= Pos(tx.not_ackd)
      BY <2>1, <2>6 DEF AckInv
    <3>2. tx'.ackd = p.ack
      BY <1>0, <2>6, TxFields
    <3>. QED BY <1>2, <2>2, <2>6, <3>1, <3>2
  <2>7. p.kind # "FIN"
    BY <1>0, <2>1 DEF SegmentInv, PacketIs
  <2>. QED BY <1>0, <1>2, <2>1, <2>3, <2>4, <2>5, <2>6, <2>7, TransitionTx
<1>3. CASE TxStep
  <2>1. CASE TxData \/ TxRetransmit \/ TxFin \/ tx' = tx
    BY <1>0, <2>1, TxDataIs, TxRetransmitIs, TxFinIs
  <2>2. CASE \E type \in Openers : TxOpening(type, type)
    <3>1. ml # <<>> => ~Opens(ml[1])
      BY <1>1 DEF Early
    <3>. QED BY <1>0, <2>2, <3>1, TxOpeningIs DEF Opens
  <2>. QED BY <1>0, <1>3, <2>1, <2>2, TxCases
<1>4. CASE AppIfStep \/ AppRequest
  <2>1. tx' = tx \/ \E e : tx' = [tx EXCEPT !.app = e]
    BY <1>0, <1>4, AppEffects
  <2>2. \A e : [tx EXCEPT !.app = e].ackd = tx.ackd
    BY <1>0, TxFields
  <2>. QED BY <2>1, <2>2
<1>5. CASE tx' = tx
  BY <1>5
<1>. QED BY <1>2, <1>3, <1>4, <1>5, NextIs, EventEffects, PeerEffects

(* The ends of a segment that arrives. *)
LEMMA ArrivesIs ==
  ASSUME Arrives
  PROVE  /\ \E p \in Incoming : rxPkt' = <<p>>
         /\ snap'.prevAck = tx.ackd /\ snap'.nextByte = tx.not_ackd
         /\ rxPkt'[1].kind \in {"SYN", "SYN_ACK", "ACK", "FIN", "RST"}
         /\ UNCHANGED <<tx, ml, wire>>
<1>1. PICK p \in Incoming : RxLoad(p)
  BY DEF Arrives
<1>2. rxPkt' = <<p>> /\ snap'.prevAck = tx.ackd /\ snap'.nextByte = tx.not_ackd /\ UNCHANGED <<tx, ml, wire>>
  BY <1>1 DEF RxLoad
<1>3. p.kind \in {"SYN", "SYN_ACK", "ACK", "FIN", "RST"}
  <2>1. \A kind, seq, len, ack : InSegment(kind, seq, len, ack).kind = kind
    BY DEF InSegment
  <2>2. \E kind \in {"SYN", "SYN_ACK", "ACK", "FIN", "RST"} : \E seq, len, ack : p = InSegment(kind, seq, len, ack)
    BY DEF Incoming
  <2>. QED BY <2>1, <2>2
<1>. QED BY <1>2, <1>3

(* An acknowledgement is taken when it lies between ackd and not_ackd. *)
LEMMA AckStep ==
  ASSUME GapInv, GapInv', FifoInv, AskedInv, PassiveInv, FirstInv, OnceInv, WindowInv, WrittenInv, EarlyInv, AckInv,
         [Next]_sessionVars
  PROVE  AckInv'
<1>0. FirstNumbers /\ Numbers /\ Numbers' /\ Shape /\ AgreeInv /\ FreshInv /\ CoverInv /\ SegmentInv /\ SegmentInv' /\ PeerInv /\ PeerInv'
  BY DEF GapInv, AgreeInv, BothInv, CloseInv
<1>1. /\ \A s \in Seqs : Pos(s) \in Nat
      /\ tx \in TxSar /\ tx' \in TxSar /\ (ml # <<>> => ml[1].sar \in TxSar) /\ (ml' # <<>> => ml'[1].sar \in TxSar)
      /\ \A sar \in TxSar : sar.app \in Seqs /\ sar.not_ackd \in Seqs /\ sar.ackd \in Seqs
      /\ \A e : [tx EXCEPT !.app = e].not_ackd = tx.not_ackd
  <2>1. \A s \in Seqs : Pos(s) \in Nat
    BY PosIs, SeqsClosed
  <2>2. \A sar \in TxSar : sar.app \in Seqs /\ sar.not_ackd \in Seqs /\ sar.ackd \in Seqs
    BY DEF TxSar
  <2>3. tx \in TxSar
    BY <1>0 DEF Numbers
  <2>4. \A e : [tx EXCEPT !.app = e].not_ackd = tx.not_ackd
    BY <2>3, TxFields
  <2>. QED BY <1>0, <2>1, <2>2, <2>4 DEF Numbers
<1>2. SUFFICES ASSUME OpenedOnce', ~peer'.fin
               PROVE  /\ ~Called' => tx'.not_ackd = 0
                      /\ Called' => Pos(tx'.ackd) <= Pos(tx'.not_ackd)
                      /\ ml' # <<>> /\ ml'[1].type = "TX" => Pos(tx'.not_ackd) <= Pos(ml'[1].sar.not_ackd)
                      /\ ml' # <<>> /\ ml'[1].type \in {"RT", "FIN"} => tx'.not_ackd = ml'[1].sar.not_ackd
                      /\ rxPkt' # <<>> =>
                           \/ rxPkt'[1].kind \in {"SYN", "RST"}
                           \/ rxPkt'[1].kind = "SYN_ACK" /\ rxPkt'[1].ack # snap'.nextByte
                           \/ /\ Called' /\ snap'.prevAck = tx'.ackd /\ Pos(snap'.prevAck) <= Pos(snap'.nextByte)
                              /\ Pos(snap'.nextByte) <= Pos(tx'.not_ackd)
  BY DEF AckInv, Pos
<1>3. OpenedOnce /\ ~peer.fin
  <2>1. OpenedOnce
    BY <1>0, <1>2, OpenedBefore
  <2>2. peer.fin => peer'.fin
    BY <1>0, PeerStep
  <2>. QED BY <1>2, <2>1, <2>2
<1>4. /\ ~Called => tx.not_ackd = 0
      /\ Called => Pos(tx.ackd) <= Pos(tx.not_ackd)
      /\ ml # <<>> /\ ml[1].type = "TX" => Pos(tx.not_ackd) <= Pos(ml[1].sar.not_ackd)
      /\ ml # <<>> /\ ml[1].type \in {"RT", "FIN"} => tx.not_ackd = ml[1].sar.not_ackd
      /\ rxPkt # <<>> =>
           \/ rxPkt[1].kind \in {"SYN", "RST"}
           \/ rxPkt[1].kind = "SYN_ACK" /\ rxPkt[1].ack # snap.nextByte
           \/ /\ Called /\ snap.prevAck = tx.ackd /\ Pos(snap.prevAck) <= Pos(snap.nextByte)
              /\ Pos(snap.nextByte) <= Pos(tx.not_ackd)
  BY <1>3 DEF AckInv
<1>5. Arrives \/ rxPkt' = <<>> \/ UNCHANGED <<rxPkt, snap>>
  <2>1. TxStep \/ AppIfStep \/ AppRequest => UNCHANGED <<rxPkt, snap>>
    BY <1>0, TxEffects, AppEffects
  <2>. QED BY <2>1, NextIs, RxEffects, EventEffects, PeerEffects
<1>6. (Called => Called') /\ (~TxStep => UNCHANGED ml /\ tx'.not_ackd = tx.not_ackd)
  <2>1. ~TxStep => UNCHANGED ml /\ tx'.not_ackd = tx.not_ackd
    <3>1. AppIfStep \/ AppRequest => UNCHANGED ml /\ tx'.not_ackd = tx.not_ackd
      BY <1>0, <1>1, AppEffects
    <3>. QED BY <3>1, NextIs, RxEffects, RxEntry, EventEffects, PeerEffects
  <2>. QED BY <2>1, WireGrows DEF Called
<1>7. CASE ~Called
  <2>1. rxPkt' # <<>> =>
           \/ rxPkt'[1].kind \in {"SYN", "RST"}
           \/ rxPkt'[1].kind = "SYN_ACK" /\ rxPkt'[1].ack # snap'.nextByte
    <3>1. CASE Arrives
      <4>1. PICK r \in Nat : r = peer'.rcvd
        BY <1>0 DEF PeerInv
      <4>2. r = 0
        <5>1. ~Called'
          BY <1>7, <3>1, ArrivesIs DEF Called
        <5>. QED BY <4>1, <5>1 DEF GapInv, CoverInv
      <4>3. rxPkt' # <<>>
        BY <3>1, ArrivesIs
      <4>4. rxPkt'[1].kind \notin {"ACK", "FIN"} /\ (rxPkt'[1].kind # "SYN" => rxPkt'[1].ack = Add(Isn, 0))
        BY <1>0, <4>1, <4>2, <4>3 DEF SegmentInv, PacketIs
      <4>5. Add(Isn, 0) # 0
        <5>1. 0 \in Seqs /\ Isn \in Nat /\ Isn \in Seqs /\ Isn # 0
          BY Wraps, SeqsClosed
        <5>. QED BY <5>1, Wraps DEF Add
      <4>. QED BY <1>4, <1>7, <3>1, <4>4, <4>5, ArrivesIs
    <3>2. CASE rxPkt' = <<>> \/ UNCHANGED <<rxPkt, snap>>
      BY <1>4, <1>7, <3>2
    <3>. QED BY <1>5, <3>1, <3>2
  <2>2. CASE ~Called'
    <3>1. Fresh'
      BY <2>2 DEF GapInv, AgreeInv, BothInv, PeerInv, CoverInv, FreshInv, Starts
    <3>2. ml' # <<>> => ml'[1].type \notin {"TX", "RT", "FIN"}
      BY <3>1, EventIs DEF Fresh
    <3>3. tx'.not_ackd = tx.not_ackd
      <4>1. CASE TxStep
        <5>1. ml # <<>> => ml[1].type \notin {"TX", "RT", "FIN"}
          <6>1. Fresh
            BY <1>0, <1>7, FreshUncalled
          <6>. QED BY <6>1, EventIs DEF Fresh
        <5>2. \A type \in Openers : ~TxOpening(type, type)
          BY <1>0, <2>2, TxOpeningIs DEF Called
        <5>. QED BY <1>0, <4>1, <5>1, <5>2, TxCases, TxDataIs, TxRetransmitIs, TxFinIs
      <4>. QED BY <1>6, <4>1
    <3>. QED BY <1>4, <1>7, <2>1, <2>2, <3>2, <3>3
  <2>3. CASE Called'
    <3>1. TxStep /\ ml # <<>> /\ Opens(ml[1]) /\ ml' = <<>>
      BY <1>7, <2>3, FirstCall
    <3>2. TxOpening(ml[1].type, ml[1].type)
      BY <1>0, <3>1, TxEffects DEF Opens, Openers
    <3>3. tx'.not_ackd = Add(Isn, 1) /\ tx'.ackd = Isn
      BY <1>0, <3>1, <3>2, TxOpeningIs DEF Opens
    <3>4. Pos(tx'.ackd) = 0 /\ Pos(tx'.not_ackd) = 1
      BY <3>3, PosOfIsn
    <3>. QED BY <2>1, <2>3, <3>1, <3>4
  <2>. QED BY <2>2, <2>3
<1>8. CASE Called
  <2>1. ~Early /\ Called'
    BY <1>3, <1>6, <1>8, OpensOnce
  <2>2. PICK n \in Nat, m \in Nat : n = Pos(tx.not_ackd) /\ m = Pos(tx'.not_ackd)
    BY <1>1
  <2>3. /\ n <= m
        /\ ml' # <<>> /\ ml'[1].type = "TX" => m <= Pos(ml'[1].sar.not_ackd)
        /\ ml' # <<>> /\ ml'[1].type \in {"RT", "FIN"} => tx'.not_ackd = ml'[1].sar.not_ackd
    <3>1. CASE ~TxStep
      BY <1>4, <1>6, <2>2, <3>1
    <3>2. CASE TxStep
      <4>1. CASE /\ ml = <<>> /\ ml' # <<>> /\ ml'[1].sar = tx /\ UNCHANGED <<tx, wire, mempt>>
        BY <2>2, <4>1
      <4>2. CASE TxData
        <5>1. PICK sar : sar = ml[1].sar
          OBVIOUS
        <5>2. PICK next : next = Add(sar.not_ackd, DataLength(sar))
          OBVIOUS
        <5>3. /\ ml # <<>> /\ ml[1].type = "TX" /\ sar \in TxSar
              /\ \/ tx' = tx /\ ml' # <<>> /\ ml'[1].type = "TX"
                 \/ tx'.not_ackd = next /\ (ml' # <<>> => ml'[1].type = "FIN")
              /\ ml' # <<>> => ml'[1].sar.not_ackd = next
          BY <1>0, <4>2, <5>1, <5>2, TxDataIs
        <5>4. PICK c \in Nat : c = peer.credit /\ c + 2 < SeqMod
          <6>1. Credit \in Nat /\ Credit + 2 < SeqMod /\ peer.credit <= Credit /\ peer.credit \in Nat
            BY <1>0, PlanAssumption DEF PeerInv, Credit, WindowInv
          <6>. QED BY <6>1, Wraps
        <5>5. sar.window = 0 \/ Pos(sar.ackd) + sar.window <= c + 1
          BY <5>1, <5>3, <5>4 DEF WindowInv, Allowed
        <5>6. next \in Seqs /\ Pos(sar.not_ackd) <= Pos(next)
          BY <5>2, <5>3, <5>4, <5>5, SegmentFits
        <5>7. PICK x \in Nat, y \in Nat : x = Pos(sar.not_ackd) /\ y = Pos(next) /\ n <= x /\ x <= y
          BY <1>1, <1>4, <2>2, <5>1, <5>3, <5>6
        <5>. QED BY <2>2, <5>3, <5>7
      <4>3. CASE TxRetransmit
        <5>1. /\ ml # <<>> /\ ml[1].type = "RT" /\ tx' = tx
              /\ ml' # <<>> => ml'[1].sar.not_ackd = ml[1].sar.not_ackd /\ ml'[1].type \in {"RT", "FIN"}
          BY <1>0, <4>3, TxRetransmitIs
        <5>. QED BY <1>4, <2>2, <5>1
      <4>4. CASE TxFin
        <5>1. PICK sar : sar = ml[1].sar
          OBVIOUS
        <5>2. /\ ml # <<>> /\ ml[1].type = "FIN" /\ ml' = <<>> /\ sar \in TxSar
              /\ \/ tx' = tx
                 \/ tx'.not_ackd = Add(sar.not_ackd, 1) /\ sar.app = sar.not_ackd
                 \/ tx'.not_ackd = sar.not_ackd
          BY <1>0, <4>4, <5>1, TxFinIs
        <5>3. sar.not_ackd = tx.not_ackd
          BY <1>4, <5>1, <5>2
        <5>4. CASE tx'.not_ackd = Add(sar.not_ackd, 1) /\ sar.app = sar.not_ackd
          <6>1. /\ Pos(mempt) + app.left = AppBytes + 1 /\ app.left \in 0 .. AppBytes
                /\ Pos(tx.app) <= Pos(mempt) /\ Pos(sar.app) <= Pos(tx.app)
            BY <1>3, <1>8, <5>1, <5>2 DEF WrittenInv
          <6>2. AppBytes \in Nat /\ AppBytes + 2 < SeqMod
            BY <1>0, PlanAssumption DEF PeerInv, AppBytes
          <6>3. Pos(mempt) \in Nat /\ Pos(tx.app) \in Nat /\ Pos(sar.app) \in Nat
            BY <1>0, <1>1, <5>2 DEF Numbers
          <6>4. Pos(sar.app) <= AppBytes + 1
            BY <6>1, <6>2, <6>3
          <6>5. n + 1 < SeqMod
            BY <2>2, <5>3, <5>4, <6>2, <6>3, <6>4, Wraps
          <6>6. Pos(tx'.not_ackd) = n + 1
            BY <1>1, <2>2, <5>3, <5>4, <6>5, PosPlus
          <6>. QED BY <2>2, <5>2, <6>6
        <5>. QED BY <2>2, <5>2, <5>3, <5>4
      <4>5. CASE \E type \in Openers : TxOpening(type, type)
        <5>1. ml # <<>> => ~Opens(ml[1])
          BY <2>1 DEF Early
        <5>2. tx' = tx /\ ml' = <<>>
          BY <1>0, <4>5, <5>1, TxOpeningIs DEF Opens
        <5>. QED BY <2>2, <5>2
      <4>6. CASE ml' = <<>> /\ UNCHANGED <<tx, mempt>>
        BY <2>2, <4>6
      <4>. QED BY <1>0, <3>2, <4>1, <4>2, <4>3, <4>4, <4>5, <4>6, TxCases
    <3>. QED BY <3>1, <3>2
  <2>4. PICK a \in Nat, b \in Nat : a = Pos(tx.ackd) /\ b = Pos(tx'.ackd) /\ a <= n
    BY <1>1, <1>4, <1>8, <2>2
  <2>5. /\ b <= m
        /\ tx'.ackd = tx.ackd \/ RxTransition
    <3>1. \/ tx'.ackd = tx.ackd
          \/ RxTransition /\ tx'.not_ackd = tx.not_ackd /\ Pos(tx'.ackd) <= Pos(tx.not_ackd)
      BY <1>3, <1>8, AckdMoves
    <3>. QED BY <2>2, <2>3, <2>4, <3>1
  <2>6. rxPkt' # <<>> =>
           \/ rxPkt'[1].kind \in {"SYN", "RST"}
           \/ rxPkt'[1].kind = "SYN_ACK" /\ rxPkt'[1].ack # snap'.nextByte
           \/ /\ snap'.prevAck = tx'.ackd /\ Pos(snap'.prevAck) <= Pos(snap'.nextByte)
              /\ Pos(snap'.nextByte) <= m
    <3>1. CASE Arrives
      <4>1. snap'.prevAck = tx.ackd /\ snap'.nextByte = tx.not_ackd /\ tx' = tx
        BY <3>1, ArrivesIs
      <4>. QED BY <2>2, <2>3, <2>4, <4>1
    <3>2. CASE UNCHANGED <<rxPkt, snap>> /\ rxPkt # <<>>
      <4>1. tx'.ackd = tx.ackd
        BY <2>5, <3>2, RxEffects
      <4>2. Pos(snap.nextByte) \in Nat
        BY <1>0, <1>1 DEF Numbers
      <4>. QED BY <1>4, <2>2, <2>3, <3>2, <4>1, <4>2
    <3>. QED BY <1>5, <3>1, <3>2
  <2>. QED BY <2>1, <2>2, <2>3, <2>4, <2>5, <2>6
<1>. QED BY <1>7, <1>8

(* The invariant of a session that has been opened once. *)
OnceOpenInv ==
  SendInv /\ PassiveInv /\ FirstInv /\ OnceInv /\ CallInv /\ WrittenInv /\ SentInv /\ AckInv

(* The invariant of every session.  What is opened again has been opened   *)
(* once, so the second part is only ever lost. *)
SessionInv == BothInv /\ (OpenedOnce => OnceOpenInv)

LEMMA OnceOpenInit == Init => OnceOpenInv
<1>1. SUFFICES ASSUME Init PROVE OnceOpenInv
  OBVIOUS
<1>2. SendInv /\ Numbers
  BY <1>1, SendInit DEF SendInv, GapInv, AgreeInv, BothInv
<1>3. /\ state = "CLOSED" /\ wire = {} /\ ml = <<>> /\ pipe = <<>> /\ timerEv = <<>> /\ rxPkt = <<>> /\ giveUp = 0
      /\ ~closeTimer /\ rt = RtReset /\ tx = TxSarReset
  BY <1>1 DEF Init
<1>4. ~Called /\ ~Early
  BY <1>3 DEF Called, Early
<1>5. peer.calls => ~app.open
  <2>1. PICK plan \in Plans : \E calls \in plan.calls :
          /\ app = [open |-> ~calls, closes |-> plan.appCloses, left |-> plan.appBytes]
          /\ peer = [plan |-> plan, calls |-> calls, phase |-> "idle", irs |-> Isn, rcvd |-> 0,
                     sent |-> 0, fin |-> FALSE, credit |-> plan.firstCredit, told |-> 1]
    BY <1>1 DEF Init
  <2>2. PICK calls \in plan.calls :
          /\ app = [open |-> ~calls, closes |-> plan.appCloses, left |-> plan.appBytes]
          /\ peer = [plan |-> plan, calls |-> calls, phase |-> "idle", irs |-> Isn, rcvd |-> 0,
                     sent |-> 0, fin |-> FALSE, credit |-> plan.firstCredit, told |-> 1]
    BY <2>1
  <2>3. calls \in BOOLEAN
    BY <2>2, PlanAssumption
  <2>4. app.open = ~calls /\ peer.calls = calls
    BY <2>2
  <2>. QED BY <2>3, <2>4
<1>6. app.left = AppBytes /\ AppBytes \in Nat
  <2>1. PICK plan \in Plans : app.left = plan.appBytes /\ peer.plan = plan
    BY <1>1 DEF Init
  <2>. QED BY <2>1, PlanAssumption DEF AppBytes
<1>7. PassiveInv
  <2>1. rt.type = "RT"
    BY <1>3 DEF RtReset
  <2>2. <<>> \in Seq(NoSyn)
    OBVIOUS
  <2>. QED BY <1>3, <1>5, <2>1, <2>2 DEF PassiveInv
<1>8. FirstInv
  BY <1>3, <1>4 DEF FirstInv
<1>9. OnceInv
  BY <1>4 DEF OnceInv
<1>13. CallInv
  BY <1>3, <1>4 DEF CallInv, Steady
<1>10. WrittenInv
  BY <1>4, <1>6 DEF WrittenInv
<1>11. SentInv
  BY <1>3, <1>4 DEF SentInv
<1>12. AckInv
  <2>1. tx.not_ackd = 0
    BY <1>3 DEF TxSarReset
  <2>. QED BY <1>3, <1>4, <2>1 DEF AckInv
<1>. QED BY <1>2, <1>7, <1>8, <1>9, <1>10, <1>11, <1>12, <1>13 DEF OnceOpenInv

(* It is kept as long as the session is not opened again. *)
LEMMA OnceOpenStep ==
  ASSUME OnceOpenInv, [Next]_sessionVars, OpenedOnce'
  PROVE  OnceOpenInv'
<1>1. /\ SendInv /\ GapInv /\ FifoInv /\ AskedInv /\ EarlyInv /\ WindowInv /\ LimitInv
      /\ PassiveInv /\ FirstInv /\ OnceInv /\ CallInv /\ WrittenInv /\ SentInv /\ AckInv
  BY DEF OnceOpenInv, SendInv
<1>2. PassiveInv' /\ FirstInv' /\ OnceInv' /\ CallInv'
  BY <1>1, PassiveStep, FirstStep, OnceStep, CallStep
<1>3. FirstNumbers'
  <2>1. peer'.irs = Isn
    BY <1>1, IrsStep DEF GapInv, AgreeInv, BothInv, CloseInv
  <2>2. ml' # <<>> /\ Opens(ml'[1]) => ~Called'
    BY <1>2 DEF OnceInv, Early, Opens
  <2>. QED BY <1>2, <2>1, <2>2 DEF FirstNumbers, CallInv, Opens
<1>4. SendInv' /\ GapInv'
  <2>1. SendInv'
    BY <1>1, <1>3, SendStep
  <2>. QED BY <2>1 DEF SendInv
<1>5. WrittenInv'
  BY <1>1, <1>4, WrittenStep
<1>6. SentInv'
  BY <1>1, <1>4, SentStep
<1>7. AckInv'
  BY <1>1, <1>4, AckStep
<1>. QED BY <1>2, <1>4, <1>5, <1>6, <1>7 DEF OnceOpenInv

LEMMA SessionInit == Init => SessionInv
  BY OnceOpenInit DEF SessionInv, OnceOpenInv, SendInv, GapInv, AgreeInv

LEMMA SessionStep ==
  ASSUME SessionInv, [Next]_sessionVars
  PROVE  SessionInv'
<1>1. BothInv /\ Shape
  BY DEF SessionInv, BothInv, CloseInv
<1>2. BothInv'
  BY <1>1, BothStep DEF SessionInv, OnceOpenInv, SendInv, GapInv
<1>3. ASSUME OpenedOnce' PROVE OnceOpenInv'
  BY <1>1, <1>3, OpenedBefore, OnceOpenStep DEF SessionInv
<1>. QED BY <1>2, <1>3 DEF SessionInv

-----------------------------------------------------------------------------
(* The theorems. *)

(* A session that is open and its peer agree (rx_engine.cpp, OnSynAck and  *)
(* OnAck; tx_sar_table.cpp): the peer has seen a SYN, recvd is nothing     *)
(* that it has not sent and, if the session is opened once, ackd nothing   *)
(* that it has not received, for every network, window, number of retries  *)
(* and choice of the initial numbers. *)
THEOREM EndsAgree == Spec => []HandshakeAgreement
<1>1. SessionInv => HandshakeAgreement
  <2>1. SUFFICES ASSUME SessionInv, state \in Synchronized PROVE HandshakeAgreement
    BY DEF HandshakeAgreement
  <2>2. BothInv /\ PeerInv /\ RecvdInv
    BY <2>1 DEF SessionInv, BothInv
  <2>3. PICK r \in 1 .. PeerUsed : recvd = Add(PeerIsn, r)
    BY <2>1, <2>2 DEF RecvdInv, Opened
  <2>4. peer.rcvd \in Nat /\ peer.rcvd > 0 /\ peer.sent \in Nat /\ PeerUsed \in 1 .. 2 + peer.sent
    BY <2>1, <2>2 DEF PeerInv, PeerUsed, RecvdInv, Opened
  <2>5. PeerUsed \in 0 .. SeqMod - 1
    <3>1. peer.sent <= peer.plan.peerBytes /\ peer.plan.peerBytes \in Nat /\ peer.plan.peerBytes + 2 < SeqMod
      BY <2>2, PlanAssumption DEF PeerInv, PeerBytes
    <3>2. SeqMod \in Nat
      BY Wraps
    <3>. QED BY <2>4, <3>1, <3>2
  <2>6. ASSUME OpenedOnce PROVE Pos(tx.ackd) <= peer.rcvd
    <3>0. PICK a \in 0 .. peer.rcvd : tx.ackd = Add(Isn, a)
      BY <2>1, <2>6 DEF SessionInv, OnceOpenInv, SendInv, GapInv, AgreeInv, StreamInv, Opened
    <3>1. a \in Nat /\ a <= peer.rcvd
      BY <2>4
    <3>2. Pos(tx.ackd) <= a /\ Pos(tx.ackd) \in Nat
      <4>1. Add(Isn, a) \in Seqs
        BY <3>1, SeqsClosed
      <4>2. Pos(tx.ackd) \in Nat
        BY <3>0, <4>1, SeqsClosed DEF Pos
      <4>. QED BY <3>0, <3>1, <4>2, PosOfAdd
    <3>. QED BY <2>4, <3>1, <3>2
  <2>7. Sub(recvd, PeerIsn) \in 1 .. Sub(PeerSeq, PeerIsn)
    <3>1. r \in 0 .. SeqMod - 1 /\ r \in 1 .. PeerUsed
      <4>1. SeqMod \in Nat
        BY Wraps
      <4>. QED BY <2>4, <2>5, <4>1
    <3>2. Sub(recvd, PeerIsn) = r
      BY <2>3, <3>1, PeerNumbers
    <3>3. PeerSeq = Add(PeerIsn, PeerUsed)
      BY DEF PeerSeq, PeerUsed
    <3>4. Sub(PeerSeq, PeerIsn) = PeerUsed
      BY <2>5, <3>3, PeerNumbers
    <3>. QED BY <3>1, <3>2, <3>4
  <2>. QED BY <2>4, <2>6, <2>7 DEF HandshakeAgreement
<1>. QED BY <1>1, SessionInit, SessionStep, PTL DEF Spec

(* Everything below not_ackd was sent (tx_engine.cpp, TX and FIN, and the  *)
(* write back to tx_sar_table), in a session that is opened once, for      *)
(* every peer, network, window, size of the writes and number of retries:  *)
(* the engine never waits for the acknowledgement of a byte that it        *)
(* skipped. *)
THEOREM NothingIsSkipped == Spec => []NoGaps
<1>1. SessionInv => NoGaps
  <2>1. SUFFICES ASSUME SessionInv, OpenedOnce, state \in {"ESTABLISHED", "FIN_WAIT_1"}, ~tx.finSent
                 PROVE  CoveredBy(wire, tx.not_ackd)
    BY DEF NoGaps, CoveredBy
  <2>2. BothInv /\ CoverInv
    BY <2>1 DEF SessionInv, OnceOpenInv, SendInv, GapInv
  <2>3. peer.rcvd > 0
    BY <2>1, <2>2 DEF BothInv, RecvdInv, Opened, Synchronized
  <2>. QED BY <2>1, <2>2, <2>3 DEF CoverInv
<1>. QED BY <1>1, SessionInit, SessionStep, PTL DEF Spec

(* No byte is sent beyond the window of the peer (tx_engine.cpp, TX and    *)
(* RT), in a session that is opened once and has sent no FIN, for every    *)
(* peer, network, window, size of the writes and number of retries,        *)
(* although rx_engine moves ackd and the window while metaLoader works on  *)
(* its copy. *)
THEOREM WindowIsKept == Spec => []WindowKept
<1>1. SessionInv => WindowKept
  <2>1. SUFFICES ASSUME SessionInv, OpenedOnce, NoFinYet, NEW seg \in wire, seg.kind = "DATA"
                 PROVE  Pos(seg.seq) + seg.len <= peer.credit + 1
    BY DEF WindowKept
  <2>2. GapInv /\ EarlyInv /\ LimitInv /\ AgreeInv /\ FreshInv /\ CoverInv /\ Numbers /\ PeerInv
    BY <2>1 DEF SessionInv, OnceOpenInv, SendInv, GapInv, AgreeInv, BothInv
  <2>3. Called
    <3>1. ~NothingSent
      BY <2>1 DEF NothingSent
    <3>. QED BY <2>2, <3>1, FreshUncalled DEF EarlyInv
  <2>4. PICK t : t = Pos(Top) /\ t <= peer.credit + 1 /\ Pos(seg.seq) + seg.len <= t
    BY <2>1, <2>2, <2>3 DEF LimitInv
  <2>5. t \in Nat /\ Pos(seg.seq) \in Nat /\ seg.len \in Nat /\ peer.credit \in Nat
    <3>1. Top \in Seqs /\ seg.seq \in Seqs
      BY <2>2 DEF Top, Numbers, TxSar
    <3>. QED BY <2>2, <2>4, <3>1, PosIs, SeqsClosed DEF Numbers, PeerInv
  <2>. QED BY <2>4, <2>5
<1>. QED BY <1>1, SessionInit, SessionStep, PTL DEF Spec

(* No segment carries a byte that the application did not write            *)
(* (tx_engine.cpp, TX and RT; tx_app_interface.cpp, the status handler),   *)
(* in a session that is opened once and has sent no FIN, for every peer,   *)
(* network and number of retries. *)
THEOREM OnlyWrittenIsSent == Spec => []SentIsWritten
<1>1. SessionInv => SentIsWritten
  <2>1. SUFFICES ASSUME SessionInv, OpenedOnce, NoFinYet, NEW seg \in wire, seg.kind = "DATA"
                 PROVE  Pos(seg.seq) + seg.len <= Pos(tx.app)
    BY DEF SentIsWritten
  <2>2. GapInv /\ EarlyInv /\ LimitInv /\ SentInv /\ AgreeInv /\ FreshInv /\ CoverInv /\ Numbers
    BY <2>1 DEF SessionInv, OnceOpenInv, SendInv, GapInv, AgreeInv, BothInv
  <2>3. Called
    <3>1. ~NothingSent
      BY <2>1 DEF NothingSent
    <3>. QED BY <2>2, <3>1, FreshUncalled DEF EarlyInv
  <2>4. PICK t : t = Pos(Top) /\ t <= Pos(tx.app) /\ Pos(seg.seq) + seg.len <= t
    BY <2>1, <2>2, <2>3 DEF LimitInv, SentInv
  <2>5. t \in Nat /\ Pos(seg.seq) \in Nat /\ seg.len \in Nat /\ Pos(tx.app) \in Nat
    <3>1. Top \in Seqs /\ seg.seq \in Seqs /\ tx.app \in Seqs
      BY <2>2 DEF Top, Numbers, TxSar
    <3>. QED BY <2>2, <2>4, <3>1, PosIs, SeqsClosed DEF Numbers
  <2>. QED BY <2>4, <2>5
<1>. QED BY <1>1, SessionInit, SessionStep, PTL DEF Spec

(* A late acknowledgement never moves ackd back (rx_engine.cpp, the test   *)
(* before the write to tx_sar_table, made on a copy that may be old): what *)
(* tx_engine and the timers do between the copy and the test does not      *)
(* matter. *)
THEOREM AckdStaysAhead == Spec => AckdNeverBack
<1>1. ASSUME SessionInv, [Next]_sessionVars
      PROVE  [OpenedOnce /\ ~peer.fin /\ {state, state'} \subseteq Synchronized
                => Pos(tx.ackd') >= Pos(tx.ackd)]_sessionVars
  <2>1. SUFFICES ASSUME OpenedOnce, ~peer.fin, state \in Synchronized
                 PROVE  Pos(tx'.ackd) >= Pos(tx.ackd)
    OBVIOUS
  <2>2. /\ GapInv /\ FifoInv /\ AskedInv /\ PassiveInv /\ FirstInv /\ OnceInv /\ AckInv /\ StreamInv /\ CoverInv
        /\ PeerInv /\ Numbers
    BY <1>1, <2>1 DEF SessionInv, OnceOpenInv, SendInv, GapInv, AgreeInv, BothInv
  <2>3. Called
    BY <2>1, <2>2 DEF StreamInv, RecvdInv, Opened, CoverInv
  <2>4. state # "SYN_SENT"
    BY <2>1 DEF Synchronized
  <2>5. Pos(tx.ackd) \in Nat
    BY <2>2, PosIs, SeqsClosed DEF Numbers, TxSar
  <2>6. tx'.ackd = tx.ackd \/ Pos(tx.ackd) <= Pos(tx'.ackd)
    BY <1>1, <2>1, <2>2, <2>3, <2>4, AckdMoves
  <2>. QED BY <2>5, <2>6
<1>. QED BY <1>1, SessionInit, SessionStep, PTL DEF Spec, AckdNeverBack
=============================================================================
