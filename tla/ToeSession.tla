----------------------------- MODULE ToeSession -----------------------------
(***************************************************************************)
(* One TCP session of the offload engine: the table entries, registers and *)
(* FIFOs that hold its state, and the operations of the tables on them.    *)
(* The last section has the timers; the modules RxFsm, TxMetaLoader and    *)
(* AppPath add the actions of the other components, and ToeConnection      *)
(* composes them with a remote peer.                                       *)
(*                                                                         *)
(* Sequence numbers count modulo SeqMod.  The code keeps 32 bits in some   *)
(* places and 16 in others (app, lengths and windows); a connection of the *)
(* model is shorter than SeqMod, so the two do not differ here, and Isn is *)
(* chosen near the top so that the counters do wrap.                       *)
(***************************************************************************)
EXTENDS TcpStates, Naturals, Sequences

CONSTANTS
  SeqMod,       \* size of the sequence number space
  Isn, PeerIsn, \* initial sequence numbers of the engine and of the peer
  Isns,         \* numbers that a later opening of the session may draw
  Mms,          \* MMS, the largest payload of a segment
  MaxRetries,   \* time-outs before the session is aborted, 4 in the code
  QueueDepth    \* bound on every event FIFO

ASSUME SeqAssumption ==
  /\ SeqMod \in Nat /\ Mms \in 1 .. SeqMod - 1
  /\ Isn \in 0 .. SeqMod - 1 /\ PeerIsn \in 0 .. SeqMod - 1
  /\ Isns \subseteq 0 .. SeqMod - 1
  /\ MaxRetries \in Nat /\ QueueDepth \in Nat \ {0}

Add(a, n) == (a + n) % SeqMod
Sub(a, b) == (a + SeqMod - b) % SeqMod

VARIABLES
  state,      \* state_table[session]
  mapped,     \* the session lookup has an entry for the connection
  releases,   \* stateTable2sLookup_releaseSession, number of requests
  tx,         \* tx_table[session] of tx_sar_table
  recvd,      \* rx_table[session].recvd
  rxPkt,      \* <<fsm_meta>> in state TRANSITION, <<>> in LOAD
  snap,       \* the tx_sar_table reply that rxTcpFSM holds
  ml,         \* <<event and txSar of metaLoader>> in state 1, <<>> in 0
  pipe,       \* events between the event engine and tx_engine
  timerEv,    \* timer2eventEng_setEvent
  appEv,      \* txApp2eventEng_setEvent
  ackOwed,    \* ack_table[session] # 0
  rt,         \* retransmitTimerTable[session]
  probe,      \* probeTimerTable[session].active
  closeTimer, \* closeTimerTable[session].active
  giveUp,     \* timer2stateTable_releaseState, number of requests
  cache,      \* txApp_eventCache: accepted writes and open/close events
  streamReq,  \* <<state>> read by tx_app_stream_if in READ_META, else <<>>
  mempt,      \* app_table[session].mempt
  answers,    \* the openStatus answers given to the application
  told,       \* notifications the application got: "DATA", "CLOSE"
  app,        \* what the application may still ask for
  wire,       \* segments of the engine that were sent, in any order
  peer        \* the remote end

rxEng   == <<rxPkt, snap>>
events  == <<pipe, timerEv, appEv, ackOwed>>
timers  == <<rt, probe, closeTimer, giveUp>>
table   == <<state, mapped, releases>>
appSide == <<cache, streamReq, mempt, app>>
sessionVars == <<table, tx, recvd, rxEng, ml, events, timers, appSide,
                 answers, told, wire, peer>>

Ev(type, count) == [type |-> type, rt |-> count]

Room(fifo) == Len(fifo) < QueueDepth

(* Registers and tables are zero after reset. *)
TxSarReset == [ackd |-> 0, not_ackd |-> 0, app |-> 0, window |-> 0, count |-> 0,
               finReady |-> FALSE, finSent |-> FALSE]
RtReset    == [active |-> FALSE, retries |-> 0, type |-> "RT"]

-----------------------------------------------------------------------------
(* tx_sar_table: the writes of tx_engine and of rx_engine.  The congestion *)
(* window is left out: it only lowers the window a transmission may use.   *)

TxSarFromTx(notAckd, ready, sent) ==
  [tx EXCEPT !.not_ackd = notAckd, !.finReady = @ \/ ready, !.finSent = @ \/ sent]

(* init: the first byte after the SYN is the next one to be sent. *)
TxSarInitFromTx(notAckd) ==
  [tx EXCEPT !.not_ackd = notAckd, !.app = notAckd, !.ackd = Sub(notAckd, 1)]

TxSarFromRx(ackd, window, count) ==
  [tx EXCEPT !.ackd = ackd, !.window = window, !.count = count]

(* Fault: the init of the SYN is used for the SYN_ACK too. *)
TxSarInitFromRxSynOnly(ackd, window) ==
  [TxSarFromRx(0, window, 0) EXCEPT !.finReady = FALSE, !.finSent = FALSE]

TxSarInitFromRx(ackd, window) ==
  [TxSarFromRx(ackd, window, 0) EXCEPT !.finReady = FALSE, !.finSent = FALSE]

-----------------------------------------------------------------------------
(* state_table: a write of CLOSED is passed on to the session lookup. *)

(* Fault: the release is forgotten. *)
WriteStateOnly(st) == state' = st /\ UNCHANGED releases

WriteState(st) ==
  /\ state' = st
  /\ releases' = IF st = "CLOSED" THEN releases + 1 ELSE releases

(* Notifications to the application. *)

(* Fault: they get lost. *)
TellCloseNot == UNCHANGED told
TellFailureNot == UNCHANGED answers

TellClose == told' = told \cup {"CLOSE"}
TellFailure == answers' = Append(answers, FALSE)

-----------------------------------------------------------------------------
(* event_engine and ack_delay.  An event of rx_engine always goes first; a *)
(* timer or application event is taken when every earlier event has been   *)
(* read by tx_engine.  An ACK is held back, and any other event of the     *)
(* session that passes cancels the held ACK, since its segment carries it. *)

Passes(queue, e) ==
  IF e.type = "ACK" THEN queue' = queue /\ ackOwed' = TRUE
                    ELSE queue' = Append(queue, e) /\ ackOwed' = FALSE

RxEvent(e) == Passes(pipe, e)

NoRxEvent == UNCHANGED <<pipe, ackOwed>>

(* The delay of an ACK is over. *)
DelayedAckFires ==
  /\ ackOwed /\ Room(pipe)
  /\ ackOwed' = FALSE
  /\ pipe' = Append(pipe, Ev("ACK", 0))
  /\ UNCHANGED <<table, tx, recvd, rxEng, ml, timerEv, appEv, timers, appSide,
                 answers, told, wire, peer>>

TakeTimerEvent ==
  /\ pipe = <<>> /\ timerEv # <<>>
  /\ Passes(pipe, Head(timerEv))
  /\ timerEv' = Tail(timerEv)
  /\ UNCHANGED <<table, tx, recvd, rxEng, ml, appEv, timers, appSide, answers,
                 told, wire, peer>>

TakeAppEvent ==
  /\ pipe = <<>> /\ timerEv = <<>> /\ appEv # <<>>
  /\ Passes(pipe, Head(appEv))
  /\ appEv' = Tail(appEv)
  /\ UNCHANGED <<table, tx, recvd, rxEng, ml, timerEv, timers, appSide, answers,
                 told, wire, peer>>

EventStep == DelayedAckFires \/ TakeTimerEvent \/ TakeAppEvent

-----------------------------------------------------------------------------
(* retransmit_timer, probe_timer and close_timer for one session.  Time is *)
(* left out: an active timer may expire at any time. *)

RetriesLeft == rt.retries < MaxRetries

(* The retransmit timer fires the event it was set for, again and again,   *)
(* until the retries are used up: then the session is given up.            *)
RtExpires ==
  /\ rt.active /\ Room(timerEv)
  /\ \/ /\ RetriesLeft
        /\ rt' = [rt EXCEPT !.active = FALSE, !.retries = @ + 1]
        /\ timerEv' = Append(timerEv, Ev(rt.type, rt.retries + 1))
        /\ UNCHANGED <<giveUp, answers, told>>
     \/ /\ ~RetriesLeft
        /\ rt' = [rt EXCEPT !.active = FALSE, !.retries = 0]
        /\ giveUp' = giveUp + 1
        /\ IF rt.type = "SYN" THEN TellFailure /\ UNCHANGED told
                              ELSE TellClose /\ UNCHANGED answers
        /\ UNCHANGED timerEv
  /\ UNCHANGED <<table, tx, recvd, rxEng, ml, pipe, appEv, ackOwed, probe,
                 closeTimer, appSide, wire, peer>>

ProbeExpires ==
  /\ probe /\ Room(timerEv)
  /\ probe' = FALSE
  /\ timerEv' = Append(timerEv, Ev("TX", 0))
  /\ UNCHANGED <<table, tx, recvd, rxEng, ml, pipe, appEv, ackOwed, rt,
                 closeTimer, giveUp, appSide, answers, told, wire, peer>>

(* The end of TIME_WAIT. *)
CloseExpires ==
  /\ closeTimer
  /\ closeTimer' = FALSE
  /\ giveUp' = giveUp + 1
  /\ UNCHANGED <<table, tx, recvd, rxEng, ml, events, rt, probe, appSide,
                 answers, told, wire, peer>>

(* state_table.cpp serves the request of a timer: not while rx_engine has  *)
(* the state locked. *)
TimerRelease ==
  /\ giveUp > 0 /\ rxPkt = <<>> /\ releases < QueueDepth
  /\ giveUp' = giveUp - 1
  /\ WriteState("CLOSED")
  /\ UNCHANGED <<mapped, tx, recvd, rxEng, ml, events, rt, probe, closeTimer,
                 appSide, answers, told, wire, peer>>

(* session_lookup_controller.cpp deletes the entry of the connection. *)
LookupRelease ==
  /\ releases > 0
  /\ releases' = releases - 1 /\ mapped' = FALSE
  /\ UNCHANGED <<state, tx, recvd, rxEng, ml, events, timers, appSide, answers,
                 told, wire, peer>>

ReleaseStep == TimerRelease \/ LookupRelease
=============================================================================
