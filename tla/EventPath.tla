----------------------------- MODULE EventPath -----------------------------
(***************************************************************************)
(* The way of an event from its source to the transmit engine:             *)
(* event_engine.cpp, ack_delay.cpp and the read of metaLoader.             *)
(*                                                                         *)
(* The event engine takes an event of a timer or of the application only   *)
(* when every event before it has been read.  It cannot see the two FIFOs  *)
(* in front of it: it counts its own writes and the reads and writes that  *)
(* the other processes report by tokens, in counters that wrap around.     *)
(***************************************************************************)
EXTENDS Integers, Sequences

CONSTANTS
  MaxSession,  \* MAX_SESSIONS - 1
  AckTime,     \* TIME_100ms, in sweeps over the sessions
  SourceDepth, \* of the FIFOs of the sources, 4 and more in the code
  DelayDepth,  \* of eventEng2ackDelay_event, 4 in the code
  TxDepth,     \* of eventEng2txEng_event, 16 in the code
  TokenDepth,  \* of the three token FIFOs, 2 in the code
  CounterMod   \* the counters have 8 bits, 256 in the code

ASSUME EventPathAssumption ==
  /\ MaxSession \in Nat
  /\ {AckTime, SourceDepth, DelayDepth, TxDepth, TokenDepth, CounterMod} \subseteq Nat \ {0}
  /\ DelayDepth + TokenDepth < CounterMod
  /\ TxDepth + TokenDepth < CounterMod

Sessions == 0 .. MaxSession

(* For the transmit engine an event sends an acknowledgement with its      *)
(* segment (SEG), or it sends none for its session (BLANK): a TX or RT     *)
(* with nothing to send, and the RST for a connection that does not exist, *)
(* which carries session 0. *)
Event == [type : {"ACK", "SEG", "BLANK"}, session : Sessions]

VARIABLES
  rxEv, timerEv, appEv, \* the FIFOs of the sources
  count,      \* the counters of the event engine
  toDelay,    \* eventEng2ackDelay_event
  adRead,     \* tokens in ackDelayFifoReadCount
  held,       \* <<event>> that ack_delay has read and not yet written
  ackTable,   \* sweeps until the delayed ACK of a session
  pointer,    \* ad_pointer
  toTx,       \* eventEng2txEng_event
  adWrite,    \* tokens in ackDelayFifoWriteCount
  txRead,     \* tokens in txEngFifoReadCount
  owed,       \* sessions with an ACK event and no segment since
  cancelled   \* sessions whose delayed ACK was cancelled by a BLANK event

sources == <<rxEv, timerEv, appEv>>
delay   == <<held, ackTable, pointer>>
ghosts  == <<owed, cancelled>>
vars == <<sources, count, toDelay, adRead, delay, toTx, adWrite, txRead, ghosts>>

Init ==
  /\ rxEv = <<>> /\ timerEv = <<>> /\ appEv = <<>>
  /\ count = [write |-> 0, adRead |-> 0, adWrite |-> 0, txRead |-> 0]
  /\ toDelay = <<>> /\ toTx = <<>> /\ held = <<>>
  /\ adRead = 0 /\ adWrite = 0 /\ txRead = 0
  /\ ackTable = [s \in Sessions |-> 0] /\ pointer = 0
  /\ owed = {} /\ cancelled = {}

-----------------------------------------------------------------------------
(* The sources: the receive engine, the timers and the application. *)

RxEvent(e) ==
  /\ Len(rxEv) < SourceDepth
  /\ rxEv' = Append(rxEv, e)
  /\ owed' = IF e.type = "ACK" THEN owed \cup {e.session} ELSE owed
  /\ cancelled' = IF e.type = "ACK" THEN cancelled \ {e.session} ELSE cancelled
  /\ UNCHANGED <<timerEv, appEv, count, toDelay, adRead, delay, toTx, adWrite, txRead>>

TimerEvent(e) ==
  /\ Len(timerEv) < SourceDepth /\ e.type # "ACK"
  /\ timerEv' = Append(timerEv, e)
  /\ UNCHANGED <<rxEv, appEv, count, toDelay, adRead, delay, toTx, adWrite, txRead, ghosts>>

AppEvent(e) ==
  /\ Len(appEv) < SourceDepth /\ e.type # "ACK"
  /\ appEv' = Append(appEv, e)
  /\ UNCHANGED <<rxEv, timerEv, count, toDelay, adRead, delay, toTx, adWrite, txRead, ghosts>>

-----------------------------------------------------------------------------
(* event_engine: forward at most one event, then take a token from each    *)
(* FIFO that has one. *)

Inc(n) == IF n = CounterMod - 1 THEN 0 ELSE n + 1

RxGoes == rxEv # <<>> /\ Len(toDelay) < DelayDepth

(* Fault: only the reads of the transmit engine are waited for. *)
QuietBehind == count.adWrite = count.txRead

(* By the counters nothing is under way. *)
Quiet == count.write = count.adRead /\ count.adWrite = count.txRead

(* The counters after a call that forwards an event, or does not. *)
Counted(forwards) ==
  count' = [write   |-> IF forwards THEN Inc(count.write) ELSE count.write,
            adRead  |-> IF adRead > 0 THEN Inc(count.adRead) ELSE count.adRead,
            adWrite |-> IF adWrite > 0 THEN Inc(count.adWrite) ELSE count.adWrite,
            txRead  |-> IF txRead > 0 THEN Inc(count.txRead) ELSE count.txRead]

TakeTokens ==
  /\ adRead' = IF adRead > 0 THEN adRead - 1 ELSE 0
  /\ adWrite' = IF adWrite > 0 THEN adWrite - 1 ELSE 0
  /\ txRead' = IF txRead > 0 THEN txRead - 1 ELSE 0
  /\ UNCHANGED <<delay, toTx, ghosts>>

ForwardRx ==
  /\ RxGoes
  /\ toDelay' = Append(toDelay, Head(rxEv)) /\ rxEv' = Tail(rxEv)
  /\ UNCHANGED <<timerEv, appEv>>
  /\ Counted(TRUE) /\ TakeTokens

(* The writes of the next two do not look whether there is room: without   *)
(* it the event engine would block, and take no token either. *)
ForwardTimer ==
  /\ ~RxGoes /\ Quiet /\ timerEv # <<>>
  /\ Len(toDelay) < DelayDepth
  /\ toDelay' = Append(toDelay, Head(timerEv)) /\ timerEv' = Tail(timerEv)
  /\ UNCHANGED <<rxEv, appEv>>
  /\ Counted(TRUE) /\ TakeTokens

ForwardApp ==
  /\ ~RxGoes /\ Quiet /\ timerEv = <<>> /\ appEv # <<>>
  /\ Len(toDelay) < DelayDepth
  /\ toDelay' = Append(toDelay, Head(appEv)) /\ appEv' = Tail(appEv)
  /\ UNCHANGED <<rxEv, timerEv>>
  /\ Counted(TRUE) /\ TakeTokens

CountOnly ==
  /\ ~RxGoes /\ ~(Quiet /\ (timerEv # <<>> \/ appEv # <<>>))
  /\ adRead + adWrite + txRead > 0
  /\ Counted(FALSE) /\ TakeTokens
  /\ UNCHANGED <<sources, toDelay>>

EventEngine == ForwardRx \/ ForwardTimer \/ ForwardApp \/ CountOnly

-----------------------------------------------------------------------------
(* ack_delay: an ACK waits in the table, unless one waits already; every   *)
(* other event is passed on and cancels the ACK of its session. *)

(* Fault: no token for an event that is not passed on. *)
DelayTakeSilent ==
  /\ held = <<>> /\ toDelay # <<>> /\ adRead < TokenDepth
  /\ LET e == Head(toDelay) IN
       IF e.type = "ACK"
       THEN /\ ackTable' = [ackTable EXCEPT ![e.session] = IF @ = 0 THEN AckTime ELSE @]
            /\ UNCHANGED <<adRead, held, cancelled>>
       ELSE /\ ackTable' = [ackTable EXCEPT ![e.session] = 0]
            /\ held' = <<e>> /\ adRead' = adRead + 1
            /\ cancelled' = IF e.type = "BLANK" THEN cancelled \cup {e.session} ELSE cancelled
  /\ toDelay' = Tail(toDelay)
  /\ UNCHANGED <<sources, count, pointer, toTx, adWrite, txRead, owed>>

DelayTake ==
  /\ held = <<>> /\ toDelay # <<>> /\ adRead < TokenDepth
  /\ adRead' = adRead + 1
  /\ LET e == Head(toDelay) IN
       IF e.type = "ACK"
       THEN /\ ackTable' = [ackTable EXCEPT ![e.session] = IF @ = 0 THEN AckTime ELSE @]
            /\ UNCHANGED <<held, cancelled>>
       ELSE /\ ackTable' = [ackTable EXCEPT ![e.session] = 0]
            /\ held' = <<e>>
            /\ cancelled' = IF e.type = "BLANK" THEN cancelled \cup {e.session} ELSE cancelled
  /\ toDelay' = Tail(toDelay)
  /\ UNCHANGED <<sources, count, pointer, toTx, adWrite, txRead, owed>>

DelayPut ==
  /\ held # <<>> /\ Len(toTx) < TxDepth /\ adWrite < TokenDepth
  /\ toTx' = Append(toTx, Head(held)) /\ adWrite' = adWrite + 1
  /\ held' = <<>>
  /\ UNCHANGED <<sources, count, toDelay, adRead, ackTable, pointer, txRead, ghosts>>

NextPointer == pointer' = IF pointer = MaxSession THEN 0 ELSE pointer + 1

(* Fault: the time goes on while the output is full. *)
SweepBlind ==
  /\ held = <<>> /\ toDelay = <<>> /\ adWrite < TokenDepth
  /\ NextPointer
  /\ ackTable' = [ackTable EXCEPT ![pointer] = IF @ > 0 THEN @ - 1 ELSE 0]
  /\ IF ackTable[pointer] = 1 /\ Len(toTx) < TxDepth
     THEN /\ toTx' = Append(toTx, [type |-> "ACK", session |-> pointer])
          /\ adWrite' = adWrite + 1
     ELSE UNCHANGED <<toTx, adWrite>>
  /\ UNCHANGED <<sources, count, toDelay, adRead, held, txRead, ghosts>>

Sweep ==
  /\ held = <<>> /\ toDelay = <<>>
  /\ NextPointer
  /\ IF ackTable[pointer] > 0 /\ Len(toTx) < TxDepth
     THEN /\ ackTable' = [ackTable EXCEPT ![pointer] = @ - 1]
          /\ IF ackTable[pointer] = 1
             THEN /\ adWrite < TokenDepth
                  /\ toTx' = Append(toTx, [type |-> "ACK", session |-> pointer])
                  /\ adWrite' = adWrite + 1
             ELSE UNCHANGED <<toTx, adWrite>>
     ELSE UNCHANGED <<ackTable, toTx, adWrite>>
  /\ UNCHANGED <<sources, count, toDelay, adRead, held, txRead, ghosts>>

AckDelay == DelayTake \/ DelayPut \/ Sweep

(* metaLoader, state 0. *)
TxTake ==
  /\ toTx # <<>> /\ txRead < TokenDepth
  /\ txRead' = txRead + 1
  /\ toTx' = Tail(toTx)
  /\ owed' = IF Head(toTx).type = "BLANK" THEN owed ELSE owed \ {Head(toTx).session}
  /\ UNCHANGED <<sources, count, toDelay, adRead, delay, adWrite, cancelled>>

Sources == \E e \in Event : RxEvent(e) \/ TimerEvent(e) \/ AppEvent(e)

Next == Sources \/ EventEngine \/ AckDelay \/ TxTake

Spec == Init /\ [][Next]_vars

(* All processes run all the time. *)
Fairness ==
  /\ WF_vars(EventEngine) /\ WF_vars(DelayTake \/ DelayPut) /\ WF_vars(Sweep)
  /\ WF_vars(TxTake)

-----------------------------------------------------------------------------
Fifo(q, depth) == q \in Seq(Event) /\ Len(q) <= depth
Counter == 0 .. CounterMod - 1

TypeOK ==
  /\ Fifo(rxEv, SourceDepth) /\ Fifo(timerEv, SourceDepth) /\ Fifo(appEv, SourceDepth)
  /\ count \in [write : Counter, adRead : Counter, adWrite : Counter, txRead : Counter]
  /\ Fifo(toDelay, DelayDepth) /\ Fifo(toTx, TxDepth) /\ Fifo(held, 1)
  /\ {adRead, adWrite, txRead} \subseteq 0 .. TokenDepth
  /\ ackTable \in [Sessions -> 0 .. AckTime] /\ pointer \in Sessions
  /\ owed \subseteq Sessions /\ cancelled \subseteq Sessions

(* a is n ahead of b, counted with wrap-around. *)
Ahead(a, b, n) == a = b + n \/ a = b + n - CounterMod \/ a = b + n + CounterMod

(* The counters of the event engine tell what is in the FIFOs that it does *)
(* not see, up to the tokens that are still on their way. *)
CountersTrue ==
  /\ Ahead(count.write, count.adRead, Len(toDelay) + adRead)
  /\ Ahead(count.adWrite, count.txRead, Len(toTx) + txRead - adWrite)

(* When the counters say that nothing is under way, the write without a    *)
(* test finds room: the event engine never blocks, so it always takes the  *)
(* tokens that the other processes need to get rid of. *)
NeverBlocks == Quiet => toDelay = <<>>

Carries(q, s) == \E i \in DOMAIN q : q[i].session = s /\ q[i].type # "BLANK"

(* Data that has to be acknowledged is: an ACK event or a segment of the   *)
(* session is under way, or the ACK waits in the table.  Only an event     *)
(* that sends nothing can take its place. *)
AckUnderWay ==
  \A s \in owed :
    \/ s \in cancelled \/ ackTable[s] > 0
    \/ \E q \in {rxEv, toDelay, held, toTx} : Carries(q, s)

(* Every event reaches the transmit engine, and every ACK is sent, once    *)
(* the sources fall silent: no token is lost and nobody waits for ever. *)
Empty ==
  /\ rxEv = <<>> /\ timerEv = <<>> /\ appEv = <<>>
  /\ toDelay = <<>> /\ held = <<>> /\ toTx = <<>>
  /\ \A s \in Sessions : ackTable[s] = 0
EventsDrain == <>[]Empty
=============================================================================
