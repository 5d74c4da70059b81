-------------------------- MODULE EventPathProofs --------------------------
(***************************************************************************)
(* The counters of the event engine are true for every depth of the FIFOs  *)
(* and every width of the counters that can tell a full path from an empty *)
(* one, so the write without a test never blocks.                          *)
(*                                                                         *)
(* Types and counters are one inductive invariant: a counter that wraps    *)
(* around is compared with lengths whose bounds are part of the types.     *)
(***************************************************************************)
EXTENDS EventPath, TLAPS

LEMMA InitInvariant == Init => TypeOK /\ CountersTrue
<1>1. ASSUME Init PROVE TypeOK
  <2>1. [s \in Sessions |-> 0] \in [Sessions -> 0 .. AckTime] /\ 0 \in Sessions
    BY EventPathAssumption DEF Sessions
  <2>2. count \in [write : Counter, adRead : Counter, adWrite : Counter, txRead : Counter]
    BY <1>1, EventPathAssumption DEF Init, Counter
  <2>. QED BY <1>1, <2>1, <2>2, EventPathAssumption DEF Init, TypeOK, Fifo
<1>2. ASSUME Init PROVE CountersTrue
  BY <1>2 DEF Init, CountersTrue, Ahead
<1>. QED BY <1>1, <1>2

(* Reading the head of a FIFO and writing to its end. *)
LEMMA FifoTail ==
  ASSUME NEW q, NEW d \in Nat, Fifo(q, d), q # <<>>
  PROVE  /\ Head(q) \in Event /\ Fifo(Tail(q), d)
         /\ Len(q) > 0 /\ Len(Tail(q)) = Len(q) - 1
  BY DEF Fifo

LEMMA FifoAppend ==
  ASSUME NEW q, NEW d \in Nat, Fifo(q, d), Len(q) < d, NEW e \in Event
  PROVE  Fifo(Append(q, e), d) /\ Len(Append(q, e)) = Len(q) + 1
  BY DEF Fifo

LEMMA Constants ==
  /\ SourceDepth \in Nat \ {0} /\ DelayDepth \in Nat \ {0} /\ TxDepth \in Nat \ {0}
  /\ TokenDepth \in Nat \ {0} /\ CounterMod \in Nat \ {0}
  /\ AckTime \in Nat \ {0} /\ MaxSession \in Nat
  /\ DelayDepth + TokenDepth < CounterMod /\ TxDepth + TokenDepth < CounterMod
  BY EventPathAssumption

(* One more on either side of the comparison. *)
LEMMA IncLeft ==
  ASSUME NEW a \in Counter, NEW b \in Counter, NEW n \in Int,
         Ahead(a, b, n), -CounterMod < n, n < CounterMod
  PROVE  Inc(a) \in Counter /\ Ahead(Inc(a), b, n + 1)
  BY Constants DEF Counter, Ahead, Inc

LEMMA IncRight ==
  ASSUME NEW a \in Counter, NEW b \in Counter, NEW n \in Int,
         Ahead(a, b, n), -CounterMod < n, n < CounterMod
  PROVE  Inc(b) \in Counter /\ Ahead(a, Inc(b), n - 1)
  BY Constants DEF Counter, Ahead, Inc

(* A call of the event engine that leaves toDelay with len elements, one   *)
(* more than before if it forwards an event: it counts the tokens that it  *)
(* takes. *)
LEMMA TokensCounted ==
  ASSUME TypeOK, CountersTrue, NEW f \in BOOLEAN, Counted(f), TakeTokens,
         NEW len \in Nat, len <= DelayDepth,
         f => len = Len(toDelay) + 1, ~f => len = Len(toDelay), Len(toDelay') = len
  PROVE  /\ CountersTrue'
         /\ count' \in [write : Counter, adRead : Counter, adWrite : Counter, txRead : Counter]
         /\ {adRead', adWrite', txRead'} \subseteq 0 .. TokenDepth
<1>. DEFINE a == IF f THEN Inc(count.write) ELSE count.write
            b == IF adRead > 0 THEN Inc(count.adRead) ELSE count.adRead
            c == IF adWrite > 0 THEN Inc(count.adWrite) ELSE count.adWrite
            d == IF txRead > 0 THEN Inc(count.txRead) ELSE count.txRead
            r == IF adRead > 0 THEN adRead - 1 ELSE 0
            w == IF adWrite > 0 THEN adWrite - 1 ELSE 0
            t == IF txRead > 0 THEN txRead - 1 ELSE 0
<1>1. /\ count.write \in Counter /\ count.adRead \in Counter
      /\ count.adWrite \in Counter /\ count.txRead \in Counter
  BY DEF TypeOK
<1>2. /\ Len(toDelay) \in Nat /\ Len(toDelay) <= DelayDepth
      /\ Len(toTx) \in Nat /\ Len(toTx) <= TxDepth
      /\ adRead \in 0 .. TokenDepth /\ adWrite \in 0 .. TokenDepth /\ txRead \in 0 .. TokenDepth
  BY DEF TypeOK, Fifo
<1>3. r \in 0 .. TokenDepth /\ w \in 0 .. TokenDepth /\ t \in 0 .. TokenDepth
  BY <1>2, Constants
<1>4. a \in Counter /\ b \in Counter /\ Ahead(a, b, len + r)
  <2>. DEFINE n == Len(toDelay) + adRead
  <2>1. Ahead(count.write, count.adRead, n) /\ n \in Int /\ -CounterMod < n /\ n < CounterMod
    BY <1>2, Constants DEF CountersTrue
  <2>2. b \in Counter /\ Ahead(count.write, b, Len(toDelay) + r)
    <3>. HIDE DEF n
    <3>1. CASE adRead > 0
      <4>1. b = Inc(count.adRead) /\ Len(toDelay) + r = n - 1
        BY <1>2, <3>1 DEF n
      <4>. QED BY <1>1, <2>1, <4>1, IncRight
    <3>2. CASE ~(adRead > 0)
      BY <1>1, <1>2, <2>1, <3>2 DEF n
    <3>. QED BY <3>1, <3>2
  <2>3. Len(toDelay) + r \in Int /\ -CounterMod < Len(toDelay) + r /\ Len(toDelay) + r < CounterMod
    BY <1>2, <1>3, Constants
  <2>4. CASE f
    <3>1. a = Inc(count.write) /\ len + r = Len(toDelay) + r + 1
      BY <1>2, <1>3, <2>4
    <3>. HIDE DEF a, b, r
    <3>. QED BY <1>1, <2>2, <2>3, <3>1, IncLeft
  <2>5. CASE ~f
    BY <1>1, <2>2, <2>5
  <2>. QED BY <2>4, <2>5
<1>5. c \in Counter /\ d \in Counter /\ Ahead(c, d, Len(toTx) + t - w)
  <2>. DEFINE n == Len(toTx) + txRead - adWrite
              m == Len(toTx) + t - adWrite
  <2>1. Ahead(count.adWrite, count.txRead, n) /\ n \in Int /\ -CounterMod < n /\ n < CounterMod
    <3>1. Ahead(count.adWrite, count.txRead, n)
      BY DEF CountersTrue
    <3>2. /\ 0 <= adWrite /\ adWrite <= TokenDepth /\ 0 <= txRead /\ txRead <= TokenDepth
          /\ adWrite \in Int /\ txRead \in Int
      BY <1>2, Constants
    <3>. HIDE DEF a, b, c, d, r, w, t, m
    <3>3. n \in Int /\ -CounterMod < n /\ n < CounterMod
      BY <1>2, <3>2, Constants
    <3>. QED BY <3>1, <3>3
  <2>2. d \in Counter /\ Ahead(count.adWrite, d, m)
    <3>1. CASE txRead > 0
      <4>1. d = Inc(count.txRead)
        BY <3>1
      <4>2. m = n - 1
        <5>1. t = txRead - 1
          BY <3>1
        <5>2. /\ Len(toTx) \in Int /\ adWrite \in Int /\ txRead \in Int
          BY <1>2
        <5>. HIDE DEF a, b, c, d, r, w, t
        <5>. QED BY <5>1, <5>2
      <4>. HIDE DEF n, m, d
      <4>. QED BY <1>1, <2>1, <4>1, <4>2, IncRight
    <3>2. CASE ~(txRead > 0)
      <4>1. d = count.txRead /\ m = n
        BY <1>2, <3>2
      <4>. HIDE DEF n, m, d
      <4>. QED BY <1>1, <2>1, <4>1
    <3>. QED BY <3>1, <3>2
  <2>3. m \in Int /\ -CounterMod < m /\ m < CounterMod
    <3>. HIDE DEF a, b, c, d, r, w, t, n
    <3>1. t \in Nat /\ t <= TokenDepth
      BY <1>3, Constants
    <3>2. m = Len(toTx) + t - adWrite
      OBVIOUS
    <3>. HIDE DEF m
    <3>. QED BY <1>2, <3>1, <3>2, Constants
  <2>4. CASE adWrite > 0
    <3>1. c = Inc(count.adWrite) /\ Len(toTx) + t - w = m + 1
      BY <1>2, <1>3, <2>4
    <3>. HIDE DEF c, d, m
    <3>. QED BY <1>1, <2>2, <2>3, <3>1, IncLeft
  <2>5. CASE ~(adWrite > 0)
    <3>1. c = count.adWrite /\ Len(toTx) + t - w = m
      BY <1>2, <1>3, <2>5
    <3>. HIDE DEF c, d, m
    <3>. QED BY <1>1, <2>2, <3>1
  <2>. QED BY <2>4, <2>5
<1>6. /\ count' = [write |-> a, adRead |-> b, adWrite |-> c, txRead |-> d]
      /\ adRead' = r /\ adWrite' = w /\ txRead' = t /\ toTx' = toTx
  BY DEF Counted, TakeTokens
<1>. HIDE DEF a, b, c, d, r, w, t
<1>. QED BY <1>3, <1>4, <1>5, <1>6 DEF CountersTrue

LEMMA StepInvariant == TypeOK /\ CountersTrue /\ [Next]_vars => TypeOK' /\ CountersTrue'
<1> SUFFICES ASSUME TypeOK, CountersTrue, [Next]_vars PROVE TypeOK' /\ CountersTrue'
  OBVIOUS
<1>a. /\ SourceDepth \in Nat /\ DelayDepth \in Nat /\ TxDepth \in Nat /\ TokenDepth \in Nat
      /\ AckTime \in Nat /\ MaxSession \in Nat
  BY Constants
<1>b. \A e \in Event : e.session \in Sessions
  BY DEF Event
<1>1. ASSUME NEW e \in Event, RxEvent(e) PROVE TypeOK' /\ CountersTrue'
  <2>1. Fifo(rxEv', SourceDepth)
    BY <1>a, <1>1, FifoAppend DEF RxEvent, TypeOK
  <2>2. owed' \subseteq Sessions /\ cancelled' \subseteq Sessions
    BY <1>b, <1>1 DEF RxEvent, TypeOK
  <2>. QED BY <1>1, <2>1, <2>2 DEF RxEvent, TypeOK, CountersTrue, delay
<1>2. ASSUME NEW e \in Event, TimerEvent(e) PROVE TypeOK' /\ CountersTrue'
  <2>1. Fifo(timerEv', SourceDepth)
    BY <1>a, <1>2, FifoAppend DEF TimerEvent, TypeOK
  <2>. QED BY <1>2, <2>1 DEF TimerEvent, TypeOK, CountersTrue, delay, ghosts
<1>3. ASSUME NEW e \in Event, AppEvent(e) PROVE TypeOK' /\ CountersTrue'
  <2>1. Fifo(appEv', SourceDepth)
    BY <1>a, <1>3, FifoAppend DEF AppEvent, TypeOK
  <2>. QED BY <1>3, <2>1 DEF AppEvent, TypeOK, CountersTrue, delay, ghosts
<1>4. CASE EventEngine
  <2>1. CASE ForwardRx
    <3>1. /\ Fifo(rxEv', SourceDepth) /\ Fifo(toDelay', DelayDepth)
          /\ Len(toDelay') = Len(toDelay) + 1 /\ Len(toDelay) < DelayDepth
      BY <1>a, <2>1, FifoTail, FifoAppend DEF ForwardRx, RxGoes, TypeOK
    <3>2. CountersTrue' /\ count' \in [write : Counter, adRead : Counter, adWrite : Counter, txRead : Counter]
          /\ {adRead', adWrite', txRead'} \subseteq 0 .. TokenDepth
      <4>1. Len(toDelay) \in Nat BY DEF TypeOK, Fifo
      <4>2. Counted(TRUE) /\ TakeTokens BY <2>1 DEF ForwardRx
      <4>3. Len(toDelay) + 1 \in Nat /\ Len(toDelay) + 1 <= DelayDepth BY <1>a, <3>1, <4>1
      <4>4. Len(toDelay') = Len(toDelay) + 1 BY <3>1
      <4>. HIDE DEF TypeOK, CountersTrue, Counted, TakeTokens
      <4>. QED BY <4>2, <4>3, <4>4, TokensCounted
    <3>. QED BY <2>1, <3>1, <3>2 DEF ForwardRx, TakeTokens, TypeOK, delay, ghosts
  <2>2. CASE ForwardTimer
    <3>1. /\ Fifo(timerEv', SourceDepth) /\ Fifo(toDelay', DelayDepth)
          /\ Len(toDelay') = Len(toDelay) + 1 /\ Len(toDelay) < DelayDepth
      BY <1>a, <2>2, FifoTail, FifoAppend DEF ForwardTimer, TypeOK
    <3>2. CountersTrue' /\ count' \in [write : Counter, adRead : Counter, adWrite : Counter, txRead : Counter]
          /\ {adRead', adWrite', txRead'} \subseteq 0 .. TokenDepth
      <4>1. Len(toDelay) \in Nat BY DEF TypeOK, Fifo
      <4>2. Counted(TRUE) /\ TakeTokens BY <2>2 DEF ForwardTimer
      <4>3. Len(toDelay) + 1 \in Nat /\ Len(toDelay) + 1 <= DelayDepth BY <1>a, <3>1, <4>1
      <4>4. Len(toDelay') = Len(toDelay) + 1 BY <3>1
      <4>. HIDE DEF TypeOK, CountersTrue, Counted, TakeTokens
      <4>. QED BY <4>2, <4>3, <4>4, TokensCounted
    <3>. QED BY <2>2, <3>1, <3>2 DEF ForwardTimer, TakeTokens, TypeOK, delay, ghosts
  <2>3. CASE ForwardApp
    <3>1. /\ Fifo(appEv', SourceDepth) /\ Fifo(toDelay', DelayDepth)
          /\ Len(toDelay') = Len(toDelay) + 1 /\ Len(toDelay) < DelayDepth
      BY <1>a, <2>3, FifoTail, FifoAppend DEF ForwardApp, TypeOK
    <3>2. CountersTrue' /\ count' \in [write : Counter, adRead : Counter, adWrite : Counter, txRead : Counter]
          /\ {adRead', adWrite', txRead'} \subseteq 0 .. TokenDepth
      <4>1. Len(toDelay) \in Nat BY DEF TypeOK, Fifo
      <4>2. Counted(TRUE) /\ TakeTokens BY <2>3 DEF ForwardApp
      <4>3. Len(toDelay) + 1 \in Nat /\ Len(toDelay) + 1 <= DelayDepth BY <1>a, <3>1, <4>1
      <4>4. Len(toDelay') = Len(toDelay) + 1 BY <3>1
      <4>. HIDE DEF TypeOK, CountersTrue, Counted, TakeTokens
      <4>. QED BY <4>2, <4>3, <4>4, TokensCounted
    <3>. QED BY <2>3, <3>1, <3>2 DEF ForwardApp, TakeTokens, TypeOK, delay, ghosts
  <2>4. CASE CountOnly
    <3>1. Fifo(toDelay', DelayDepth) /\ toDelay' = toDelay /\ Len(toDelay) \in Nat /\ Len(toDelay) <= DelayDepth
      BY <2>4 DEF CountOnly, TypeOK, Fifo
    <3>2. CountersTrue' /\ count' \in [write : Counter, adRead : Counter, adWrite : Counter, txRead : Counter]
          /\ {adRead', adWrite', txRead'} \subseteq 0 .. TokenDepth
      <4>1. Counted(FALSE) /\ TakeTokens BY <2>4 DEF CountOnly
      <4>. QED BY <3>1, <4>1, TokensCounted
    <3>. QED BY <2>4, <3>1, <3>2 DEF CountOnly, sources, TakeTokens, TypeOK, delay, ghosts
  <2>. QED BY <1>4, <2>1, <2>2, <2>3, <2>4 DEF EventEngine
<1>5. CASE DelayTake
  <2>. DEFINE e == Head(toDelay)
  <2>1. /\ e \in Event /\ Fifo(toDelay', DelayDepth)
        /\ Len(toDelay) > 0 /\ Len(toDelay') = Len(toDelay) - 1
    BY <1>a, <1>5, FifoTail DEF DelayTake, TypeOK
  <2>2. adRead' = adRead + 1 /\ adRead' \in 0 .. TokenDepth
    BY <1>a, <1>5 DEF DelayTake, TypeOK
  <2>3. ackTable' \in [Sessions -> 0 .. AckTime]
    <3>1. ackTable \in [Sessions -> 0 .. AckTime] BY DEF TypeOK
    <3>. QED BY <1>a, <1>b, <1>5, <2>1, <3>1 DEF DelayTake
  <2>4. Fifo(held', 1) /\ cancelled' \subseteq Sessions
    <3>1. held = <<>> /\ Fifo(held, 1) /\ cancelled \subseteq Sessions
      BY <1>5 DEF DelayTake, TypeOK
    <3>2. Fifo(<<e>>, 1) BY <2>1 DEF Fifo
    <3>. QED BY <1>b, <1>5, <2>1, <3>1, <3>2 DEF DelayTake
  <2>5. CountersTrue'
    <3>1. Len(toDelay') + adRead' = Len(toDelay) + adRead
      <4>1. Len(toDelay) \in Nat /\ adRead \in Int
        BY <1>a DEF TypeOK, Fifo
      <4>. QED BY <2>1, <2>2, <4>1
    <3>. QED BY <1>5, <3>1 DEF DelayTake, CountersTrue
  <2>. QED BY <1>5, <2>1, <2>2, <2>3, <2>4, <2>5 DEF DelayTake, TypeOK, sources
<1>6. CASE DelayPut
  <2>1. Head(held) \in Event
    BY <1>6, FifoTail DEF DelayPut, TypeOK
  <2>2. Fifo(toTx', TxDepth) /\ Len(toTx') = Len(toTx) + 1
    BY <1>a, <1>6, <2>1, FifoAppend DEF DelayPut, TypeOK
  <2>3. adWrite' = adWrite + 1 /\ adWrite' \in 0 .. TokenDepth
    BY <1>a, <1>6 DEF DelayPut, TypeOK
  <2>4. CountersTrue'
    <3>1. Len(toTx') + txRead' - adWrite' = Len(toTx) + txRead - adWrite
      <4>1. Len(toTx) \in Nat /\ txRead \in Int /\ adWrite \in Int
        BY <1>a DEF TypeOK, Fifo
      <4>2. txRead' = txRead
        BY <1>6 DEF DelayPut
      <4>. QED BY <2>2, <2>3, <4>1, <4>2
    <3>. QED BY <1>6, <3>1 DEF DelayPut, CountersTrue
  <2>5. Fifo(held', 1)
    BY <1>6 DEF DelayPut, Fifo
  <2>. QED BY <1>6, <2>2, <2>3, <2>4, <2>5 DEF DelayPut, TypeOK, sources, ghosts
<1>7. CASE Sweep
  <2>1. pointer' \in Sessions
    BY <1>a, <1>7 DEF Sweep, NextPointer, TypeOK, Sessions
  <2>2. ackTable' \in [Sessions -> 0 .. AckTime]
    <3>1. ackTable \in [Sessions -> 0 .. AckTime] /\ pointer \in Sessions BY DEF TypeOK
    <3>. QED BY <1>a, <1>7, <3>1 DEF Sweep
  <2>3. \/ toTx' = toTx /\ adWrite' = adWrite
        \/ /\ Fifo(toTx', TxDepth) /\ Len(toTx') = Len(toTx) + 1
           /\ adWrite' = adWrite + 1 /\ adWrite' \in 0 .. TokenDepth
    <3>. DEFINE ack == [type |-> "ACK", session |-> pointer]
    <3>1. ack \in Event /\ Fifo(toTx, TxDepth) /\ adWrite \in 0 .. TokenDepth
      BY DEF Event, TypeOK
    <3>2. CASE Len(toTx) < TxDepth /\ adWrite < TokenDepth /\ toTx' = Append(toTx, ack) /\ adWrite' = adWrite + 1
      BY <1>a, <3>1, <3>2, FifoAppend
    <3>3. CASE UNCHANGED <<toTx, adWrite>>
      BY <3>3
    <3>. QED BY <1>7, <3>2, <3>3 DEF Sweep
  <2>4. CountersTrue'
    <3>1. Len(toTx') + txRead' - adWrite' = Len(toTx) + txRead - adWrite
      <4>1. Len(toTx) \in Nat /\ txRead \in Int /\ adWrite \in Int
        BY <1>a DEF TypeOK, Fifo
      <4>2. txRead' = txRead
        BY <1>7 DEF Sweep
      <4>. QED BY <2>3, <4>1, <4>2
    <3>. QED BY <1>7, <3>1 DEF Sweep, CountersTrue
  <2>. QED BY <1>7, <2>1, <2>2, <2>3, <2>4 DEF Sweep, TypeOK, sources, ghosts
<1>8. CASE TxTake
  <2>1. /\ Head(toTx) \in Event /\ Fifo(toTx', TxDepth)
        /\ Len(toTx) > 0 /\ Len(toTx') = Len(toTx) - 1
    BY <1>a, <1>8, FifoTail DEF TxTake, TypeOK
  <2>2. txRead' = txRead + 1 /\ txRead' \in 0 .. TokenDepth
    BY <1>a, <1>8 DEF TxTake, TypeOK
  <2>3. CountersTrue'
    <3>1. Len(toTx') + txRead' - adWrite' = Len(toTx) + txRead - adWrite
      BY <1>8, <2>1, <2>2 DEF TxTake, TypeOK, Fifo
    <3>. QED BY <1>8, <3>1 DEF TxTake, CountersTrue
  <2>. QED BY <1>8, <2>1, <2>2, <2>3 DEF TxTake, TypeOK, sources, delay
<1>9. CASE UNCHANGED vars
  BY <1>9 DEF vars, sources, delay, ghosts, TypeOK, CountersTrue
<1>. QED BY <1>1, <1>2, <1>3, <1>4, <1>5, <1>6, <1>7, <1>8, <1>9 DEF Next, Sources, AckDelay

(* Every variable keeps its type, and no FIFO holds more than its depth.   *)
THEOREM TypeCorrect == Spec => []TypeOK
<1>. QED BY InitInvariant, StepInvariant, PTL DEF Spec

(* The counters tell what is in the FIFOs in front of the event engine,    *)
(* whatever the order in which the processes run and however the counters  *)
(* wrap around. *)
THEOREM CountersAlwaysTrue == Spec => []CountersTrue
<1>. QED BY InitInvariant, StepInvariant, PTL DEF Spec

LEMMA NoneAhead ==
  ASSUME NEW a \in Counter, NEW n \in Nat, n < CounterMod, Ahead(a, a, n)
  PROVE  n = 0
  BY Constants DEF Counter, Ahead

(* The event engine never blocks in its write without a test of full.      *)
THEOREM EngineNeverBlocks == Spec => []NeverBlocks
<1>1. ASSUME TypeOK, CountersTrue PROVE NeverBlocks
  <2>1. SUFFICES ASSUME Quiet PROVE toDelay = <<>>
    BY DEF NeverBlocks
  <2>2. /\ toDelay \in Seq(Event) /\ Len(toDelay) \in Nat /\ Len(toDelay) <= DelayDepth
        /\ adRead \in 0 .. TokenDepth /\ count.write \in Counter
    BY <1>1 DEF TypeOK, Fifo
  <2>3. count.write = count.adRead /\ Ahead(count.write, count.adRead, Len(toDelay) + adRead)
    BY <1>1, <2>1 DEF CountersTrue, Quiet
  <2>4. Len(toDelay) + adRead = 0
    <3>. DEFINE n == Len(toDelay) + adRead
    <3>1. n \in Nat /\ n < CounterMod
      BY <2>2, Constants
    <3>. HIDE DEF n
    <3>. QED BY <2>2, <2>3, <3>1, NoneAhead DEF n
  <2>5. Len(toDelay) = 0
    BY <2>2, <2>4
  <2>. QED BY <2>2, <2>5
<1>. QED BY <1>1, InitInvariant, StepInvariant, PTL DEF Spec

-----------------------------------------------------------------------------
(* What a FIFO carries for a session, when its head goes and when an event *)
(* comes. *)
LEMMA CarriesTail ==
  ASSUME NEW q \in Seq(Event), q # <<>>, NEW s, Carries(q, s)
  PROVE  Carries(Tail(q), s) \/ (Head(q).session = s /\ Head(q).type # "BLANK")
<1>1. PICK i \in 1 .. Len(q) : q[i].session = s /\ q[i].type # "BLANK"
  BY DEF Carries
<1>2. CASE i = 1
  BY <1>1, <1>2
<1>3. CASE i # 1
  <2>1. i - 1 \in DOMAIN Tail(q) /\ Tail(q)[i - 1] = q[i]
    BY <1>3
  <2>. QED BY <1>1, <2>1 DEF Carries
<1>. QED BY <1>2, <1>3

LEMMA CarriesAppend ==
  ASSUME NEW q \in Seq(Event), NEW e \in Event, NEW s,
         Carries(q, s) \/ (e.session = s /\ e.type # "BLANK")
  PROVE  Carries(Append(q, e), s)
<1>1. CASE Carries(q, s)
  <2>1. PICK i \in 1 .. Len(q) : q[i].session = s /\ q[i].type # "BLANK"
    BY <1>1 DEF Carries
  <2>2. i \in DOMAIN Append(q, e) /\ Append(q, e)[i] = q[i]
    OBVIOUS
  <2>. QED BY <2>1, <2>2 DEF Carries
<1>2. CASE e.session = s /\ e.type # "BLANK"
  <2>1. Len(q) + 1 \in DOMAIN Append(q, e) /\ Append(q, e)[Len(q) + 1] = e
    OBVIOUS
  <2>. QED BY <1>2, <2>1 DEF Carries
<1>. QED BY <1>1, <1>2

(* The acknowledgement of a session is on its way, or nothing is to be     *)
(* acknowledged. *)
Served(s) ==
  \/ s \in cancelled \/ ackTable[s] > 0
  \/ Carries(rxEv, s) \/ Carries(toDelay, s) \/ Carries(held, s) \/ Carries(toTx, s)

LEMMA ServedIsUnderWay == AckUnderWay <=> \A s \in owed : Served(s)
BY DEF AckUnderWay, Served

(* A session that is served stays so until its segment leaves. *)
LEMMA ServedStep ==
  ASSUME TypeOK, [Next]_vars, NEW s \in Sessions, Served(s)
  PROVE  Served(s)' \/ s \notin owed'
<1>t. /\ rxEv \in Seq(Event) /\ toDelay \in Seq(Event) /\ toTx \in Seq(Event)
      /\ held \in Seq(Event) /\ ackTable \in [Sessions -> 0 .. AckTime] /\ pointer \in Sessions
      /\ timerEv \in Seq(Event) /\ appEv \in Seq(Event)
  BY DEF TypeOK, Fifo
<1>1. ASSUME NEW e \in Event, RxEvent(e) PROVE Served(s)'
  <2>1. Carries(rxEv, s) => Carries(rxEv', s)
    BY <1>t, <1>1, CarriesAppend DEF RxEvent
  <2>2. e.type = "ACK" /\ e.session = s => Carries(rxEv', s)
    BY <1>t, <1>1, CarriesAppend DEF RxEvent
  <2>3. UNCHANGED <<ackTable, toDelay, held, toTx>>
    BY <1>1 DEF RxEvent, delay
  <2>4. s \in cancelled => s \in cancelled' \/ (e.type = "ACK" /\ e.session = s)
    BY <1>1 DEF RxEvent
  <2>. QED BY <2>1, <2>2, <2>3, <2>4 DEF Served, Carries
<1>2. ASSUME NEW e \in Event, TimerEvent(e) \/ AppEvent(e) PROVE Served(s)'
  BY <1>2 DEF TimerEvent, AppEvent, delay, ghosts, Served, Carries
<1>3. CASE EventEngine
  <2>1. UNCHANGED <<ackTable, held, toTx, cancelled>>
    BY <1>3 DEF EventEngine, ForwardRx, ForwardTimer, ForwardApp, CountOnly, TakeTokens, delay, ghosts
  <2>2. Carries(toDelay, s) => Carries(toDelay', s)
    <3>1. CASE ForwardRx
      <4>1. Head(rxEv) \in Event /\ toDelay' = Append(toDelay, Head(rxEv))
        BY <1>t, <3>1 DEF ForwardRx, RxGoes
      <4>. QED BY <1>t, <4>1, CarriesAppend
    <3>2. CASE ForwardTimer
      <4>1. Head(timerEv) \in Event /\ toDelay' = Append(toDelay, Head(timerEv))
        BY <1>t, <3>2 DEF ForwardTimer
      <4>. QED BY <1>t, <4>1, CarriesAppend
    <3>3. CASE ForwardApp
      <4>1. Head(appEv) \in Event /\ toDelay' = Append(toDelay, Head(appEv))
        BY <1>t, <3>3 DEF ForwardApp
      <4>. QED BY <1>t, <4>1, CarriesAppend
    <3>4. CASE CountOnly
      BY <3>4 DEF CountOnly
    <3>. QED BY <1>3, <3>1, <3>2, <3>3, <3>4 DEF EventEngine
  <2>3. Carries(rxEv, s) => Carries(rxEv', s) \/ Carries(toDelay', s)
    <3>1. CASE ForwardRx
      <4>1. /\ rxEv # <<>> /\ Head(rxEv) \in Event
            /\ rxEv' = Tail(rxEv) /\ toDelay' = Append(toDelay, Head(rxEv))
        BY <1>t, <3>1 DEF ForwardRx, RxGoes
      <4>2. Carries(rxEv, s) =>
              Carries(rxEv', s) \/ (Head(rxEv).session = s /\ Head(rxEv).type # "BLANK")
        BY <1>t, <4>1, CarriesTail
      <4>. QED BY <1>t, <4>1, <4>2, CarriesAppend
    <3>2. CASE ForwardTimer \/ ForwardApp \/ CountOnly
      BY <3>2 DEF ForwardTimer, ForwardApp, CountOnly, sources
    <3>. QED BY <1>3, <3>1, <3>2 DEF EventEngine
  <2>. QED BY <2>1, <2>2, <2>3 DEF Served, Carries
<1>4. CASE DelayTake
  <2>. DEFINE e == Head(toDelay)
  <2>1. e \in Event /\ e.session \in Sessions /\ toDelay # <<>> /\ toDelay' = Tail(toDelay)
    <3>1. toDelay # <<>> /\ toDelay' = Tail(toDelay)
      BY <1>4 DEF DelayTake
    <3>2. e \in Event
      BY <1>t, <3>1
    <3>. QED BY <3>1, <3>2 DEF Event
  <2>2. UNCHANGED <<rxEv, toTx>> /\ cancelled \subseteq cancelled' /\ held = <<>>
    BY <1>4 DEF DelayTake, sources
  <2>3. ~Carries(held, s)
    BY <2>2 DEF Carries
  <2>4. e.type = "ACK" =>
          /\ ackTable' = [ackTable EXCEPT ![e.session] = IF @ = 0 THEN AckTime ELSE @]
    BY <1>4 DEF DelayTake
  <2>5. e.type # "ACK" =>
          /\ ackTable' = [ackTable EXCEPT ![e.session] = 0]
          /\ held' = <<e>>
          /\ e.type = "BLANK" => e.session \in cancelled'
    BY <1>4 DEF DelayTake
  <2>. HIDE DEF e
  <2>6. CASE e.session # s
    <3>1. ackTable'[s] = ackTable[s]
      BY <1>t, <2>4, <2>5, <2>6
    <3>2. Carries(toDelay, s) => Carries(toDelay', s)
      BY <1>t, <2>1, <2>6, CarriesTail DEF e
    <3>. QED BY <2>2, <2>3, <3>1, <3>2 DEF Served, Carries
  <2>7. CASE e.session = s /\ e.type = "ACK"
    BY <1>t, <2>1, <2>4, <2>7, Constants DEF Served
  <2>8. CASE e.session = s /\ e.type = "BLANK"
    BY <2>5, <2>8 DEF Served
  <2>9. CASE e.session = s /\ e.type = "SEG"
    <3>1. held' = <<e>> BY <2>5, <2>9
    <3>2. Carries(held', s) BY <2>9, <3>1 DEF Carries
    <3>. QED BY <3>2 DEF Served, Carries
  <2>. QED BY <2>1, <2>6, <2>7, <2>8, <2>9 DEF Event
<1>5. CASE DelayPut
  <2>1. /\ UNCHANGED <<rxEv, toDelay, ackTable, cancelled>>
        /\ held # <<>> /\ Head(held) \in Event /\ toTx' = Append(toTx, Head(held))
    BY <1>5, <1>t DEF DelayPut, sources, ghosts
  <2>2. Carries(toTx, s) => Carries(toTx', s)
    BY <1>t, <2>1, CarriesAppend
  <2>3. Carries(held, s) => Carries(toTx', s)
    <3>1. Tail(held) = <<>>
      BY <1>t, <2>1 DEF TypeOK, Fifo
    <3>2. ~Carries(Tail(held), s)
      BY <3>1 DEF Carries
    <3>. QED BY <1>t, <2>1, <3>2, CarriesTail, CarriesAppend
  <2>. QED BY <2>1, <2>2, <2>3 DEF Served, Carries
<1>6. CASE Sweep
  <2>. DEFINE ack == [type |-> "ACK", session |-> pointer]
  <2>1. UNCHANGED <<rxEv, toDelay, held, cancelled>> /\ ack \in Event
    BY <1>6, <1>t DEF Sweep, sources, ghosts, Event
  <2>2. Carries(toTx, s) => Carries(toTx', s)
    BY <1>6, <1>t, <2>1, CarriesAppend DEF Sweep
  <2>3. ackTable[s] > 0 => ackTable'[s] > 0 \/ Carries(toTx', s)
    <3>1. CASE s = pointer /\ ackTable[s] = 1 /\ Len(toTx) < TxDepth
      <4>1. toTx' = Append(toTx, ack) BY <1>6, <3>1 DEF Sweep
      <4>. QED BY <1>t, <2>1, <3>1, <4>1, CarriesAppend
    <3>2. CASE ~(s = pointer /\ ackTable[s] = 1 /\ Len(toTx) < TxDepth)
      BY <1>6, <1>t, <3>2 DEF Sweep
    <3>. QED BY <3>1, <3>2
  <2>. QED BY <2>1, <2>2, <2>3 DEF Served, Carries
<1>7. CASE TxTake
  <2>1. /\ UNCHANGED <<rxEv, toDelay, held, ackTable, cancelled>>
        /\ toTx # <<>> /\ toTx' = Tail(toTx)
        /\ Head(toTx).type # "BLANK" => owed' = owed \ {Head(toTx).session}
    BY <1>7 DEF TxTake, sources, delay
  <2>2. Carries(toTx, s) => Carries(toTx', s) \/ s \notin owed'
    BY <1>t, <2>1, CarriesTail
  <2>. QED BY <2>1, <2>2 DEF Served, Carries
<1>8. CASE UNCHANGED vars
  BY <1>8 DEF vars, sources, delay, ghosts, Served, Carries
<1>. QED BY <1>1, <1>2, <1>3, <1>4, <1>5, <1>6, <1>7, <1>8 DEF Next, Sources, AckDelay

(* Only an ACK event of the receive engine makes a session owe one, and it *)
(* is in the FIFO then. *)
LEMMA OwedStep ==
  ASSUME TypeOK, [Next]_vars, NEW s \in owed', s \notin owed
  PROVE  Served(s)'
<1>t. rxEv \in Seq(Event) /\ owed \subseteq Sessions
  BY DEF TypeOK, Fifo
<1>1. \E e \in Event : RxEvent(e) /\ e.type = "ACK" /\ e.session = s
  BY DEF Next, Sources, RxEvent, TimerEvent, AppEvent, EventEngine, ForwardRx, ForwardTimer,
     ForwardApp, CountOnly, TakeTokens, AckDelay, DelayTake, DelayPut, Sweep, TxTake, vars,
     ghosts
<1>2. PICK e \in Event : RxEvent(e) /\ e.type = "ACK" /\ e.session = s
  BY <1>1
<1>3. Carries(rxEv', s)
  BY <1>t, <1>2, CarriesAppend DEF RxEvent
<1>. QED BY <1>3 DEF Served, Carries

(* Data that has to be acknowledged is, in every order in which the events *)
(* of the sources, the sweeps over the table and the reads of the transmit *)
(* engine come: no acknowledgement is lost between the receive engine and  *)
(* the transmit engine. *)
THEOREM AcksStayUnderWay == Spec => []AckUnderWay
<1>1. Init => AckUnderWay
  BY DEF Init, AckUnderWay
<1>2. TypeOK /\ AckUnderWay /\ [Next]_vars => AckUnderWay'
  <2>1. SUFFICES ASSUME TypeOK, AckUnderWay, [Next]_vars, NEW s \in owed' PROVE Served(s)'
    BY ServedIsUnderWay DEF AckUnderWay, Served, Carries
  <2>2. CASE s \in owed
    <3>1. Served(s) /\ s \in Sessions
      BY <2>1, <2>2, ServedIsUnderWay DEF TypeOK
    <3>. QED BY <2>1, <3>1, ServedStep
  <2>3. CASE s \notin owed
    BY <2>1, <2>3, OwedStep
  <2>. QED BY <2>2, <2>3
<1>. QED BY <1>1, <1>2, TypeCorrect, PTL DEF Spec
=============================================================================
