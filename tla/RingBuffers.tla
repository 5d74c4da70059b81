----------------------------- MODULE RingBuffers -----------------------------
(* A ring of the TCP offload engine with its pointers: the segments that rx_engine accepts go to   *)
(* the application ("rx"), the writes of the application go to tx_engine ("tx").  What is written  *)
(* is made known when the memory has reported it, and is read in portions of any size.             *)
EXTENDS RingAccess, FiniteSets

CONSTANTS
    MaxWrites, MaxReads,    \* bounds on a behaviour
    MaxFailures,    \* bound on failed accesses
    Base            \* positions at which streams start

ASSUME BoundAssumption == {MaxWrites, MaxReads, MaxFailures} \subseteq Nat /\ Base \subseteq Nat

VARIABLES
    written,        \* recvd (without the one that a FIN counts), mempt
    ended,          \* the other end has sent its FIN
    freed,          \* appd, ackd
    told,           \* what has been made known
    requested,      \* what has been read, or is being read
    notices,        \* notifications or events whose write is not yet reported
    tashState,      \* <<>>, or <<okay>> with the status of the first of two accesses
    writes, reads   \* counted

ringVars == <<written, ended, freed, told, requested, notices, tashState, writes, reads>>
vars == <<side, ringVars, writerVars, readerVars>>

Init ==
    /\ side \in Sides
    /\ written \in Base /\ ended = FALSE /\ freed = written /\ told = written /\ requested = written
    /\ notices = <<>> /\ tashState = <<>> /\ writes = 0 /\ reads = 0
    /\ WriterInit /\ ReaderInit

(* rx_engine accepts a segment that leaves two bytes free, tx_app_stream_if a write that leaves one *)
FreeSpace(p) == (freed - p - 1) % B
AcceptsAny(n) == TRUE                                       \* a fault: no test
Accepts(n) == IF side = "rx" THEN FreeSpace(written) > n ELSE n <= FreeSpace(written)

(* What is taken is written where the stream has got to; the other end sends nothing after its FIN. *)
Take(n) ==
    /\ ~ended /\ writes < MaxWrites /\ Len(pushMeta) < CmdDepth
    /\ pushMeta' = Append(pushMeta, [pos |-> written, len |-> n, drop |-> FALSE])
    /\ pkgBuffer' = pkgBuffer \o WordsOf(written, n)
    /\ written' = written + n /\ writes' = writes + 1
    /\ notices' = Append(notices, [pos |-> written, len |-> n])
    /\ UNCHANGED <<side, freed, told, requested, tashState, reads, fsmVars, wrMemCmd, wrData, memory, wrStatus, doubleAccess,
                   failures, readerVars>>

Accept(n) ==
    /\ Accepts(n)
    /\ Take(n)
    /\ UNCHANGED ended

(* A FIN may carry data too, and nobody asks whether that fits: only the window that the other end *)
(* was told stands between it and what has not been read.  A length has 16 bits.                   *)
AcceptFin(n) ==
    /\ side = "rx" /\ n < B
    /\ Take(n)
    /\ ended' = TRUE

(* ERROR_NOSPACE *)
Refuse(n) ==
    /\ side = "tx" /\ writes < MaxWrites /\ Len(pushMeta) < CmdDepth
    /\ ~Accepts(n)
    /\ pushMeta' = Append(pushMeta, [pos |-> written, len |-> n, drop |-> TRUE])
    /\ pkgBuffer' = pkgBuffer \o WordsOf(-1 - n, n)     \* bytes that are at no position
    /\ writes' = writes + 1
    /\ UNCHANGED <<side, written, ended, freed, told, requested, notices, tashState, reads, fsmVars, wrMemCmd, wrData, memory,
                   wrStatus, doubleAccess, failures, readerVars>>

----------------------------------------------------------------------------
(* rxAppNotificationDelayer counts the accesses with doubleAccess and wants both okay;             *)
(* txAppStatusHandler counts them with the address and takes the status of the last one.           *)

TwoAccesses == IF side = "rx" THEN Head(doubleAccess) ELSE Addr(Head(notices).pos) + Head(notices).len > B

FirstOfTwo ==
    /\ notices # <<>> /\ wrStatus # <<>> /\ tashState = <<>>
    /\ side = "rx" => doubleAccess # <<>>
    /\ TwoAccesses
    /\ tashState' = <<Head(wrStatus)>>
    /\ wrStatus' = Tail(wrStatus)
    /\ UNCHANGED <<side, written, ended, freed, told, requested, notices, writes, reads, pushMeta, pkgBuffer, fsmVars, wrMemCmd,
                   wrData, memory, doubleAccess, failures, readerVars>>

AllOkay ==
    /\ Head(wrStatus)
    /\ (side = "rx" /\ tashState # <<>>) => Head(tashState)

MakeKnown ==
    /\ notices # <<>> /\ wrStatus # <<>>
    /\ side = "rx" => doubleAccess # <<>>
    /\ tashState # <<>> \/ ~TwoAccesses
    /\ told' = IF ~AllOkay THEN told
               ELSE IF side = "rx" THEN told + Head(notices).len        \* a length in a notification
               ELSE Head(notices).pos + Head(notices).len               \* the pointer in tx_sar_table
    /\ notices' = Tail(notices) /\ wrStatus' = Tail(wrStatus) /\ tashState' = <<>>
    /\ doubleAccess' = IF side = "rx" THEN Tail(doubleAccess) ELSE doubleAccess
    /\ UNCHANGED <<side, written, ended, freed, requested, writes, reads, pushMeta, pkgBuffer, fsmVars, wrMemCmd, wrData, memory,
                   failures, readerVars>>

(* rx_app_stream_if moves appd with the request; what tx_engine reads is freed when it is acked. *)
Request(n) ==
    /\ requested + n <= told /\ reads < MaxReads /\ Len(rdRequests) < CmdDepth
    /\ rdRequests' = Append(rdRequests, [pos |-> requested, len |-> n])
    /\ requested' = requested + n /\ reads' = reads + 1
    /\ freed' = IF side = "rx" THEN requested + n ELSE freed
    /\ UNCHANGED <<side, written, ended, told, notices, tashState, writes, writerVars, rdSecond, rdMemCmd, rdDouble, rdAsked,
                   rdData, rdState, rdFlag, rdWord, rdOffset, out>>

(* the end of what has been read and sent *)
Delivered ==
    IF rdState # "idle" THEN out.req.pos
    ELSE IF rdAsked # <<>> THEN Head(rdAsked).pos
    ELSE IF rdRequests # <<>> THEN Head(rdRequests).pos ELSE requested

Acked ==
    /\ side = "tx" /\ freed < Delivered
    /\ freed' = Delivered
    /\ UNCHANGED <<side, written, ended, told, requested, notices, tashState, writes, reads, writerVars, readerVars>>

Fail == failures < MaxFailures /\ MemoryWrites(FALSE) /\ UNCHANGED <<side, ringVars, readerVars>>

Engine ==
    \/ FirstOfTwo \/ MakeKnown
    \/ WriterStep /\ UNCHANGED <<side, ringVars, readerVars>>
    \/ ReaderStep /\ UNCHANGED <<side, ringVars, writerVars>>

Next ==
    \/ \E n \in 1 .. B : Accept(n) \/ AcceptFin(n) \/ Refuse(n) \/ Request(n)
    \/ Acked \/ Fail
    \/ Engine

Spec == Init /\ [][Next]_vars

----------------------------------------------------------------------------
(* Correctness                                                             *)

(* The words that reach the memory are those of its command: it ends with the last of its bytes,   *)
(* neither sooner nor later, and never passes the end of the ring.                                 *)
AccessesFit ==
    /\ \A i \in DOMAIN wrMemCmd : wrMemCmd[i].addr + wrMemCmd[i].len <= B
    /\ (wrMemCmd # <<>> /\ wrData # <<>>) =>
          LET c == Head(wrMemCmd)
              w == Head(wrData)
          IN  w.keep \in 1 .. c.len /\ (w.last <=> w.keep = c.len)

(* What is made known is in the ring, byte for byte, as long as it has not been read and no access *)
(* has failed; and no byte has yet been written over that is still to be asked for, except by the  *)
(* bytes of a FIN that sends more than it was told there is space for, a lap later.                *)
Brings(byte, pos) == byte = pos \/ (side = "rx" /\ byte > pos /\ Addr(byte) = Addr(pos))
Overrun(pos) == ended /\ pos + B < written
ToldIsInPlace ==
    failures = 0 =>
        \A pos \in requested .. told - 1 :
            LET byte == memory[Addr(pos)] IN byte = pos \/ (Overrun(pos) /\ Brings(byte, pos))

(* An answer brings the bytes asked for, in full words, and ends with the last of them.  Where the *)
(* application reads, a byte may be the one that is laps of the ring later: the space is free from *)
(* the request on, and what arrives meanwhile is written into it.                                  *)
ByteOf(k) == out.words[(k \div W) + 1].data[k % W]
Sent == LET n == Len(out.words) IN IF n = 0 THEN 0 ELSE (n - 1) * W + out.words[n].keep
AnswersWhole ==
    failures = 0 =>
        LET n == Len(out.words) IN
        /\ \A i \in 1 .. n - 1 : out.words[i].keep = W /\ ~out.words[i].last
        /\ \A k \in 0 .. Sent - 1 : Brings(ByteOf(k), out.req.pos + k)
        /\ Sent <= out.req.len
        /\ n > 0 => (out.words[n].last => Sent = out.req.len)

(* From a write to the answer of a read, each byte keeps its place in the stream. *)
BytesKeepPlace == ToldIsInPlace /\ AnswersWhole

(* Nothing is left lying: when the engine cannot go on, all that was accepted has been made known  *)
(* (or has failed), and all that was asked for has been sent.                                      *)
NeverStuck ==
    ENABLED Engine \/ (pkgBuffer = <<>> /\ notices = <<>> /\ wrStatus = <<>> /\ doubleAccess = <<>> /\ wrState = "idle"
                       /\ rdState = "idle" /\ rdAsked = <<>> /\ rdRequests = <<>>)
=============================================================================
