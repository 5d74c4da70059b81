----------------------------- MODULE RingAccess -----------------------------
(* Writing to a ring of the TCP offload engine: rxEngMemWrite for received segments, the package   *)
(* pusher of tx_app_stream_if for what the application sends.  Both work alike.  A write that      *)
(* passes the end of the ring is broken down into two accesses, and the words of the second one    *)
(* are put together anew, as it starts within a word.                                              *)
(*                                                                                                 *)
(* Reading from it: rxAppMemAccessBreakdown and rxAppMemDataRead for the application,              *)
(* txEngMemAccessBreakdown and tcpPkgStitcher for segments to send.  A read that passes the end of *)
(* the ring is broken down into two accesses, whose words are joined to one stream of full words.  *)
(*                                                                                                 *)
(* A byte of the stream is its position, so the ring shows which byte is where.  Bytes of a word   *)
(* that are not valid are -1.                                                                      *)
EXTENDS Integers, Sequences

CONSTANTS
    W,              \* bytes of a word (8)
    B,              \* bytes of a ring (65536)
    CmdDepth,       \* of the FIFOs of commands and statuses
    DataDepth       \* of the FIFO of words on their way to the memory

ASSUME RingAssumption == W \in Nat \ {0} /\ B \in Nat \ {0} /\ B % W = 0
ASSUME FifoAssumption == {CmdDepth, DataDepth} \subseteq Nat \ {0}

Sides == {"rx", "tx"}

VARIABLES
    side,           \* the ring
    pushMeta,       \* writes to do: [pos, len, drop]
    pkgBuffer,      \* the words of these writes
    wrState, wrCmd, breakTemp, breakdown, lengthBuffer, residue, pushWord, dropping,
    wrMemCmd,       \* commands for the memory: [addr, len], the first one being worked on
    wrData,         \* and their words
    memory,         \* [0 .. B - 1 -> the byte that was written there last]
    wrStatus,       \* statuses of the accesses
    doubleAccess,   \* "rx": whether a write has two of them
    failures        \* the number of accesses that have failed

fsmVars == <<wrState, wrCmd, breakTemp, breakdown, lengthBuffer, residue, pushWord, dropping>>
writerVars == <<pushMeta, pkgBuffer, fsmVars, wrMemCmd, wrData, memory, wrStatus, doubleAccess, failures>>

Room(fifo, depth) == Len(fifo) < depth
Addr(pos) == pos % B
Bytes == 0 .. W - 1
Smaller(m, n) == IF m < n THEN m ELSE n

(* the words of n bytes from pos on *)
WordsOf(pos, n) ==
    [k \in 1 .. (n + W - 1) \div W |->
        LET first == pos + (k - 1) * W
            count == Smaller(W, n - (k - 1) * W)
        IN  [data |-> [b \in Bytes |-> IF b < count THEN first + b ELSE -1], keep |-> count, last |-> (k - 1) * W + count = n]]
(* the bytes of old from "from" on, then bytes of new *)
Shifted(old, from, new) == [b \in Bytes |-> IF b < W - from THEN old.data[from + b] ELSE new.data[b - (W - from)]]
NoData == [b \in Bytes |-> -1]
NoWord == [data |-> NoData, keep |-> 0, last |-> FALSE]

WriterInit ==
    /\ pushMeta = <<>> /\ pkgBuffer = <<>>
    /\ wrState = "idle" /\ wrCmd = [addr |-> 0, len |-> 0] /\ breakTemp = 0 /\ breakdown = FALSE
    /\ lengthBuffer = 0 /\ residue = 0 /\ pushWord = NoWord /\ dropping = FALSE
    /\ wrMemCmd = <<>> /\ wrData = <<>> /\ memory = [a \in 0 .. B - 1 |-> -1]
    /\ wrStatus = <<>> /\ doubleAccess = <<>> /\ failures = 0

(* The write needs a second access. *)
PassesEndLate(addr, len) == addr + len > B + 1          \* a fault: off by one
PassesEnd(addr, len) == addr + len > B

WriteIdle ==
    /\ wrState = "idle" /\ pushMeta # <<>> /\ Room(wrMemCmd, CmdDepth)
    /\ side = "rx" => Room(doubleAccess, CmdDepth)
    /\ LET m == Head(pushMeta)
           passes == PassesEnd(Addr(m.pos), m.len)
           first == IF passes THEN B - Addr(m.pos) ELSE m.len
       IN  IF m.drop
           THEN dropping' = TRUE /\ UNCHANGED <<breakTemp, breakdown, wrCmd, wrMemCmd, doubleAccess>>
           ELSE /\ dropping' = FALSE
                /\ breakTemp' = first /\ breakdown' = passes
                /\ wrCmd' = [addr |-> Addr(m.pos), len |-> IF passes THEN m.len - first ELSE m.len]
                /\ wrMemCmd' = Append(wrMemCmd, [addr |-> Addr(m.pos), len |-> first])
                /\ doubleAccess' = IF side = "rx" THEN Append(doubleAccess, passes) ELSE doubleAccess
    /\ pushMeta' = Tail(pushMeta)
    /\ wrState' = "first"
    /\ UNCHANGED <<pkgBuffer, lengthBuffer, residue, pushWord, wrData, memory, wrStatus, failures>>

(* The package pusher reads the words of a write that is dropped and forgets them. *)
WriteDropped ==
    /\ wrState = "first" /\ dropping /\ pkgBuffer # <<>>
    /\ wrState' = IF Head(pkgBuffer).last THEN "idle" ELSE "first"
    /\ pushWord' = Head(pkgBuffer) /\ pkgBuffer' = Tail(pkgBuffer)
    /\ UNCHANGED <<pushMeta, wrCmd, breakTemp, breakdown, lengthBuffer, residue, dropping, wrMemCmd, wrData, memory,
                   wrStatus, doubleAccess, failures>>

WriteFirst ==
    /\ wrState = "first" /\ ~dropping /\ pkgBuffer # <<>> /\ Room(wrData, DataDepth)
    /\ LET w == Head(pkgBuffer)
           ends == breakTemp <= W
       IN  /\ wrState' = IF ~ends THEN "first" ELSE IF breakdown THEN "evalSecond" ELSE "idle"
           /\ breakTemp' = IF ends THEN breakTemp ELSE breakTemp - W
           /\ IF ends /\ breakdown
              THEN /\ wrData' = Append(wrData, [w EXCEPT !.last = TRUE, !.keep = IF wrCmd.addr % W # 0 THEN breakTemp ELSE @])
                   /\ residue' = w.keep - breakTemp /\ lengthBuffer' = breakTemp
              ELSE wrData' = Append(wrData, w) /\ UNCHANGED <<residue, lengthBuffer>>
           /\ pushWord' = w
    /\ pkgBuffer' = Tail(pkgBuffer)
    /\ UNCHANGED <<pushMeta, wrCmd, breakdown, dropping, wrMemCmd, memory, wrStatus, doubleAccess, failures>>

(* Bytes of the second access are still to come in further words. *)
MoreWordsAlways == wrCmd.len - residue >= 0             \* a fault
MoreWords == wrCmd.len - residue > 0

EvalSecond ==
    /\ wrState = "evalSecond" /\ Room(wrMemCmd, CmdDepth)
    /\ wrState' = IF wrCmd.addr % W = 0 THEN "aligned"
                  ELSE IF MoreWords THEN "second" ELSE "residue"
    /\ wrMemCmd' = Append(wrMemCmd, [addr |-> 0, len |-> wrCmd.len])
    /\ wrCmd' = [wrCmd EXCEPT !.addr = 0] /\ breakTemp' = wrCmd.len /\ breakdown' = FALSE
    /\ UNCHANGED <<pushMeta, pkgBuffer, lengthBuffer, residue, pushWord, dropping, wrData, memory, wrStatus, doubleAccess,
                   failures>>

WriteAligned ==
    /\ wrState = "aligned" /\ pkgBuffer # <<>> /\ Room(wrData, DataDepth)
    /\ wrData' = Append(wrData, Head(pkgBuffer)) /\ pushWord' = Head(pkgBuffer) /\ pkgBuffer' = Tail(pkgBuffer)
    /\ wrState' = IF Head(pkgBuffer).last THEN "idle" ELSE "aligned"
    /\ UNCHANGED <<pushMeta, wrCmd, breakTemp, breakdown, lengthBuffer, residue, dropping, wrMemCmd, memory, wrStatus,
                   doubleAccess, failures>>

LeavesBytes == breakTemp - residue > lengthBuffer

WriteSecond ==
    /\ wrState = "second" /\ pkgBuffer # <<>> /\ Room(wrData, DataDepth)
    /\ LET w == Head(pkgBuffer)
           ends == w.last /\ ~LeavesBytes
       IN  /\ wrData' = Append(wrData, [data |-> Shifted(pushWord, lengthBuffer, w), last |-> ends,
                                        keep |-> IF ends THEN breakTemp ELSE W])
           /\ breakTemp' = IF ends THEN breakTemp ELSE breakTemp - W
           /\ wrState' = IF ends THEN "idle" ELSE IF w.last THEN "residue" ELSE "second"
           /\ pushWord' = w
    /\ pkgBuffer' = Tail(pkgBuffer)
    /\ UNCHANGED <<pushMeta, wrCmd, breakdown, lengthBuffer, residue, dropping, wrMemCmd, memory, wrStatus, doubleAccess,
                   failures>>

WriteResidue ==
    /\ wrState = "residue" /\ Room(wrData, DataDepth)
    /\ wrData' = Append(wrData, [data |-> Shifted(pushWord, lengthBuffer, NoWord), keep |-> breakTemp, last |-> TRUE])
    /\ wrState' = "idle"
    /\ UNCHANGED <<pushMeta, pkgBuffer, wrCmd, breakTemp, breakdown, lengthBuffer, residue, pushWord, dropping, wrMemCmd,
                   memory, wrStatus, doubleAccess, failures>>

(* The memory: word by word of one command after the other.  An access may fail; then its last     *)
(* word is not written.                                                                            *)
MemoryWrites(okay) ==
    /\ wrMemCmd # <<>> /\ wrData # <<>>
    /\ LET c == Head(wrMemCmd)
           w == Head(wrData)
       IN  /\ okay \/ w.last
           /\ memory' = [a \in DOMAIN memory |->
                            IF okay /\ a \in c.addr .. c.addr + w.keep - 1 THEN w.data[a - c.addr] ELSE memory[a]]
           /\ failures' = IF okay THEN failures ELSE failures + 1
           /\ IF w.last
              THEN Room(wrStatus, CmdDepth) /\ wrStatus' = Append(wrStatus, okay) /\ wrMemCmd' = Tail(wrMemCmd)
              ELSE /\ wrMemCmd' = <<[addr |-> c.addr + w.keep, len |-> c.len - w.keep]>> \o Tail(wrMemCmd)
                   /\ UNCHANGED wrStatus
    /\ wrData' = Tail(wrData)
    /\ UNCHANGED <<pushMeta, pkgBuffer, fsmVars, doubleAccess>>

WriterStep ==
    \/ WriteIdle \/ WriteDropped \/ WriteFirst \/ EvalSecond \/ WriteAligned \/ WriteSecond \/ WriteResidue
    \/ MemoryWrites(TRUE)

-----------------------------------------------------------------------------
(* Reading *)
VARIABLES
    rdRequests,     \* reads to do: [pos, len]
    rdSecond,       \* the second access of a read that was broken down: [addr, len], or <<>>
    rdMemCmd,       \* commands for the memory
    rdDouble,       \* whether a read has two accesses
    rdAsked,        \* the reads whose answer has not begun
    rdData,         \* words from the memory
    rdState, rdFlag, rdWord, rdOffset,
    out             \* the answer that is being sent: [req, words]

readerVars == <<rdRequests, rdSecond, rdMemCmd, rdDouble, rdAsked, rdData, rdState, rdFlag, rdWord, rdOffset, out>>

ReaderInit ==
    /\ rdRequests = <<>> /\ rdSecond = <<>> /\ rdMemCmd = <<>> /\ rdDouble = <<>> /\ rdAsked = <<>> /\ rdData = <<>>
    /\ rdState = "idle" /\ rdFlag = FALSE /\ rdWord = NoWord /\ rdOffset = 0
    /\ out = [req |-> [pos |-> 0, len |-> 0], words |-> <<>>]

(* rxAppMemAccessBreakdown *)
BreakFirst ==
    /\ rdSecond = <<>> /\ rdRequests # <<>> /\ Room(rdMemCmd, CmdDepth) /\ Room(rdDouble, CmdDepth)
    /\ LET r == Head(rdRequests)
           a == Addr(r.pos)
           passes == PassesEnd(a, r.len)
       IN  /\ rdMemCmd' = Append(rdMemCmd, [addr |-> a, len |-> IF passes THEN B - a ELSE r.len])
           /\ rdSecond' = IF passes THEN <<[addr |-> 0, len |-> r.len - (B - a)]>> ELSE <<>>
           /\ rdDouble' = Append(rdDouble, passes)
           /\ rdAsked' = Append(rdAsked, r)
    /\ rdRequests' = Tail(rdRequests)
    /\ UNCHANGED <<rdData, rdState, rdFlag, rdWord, rdOffset, out>>

BreakSecond ==
    /\ rdSecond # <<>> /\ Room(rdMemCmd, CmdDepth)
    /\ rdMemCmd' = rdMemCmd \o rdSecond /\ rdSecond' = <<>>
    /\ UNCHANGED <<rdRequests, rdDouble, rdAsked, rdData, rdState, rdFlag, rdWord, rdOffset, out>>

MemoryReads ==
    /\ rdMemCmd # <<>> /\ Room(rdData, DataDepth)
    /\ LET c == Head(rdMemCmd)
           count == Smaller(W, c.len)
       IN  /\ rdData' = Append(rdData, [data |-> [b \in Bytes |-> IF b < count THEN memory[c.addr + b] ELSE -1],
                                        keep |-> count, last |-> count = c.len])
           /\ rdMemCmd' = IF count = c.len THEN Tail(rdMemCmd)
                          ELSE <<[addr |-> c.addr + count, len |-> c.len - count]>> \o Tail(rdMemCmd)
    /\ UNCHANGED <<rdRequests, rdSecond, rdDouble, rdAsked, rdState, rdFlag, rdWord, rdOffset, out>>

----------------------------------------------------------------------------
(* The words of the answer.  rdFlag tells that a second access will follow. *)

Send(w) == out' = [out EXCEPT !.words = Append(@, w)]

(* What becomes of a word of the first access, or of one that needs no joining *)
Stream(w, double, answer) ==
    /\ rdWord' = w /\ rdOffset' = w.keep
    /\ rdFlag' = (double /\ ~w.last)
    /\ IF w.last /\ double /\ w.keep < W
       THEN out' = answer /\ rdState' = "join"
       ELSE /\ out' = [answer EXCEPT !.words = Append(@, [w EXCEPT !.last = @ /\ ~double])]
            /\ rdState' = IF w.last /\ ~double THEN "idle" ELSE "stream"

ReadIdle ==
    /\ rdState = "idle" /\ rdDouble # <<>> /\ rdData # <<>>
    /\ Stream(Head(rdData), Head(rdDouble), [req |-> Head(rdAsked), words |-> <<>>])
    /\ rdData' = Tail(rdData) /\ rdDouble' = Tail(rdDouble) /\ rdAsked' = Tail(rdAsked)
    /\ UNCHANGED <<rdRequests, rdSecond, rdMemCmd>>

ReadStream ==
    /\ rdState = "stream" /\ rdData # <<>>
    /\ Stream(Head(rdData), rdFlag, out)
    /\ rdData' = Tail(rdData)
    /\ UNCHANGED <<rdRequests, rdSecond, rdMemCmd, rdDouble, rdAsked>>

(* The last word of the second access fits in behind the bytes that wait.  rxAppMemDataRead counts *)
(* a word that is filled exactly, tcpPkgStitcher does not: there such a word is not marked as the  *)
(* last, and ReadResidue sends a last word without bytes behind it.                                *)
Fits(w) == IF side = "rx" THEN w.keep + rdOffset <= W ELSE w.keep + rdOffset < W

(* RXAPP_JOIN, RXAPP_STREAMMERGED; ps_wordCount 5 and 6.  The bytes that wait are the first ones   *)
(* of rdWord in the join, the last ones from then on.                                              *)
ReadJoin ==
    /\ rdState \in {"join", "merged"} /\ rdData # <<>>
    /\ LET w == Head(rdData)
           joined == IF rdState = "join"
                     THEN [b \in Bytes |-> IF b < rdOffset THEN rdWord.data[b] ELSE w.data[b - rdOffset]]
                     ELSE Shifted(rdWord, W - rdOffset, w)
           ends == w.last /\ Fits(w)
       IN  /\ Send([data |-> joined, keep |-> IF ends THEN Smaller(W, w.keep + rdOffset) ELSE W, last |-> ends])
           /\ rdState' = IF ends THEN "idle" ELSE IF w.last THEN "residue" ELSE "merged"
           /\ rdWord' = w
    /\ rdData' = Tail(rdData)
    /\ UNCHANGED <<rdRequests, rdSecond, rdMemCmd, rdDouble, rdAsked, rdFlag, rdOffset>>

ReadResidue ==
    /\ rdState = "residue"
    /\ Send([data |-> Shifted(rdWord, W - rdOffset, NoWord), keep |-> rdWord.keep - (W - rdOffset), last |-> TRUE])
    /\ rdState' = "idle"
    /\ UNCHANGED <<rdRequests, rdSecond, rdMemCmd, rdDouble, rdAsked, rdData, rdFlag, rdWord, rdOffset>>

ReaderStep == BreakFirst \/ BreakSecond \/ MemoryReads \/ ReadIdle \/ ReadStream \/ ReadJoin \/ ReadResidue
=============================================================================
