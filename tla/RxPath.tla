-------------------------------- MODULE RxPath --------------------------------
(* How rx_engine takes a segment apart: rxTcpLengthExtract removes the IP header and leaves room   *)
(* for the pseudo header, rxInsertPseudoHeader fills it in, and rxCheckTCPchecksum splits fields   *)
(* and payload and tests the checksum.  The headers are multiples of four bytes and the words have *)
(* eight, so the words are put together anew from halves wherever a header ends within one.        *)
(*                                                                                                 *)
(* The way of received payload through rx_engine.  Payload and metadata part in the parser; the    *)
(* checksum, the metadata handler and the state machine each send a verdict after the payload, in  *)
(* FIFOs of their own, and the notification of the application waits for the memory.  Only the     *)
(* order in these FIFOs tells what belongs together.                                               *)
(*                                                                                                 *)
(* A half-word is <<packet, index>>: it shows which part of which packet it is.                    *)
EXTENDS Integers, Sequences

CONSTANTS
    Packets,        \* packets that may arrive: [ihl, doff, len, kind, valid, lookup], sizes in half-words
    MaxPackets,     \* bound on a behaviour
    Depth,          \* of the FIFOs between the processes
    DataDepth       \* of rxEng_dataBuffer2, which holds a payload until its checksum is known

VARIABLES
    arrived,        \* the packets so far
    ipRxData, tcpLenFifo, dataBuffer0, dataBuffer1, dataBuffer2, tcpValidFifo, metaDataFifo,
    tle, iph, csa   \* the state of the three processes

parserVars == <<arrived, ipRxData, tcpLenFifo, dataBuffer0, dataBuffer1, dataBuffer2, tcpValidFifo, metaDataFifo, tle, iph, csa>>

ASSUME PacketAssumption ==
    \A p \in Packets : p.ihl \in 5 .. 15 /\ p.doff \in 5 .. 15 /\ p.len \in Nat /\ p.len <= 2 * DataDepth

Room(fifo) == Len(fifo) < Depth

None == <<0, 0>>        \* bytes that are not valid
Zero == <<0, 1>>        \* the place of the pseudo header's second word
NoWord == [lo |-> None, hi |-> None, last |-> FALSE]

PacketWords(k, p) ==
    LET total == p.ihl + p.doff + p.len
        half(i) == IF i < total THEN <<k, i>> ELSE None
    IN  [w \in 1 .. (total + 1) \div 2 |-> [lo |-> half(2 * w - 2), hi |-> half(2 * w - 1), last |-> 2 * w >= total]]

(* The second half of a word and the first half of the next one make a word. *)
Joined(old, new) == [lo |-> old.hi, hi |-> new.lo, last |-> new.hi = None]
Rest(word) == [lo |-> word.hi, hi |-> None, last |-> TRUE]
(* What follows the last word read: the rest of it, unless all has been sent.  Where nothing has   *)
(* been sent the code tests a variable it has not set.                                             *)
RestLeft(word, sent) == IF ~word.last THEN {FALSE} ELSE IF sent = <<>> THEN BOOLEAN ELSE {~sent[1].last}

ParserInit ==
    /\ arrived = <<>> /\ ipRxData = <<>> /\ tcpLenFifo = <<>>
    /\ dataBuffer0 = <<>> /\ dataBuffer1 = <<>> /\ dataBuffer2 = <<>> /\ tcpValidFifo = <<>> /\ metaDataFifo = <<>>
    /\ tle = [words |-> 0, headerLen |-> 0, insert |-> FALSE, wasLast |-> FALSE, shift |-> TRUE, prev |-> NoWord]
    /\ iph = [words |-> 0, wasLast |-> FALSE, prev |-> NoWord]
    /\ csa = [words |-> 0, offset |-> 15, shift |-> FALSE, wasLast |-> FALSE, check |-> FALSE, half |-> None, pkt |-> 0, len |-> 0]

Arrive(p) ==
    /\ Len(arrived) < MaxPackets /\ ipRxData = <<>>
    /\ arrived' = Append(arrived, p)
    /\ ipRxData' = PacketWords(Len(arrived) + 1, p)
    /\ UNCHANGED <<tcpLenFifo, dataBuffer0, dataBuffer1, dataBuffer2, tcpValidFifo, metaDataFifo, tle, iph, csa>>

(* a field of a header that the half-word holds; anything when it holds another one *)
Field(half, at(_), value(_)) == IF half[1] # 0 /\ half[2] = at(arrived[half[1]]) THEN value(arrived[half[1]]) ELSE 15
HeaderLen(half) == LET at(p) == 0  value(p) == p.ihl IN Field(half, at, value)
TcpLen(half) == LET at(p) == -1  value(p) == p.doff + p.len IN Field(half, at, value)
DataOffset(half) == LET at(p) == p.ihl + 3  value(p) == p.doff IN Field(half, at, value)

----------------------------------------------------------------------------
(* rxTcpLengthExtract *)

LengthInsert ==
    /\ tle.insert /\ Room(dataBuffer0)
    /\ dataBuffer0' = Append(dataBuffer0, [lo |-> Zero, hi |-> Zero, last |-> FALSE])
    /\ tle' = [tle EXCEPT !.insert = FALSE]
    /\ UNCHANGED <<arrived, ipRxData, tcpLenFifo, dataBuffer1, dataBuffer2, tcpValidFifo, metaDataFifo, iph, csa>>

LengthRest ==
    /\ ~tle.insert /\ tle.wasLast /\ Room(dataBuffer0)
    /\ dataBuffer0' = Append(dataBuffer0, Rest(tle.prev))
    /\ tle' = [tle EXCEPT !.wasLast = FALSE]
    /\ UNCHANGED <<arrived, ipRxData, tcpLenFifo, dataBuffer1, dataBuffer2, tcpValidFifo, metaDataFifo, iph, csa>>

(* what a word sends: the addresses; then, once the header is over, what is behind it *)
Shifts == tle.headerLen = 0
LengthSends(w) ==
    CASE tle.words \in {0, 1} -> <<>>
      [] tle.words = 2 -> <<Joined(tle.prev, w)>>
      [] tle.words = 3 /\ tle.headerLen > 1 -> <<>>
      [] tle.words = 3 /\ tle.headerLen <= 1 -> <<IF Shifts THEN Joined(tle.prev, w) ELSE w>>
      [] OTHER -> <<IF tle.shift THEN Joined(tle.prev, w) ELSE w>>

LengthWord ==
    /\ ~tle.insert /\ ~tle.wasLast /\ ipRxData # <<>>
    /\ LET w == Head(ipRxData)
           sent == LengthSends(w)
           taken == CASE tle.words = 0 -> HeaderLen(w.lo) - 2
                      [] tle.words = 1 -> tle.headerLen - 2
                      [] tle.words = 2 -> tle.headerLen - 1
                      [] tle.words = 3 /\ tle.headerLen > 1 -> tle.headerLen - 2
                      [] OTHER -> 0
           dropped == tle.words = 3 /\ tle.headerLen > 1
       IN  /\ sent # <<>> => Room(dataBuffer0)
           /\ tle.words = 1 => Room(tcpLenFifo)
           /\ tcpLenFifo' = IF tle.words = 1 THEN Append(tcpLenFifo, w.lo[1]) ELSE tcpLenFifo
           /\ dataBuffer0' = dataBuffer0 \o sent
           /\ \E rest \in RestLeft(w, sent) :
                tle' = [words |-> IF w.last THEN 0 ELSE IF dropped \/ tle.words = 4 THEN tle.words ELSE tle.words + 1,
                        headerLen |-> taken, insert |-> tle.words = 2, wasLast |-> rest,
                        shift |-> IF tle.words = 3 /\ ~dropped THEN Shifts ELSE tle.shift, prev |-> w]
    /\ ipRxData' = Tail(ipRxData)
    /\ UNCHANGED <<arrived, dataBuffer1, dataBuffer2, tcpValidFifo, metaDataFifo, iph, csa>>

----------------------------------------------------------------------------
(* rxInsertPseudoHeader *)

PseudoRest ==
    /\ iph.wasLast /\ Room(dataBuffer1)
    /\ dataBuffer1' = Append(dataBuffer1, Rest(iph.prev))
    /\ iph' = [iph EXCEPT !.wasLast = FALSE]
    /\ UNCHANGED <<arrived, ipRxData, tcpLenFifo, dataBuffer0, dataBuffer2, tcpValidFifo, metaDataFifo, tle, csa>>

PseudoWord ==
    /\ ~iph.wasLast /\ dataBuffer0 # <<>>
    /\ iph.words = 2 => tcpLenFifo # <<>>
    /\ LET w == Head(dataBuffer0)
           sent == CASE iph.words = 0 -> <<>>
                     [] iph.words = 1 -> <<iph.prev>>
                     [] iph.words = 2 -> <<[lo |-> <<Head(tcpLenFifo), -1>>, hi |-> w.lo, last |-> FALSE]>>
                     [] OTHER -> <<Joined(iph.prev, w)>>
       IN  /\ sent # <<>> => Room(dataBuffer1)
           /\ dataBuffer1' = dataBuffer1 \o sent
           /\ \E rest \in RestLeft(w, sent) :
                iph' = [words |-> IF w.last THEN 0 ELSE IF iph.words = 3 THEN 3 ELSE iph.words + 1, wasLast |-> rest, prev |-> w]
    /\ tcpLenFifo' = IF iph.words = 2 THEN Tail(tcpLenFifo) ELSE tcpLenFifo
    /\ dataBuffer0' = Tail(dataBuffer0)
    /\ UNCHANGED <<arrived, ipRxData, dataBuffer2, tcpValidFifo, metaDataFifo, tle, csa>>

----------------------------------------------------------------------------
(* rxCheckTCPchecksum *)

(* The payload begins within a word: its second half waits for the next word. *)
ShiftKept == csa.shift                          \* a fault: the packet before decides
ShiftAtStart == FALSE

(* options, then payload *)
ChecksumSends(w) ==
    IF csa.words < 4 \/ csa.offset >= 6 THEN <<>>
    ELSE IF csa.shift THEN <<[lo |-> csa.half, hi |-> w.lo, last |-> w.hi = None]>> ELSE <<w>>

ChecksumWord ==
    /\ dataBuffer1 # <<>> /\ ~csa.check
    /\ LET w == Head(dataBuffer1)
           sent == ChecksumSends(w)
           splits == csa.words = 4 /\ csa.offset = 6
           \* sendWord.last: what has been sent, or the word's where a branch sets it without sending
           lasts == IF sent # <<>> THEN {sent[1].last}
                    ELSE IF csa.words < 4 THEN {w.last}
                    ELSE IF splits THEN {w.hi = None} ELSE BOOLEAN
       IN  /\ sent # <<>> => Len(dataBuffer2) < DataDepth
           /\ dataBuffer2' = dataBuffer2 \o sent
           /\ \E l \in lasts :
                csa' = [words |-> IF w.last THEN 0 ELSE IF csa.words = 4 THEN 4 ELSE csa.words + 1,
                        offset |-> CASE csa.words = 0 -> 15
                                     [] csa.words = 3 -> DataOffset(w.lo)
                                     [] csa.words = 4 /\ csa.offset > 6 -> csa.offset - 2
                                     [] splits -> 5
                                     [] OTHER -> csa.offset,
                        shift |-> IF csa.words = 0 THEN ShiftAtStart ELSE csa.shift \/ splits,
                        wasLast |-> IF w.last THEN ~l ELSE csa.wasLast,
                        check |-> w.last,
                        half |-> IF splits \/ (sent # <<>> /\ csa.shift) THEN w.hi ELSE csa.half,
                        pkt |-> IF csa.words = 3 THEN w.lo[1] ELSE csa.pkt,
                        len |-> CASE csa.words = 1 -> TcpLen(w.lo)
                                  [] csa.words = 3 -> csa.len - DataOffset(w.lo)
                                  [] OTHER -> csa.len]
    /\ dataBuffer1' = Tail(dataBuffer1)
    /\ UNCHANGED <<arrived, ipRxData, tcpLenFifo, dataBuffer0, tcpValidFifo, metaDataFifo, tle, iph>>

ChecksumRest ==
    /\ csa.check /\ csa.wasLast
    /\ csa.len # 0 => Len(dataBuffer2) < DataDepth
    /\ dataBuffer2' = IF csa.len # 0 THEN Append(dataBuffer2, [lo |-> csa.half, hi |-> None, last |-> TRUE]) ELSE dataBuffer2
    /\ csa' = [csa EXCEPT !.wasLast = FALSE]
    /\ UNCHANGED <<arrived, ipRxData, tcpLenFifo, dataBuffer0, dataBuffer1, tcpValidFifo, metaDataFifo, tle, iph>>

(* The metadata of a valid packet goes on, with its port and its tuple; a payload gets its verdict. *)
ChecksumDone ==
    /\ csa.check /\ ~csa.wasLast /\ Room(metaDataFifo) /\ Room(tcpValidFifo)
    /\ LET valid == arrived[csa.pkt].valid
       IN  /\ metaDataFifo' = IF valid THEN Append(metaDataFifo, [pkt |-> csa.pkt, len |-> csa.len]) ELSE metaDataFifo
           /\ tcpValidFifo' = IF csa.len # 0 THEN Append(tcpValidFifo, valid) ELSE tcpValidFifo
    /\ csa' = [csa EXCEPT !.check = FALSE]
    /\ UNCHANGED <<arrived, ipRxData, tcpLenFifo, dataBuffer0, dataBuffer1, dataBuffer2, tle, iph>>

ParserStep ==
    \/ LengthInsert \/ LengthRest \/ LengthWord \/ PseudoRest \/ PseudoWord
    \/ ChecksumWord \/ ChecksumRest \/ ChecksumDone

----------------------------------------------------------------------------
(* The payload and its verdicts                                            *)

CONSTANT PendingDepth       \* of rand_notificationBuffer (31)

VARIABLES
    rtid,           \* rxTcpInvalidDropper: "first", "forward" or "drop"
    dataBuffer3,
    mhState,        \* rxMetadataHandler: "meta", or "lookup"
    mhMeta, dropFifo1, fsmMetaDataFifo,
    dropFifo2, writeCmd, notifications,     \* what rxTcpFSM writes
    tpf,            \* rxPackageDropper: "readDrop", "readDrop2", "fwd" or "drop"
    memWriter,      \* the words for rxEngMemWrite
    writing,        \* the command that rxEngMemWrite works on: <<>> or <<[pkt, left]>>
    memory,         \* the half-words that have been written
    wrStatus,       \* the commands that have been done
    pending,        \* rand_notificationBuffer
    told            \* notifications that the application got

pathVars == <<rtid, dataBuffer3, mhState, mhMeta, dropFifo1, fsmMetaDataFifo, dropFifo2, writeCmd, notifications, tpf,
              memWriter, writing, memory, wrStatus, pending, told>>
vars == <<parserVars, pathVars>>

Init ==
    /\ ParserInit
    /\ rtid = "first" /\ dataBuffer3 = <<>>
    /\ mhState = "meta" /\ mhMeta = [pkt |-> 0, len |-> 0] /\ dropFifo1 = <<>> /\ fsmMetaDataFifo = <<>>
    /\ dropFifo2 = <<>> /\ writeCmd = <<>> /\ notifications = <<>>
    /\ tpf = "readDrop" /\ memWriter = <<>> /\ writing = <<>> /\ memory = {} /\ wrStatus = <<>> /\ pending = <<>> /\ told = <<>>

----------------------------------------------------------------------------
(* rxTcpInvalidDropper *)

InvalidDropper ==
    /\ dataBuffer2 # <<>>
    /\ rtid = "first" => tcpValidFifo # <<>>
    /\ LET w == Head(dataBuffer2)
           drops == rtid = "drop" \/ (rtid = "first" /\ ~Head(tcpValidFifo))
       IN  /\ drops \/ Room(dataBuffer3)
           /\ dataBuffer3' = IF drops THEN dataBuffer3 ELSE Append(dataBuffer3, w)
           /\ rtid' = IF w.last THEN "first" ELSE IF drops THEN "drop" ELSE "forward"
    /\ tcpValidFifo' = IF rtid = "first" THEN Tail(tcpValidFifo) ELSE tcpValidFifo
    /\ dataBuffer2' = Tail(dataBuffer2)
    /\ UNCHANGED <<arrived, ipRxData, tcpLenFifo, dataBuffer0, dataBuffer1, metaDataFifo, tle, iph, csa>>
    /\ UNCHANGED <<mhState, mhMeta, dropFifo1, fsmMetaDataFifo, dropFifo2, writeCmd, notifications, tpf, memWriter, writing,
                   memory, wrStatus, pending, told>>

----------------------------------------------------------------------------
(* rxMetadataHandler: a closed port, or a tuple that the session lookup does not know, drops the   *)
(* payload; for a tuple it knows the state machine gets the metadata.                              *)

Lookup(meta) == arrived[meta.pkt].lookup

MetaRead ==
    /\ mhState = "meta" /\ metaDataFifo # <<>>
    /\ LET meta == Head(metaDataFifo)
       IN  IF Lookup(meta) = "closed"
           THEN /\ meta.len # 0 => Room(dropFifo1)
                /\ dropFifo1' = IF meta.len # 0 THEN Append(dropFifo1, TRUE) ELSE dropFifo1
                /\ UNCHANGED <<mhState, mhMeta>>
           ELSE mhState' = "lookup" /\ mhMeta' = meta /\ UNCHANGED dropFifo1
    /\ metaDataFifo' = Tail(metaDataFifo)
    /\ UNCHANGED <<arrived, ipRxData, tcpLenFifo, dataBuffer0, dataBuffer1, dataBuffer2, tcpValidFifo, tle, iph, csa>>
    /\ UNCHANGED <<rtid, dataBuffer3, fsmMetaDataFifo, dropFifo2, writeCmd, notifications, tpf, memWriter, writing, memory,
                   wrStatus, pending, told>>

MetaLookup ==
    /\ mhState = "lookup"
    /\ LET hit == Lookup(mhMeta) = "hit"
       IN  /\ hit => Room(fsmMetaDataFifo)
           /\ fsmMetaDataFifo' = IF hit THEN Append(fsmMetaDataFifo, mhMeta) ELSE fsmMetaDataFifo
           /\ mhMeta.len # 0 => Room(dropFifo1)
           /\ dropFifo1' = IF mhMeta.len # 0 THEN Append(dropFifo1, ~hit) ELSE dropFifo1
    /\ mhState' = "meta"
    /\ UNCHANGED <<parserVars, rtid, dataBuffer3, mhMeta, dropFifo2, writeCmd, notifications, tpf, memWriter, writing, memory,
                   wrStatus, pending, told>>

----------------------------------------------------------------------------
(* rxTcpFSM, as far as payload and application are concerned (RxFsm has the rest).  An             *)
(* acknowledgement or a FIN is accepted when it is in order and, for the first one, when there is  *)
(* room; SYN and RST have no verdict.                                                              *)

Kind(meta) == arrived[meta.pkt].kind
Taken(fifo, meta) == fifo' = Append(fifo, [pkt |-> meta.pkt, len |-> meta.len])

(* The verdict: to accept an in-order payload, or to drop it. *)
VerdictAcceptsOnly(accepts) == accepts          \* a fault: what is not accepted gets no verdict
Verdict(accepts) == TRUE

FsmPayload(accepts) ==
    /\ fsmMetaDataFifo # <<>>
    /\ LET meta == Head(fsmMetaDataFifo)
       IN  /\ Kind(meta) \in {"ack", "fin"} /\ meta.len # 0
           /\ IF accepts
              THEN Room(writeCmd) /\ Taken(writeCmd, meta) /\ Room(notifications) /\ Taken(notifications, meta)
              ELSE UNCHANGED <<writeCmd, notifications>>
           /\ Room(dropFifo2) /\ dropFifo2' = IF Verdict(accepts) THEN Append(dropFifo2, ~accepts) ELSE dropFifo2
    /\ fsmMetaDataFifo' = Tail(fsmMetaDataFifo)
    /\ UNCHANGED <<parserVars, rtid, dataBuffer3, mhState, mhMeta, dropFifo1, tpf, memWriter, writing, memory, wrStatus,
                   pending, told>>

(* A FIN in ESTABLISHED or a RST in order tells the application that the connection is closed. *)
FsmOther(tells) ==
    /\ fsmMetaDataFifo # <<>>
    /\ LET meta == Head(fsmMetaDataFifo)
       IN  /\ Kind(meta) \in {"ack", "fin"} => meta.len = 0
           /\ tells => Kind(meta) \in {"fin", "rst"}
           /\ IF tells
              THEN Room(notifications) /\ notifications' = Append(notifications, [pkt |-> meta.pkt, len |-> 0])
              ELSE UNCHANGED notifications
    /\ fsmMetaDataFifo' = Tail(fsmMetaDataFifo)
    /\ UNCHANGED <<parserVars, rtid, dataBuffer3, mhState, mhMeta, dropFifo1, dropFifo2, writeCmd, tpf, memWriter, writing,
                   memory, wrStatus, pending, told>>

----------------------------------------------------------------------------
(* rxPackageDropper *)

ReadDrop ==
    /\ \/ /\ tpf = "readDrop" /\ dropFifo1 # <<>>
          /\ tpf' = IF Head(dropFifo1) THEN "drop" ELSE "readDrop2"
          /\ dropFifo1' = Tail(dropFifo1) /\ UNCHANGED dropFifo2
       \/ /\ tpf = "readDrop2" /\ dropFifo2 # <<>>
          /\ tpf' = IF Head(dropFifo2) THEN "drop" ELSE "fwd"
          /\ dropFifo2' = Tail(dropFifo2) /\ UNCHANGED dropFifo1
    /\ UNCHANGED <<parserVars, rtid, dataBuffer3, mhState, mhMeta, fsmMetaDataFifo, writeCmd, notifications, memWriter, writing,
                   memory, wrStatus, pending, told>>

PackageDropper ==
    /\ tpf \in {"fwd", "drop"} /\ dataBuffer3 # <<>>
    /\ tpf = "fwd" => Room(memWriter)
    /\ memWriter' = IF tpf = "fwd" THEN Append(memWriter, Head(dataBuffer3)) ELSE memWriter
    /\ tpf' = IF Head(dataBuffer3).last THEN "readDrop" ELSE tpf
    /\ dataBuffer3' = Tail(dataBuffer3)
    /\ UNCHANGED <<parserVars, rtid, mhState, mhMeta, dropFifo1, fsmMetaDataFifo, dropFifo2, writeCmd, notifications, writing,
                   memory, wrStatus, pending, told>>

----------------------------------------------------------------------------
(* rxEngMemWrite takes as many words as its command says (RingAccess has the rest).  The status of *)
(* a write comes some time after its last word.                                                    *)

WriteBegin ==
    /\ writing = <<>> /\ writeCmd # <<>>
    /\ writing' = <<[pkt |-> Head(writeCmd).pkt, left |-> Head(writeCmd).len]>>
    /\ writeCmd' = Tail(writeCmd)
    /\ UNCHANGED <<parserVars, rtid, dataBuffer3, mhState, mhMeta, dropFifo1, fsmMetaDataFifo, dropFifo2, notifications, tpf,
                   memWriter, memory, wrStatus, pending, told>>

WriteWord ==
    /\ writing # <<>> /\ memWriter # <<>>
    /\ LET left == writing[1].left
       IN  IF left > 2
           THEN writing' = <<[writing[1] EXCEPT !.left = left - 2]>> /\ UNCHANGED wrStatus
           ELSE Room(wrStatus) /\ writing' = <<>> /\ wrStatus' = Append(wrStatus, writing[1].pkt)
    /\ memory' = memory \union {Head(memWriter).lo, Head(memWriter).hi}
    /\ memWriter' = Tail(memWriter)
    /\ UNCHANGED <<parserVars, rtid, dataBuffer3, mhState, mhMeta, dropFifo1, fsmMetaDataFifo, dropFifo2, writeCmd,
                   notifications, tpf, pending, told>>

----------------------------------------------------------------------------
(* rxAppNotificationDelayer: a status releases the oldest notification that waits; one without     *)
(* data does not wait.                                                                             *)

Release ==
    /\ wrStatus # <<>> /\ pending # <<>>
    /\ told' = Append(told, Head(pending))
    /\ pending' = Tail(pending) /\ wrStatus' = Tail(wrStatus)
    /\ UNCHANGED <<parserVars, rtid, dataBuffer3, mhState, mhMeta, dropFifo1, fsmMetaDataFifo, dropFifo2, writeCmd,
                   notifications, tpf, memWriter, writing, memory>>

WaitsNever(notification) == notification.len > 2    \* a fault: short ones do not wait
Waits(notification) == notification.len # 0

Delay ==
    /\ ~(wrStatus # <<>> /\ pending # <<>>)
    /\ notifications # <<>> /\ Len(pending) < PendingDepth
    /\ LET n == Head(notifications)
       IN  IF Waits(n) THEN pending' = Append(pending, n) /\ UNCHANGED told
           ELSE told' = Append(told, n) /\ UNCHANGED pending
    /\ notifications' = Tail(notifications)
    /\ UNCHANGED <<parserVars, rtid, dataBuffer3, mhState, mhMeta, dropFifo1, fsmMetaDataFifo, dropFifo2, writeCmd, tpf,
                   memWriter, writing, memory, wrStatus>>

Engine ==
    \/ ParserStep /\ UNCHANGED pathVars
    \/ InvalidDropper \/ MetaRead \/ MetaLookup
    \/ \E b \in BOOLEAN : FsmPayload(b) \/ FsmOther(b)
    \/ ReadDrop \/ PackageDropper \/ WriteBegin \/ WriteWord \/ Release \/ Delay

Next == Engine \/ \E p \in Packets : Arrive(p) /\ UNCHANGED pathVars

Spec == Init /\ [][Next]_vars

----------------------------------------------------------------------------
(* Correctness *)

(* the half-words of the payload of a packet, its last n ones *)
PayloadTail(k, n) ==
    LET p == arrived[k]
        total == p.ihl + p.doff + p.len
    IN  [i \in 1 .. n |-> <<k, total - n + i - 1>>]

(* What rxEngMemWrite takes next for the command it works on is the part of the payload of the     *)
(* accepted segment that comes next, and nothing else: neither headers nor the payload of another  *)
(* packet, whichever sizes the headers have and whatever was dropped in between.                   *)
PayloadIsItsOwn ==
    (writing # <<>> /\ memWriter # <<>>) =>
        LET left == writing[1].left
            rest == PayloadTail(writing[1].pkt, left)
            w == Head(memWriter)
        IN  /\ w.lo = rest[1]
            /\ w.hi = IF left > 1 THEN rest[2] ELSE None
            /\ w.last = (left <= 2)

(* The application is told of data only when the memory holds all of it. *)
ToldIsWritten ==
    \A i \in DOMAIN told :
        LET n == told[i].len
        IN  \A j \in 1 .. n : PayloadTail(told[i].pkt, n)[j] \in memory

(* The engine comes to rest only when every packet has gone its way. *)
NeverStuck ==
    ENABLED Engine \/
        (/\ ipRxData = <<>> /\ tcpLenFifo = <<>> /\ dataBuffer0 = <<>> /\ dataBuffer1 = <<>> /\ dataBuffer2 = <<>>
         /\ tcpValidFifo = <<>> /\ metaDataFifo = <<>> /\ dataBuffer3 = <<>> /\ dropFifo1 = <<>> /\ fsmMetaDataFifo = <<>>
         /\ dropFifo2 = <<>> /\ writeCmd = <<>> /\ notifications = <<>> /\ memWriter = <<>> /\ writing = <<>>
         /\ wrStatus = <<>> /\ pending = <<>> /\ tpf = "readDrop")
=============================================================================
