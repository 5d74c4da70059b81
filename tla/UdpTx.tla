-------------------------------- MODULE UdpTx --------------------------------
(* The transmit path of the UDP core.  The application gives metadata, length and data in streams  *)
(* of their own; outputPathWriteFunction stores the data and feeds udpChecksumCalculation;         *)
(* outputPathReadFunction puts the UDP header, with the sum, before the data; addIpHeader puts an  *)
(* IP header of five half-words before both, so that every word is put together anew.              *)
EXTENDS UdpRx

CONSTANT PacketDataDepth    \* of packetData, which holds a datagram until its sum is known

VARIABLES
    outputPathInMetadata, outputpathInLength, outputPathInData,
    ow, packetData, packetLength, udpMetadata, ow2checksum,
    txSum, udpChecksum,
    orf,            \* outputPathReadFunction: the half-words that are to come, <<>> in OR_IDLE
    read2ip_data, read2ip_address, read2ip_length,
    iph,
    sumSent         \* datagrams whose header has the sum of all that it must cover

appVars == <<outputPathInMetadata, outputpathInLength, outputPathInData>>
owVars == <<ow, packetData, packetLength, udpMetadata, ow2checksum>>
readVars == <<orf, read2ip_data, read2ip_address, read2ip_length, sumSent>>
txVars == <<appVars, owVars, txSum, udpChecksum, readVars, iph>>

TxInit ==
    /\ outputPathInMetadata = <<>> /\ outputpathInLength = <<>> /\ outputPathInData = <<>>
    /\ ow = [st |-> "idle", pkt |-> 0, word |-> NoWord]
    /\ packetData = <<>> /\ packetLength = <<>> /\ udpMetadata = <<>> /\ ow2checksum = <<>>
    /\ txSum = <<>> /\ udpChecksum = <<>>
    /\ orf = <<>> /\ read2ip_data = <<>> /\ read2ip_address = <<>> /\ read2ip_length = <<>> /\ sumSent = {}
    /\ iph = [st |-> "idle", pkt |-> 0, word |-> NoWord]

(* the payload of packet k, in the words of the application *)
PayloadWords(k, p) ==
    LET half(i) == IF i < p.len THEN <<k, p.ihl + 2 + i>> ELSE None
    IN  [w \in 1 .. (p.len + 1) \div 2 |-> [lo |-> half(2 * w - 2), hi |-> half(2 * w - 1), last |-> 2 * w >= p.len]]

AppSend(p) ==
    /\ outputPathInMetadata = <<>> /\ outputpathInLength = <<>> /\ outputPathInData = <<>>
    /\ LET k == Len(packets) + 1
       IN  /\ packets' = Append(packets, p)
           /\ outputPathInMetadata' = <<k>> /\ outputpathInLength' = <<k>>
           /\ outputPathInData' = PayloadWords(k, p)
    /\ UNCHANGED <<owVars, txSum, udpChecksum, readVars, iph>>

----------------------------------------------------------------------------
(* outputPathWriteFunction *)

ToSum(halves, eop) ==
    Room(ow2checksum) /\ ow2checksum' = Append(ow2checksum, [halves |-> halves, eop |-> eop])
Store(word) ==
    Len(packetData) < PacketDataDepth /\ packetData' = Append(packetData, [lo |-> word.lo, hi |-> word.hi])

OwIdle ==
    /\ ow.st = "idle" /\ outputPathInMetadata # <<>> /\ Room(udpMetadata)
    /\ LET k == Head(outputPathInMetadata)
       IN  /\ udpMetadata' = Append(udpMetadata, k) /\ ToSum(<<<<k, -1>>>>, FALSE)
           /\ ow' = [ow EXCEPT !.st = "pseudoHeader", !.pkt = k]
    /\ outputPathInMetadata' = Tail(outputPathInMetadata)
    /\ UNCHANGED <<packets, outputpathInLength, outputPathInData, packetData, packetLength, txSum, udpChecksum, readVars, iph>>

OwPseudoHeader ==
    /\ ow.st = "pseudoHeader" /\ outputpathInLength # <<>> /\ Room(packetLength)
    /\ packetLength' = Append(packetLength, Head(outputpathInLength))
    /\ ToSum(<<<<Head(outputpathInLength), -2>>, <<ow.pkt, packets[ow.pkt].ihl>>>>, FALSE)
    /\ ow' = [ow EXCEPT !.st = "mix"]
    /\ outputpathInLength' = Tail(outputpathInLength)
    /\ UNCHANGED <<packets, outputPathInMetadata, outputPathInData, packetData, udpMetadata, txSum, udpChecksum, readVars, iph>>

(* the UDP length, and the first data *)
OwMix ==
    /\ ow.st = "mix" /\ outputPathInData # <<>>
    /\ LET w == Head(outputPathInData)
           one == w.last /\ w.hi = None
       IN  /\ IF w.last THEN Store(w) ELSE UNCHANGED packetData
           /\ ToSum(<<<<ow.pkt, packets[ow.pkt].ihl + 1>>, w.lo>>, one)
           /\ ow' = [ow EXCEPT !.word = w, !.st = IF ~w.last THEN "stream" ELSE IF one THEN "idle" ELSE "swcs"]
    /\ outputPathInData' = Tail(outputPathInData)
    /\ UNCHANGED <<packets, outputPathInMetadata, outputpathInLength, packetLength, udpMetadata, txSum, udpChecksum, readVars, iph>>

OwStream ==
    /\ ow.st = "stream" /\ outputPathInData # <<>>
    /\ LET w == Head(outputPathInData)
       IN  /\ Store(ow.word) /\ ToSum(<<ow.word.hi, w.lo>>, w.last /\ w.hi = None)
           /\ ow' = [ow EXCEPT !.word = w, !.st = IF ~w.last THEN @ ELSE IF w.hi # None THEN "residue" ELSE "onlyPacketResidue"]
    /\ outputPathInData' = Tail(outputPathInData)
    /\ UNCHANGED <<packets, outputPathInMetadata, outputpathInLength, packetLength, udpMetadata, txSum, udpChecksum, readVars, iph>>

OwResidue ==
    /\ \/ ow.st = "onlyPacketResidue" /\ Store(ow.word) /\ UNCHANGED ow2checksum
       \/ ow.st = "swcs" /\ ToSum(<<ow.word.hi>>, TRUE) /\ UNCHANGED packetData
       \/ ow.st = "residue" /\ ToSum(<<ow.word.hi>>, TRUE) /\ Store(ow.word)
    /\ ow' = [ow EXCEPT !.st = "idle"]
    /\ UNCHANGED <<packets, appVars, packetLength, udpMetadata, txSum, udpChecksum, readVars, iph>>

----------------------------------------------------------------------------
(* udpChecksumCalculation *)

TxSumWord ==
    /\ ow2checksum # <<>>
    /\ LET w == Head(ow2checksum)
           sum == txSum \o w.halves
       IN  IF w.eop THEN Room(udpChecksum) /\ udpChecksum' = Append(udpChecksum, sum) /\ txSum' = <<>>
           ELSE txSum' = sum /\ UNCHANGED udpChecksum
    /\ ow2checksum' = Tail(ow2checksum)
    /\ UNCHANGED <<packets, appVars, ow, packetData, packetLength, udpMetadata, readVars, iph>>

----------------------------------------------------------------------------
(* outputPathReadFunction *)

OrIdle ==
    /\ orf = <<>> /\ packetLength # <<>> /\ udpMetadata # <<>> /\ udpChecksum # <<>>
    /\ Room(read2ip_length) /\ Room(read2ip_data) /\ Room(read2ip_address)
    /\ LET k == Head(udpMetadata)
           p == packets[k]
           sum == Head(udpChecksum)
       IN  /\ read2ip_data' = Append(read2ip_data, [lo |-> <<k, p.ihl>>, hi |-> <<k, p.ihl + 1>>, last |-> FALSE])
           /\ read2ip_address' = Append(read2ip_address, k)
           /\ sumSent' = IF SumIsRight(sum) /\ sum[1][1] = k THEN sumSent \union {k} ELSE sumSent
    /\ read2ip_length' = Append(read2ip_length, Head(packetLength))
    /\ orf' = <<packets[Head(packetLength)].len>>
    /\ packetLength' = Tail(packetLength) /\ udpMetadata' = Tail(udpMetadata) /\ udpChecksum' = Tail(udpChecksum)
    /\ UNCHANGED <<packets, appVars, ow, packetData, ow2checksum, txSum, iph>>

(* Length alone ends the packet: the data is stored without its last and keep. *)
MoreFollowsAlso == orf[1] >= 2                  \* a fault: a full last word is not the last one
MoreFollows == orf[1] > 2
OrStream ==
    /\ orf # <<>> /\ packetData # <<>> /\ Room(read2ip_data)
    /\ LET w == Head(packetData)
       IN  IF MoreFollows
           THEN orf' = <<orf[1] - 2>> /\ read2ip_data' = Append(read2ip_data, [lo |-> w.lo, hi |-> w.hi, last |-> FALSE])
           ELSE /\ orf' = <<>>
                /\ read2ip_data' = Append(read2ip_data, [lo |-> w.lo, hi |-> IF orf[1] > 1 THEN w.hi ELSE None, last |-> TRUE])
    /\ packetData' = Tail(packetData)
    /\ UNCHANGED <<packets, appVars, ow, packetLength, udpMetadata, ow2checksum, txSum, udpChecksum, read2ip_address,
                   read2ip_length, sumSent, iph>>

----------------------------------------------------------------------------
(* addIpHeader.  The length and the second word of the header are sent before any data is read.    *)

ToWire(word) == Room(wire) /\ wire' = Append(wire, word)
IphUnchanged == UNCHANGED <<packets, appVars, owVars, txSum, udpChecksum, orf, sumSent>>

IphIdle ==
    /\ iph.st = "idle" /\ read2ip_data # <<>> /\ read2ip_address # <<>> /\ read2ip_length # <<>>
    /\ LET k == Head(read2ip_length)
       IN  ToWire([lo |-> <<k, 0>>, hi |-> <<k, 1>>, last |-> FALSE])
    /\ read2ip_length' = Tail(read2ip_length)
    /\ iph' = [iph EXCEPT !.st = "ip1"]
    /\ IphUnchanged /\ UNCHANGED <<read2ip_data, read2ip_address>>

IphIp1 ==
    /\ iph.st = "ip1" /\ read2ip_data # <<>> /\ read2ip_address # <<>>
    /\ LET k == Head(read2ip_address)
       IN  ToWire([lo |-> <<k, 2>>, hi |-> <<k, 3>>, last |-> FALSE]) /\ iph' = [iph EXCEPT !.st = "ip2", !.pkt = k]
    /\ read2ip_address' = Tail(read2ip_address)
    /\ IphUnchanged /\ UNCHANGED <<read2ip_data, read2ip_length>>

IphIp2 ==
    /\ iph.st = "ip2" /\ read2ip_data # <<>>
    /\ LET w == Head(read2ip_data)
       IN  ToWire([lo |-> <<iph.pkt, 4>>, hi |-> w.lo, last |-> FALSE]) /\ iph' = [iph EXCEPT !.st = "forward", !.word = w]
    /\ read2ip_data' = Tail(read2ip_data)
    /\ IphUnchanged /\ UNCHANGED <<read2ip_address, read2ip_length>>

IphForward ==
    /\ iph.st = "forward" /\ read2ip_data # <<>>
    /\ LET w == Head(read2ip_data)
       IN  /\ ToWire([lo |-> iph.word.hi, hi |-> w.lo, last |-> w.last /\ w.hi = None])
           /\ iph' = [iph EXCEPT !.word = w, !.st = IF ~w.last THEN @ ELSE IF w.hi # None THEN "residue" ELSE "idle"]
    /\ read2ip_data' = Tail(read2ip_data)
    /\ IphUnchanged /\ UNCHANGED <<read2ip_address, read2ip_length>>

IphResidue ==
    /\ iph.st = "residue"
    /\ ToWire([lo |-> iph.word.hi, hi |-> None, last |-> TRUE])
    /\ iph' = [iph EXCEPT !.st = "idle"]
    /\ IphUnchanged /\ UNCHANGED <<read2ip_data, read2ip_address, read2ip_length>>

(* what leaves wire alone, and what writes to it *)
TxInner == OwIdle \/ OwPseudoHeader \/ OwMix \/ OwStream \/ OwResidue \/ TxSumWord \/ OrIdle \/ OrStream
TxOuter == IphIdle \/ IphIp1 \/ IphIp2 \/ IphForward \/ IphResidue
=============================================================================
