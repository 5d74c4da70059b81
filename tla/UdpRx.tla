-------------------------------- MODULE UdpRx --------------------------------
(* The receive path of the UDP core: stripIpHeader sends the IP header, the datagram and the words *)
(* to be summed through three FIFOs; rxEngineUdpChecksumVerification gives its verdict; and        *)
(* inputPathRxEngine brings header, datagram, verdict and the answer of the port table together    *)
(* again, to deliver the datagram, to drop it, or to quote it in a port unreachable message.       *)
(*                                                                                                 *)
(* A half-word is <<packet, index>>; the datagram begins at the index ihl, with two half-words of  *)
(* UDP header.  The pseudo header has the half-words -1 (addresses) and -2 (protocol and length).  *)
EXTENDS Integers, Sequences

CONSTANTS
    Depth,          \* of the FIFOs between the processes
    DataDepth,      \* of strip2inputPath_data, which holds a datagram until its sum is known
    HeaderDepth,    \* of strip2inputPath_IPheader
    Ports

VARIABLES
    packets,        \* what has been sent to the core: [ihl, len, valid, port], len is that of the payload
    wire,           \* inputPathInData
    strip,
    strip2inputPath_data, strip2inputPath_IPheader, strip2inputPath_IP, strip2rxChecksum,
    rxSum,          \* the half-words that have been summed
    rxChecksum2rxEngine,
    portTable,      \* the open ports
    port_req, port_rel,
    portAnswers,    \* what an application was told of its requests
    check_req, check_rsp,
    eng,
    delivered,      \* what the applications got: [ip, udp, halves, done]
    refused         \* what the ICMP server got: [halves, done]

rxVars == <<wire, strip, strip2inputPath_data, strip2inputPath_IPheader, strip2inputPath_IP, strip2rxChecksum, rxSum,
            rxChecksum2rxEngine, portTable, port_req, port_rel, portAnswers, check_req, check_rsp, eng, delivered, refused>>
stripOut == <<strip2inputPath_data, strip2inputPath_IPheader, strip2inputPath_IP, strip2rxChecksum>>
sumVars == <<rxSum, rxChecksum2rxEngine>>
portVars == <<portTable, port_req, port_rel, portAnswers, check_req, check_rsp>>
engVars == <<eng, delivered, refused>>

Room(fifo) == Len(fifo) < Depth
None == <<0, 0>>        \* bytes that are not valid
NoWord == [lo |-> None, hi |-> None, last |-> FALSE]
Halves(word) == SelectSeq(<<word.lo, word.hi>>, LAMBDA h : h # None)

Total(p) == p.ihl + 2 + p.len
PacketWords(k, p) ==
    LET half(i) == IF i < Total(p) THEN <<k, i>> ELSE None
    IN  [w \in 1 .. (Total(p) + 1) \div 2 |-> [lo |-> half(2 * w - 2), hi |-> half(2 * w - 1), last |-> 2 * w >= Total(p)]]

(* what a sum must cover: the pseudo header and the datagram, each half-word once *)
SumIsRight(sum) ==
    LET k == sum[1][1]
        p == packets[k]
    IN  /\ Len(sum) = Total(p) - p.ihl + 2
        /\ {sum[i] : i \in DOMAIN sum} = {<<k, i>> : i \in {-1, -2} \union p.ihl .. Total(p) - 1}

RxInit ==
    /\ wire = <<>>
    /\ strip = [st |-> "idle", pkt |-> 0, hl |-> 0, first |-> TRUE, out |-> NoWord]
    /\ strip2inputPath_data = <<>> /\ strip2inputPath_IPheader = <<>> /\ strip2inputPath_IP = <<>> /\ strip2rxChecksum = <<>>
    /\ rxSum = <<>> /\ rxChecksum2rxEngine = <<>>
    /\ port_req = <<>> /\ port_rel = <<>> /\ portAnswers = <<>> /\ check_req = <<>> /\ check_rsp = <<>>
    /\ eng = [st |-> "idle", ip |-> 0, udp |-> 0, buffer |-> NoWord, ipHdr |-> NoWord, left |-> 0, noPayload |-> FALSE]
    /\ delivered = <<>> /\ refused = <<>>

----------------------------------------------------------------------------
(* stripIpHeader.  Each state reads a word and sends to some of the FIFOs; a header with options   *)
(* ends with a word or within one.                                                                 *)

IhlOf(word) == IF word.lo[1] # 0 /\ word.lo[2] = 0 THEN packets[word.lo[1]].ihl ELSE 15

HeaderTo(word) ==
    Len(strip2inputPath_IPheader) < HeaderDepth /\ strip2inputPath_IPheader' = Append(strip2inputPath_IPheader, word)
DataTo(word) == Len(strip2inputPath_data) < DataDepth /\ strip2inputPath_data' = Append(strip2inputPath_data, word)
SumTo(halves, last) ==
    Room(strip2rxChecksum) /\ strip2rxChecksum' = Append(strip2rxChecksum, [halves |-> halves, last |-> last])

AfterHeader(left) == CASE left = 2 -> "forwardAligned" [] left = 3 -> "ip2" [] OTHER -> "skipOptions"

StripIdle(w) ==
    /\ strip.st = "idle" /\ HeaderTo(w)
    /\ strip' = [st |-> "ip", pkt |-> w.lo[1], hl |-> IhlOf(w), first |-> TRUE, out |-> w]
    /\ UNCHANGED <<strip2inputPath_data, strip2inputPath_IP, strip2rxChecksum>>

StripIp(w) ==
    /\ strip.st = "ip" /\ HeaderTo(w)
    /\ strip' = [strip EXCEPT !.st = IF strip.hl = 5 THEN "ip2" ELSE "skipOptions", !.hl = @ - 2, !.out = w]
    /\ UNCHANGED <<strip2inputPath_data, strip2inputPath_IP, strip2rxChecksum>>

(* The word after the first two has the second address: the addresses are complete. *)
Addresses ==
    IF strip.first
    THEN Room(strip2inputPath_IP) /\ strip2inputPath_IP' = Append(strip2inputPath_IP, strip.pkt) /\ SumTo(<<<<strip.pkt, -1>>>>, FALSE)
    ELSE UNCHANGED <<strip2inputPath_IP, strip2rxChecksum>>

StripSkipOptions(w) ==
    /\ strip.st = "skipOptions" /\ HeaderTo(w) /\ Addresses
    /\ strip' = [strip EXCEPT !.st = AfterHeader(strip.hl - 2), !.hl = @ - 2, !.first = FALSE, !.out = w]
    /\ UNCHANGED strip2inputPath_data

StripIp2(w) ==
    /\ strip.st = "ip2" /\ Addresses /\ HeaderTo([lo |-> w.lo, hi |-> None, last |-> TRUE])
    /\ strip' = [strip EXCEPT !.st = "forward", !.out = w]
    /\ UNCHANGED strip2inputPath_data

StripForwardAligned(w) ==
    /\ strip.st = "forwardAligned" /\ SumTo(<<<<strip.pkt, -2>>, w.lo>>, FALSE) /\ DataTo(w)
    /\ strip' = [strip EXCEPT !.st = "forwardCsAligned", !.out = w]
    /\ UNCHANGED <<strip2inputPath_IPheader, strip2inputPath_IP>>

StripForwardCsAligned(w) ==
    /\ strip.st = "forwardCsAligned" /\ SumTo(<<strip.out.hi, w.lo>>, FALSE) /\ DataTo(w)
    /\ strip' = [strip EXCEPT !.out = w,
                    !.st = IF ~w.last THEN @ ELSE IF w.hi # None THEN "csResidueAligned" ELSE "idle"]
    /\ UNCHANGED <<strip2inputPath_IPheader, strip2inputPath_IP>>

StripForward(w) ==
    /\ strip.st = "forward" /\ SumTo(<<<<strip.pkt, -2>>, strip.out.hi>>, FALSE)
    /\ DataTo([lo |-> strip.out.hi, hi |-> w.lo, last |-> FALSE])
    /\ strip' = [strip EXCEPT !.st = IF w.last THEN "residue" ELSE "forwardCs", !.out = w]
    /\ UNCHANGED <<strip2inputPath_IPheader, strip2inputPath_IP>>

EndsUnmarked(w) == FALSE                        \* a fault: the last word of the datagram is not marked
Ends(w) == w.last /\ w.hi = None

StripForwardCs(w) ==
    /\ strip.st = "forwardCs" /\ SumTo(Halves(strip.out), FALSE)
    /\ DataTo([lo |-> strip.out.hi, hi |-> w.lo, last |-> Ends(w)])
    /\ strip' = [strip EXCEPT !.out = w, !.st = IF ~w.last THEN @ ELSE IF w.hi # None THEN "residue" ELSE "csResidue"]
    /\ UNCHANGED <<strip2inputPath_IPheader, strip2inputPath_IP>>

StripWord ==
    /\ wire # <<>>
    /\ LET w == Head(wire)
       IN  \/ StripIdle(w) \/ StripIp(w) \/ StripSkipOptions(w) \/ StripIp2(w) \/ StripForwardAligned(w)
           \/ StripForwardCsAligned(w) \/ StripForward(w) \/ StripForwardCs(w)
    /\ wire' = Tail(wire)
    /\ UNCHANGED <<packets, sumVars, portVars, engVars>>

StripResidue ==
    /\ \/ /\ strip.st = "residue" /\ SumTo(Halves(strip.out), TRUE)
          /\ DataTo([lo |-> strip.out.hi, hi |-> None, last |-> TRUE])
       \/ strip.st = "csResidue" /\ SumTo(Halves(strip.out), TRUE) /\ UNCHANGED strip2inputPath_data
       \/ strip.st = "csResidueAligned" /\ SumTo(<<strip.out.hi>>, TRUE) /\ UNCHANGED strip2inputPath_data
    /\ strip' = [strip EXCEPT !.st = "idle"]
    /\ UNCHANGED <<packets, wire, strip2inputPath_IPheader, strip2inputPath_IP, sumVars, portVars, engVars>>

----------------------------------------------------------------------------
(* rxEngineUdpChecksumVerification *)

SumWord ==
    /\ strip2rxChecksum # <<>>
    /\ LET w == Head(strip2rxChecksum)
           sum == rxSum \o w.halves
       IN  IF w.last
           THEN /\ Room(rxChecksum2rxEngine)
                /\ rxChecksum2rxEngine' = Append(rxChecksum2rxEngine, SumIsRight(sum) /\ packets[sum[1][1]].valid)
                /\ rxSum' = <<>>
           ELSE rxSum' = sum /\ UNCHANGED rxChecksum2rxEngine
    /\ strip2rxChecksum' = Tail(strip2rxChecksum)
    /\ UNCHANGED <<packets, wire, strip, strip2inputPath_data, strip2inputPath_IPheader, strip2inputPath_IP, portVars, engVars>>

----------------------------------------------------------------------------
(* portTable: queries of the receive path come before requests, and requests before releases. *)

PortQuery ==
    /\ check_req # <<>> /\ Room(check_rsp)
    /\ check_rsp' = Append(check_rsp, Head(check_req) \in portTable)
    /\ check_req' = Tail(check_req)
    /\ UNCHANGED <<packets, wire, strip, stripOut, sumVars, portTable, port_req, port_rel, portAnswers, engVars>>

PortUnchanged == UNCHANGED <<packets, wire, strip, stripOut, sumVars, check_req, check_rsp, engVars>>

PortOpen ==
    /\ check_req = <<>> /\ port_req # <<>>
    /\ portAnswers' = Append(portAnswers, Head(port_req) \notin portTable)
    /\ portTable' = portTable \union {Head(port_req)}
    /\ port_req' = Tail(port_req)
    /\ PortUnchanged /\ UNCHANGED port_rel

PortRelease ==
    /\ check_req = <<>> /\ port_req = <<>> /\ port_rel # <<>>
    /\ portTable' = portTable \ {Head(port_rel)}
    /\ port_rel' = Tail(port_rel)
    /\ PortUnchanged /\ UNCHANGED <<port_req, portAnswers>>

----------------------------------------------------------------------------
(* inputPathRxEngine.  The header is not needed for a datagram that is delivered or dropped; its   *)
(* words are taken from their FIFO along with the data, and what is left of them is drained.       *)

HeadData == Head(strip2inputPath_data)
TakeData == strip2inputPath_data # <<>> /\ strip2inputPath_data' = Tail(strip2inputPath_data)
TakeHeader == strip2inputPath_IPheader # <<>> /\ strip2inputPath_IPheader' = Tail(strip2inputPath_IPheader)

Deliver(w) ==
    LET n == Len(delivered)
    IN  delivered' = [delivered EXCEPT ![n].halves = @ \o Halves(w), ![n].done = w.last]
Refuse(w) ==
    LET n == Len(refused)
    IN  refused' = [refused EXCEPT ![n].halves = @ \o Halves(w), ![n].done = w.last]

(* ap_uint<4>: half-words of header that are left, as the code counts them *)
CountDown(n) == (n - 2) % 16

EngIdle ==
    /\ eng.st = "idle" /\ TakeData /\ TakeHeader /\ strip2inputPath_IP # <<>> /\ Room(check_req)
    /\ strip2inputPath_IP' = Tail(strip2inputPath_IP)
    /\ LET w == HeadData
           hdr == Head(strip2inputPath_IPheader)
       IN  /\ eng' = [st |-> "wait", ip |-> Head(strip2inputPath_IP), udp |-> w.lo[1], buffer |-> w, ipHdr |-> hdr,
                      left |-> CountDown(IhlOf(hdr)), noPayload |-> packets[w.lo[1]].len = 0]
           /\ check_req' = Append(check_req, packets[w.lo[1]].port)
    /\ UNCHANGED <<packets, wire, strip, strip2rxChecksum, sumVars, portTable, port_req, port_rel, portAnswers, check_rsp, delivered, refused>>

EngWait ==
    /\ eng.st = "wait" /\ check_rsp # <<>> /\ rxChecksum2rxEngine # <<>>
    /\ LET right == Head(rxChecksum2rxEngine)
       IN  eng' = [eng EXCEPT !.st =
                     IF Head(check_rsp) /\ right /\ ~eng.noPayload THEN "streamFirst"
                     ELSE IF ~right \/ eng.noPayload THEN "drop" ELSE "unreachableFirst"]
    /\ check_rsp' = Tail(check_rsp) /\ rxChecksum2rxEngine' = Tail(rxChecksum2rxEngine)
    /\ UNCHANGED <<packets, wire, strip, stripOut, rxSum, portTable, port_req, port_rel, portAnswers, check_req, delivered, refused>>

EngOutsideUnchanged ==
    UNCHANGED <<packets, wire, strip, strip2inputPath_IP, strip2rxChecksum, sumVars, portVars>>

StreamFirst ==
    /\ eng.st = "streamFirst" /\ TakeData
    /\ LET w == HeadData
       IN  /\ delivered' = Append(delivered, [ip |-> eng.ip, udp |-> eng.udp, halves |-> Halves(w), done |-> w.last])
           /\ eng' = [eng EXCEPT !.st = IF w.last THEN "drain" ELSE "streamIp"]
    /\ EngOutsideUnchanged /\ UNCHANGED <<strip2inputPath_IPheader, refused>>

HeaderEnds == eng.left <= 2
StreamIp ==
    /\ eng.st = "streamIp" /\ TakeData /\ TakeHeader
    /\ Deliver(HeadData)
    /\ eng' = [eng EXCEPT !.left = CountDown(@),
                 !.st = IF HeadData.last THEN IF HeaderEnds THEN "idle" ELSE "drain"
                        ELSE IF HeaderEnds THEN "streamRest" ELSE @]
    /\ EngOutsideUnchanged /\ UNCHANGED refused

StreamRest ==
    /\ eng.st = "streamRest" /\ TakeData
    /\ Deliver(HeadData)
    /\ eng' = [eng EXCEPT !.st = IF HeadData.last THEN "idle" ELSE @]
    /\ EngOutsideUnchanged /\ UNCHANGED <<strip2inputPath_IPheader, refused>>

Drop ==
    /\ eng.st = "drop" /\ TakeData
    /\ IF eng.left > 0 THEN TakeHeader ELSE UNCHANGED strip2inputPath_IPheader
    /\ LET left == IF eng.left > 2 THEN eng.left - 2 ELSE 0
       IN  eng' = [eng EXCEPT !.left = left, !.st = IF ~HeadData.last THEN @ ELSE IF left = 0 THEN "idle" ELSE "drain"]
    /\ EngOutsideUnchanged /\ UNCHANGED <<delivered, refused>>

Drain ==
    /\ eng.st = "drain" /\ TakeHeader
    /\ eng' = IF eng.left > 2 THEN [eng EXCEPT !.left = @ - 2] ELSE [eng EXCEPT !.st = "idle"]
    /\ EngOutsideUnchanged /\ UNCHANGED <<strip2inputPath_data, delivered, refused>>

UnreachableFirst ==
    /\ eng.st = "unreachableFirst"
    /\ refused' = Append(refused, [halves |-> Halves(eng.ipHdr), done |-> FALSE])
    /\ eng' = [eng EXCEPT !.st = "unreachableIp"]
    /\ EngOutsideUnchanged /\ UNCHANGED <<strip2inputPath_data, strip2inputPath_IPheader, delivered>>

(* the header, up to the word that is marked as its last, and behind it the ports *)
UnreachableIp ==
    /\ eng.st = "unreachableIp" /\ TakeHeader
    /\ LET w == Head(strip2inputPath_IPheader)
       IN  IF w.last
           THEN Refuse([w EXCEPT !.hi = eng.buffer.lo, !.last = FALSE]) /\ eng' = [eng EXCEPT !.st = "unreachableUdp"]
           ELSE Refuse(w) /\ UNCHANGED eng
    /\ EngOutsideUnchanged /\ UNCHANGED <<strip2inputPath_data, delivered>>

(* the rest of the datagram; a half-word that waits for the next word at its end is lost, as the   *)
(* buffer is cleared before it is sent                                                             *)
Shifted(w) == [lo |-> eng.buffer.hi, hi |-> w.lo, last |-> w.last /\ w.hi = None]
UnreachableUdp ==
    /\ eng.st = "unreachableUdp" /\ TakeData
    /\ LET w == HeadData
       IN  /\ Refuse(Shifted(w))
           /\ eng' = [eng EXCEPT !.buffer = w, !.st = IF ~w.last THEN @ ELSE IF w.hi = None THEN "idle" ELSE "unreachableResidue"]
    /\ EngOutsideUnchanged /\ UNCHANGED <<strip2inputPath_IPheader, delivered>>

UnreachableResidue ==
    /\ eng.st = "unreachableResidue"
    /\ Refuse([lo |-> None, hi |-> None, last |-> TRUE])
    /\ eng' = [eng EXCEPT !.st = "idle"]
    /\ EngOutsideUnchanged /\ UNCHANGED <<strip2inputPath_data, strip2inputPath_IPheader, delivered>>

RxStep ==
    \/ StripWord \/ StripResidue \/ SumWord \/ PortQuery \/ PortOpen \/ PortRelease
    \/ EngIdle \/ EngWait \/ StreamFirst \/ StreamIp \/ StreamRest \/ Drop \/ Drain
    \/ UnreachableFirst \/ UnreachableIp \/ UnreachableUdp \/ UnreachableResidue
=============================================================================
