------------------------------- MODULE UdpPath -------------------------------
(* Datagrams from the transmit path of one UDP core, over a network, to the receive path of        *)
(* another one, which other hosts send to as well.  The network may spoil a packet (valid is       *)
(* FALSE), which the sum in the header shows.                                                      *)
EXTENDS UdpTx

CONSTANTS
    SentPackets,        \* what an application may send
    ForeignPackets,     \* what other hosts may send, with options in their IP headers
    HeldPort,           \* open from before the first packet, and never released
    MaxPackets, MaxPortCalls        \* bounds on a behaviour

VARIABLES midPacket, calls
vars == <<packets, rxVars, txVars, midPacket, calls>>

Init ==
    /\ packets = <<>> /\ portTable = {HeldPort} /\ RxInit /\ TxInit
    /\ midPacket = FALSE        \* a packet is under way on the wire
    /\ calls = 0

Send(p) ==
    /\ Len(packets) < MaxPackets /\ AppSend(p)
    /\ UNCHANGED <<rxVars, midPacket, calls>>

(* A packet of another host comes between two others. *)
Foreign(p) ==
    /\ Len(packets) < MaxPackets /\ wire = <<>> /\ ~midPacket
    /\ packets' = Append(packets, p)
    /\ wire' = PacketWords(Len(packets) + 1, p)
    /\ UNCHANGED <<strip, stripOut, sumVars, portVars, engVars, txVars, midPacket, calls>>

CallUnchanged ==
    UNCHANGED <<packets, wire, strip, stripOut, sumVars, portTable, portAnswers, check_req, check_rsp, engVars, txVars, midPacket>>

Open(port) ==
    /\ calls < MaxPortCalls /\ Room(port_req)
    /\ port_req' = Append(port_req, port) /\ calls' = calls + 1
    /\ CallUnchanged /\ UNCHANGED port_rel

Release(port) ==
    /\ calls < MaxPortCalls /\ Room(port_rel) /\ port # HeldPort
    /\ port_rel' = Append(port_rel, port) /\ calls' = calls + 1
    /\ CallUnchanged /\ UNCHANGED port_req

Core ==
    \/ RxStep /\ UNCHANGED <<txVars, midPacket, calls>>
    \/ TxInner /\ UNCHANGED <<rxVars, midPacket, calls>>
    \/ /\ TxOuter
       /\ midPacket' = ~wire'[Len(wire')].last
       /\ UNCHANGED <<strip, stripOut, sumVars, portVars, engVars, calls>>

Next ==
    \/ Core
    \/ \E p \in SentPackets : Send(p)
    \/ \E p \in ForeignPackets : Foreign(p)
    \/ \E port \in Ports : Open(port) \/ Release(port)

Spec == Init /\ [][Next]_vars

----------------------------------------------------------------------------
(* Correctness *)

PayloadOf(k) == LET p == packets[k] IN [i \in 1 .. p.len |-> <<k, p.ihl + 1 + i>>]
Seqs == INSTANCE SequencesExt

(* A datagram that an application gets has the addresses, the ports and the payload of one packet, *)
(* which was not spoilt, and all of the payload when its last word is there: what was dropped or   *)
(* refused before has left nothing behind in any of the FIFOs.                                     *)
DeliveredIsSent ==
    \A i \in DOMAIN delivered :
        LET d == delivered[i]
        IN  /\ d.ip = d.udp /\ packets[d.udp].valid
            /\ Seqs!IsPrefix(d.halves, PayloadOf(d.udp))
            /\ d.done => Len(d.halves) = packets[d.udp].len

(* A port unreachable message quotes header and datagram of one packet.  (The last half-word is    *)
(* missing when it is the second one of its word: see UnreachableUdp.)                             *)
RefusalQuotes ==
    \A i \in DOMAIN refused :
        LET r == refused[i]
            k == r.halves[1][1]
            packet == [j \in 1 .. Total(packets[k]) |-> <<k, j - 1>>]
        IN  /\ Seqs!IsPrefix(r.halves, packet) /\ packets[k].valid
            /\ r.done => Len(r.halves) >= Len(packet) - 1

(* What the core passes on, to an application or to icmp_server, is of one packet.                 *)
PacketsKeepApart == DeliveredIsSent /\ RefusalQuotes

(* The core comes to rest only when nothing is left in it, every datagram from here had its right  *)
(* sum, and every one for the port that stays open was delivered, once, if it was not spoilt and   *)
(* not empty.                                                                                      *)
RestIsDelivered ==
    ENABLED Core \/
        /\ wire = <<>> /\ strip.st = "idle" /\ stripOut = <<<<>>, <<>>, <<>>, <<>>>> /\ sumVars = <<<<>>, <<>>>>
        /\ check_req = <<>> /\ check_rsp = <<>> /\ eng.st = "idle"
        /\ appVars = <<<<>>, <<>>, <<>>>> /\ ow.st = "idle" /\ packetData = <<>> /\ read2ip_data = <<>> /\ iph.st = "idle"
        /\ \A k \in DOMAIN packets :
            /\ packets[k].port = HeldPort /\ packets[k].valid /\ packets[k].len > 0
               => \E i \in DOMAIN delivered :
                    delivered[i].udp = k /\ delivered[i].done /\ \A j \in DOMAIN delivered : j # i => delivered[j].udp # k
            /\ packets[k] \in SentPackets \ ForeignPackets => k \in sumSent
=============================================================================
