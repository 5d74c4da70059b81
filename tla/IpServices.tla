----------------------------- MODULE IpServices -----------------------------
(* The services below the transport: ip_handler sorts what comes from the network, icmp_server      *)
(* answers pings and reports errors, arp_server and mac_ip_encode send packets to the right node,   *)
(* those of the application and the segments of tx_engine.                                          *)
(* A behaviour starts with all that it will be given; each process may lag behind as it likes.      *)
EXTENDS TxSegments

CONSTANT
    Scenarios       \* what is given: the frames, and what the table has at first

vars == <<frames, q, handler, server, arp, encode, builder>>

S == INSTANCE SequencesExt

(* Half-words as the words of a stream. *)
Words(halves) ==
    [i \in 1 .. (Len(halves) + 3) \div 4 |->
        [h |-> SubSeq(halves, 4 * i - 3, S!Min({4 * i, Len(halves)})), last |-> 4 * i >= Len(halves)]]

(* A frame of the network has all of its half-words and the padding, a packet that the UDP core     *)
(* refuses is quoted from its IP header on, and a packet of the application is one without a MAC    *)
(* header. *)
Given(fs, via, first) ==
    S!FlattenSeq([k \in DOMAIN fs |->
        IF fs[k].via = via THEN Words(Cells(k, first, IF via = "net" THEN fs[k].size ELSE fs[k].len)) ELSE <<>>])

(* metaLoader: a segment in answer to a packet without a session has its addresses with it. *)
Segments(kinds) == SelectSeq([k \in DOMAIN frames |-> k], LAMBDA k : frames[k].via = "tcp" /\ frames[k].session \in kinds)
Payloads ==
    S!FlattenSeq([k \in DOMAIN frames |-> IF frames[k].via = "tcp" THEN Words(Cells(k, 20, frames[k].len - 20)) ELSE <<>>])

Sinks == {"udp", "tcp", "icmpOut", "macOut"}

Init ==
    /\ \E s \in Scenarios :
        /\ frames = s.frames /\ cam = s.cam
        /\ q = [f \in DOMAIN Size |->
                    CASE f = "dataIn"  -> Given(s.frames, "net", 0)
                      [] f = "refused" -> Given(s.frames, "udp", 7)
                      [] f = "ipIn"    -> Given(s.frames, "app", 0)
                      [] f = "ipMeta"  -> Segments(BOOLEAN)
                      [] f = "tcpMeta" -> Segments(BOOLEAN)
                      [] f = "isLookUp" -> LET all == Segments(BOOLEAN) IN [i \in DOMAIN all |-> frames[all[i]].session]
                      [] f = "rev_rsp" -> Segments({TRUE})
                      [] f = "tupleShortCut" -> Segments({FALSE})
                      [] f = "txBufferReadData" -> Payloads
                      [] OTHER         -> <<>>]
    /\ HandlerInit /\ ServerInit /\ ArpInit /\ BuilderInit

Next ==
    \/ HandlerStep /\ UNCHANGED <<frames, server, arp, encode, builder>>
    \/ ServerStep /\ UNCHANGED <<frames, handler, arp, encode, builder>>
    \/ (ArpStep \/ EncodeStep) /\ UNCHANGED <<frames, handler, server, builder>>
    \/ BuilderStep /\ UNCHANGED <<frames, handler, server, arp, encode>>

Spec == Init /\ [][Next]_vars

----------------------------------------------------------------------------
(* Correctness *)

(* What the node takes.  A header with options is not taken: check_ip_checksum sums a word too much *)
(* or reads the address again behind it, and icmp_server relies on there being none.                *)
Taken(k) ==
    LET f == frames[k]
    IN  /\ f.via = "net" /\ f.type = "IPv4" /\ f.mac # "other" /\ f.dst # "other" /\ f.version = 4 /\ ~f.fragment
        /\ f.len <= MaxDatagramSize /\ f.ihl = 5 /\ f.right
TakenBy(proto) == {k \in DOMAIN frames : Taken(k) /\ frames[k].ttl # 1 /\ frames[k].proto = proto}
PacketOf(k) == Words(Cells(k, 7, frames[k].len))
InOrder(ks) == S!FlattenSeq([k \in DOMAIN frames |-> IF k \in ks THEN PacketOf(k) ELSE <<>>])

(* UDP and TCP get the packets that are for them, whole, in order and without the padding of the    *)
(* network; the verdicts that come through three FIFOs of their own never meet another packet.      *)
ReceivedIsWhole ==
    /\ S!IsPrefix(q.udp, InOrder(TakenBy("UDP")))
    /\ S!IsPrefix(q.tcp, InOrder(TakenBy("TCP")))

Starts(stream) == {i \in DOMAIN stream : i = 1 \/ stream[i - 1].last}
Plain(w) == [w EXCEPT !.h = [i \in DOMAIN @ |-> SubSeq(@[i], 1, 2)]]

(* A stream has the packets it should have, each from its first word on and none twice. *)
Consists(stream, NumberAt(_), Right(_)) ==
    /\ \A i, j \in Starts(stream) : i # j => NumberAt(i) # NumberAt(j)
    /\ \A i \in Starts(stream), j \in DOMAIN stream :
        i <= j /\ (\A m \in i .. j - 1 : ~stream[m].last) =>
            LET right == Words(Right(NumberAt(i)))
            IN  j - i < Len(right) /\ Plain(stream[j]) = right[j - i + 1]

Pings == {k \in TakenBy("ICMP") : frames[k].echo /\ frames[k].messageRight}
Reported == {k \in DOMAIN frames : frames[k].via = "udp" \/ (Taken(k) /\ frames[k].ttl = 1)}

Reply(k) ==
    Cells(k, 7, 6) \o Cells(k, 15, 2) \o Cells(k, 13, 2) \o <<<<k, -17>>, <<k, -18>>>> \o Cells(k, 19, frames[k].len - 12)
Error(k) ==
    <<<<k, 7>>, <<k, -8>>, <<k, 9>>, <<k, 10>>, <<k, -11>>, <<k, 12>>>> \o OurAddress \o Cells(k, 13, 2)
    \o <<<<0, -17>>, <<k, -18>>, <<0, -19>>, <<0, -20>>>> \o Cells(k, 7, frames[k].len)

(* Each packet that icmp_server sends is the answer to one ping, with the addresses exchanged and a *)
(* checksum that is right for the type of a reply, or it quotes one packet that was refused or too  *)
(* old: data and checksums, which two sources send through four FIFOs, never mix.                   *)
IcmpIsWhole ==
    LET NumberAt(i) == q.icmpOut[i].h[1][1]
        Right(k) == IF k \in Pings THEN Reply(k) ELSE IF k \in Reported THEN Error(k) ELSE <<>>
    IN  /\ Consists(q.icmpOut, NumberAt, Right)
        /\ \A i \in DOMAIN q.icmpOut : \A half \in S!ToSet(q.icmpOut[i].h) :
            Len(half) = 3 /\ half[1] \in Pings => (half[3] - frames[half[1]].checksum - EchoRequest) % (SumMod - 1) = 0

(* Nothing that the node takes is mixed with another packet on any way through it. *)
PacketsStayWhole == ReceivedIsWhole /\ IcmpIsWhole

(* The MAC address that a frame of packet k may have: one the table had for its next hop. *)
MacsFor(k) ==
    LET hop == NextHop(frames[k].dst)
    IN  IF hop = Broadcast THEN {BroadcastMac} ELSE {pair[2] : pair \in {p \in everHad : p[1] = hop}}
ToSend == {k \in DOMAIN frames : frames[k].via \in {"app", "tcp"}}
Framed(k, mac) ==
    LET to == <<0, mac>>
        us == <<0, OurMac>>
        packet == [Cells(k, 0, frames[k].len) EXCEPT ![6] = <<k, -5>>]
    IN  <<to, to, to, us, us, us, <<0, 0>>>> \o
        IF frames[k].via = "tcp" THEN [packet EXCEPT ![19] = <<k, -18>>] ELSE packet

(* A frame leaves with a MAC address that the table had for the next hop of its own packet, never   *)
(* for that of another one, and with the checksum of its own header; the packets stay in order.  A  *)
(* segment has the length, the addresses, the numbers, the payload and the checksum of one segment. *)
FramesLeaveRight ==
    LET NumberAt(i) == IF i < Len(q.macOut) THEN q.macOut[i + 1].h[4][1] ELSE 0
        Right(k) == Framed(k, q.macOut[CHOOSE i \in Starts(q.macOut) : NumberAt(i) = k].h[1][2])
        starts == {i \in Starts(q.macOut) : i < Len(q.macOut)}
    IN  /\ \A i \in starts : NumberAt(i) \in ToSend /\ q.macOut[i].h[1][2] \in MacsFor(NumberAt(i))
        /\ \A i, j \in starts : i < j => NumberAt(i) < NumberAt(j)
        /\ starts # {} => Consists(SubSeq(q.macOut, 1, IF Len(q.macOut) \in Starts(q.macOut) THEN Len(q.macOut) - 1 ELSE Len(q.macOut)),
                                   NumberAt, Right)

Asked(ip) == \E i \in DOMAIN arpSent : arpSent[i] = <<"arpRequestMeta", ip>>
ArpFrames == {k \in DOMAIN frames : frames[k].via = "net" /\ frames[k].type = "ARP" /\ frames[k].mac # "other"}

(* The services come to rest only when nothing is left in them: every packet taken was passed on,   *)
(* every ping and every packet to report was answered, every request for our address got a reply    *)
(* and every other node is in the table; a packet was sent, or its next hop was asked for.          *)
RestIsServed ==
    ENABLED Next \/
        /\ \A f \in DOMAIN q \ (Sinks \cup {"macUpdate_resp"}) : q[f] = <<>>
        /\ Len(q.macUpdate_resp) = leaked
        /\ q.udp = InOrder(TakenBy("UDP")) /\ q.tcp = InOrder(TakenBy("TCP"))
        /\ \A k \in Pings \cup Reported : \E i \in Starts(q.icmpOut) : q.icmpOut[i].h[1][1] = k
        /\ q.icmpOut # <<>> => S!Last(q.icmpOut).last
        /\ \A k \in ArpFrames :
            /\ <<frames[k].source, frames[k].sourceMac>> \in everHad
            /\ frames[k].op = "request" /\ frames[k].dst = "us"
               => \E i \in DOMAIN arpSent : arpSent[i] = <<"arpReplyMeta", frames[k].source>>
        /\ \A k \in ToSend :
            \/ \E i \in Starts(q.macOut) : q.macOut[i + 1].h[4][1] = k
            \/ Asked(NextHop(frames[k].dst))
        /\ q.macOut # <<>> => S!Last(q.macOut).last
=============================================================================
