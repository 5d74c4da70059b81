---------------------------- MODULE MCIpServices ----------------------------
(* What IpServices is given for TLC: a packet of each kind that takes another way through the       *)
(* services, and one behind it that shows what the first has left behind.                           *)
EXTENDS IpServices

(* FIFOs have room for one, but for those that hold a packet until there is a verdict on it. *)
MCSize ==
    [f \in {"dataIn", "refused", "udp", "tcp", "icmpOut", "macOut", "ipMeta", "tcpMeta", "isLookUp", "rev_rsp", "tupleShortCut",
           "txBufferReadData"} |-> 100]
    @@ [f \in {"packageBuffer1", "error_data", "ipDataCheckFifo", "dataStreamBuffer0"} |-> 5]
    @@ [f \in {"error_header", "macUpdate_resp", "dataStreamBuffer2", "tcpPkgBuffer2"} |-> 3]
    @@ [f \in {"arpDataIn", "lengthCheckIn", "ipDataFifo", "subSums", "ipValid", "ipVersion", "ipFragment", "ipDataDropFifo",
               "ipDataCutFifo", "ttlIn", "icmpIn", "validFifo", "checksum0", "checksum1", "data0", "data1", "arpReplyMeta",
               "arpRequestMeta", "arpTableInsert", "lookup", "macUpdate_req", "macLookup_req", "macLookup_resp",
               "macIpEncode_rsp", "dataStreamBuffer1", "checksum", "ipIn", "ipTuple", "tcpTuple", "ipHeader", "tcpHeader",
               "tcpPkgBuffer1", "subChecksums", "tcpChecksum"} |-> 1]

Udp ==
    [via |-> "net", mac |-> "us", type |-> "IPv4", version |-> 4, fragment |-> FALSE, len |-> 16, ihl |-> 5,
     right |-> TRUE, dst |-> "us", ttl |-> 2, proto |-> "UDP", size |-> 30]
Tcp(n) == [Udp EXCEPT !.proto = "TCP", !.len = n]
Ping(n, c) == [Udp EXCEPT !.proto = "ICMP", !.len = n] @@ [echo |-> TRUE, messageRight |-> TRUE, checksum |-> c]
Old(f) == [f EXCEPT !.ttl = 1]
Refused == [Udp EXCEPT !.via = "udp", !.len = 14]
Long == [Udp EXCEPT !.len = 29, !.size = 36]

Dropped ==
    {[Udp EXCEPT !.mac = "other"], [Udp EXCEPT !.type = "other"], [Udp EXCEPT !.version = 6], [Udp EXCEPT !.fragment = TRUE],
     [Udp EXCEPT !.right = FALSE], [Udp EXCEPT !.dst = "other"], [Udp EXCEPT !.proto = "other"]}
ToTcp == {Tcp(n) : n \in {13, 15, 17, 18, 23}} \cup {[Tcp(24) EXCEPT !.size = 31], [Tcp(25) EXCEPT !.size = 32, !.mac = "all"]}
ToIcmp ==
    {Ping(n, 3) : n \in {14, 17, 19}} \cup {Ping(17, 28)}
    \cup {[Ping(15, 3) EXCEPT !.echo = FALSE], [Ping(16, 3) EXCEPT !.messageRight = FALSE]}
PassedOn ==
    {[Udp EXCEPT !.ihl = 6, !.len = 18], [Udp EXCEPT !.ihl = 7, !.len = 21], [Udp EXCEPT !.dst = "all"],
     Old(Udp), Old(Ping(19, 3)), Long, Refused}
Received ==
    Dropped \X {Udp, Old(Tcp(15))} \cup ToTcp \X {Udp, Tcp(17)} \cup ToIcmp \X {Ping(17, 28), Old(Tcp(15))}
    \cup PassedOn \X {Udp, Ping(17, 28), Old(Tcp(15))} \cup {<<f, Refused>> : f \in {Udp, Ping(17, 3), Old(Udp)}}

(* Nodes 1, the gateway, and 2 are on the net, 5 is behind the gateway, 9 is everybody. *)
Arp(op, dst, source, mac) ==
    [via |-> "net", mac |-> "all", type |-> "ARP", op |-> op, dst |-> dst, source |-> source, sourceMac |-> mac, size |-> 30]
Packet(dst, n, i) == [via |-> "app", dst |-> dst, len |-> n, ihl |-> i]
Direct == <<Packet(2, 14, 5), Packet(5, 17, 5)>>
Sent == {Direct, <<Packet(5, 16, 5), Packet(9, 15, 5)>>, <<Packet(2, 18, 6), Packet(2, 19, 7)>>}

(* Segments without payload and with one or two words of it, for a session or in answer to nobody's. *)
Segment(dst, payload, session) == [via |-> "tcp", dst |-> dst, len |-> 20 + payload, ihl |-> 5, session |-> session]
TwoSegments ==
    {<<Segment(2, 0, FALSE), Segment(5, 3, TRUE)>>, <<Segment(5, 8, TRUE), Segment(2, 5, TRUE)>>,
     <<Segment(5, 6, TRUE), Segment(2, 0, FALSE)>>}

(* The table knows nobody, the gateway, or both nodes; ARP frames come while packets are looked up. *)
MCScenarios ==
    {[frames |-> fs, cam |-> <<0, 0>>] : fs \in Received}
    \cup {[frames |-> fs, cam |-> t] : fs \in Sent, t \in {<<0, 0>>, <<11, 0>>, <<11, 12>>}}
    \cup {[frames |-> <<Arp("request", "us", 2, 13)>> \o Direct, cam |-> t] : t \in {<<0, 0>>, <<11, 12>>}}
    \cup {[frames |-> fs, cam |-> <<11, 12>>] : fs \in TwoSegments}
    \cup {[frames |-> <<Arp("reply", "us", 1, 11)>> \o Direct, cam |-> <<0, 0>>],
          [frames |-> <<Arp("reply", "us", 2, 12), Arp("request", "other", 2, 13), Direct[1]>>, cam |-> <<0, 0>>]}
=============================================================================
