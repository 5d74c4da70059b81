------------------------------ MODULE MCUdpPath ------------------------------
(* Packets for TLC.  Options that end an IP header with a word come with payloads of whole words,  *)
(* to the port that is held.                                                                       *)
EXTENDS UdpPath

Packet(i, n, ok, p) == [ihl |-> i, len |-> n, valid |-> ok, port |-> p]
MCSent ==
    {Packet(5, 1, TRUE, 2), Packet(5, 2, TRUE, 1), Packet(5, 3, TRUE, 1), Packet(5, 4, TRUE, 2), Packet(5, 5, TRUE, 2),
     Packet(5, 2, FALSE, 1)}
MCForeign ==
    {Packet(5, 0, TRUE, 1), Packet(7, 3, TRUE, 2), Packet(7, 0, TRUE, 2), Packet(6, 8, TRUE, 1), Packet(8, 2, TRUE, 1),
     Packet(6, 6, FALSE, 1), Packet(9, 1, FALSE, 1), Packet(11, 2, TRUE, 1)}
=============================================================================
