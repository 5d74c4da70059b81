------------------------------ MODULE MCRxPath ------------------------------
(* Packets for TLC: IP headers that end with a word, within one, and after words of options; TCP   *)
(* headers likewise; payloads of no, of half a, of one and of several words; packets that are      *)
(* dropped for each of the reasons.                                                                *)
EXTENDS RxPath

Packet(i, d, n, k) == [ihl |-> i, doff |-> d, len |-> n, kind |-> k, valid |-> TRUE, lookup |-> "hit"]
MCPackets ==
    {Packet(5, 5, 3, "ack"), Packet(6, 6, 2, "ack"), Packet(7, 8, 1, "fin"), Packet(5, 7, 0, "ack"),
     Packet(6, 5, 0, "rst"),
     [Packet(5, 5, 2, "ack") EXCEPT !.valid = FALSE],
     [Packet(5, 6, 1, "ack") EXCEPT !.lookup = "closed"], [Packet(5, 5, 1, "ack") EXCEPT !.lookup = "miss"]}
=============================================================================
