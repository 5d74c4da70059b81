----------------------------- MODULE IcmpServer -----------------------------
(* icmp_server: echo requests are answered, and packets that come from the UDP core, as no port is *)
(* open, or from ip_handler, as their time to live has expired, are quoted in an error message.    *)
(* The five processes send packets and checksums by separate FIFOs to insertChecksum.              *)
(*                                                                                                 *)
(* Half-words are those of the frame (see IpHandler): addresses 13, 14 and 15, 16, the message     *)
(* from 17, its checksum 18.  A half-word that the server changes has its index negated.           *)
(* insertChecksum keeps two flags, stream_empty, in an array of one (icmp_server.cpp:372).  Here   *)
(* they are two, as its conditions want them.                                                      *)
EXTENDS IpHandler

CONSTANTS
    SumMod,         \* checksums are numbers below it, 65536 in the code
    EchoRequest     \* the type of a request, 8 in the code; that of a reply is 0

VARIABLES
    icmpCs,     \* check_icmp_checksum
    icmpDrop,   \* dropper
    udpState, addIp, ic     \* udpPortUnreachable, udpAddIpHeader, insertChecksum

server == <<icmpCs, icmpDrop, udpState, addIp, ic>>

Changed(half) == <<half[1], -half[2]>>
(* The half-words of an error message that are none of a packet: type, checksum and two zeros. *)
ErrorHalves == <<<<0, -17>>, <<0, -18>>, <<0, -19>>, <<0, -20>>>>
OurAddress == <<<<0, -13>>, <<0, -14>>>>

ServerInit ==
    /\ icmpCs = [count |-> 0, prev |-> NoWord, writeLast |-> FALSE, compute |-> FALSE, sum |-> <<>>,
                 echo |-> FALSE, checksum |-> 0]
    /\ icmpDrop = [first |-> TRUE, drop |-> FALSE]
    /\ udpState = [st |-> "idle", source |-> "udp", count |-> 0, sum |-> <<>>]
    /\ addIp = [st |-> "idle", word |-> NoWord, source |-> <<>>]
    /\ ic = [count |-> 0, source |-> 0]

----------------------------------------------------------------------------
(* check_icmp_checksum: swaps the addresses and makes the request a reply while it sums. *)

(* The checksum of the reply: the code takes the type from the complement of the sum of the        *)
(* request, and the borrow from the 17th bit. *)
ReplyChecksum(c) ==
    LET x == (SumMod - 1 - c) - EchoRequest
    IN  SumMod - 1 - (IF x < 0 THEN x - 1 + SumMod ELSE x)

MessageRight(sum) ==
    LET k == sum[1][1]
        f == frames[k]
    IN  /\ f.messageRight /\ Len(sum) = f.len - 10
        /\ {sum[i] : i \in DOMAIN sum} = {<<k, i>> : i \in 17 .. 6 + f.len}

EchoWord ==
    /\ ~icmpCs.writeLast /\ ~icmpCs.compute /\ Has("icmpIn")
    /\ LET w == Head(q.icmpIn)
           f == frames[FrameOf(w)]
           n == icmpCs.count
           prev == icmpCs.prev
           swapped == [h |-> Part(prev.h, 1, 2) \o Part(w.h, 1, 2), last |-> FALSE]
           reply == [w EXCEPT !.h = Part(prev.h, 3, 4) \o <<Changed(w.h[3]), w.h[4]>>]
       IN  /\ icmpCs' =
                [count |-> IF w.last THEN 0 ELSE IF n < 3 THEN n + 1 ELSE 3,
                 prev |-> IF n = 2 THEN reply ELSE w, writeLast |-> w.last, compute |-> w.last,
                 sum |-> CASE n = 0 -> <<>>
                           [] n = 1 -> icmpCs.sum
                           [] n = 2 -> Part(w.h, 3, 4)
                           [] OTHER -> icmpCs.sum \o w.h,
                 echo |-> IF n = 2 THEN Field(w.h[3], 17, f.echo, FALSE) ELSE icmpCs.echo,
                 checksum |-> IF n = 2 THEN ReplyChecksum(Field(w.h[4], 18, f.checksum, 0)) ELSE icmpCs.checksum]
           /\ Flow({"icmpIn"}, Only(n > 0, "packageBuffer1" :> IF n = 2 THEN swapped ELSE prev))
    /\ UNCHANGED <<icmpDrop, udpState, addIp, ic>>

EchoLast ==
    /\ icmpCs.writeLast
    /\ icmpCs' = [icmpCs EXCEPT !.writeLast = FALSE]
    /\ Flow({}, "packageBuffer1" :> icmpCs.prev)
    /\ UNCHANGED <<icmpDrop, udpState, addIp, ic>>

(* Four calls, of which the last one writes. *)
EchoVerdict ==
    /\ ~icmpCs.writeLast /\ icmpCs.compute
    /\ icmpCs' = [icmpCs EXCEPT !.compute = FALSE]
    /\ LET valid == MessageRight(icmpCs.sum) /\ icmpCs.echo
       IN  Flow({}, "validFifo" :> valid
                    @@ Only(valid, "checksum0" :> [of |-> icmpCs.sum[1][1], value |-> icmpCs.checksum]))
    /\ UNCHANGED <<icmpDrop, udpState, addIp, ic>>

(* dropper *)
EchoForward ==
    /\ Has("packageBuffer1") /\ (icmpDrop.first => Has("validFifo"))
    /\ LET w == Head(q.packageBuffer1)
           drop == IF icmpDrop.first THEN ~Head(q.validFifo) ELSE icmpDrop.drop
       IN  /\ icmpDrop' = IF w.last THEN [first |-> TRUE, drop |-> FALSE] ELSE [first |-> FALSE, drop |-> drop]
           /\ Flow({"packageBuffer1"} \cup (IF icmpDrop.first THEN {"validFifo"} ELSE {}), Only(~drop, "data0" :> w))
    /\ UNCHANGED <<icmpCs, udpState, addIp, ic>>

----------------------------------------------------------------------------
(* udpPortUnreachable: the header of the message and the packet behind it; the three words with    *)
(* the IP header also go to the process that makes a new header of them.                           *)

SourceFifo(source) == IF source = "udp" THEN "refused" ELSE "ttlIn"

ErrorStart ==
    /\ udpState.st = "idle" /\ (Has("refused") \/ Has("ttlIn"))
    /\ udpState' = [st |-> "ip", source |-> IF Has("refused") THEN "udp" ELSE "ttl", count |-> 0, sum |-> ErrorHalves]
    /\ Flow({}, "error_data" :> [h |-> ErrorHalves, last |-> FALSE])
    /\ UNCHANGED <<icmpCs, icmpDrop, addIp, ic>>

ErrorHeader ==
    /\ udpState.st = "ip" /\ Has(SourceFifo(udpState.source))
    /\ LET w == Head(q[SourceFifo(udpState.source)])
       IN  /\ udpState' = [udpState EXCEPT !.st = IF udpState.count = 2 THEN "stream" ELSE @,
                                           !.count = IF @ = 2 THEN @ ELSE @ + 1, !.sum = @ \o w.h]
           /\ Flow({SourceFifo(udpState.source)}, "error_data" :> w @@ "error_header" :> w)
    /\ UNCHANGED <<icmpCs, icmpDrop, addIp, ic>>

ErrorStream ==
    /\ udpState.st = "stream" /\ Has(SourceFifo(udpState.source))
    /\ LET w == Head(q[SourceFifo(udpState.source)])
       IN  /\ udpState' = [udpState EXCEPT !.st = IF w.last THEN "checksum" ELSE @, !.sum = @ \o w.h]
           /\ Flow({SourceFifo(udpState.source)}, "error_data" :> w)
    /\ UNCHANGED <<icmpCs, icmpDrop, addIp, ic>>

(* The sum is right when it has the whole message: the packet that it quotes is named by it. *)
ErrorChecksum ==
    /\ udpState.st = "checksum"
    /\ udpState' = [udpState EXCEPT !.st = "idle"]
    /\ LET quoted == SubSeq(udpState.sum, 5, Len(udpState.sum))
           k == quoted[1][1]
           whole == quoted = [i \in 1 .. frames[k].len |-> <<k, 6 + i>>]
       IN  Flow({}, "checksum1" :> [of |-> IF whole THEN k ELSE 0, value |-> 0])
    /\ UNCHANGED <<icmpCs, icmpDrop, addIp, ic>>

----------------------------------------------------------------------------
(* udpAddIpHeader: length, time to live, protocol and addresses of the header are new; the third   *)
(* word of the old one is only taken away, the source in the second is kept.                       *)

NewHeader ==
    /\ addIp.st = "idle" /\ Has("error_header")
    /\ LET w == [Head(q.error_header) EXCEPT !.h[2] = Changed(@), !.last = FALSE]
       IN  addIp' = [addIp EXCEPT !.st = "ip", !.word = w] /\ Flow({"error_header"}, "data1" :> w)
    /\ UNCHANGED <<icmpCs, icmpDrop, udpState, ic>>

NewAddress ==
    /\ addIp.st = "ip" /\ Has("error_header")
    /\ LET old == Head(q.error_header)
           w == [h |-> <<Changed(old.h[1]), old.h[2]>> \o OurAddress, last |-> FALSE]
       IN  /\ addIp' = [st |-> "merge", word |-> w, source |-> Part(old.h, 3, 4)]
           /\ Flow({"error_header"}, "data1" :> w)
    /\ UNCHANGED <<icmpCs, icmpDrop, udpState, ic>>

Merge ==
    /\ addIp.st = "merge" /\ Has("error_header") /\ Has("error_data")
    /\ LET w == Head(q.error_data)
       IN  /\ addIp' = [addIp EXCEPT !.st = "stream", !.word = w]
           /\ Flow({"error_header", "error_data"}, "data1" :> [h |-> addIp.source \o Part(w.h, 1, 2), last |-> FALSE])
    /\ UNCHANGED <<icmpCs, icmpDrop, udpState, ic>>

MergeStream ==
    /\ addIp.st = "stream" /\ Has("error_data")
    /\ LET w == Head(q.error_data)
           ends == w.last /\ Len(w.h) <= 2
       IN  /\ addIp' = [addIp EXCEPT !.st = IF ~w.last THEN @ ELSE IF ends THEN "idle" ELSE "residue", !.word = w]
           /\ Flow({"error_data"}, "data1" :> [h |-> Part(addIp.word.h, 3, 4) \o Part(w.h, 1, 2), last |-> ends])
    /\ UNCHANGED <<icmpCs, icmpDrop, udpState, ic>>

MergeResidue ==
    /\ addIp.st = "residue"
    /\ addIp' = [addIp EXCEPT !.st = "idle"]
    /\ Flow({}, "data1" :> [h |-> Part(addIp.word.h, 3, 4), last |-> TRUE])
    /\ UNCHANGED <<icmpCs, icmpDrop, udpState, ic>>

----------------------------------------------------------------------------
(* insertChecksum: replies come before errors; the third word of a packet waits for its checksum. *)

Data(source) == IF source = 0 THEN "data0" ELSE "data1"
Checksum(source) == IF source = 0 THEN "checksum0" ELSE "checksum1"

InsertFirst ==
    /\ ic.count = 0 /\ (Has("data0") \/ Has("data1"))
    /\ LET s == IF Has("data0") THEN 0 ELSE 1
       IN  ic' = [count |-> 1, source |-> s] /\ Flow({Data(s)}, "icmpOut" :> Head(q[Data(s)]))
    /\ UNCHANGED <<icmpCs, icmpDrop, udpState, addIp>>

(* The half-word with the checksum names the packet that it belongs to. *)
InsertChecksum ==
    /\ ic.count = 2 /\ Has(Data(ic.source)) /\ Has(Checksum(ic.source))
    /\ LET w == Head(q[Data(ic.source)])
           c == Head(q[Checksum(ic.source)])
       IN  Flow({Data(ic.source), Checksum(ic.source)}, "icmpOut" :> [w EXCEPT !.h[4] = <<c.of, -18, c.value>>])
    /\ ic' = [ic EXCEPT !.count = 3]
    /\ UNCHANGED <<icmpCs, icmpDrop, udpState, addIp>>

AfterLast(w) == IF w.last THEN 0 ELSE IF ic.count < 3 THEN ic.count + 1 ELSE 3

InsertRest ==
    /\ ic.count \in {1, 3} /\ Has(Data(ic.source))
    /\ LET w == Head(q[Data(ic.source)])
       IN  ic' = [ic EXCEPT !.count = AfterLast(w)] /\ Flow({Data(ic.source)}, "icmpOut" :> w)
    /\ UNCHANGED <<icmpCs, icmpDrop, udpState, addIp>>

ServerStep ==
    \/ EchoWord \/ EchoLast \/ EchoVerdict \/ EchoForward
    \/ ErrorStart \/ ErrorHeader \/ ErrorStream \/ ErrorChecksum
    \/ NewHeader \/ NewAddress \/ Merge \/ MergeStream \/ MergeResidue
    \/ InsertFirst \/ InsertChecksum \/ InsertRest
=============================================================================
