------------------------------ MODULE IpHandler ------------------------------
(* ip_handler: seven dataflow processes that sort frames by protocol, take the MAC header off, drop *)
(* what is not for this node or not whole, and cut the padding of the network off.                  *)
(*                                                                                                  *)
(* A word has up to four half-words, <<k, i>> is the one with index i of frame k.  The MAC header   *)
(* is 0 .. 6 (the type is 6), the IP header begins at 7: version and header length 7, length 8,     *)
(* fragment 10, time to live and protocol 11, destination 15 and 16.                                *)
EXTENDS Integers, Sequences, TLC

CONSTANTS
    Size,               \* the depth of each FIFO, by its name
    MaxDatagramSize     \* in half-words, 32768 bytes in the code

VARIABLES
    frames,     \* what arrives, and what is to be sent: see IpServices
    q,          \* the FIFOs between the processes, by their names
    dmp, lc, cics, iid, cl, dip     \* the static variables of the processes

handler == <<dmp, lc, cics, iid, cl, dip>>

(* A call of a process reads and writes some of the FIFOs; a write waits for room. *)
Nothing == <<>>
Only(condition, writes) == IF condition THEN writes ELSE Nothing
Has(f) == q[f] # <<>>
Flow(reads, writes) ==
    /\ \A f \in DOMAIN writes : Len(q[f]) < Size[f]
    /\ q' = [f \in DOMAIN q |-> (IF f \in reads THEN Tail(q[f]) ELSE q[f])
                                \o (IF f \in DOMAIN writes THEN <<writes[f]>> ELSE <<>>)]

(* n half-words of frame k, from the first one on. *)
Cells(k, first, n) == [i \in 1 .. n |-> <<k, first + i - 1>>]

NoWord == [h |-> <<>>, last |-> FALSE]
(* The half-words a .. b of a word, as far as it has them. *)
Part(h, a, b) == SubSeq(h, a, IF b < Len(h) THEN b ELSE Len(h))
FrameOf(word) == word.h[1][1]
(* A field of a header, if the half-word that should have it is the right one. *)
Field(half, i, value, garbage) == IF half[2] = i THEN value ELSE garbage

HandlerInit ==
    /\ dmp = [type |-> "drop", count |-> 0, prev |-> NoWord, flush |-> FALSE]
    /\ lc = [st |-> "idle", count |-> 0, left |-> 0, filter |-> FALSE, buffer |-> <<NoWord, NoWord>>]
    /\ cics = [count |-> 0, hl |-> 0, sum |-> <<>>, dst |-> <<<<0, 0>>, <<0, 0>>>>, prev |-> NoWord, wasLast |-> FALSE]
    /\ iid = [first |-> TRUE, drop |-> FALSE]
    /\ cl = [count |-> 0, total |-> 0, drop |-> FALSE]
    /\ dip = [proto |-> "other", count |-> 0, ttl |-> FALSE, prev |-> NoWord, left |-> FALSE]

----------------------------------------------------------------------------
(* detect_mac_protocol: the first word tells whether the frame is for this node, the second one    *)
(* its type; words leave one call later than they come.                                            *)

Sorted(type, w) ==
    CASE type = "ARP"  -> "arpDataIn" :> w
      [] type = "IPv4" -> "lengthCheckIn" :> w
      [] OTHER         -> Nothing

MacWord ==
    /\ ~dmp.flush /\ Has("dataIn")
    /\ LET w == Head(q.dataIn)
           f == frames[FrameOf(w)]
           type == CASE dmp.count = 0 -> IF f.mac = "other" THEN "drop" ELSE "forward"
                     [] dmp.count = 1 /\ dmp.type # "drop" -> Field(w.h[3], 6, f.type, "garbage")
                     [] OTHER -> dmp.type
       IN  /\ dmp' = [type |-> type, prev |-> w, flush |-> w.last,
                      count |-> IF w.last THEN 0 ELSE IF dmp.count = 0 THEN 1 ELSE 2]
           /\ Flow({"dataIn"}, Only(dmp.count > 0, Sorted(type, dmp.prev)))
    /\ UNCHANGED <<lc, cics, iid, cl, dip>>

MacFlush ==
    /\ dmp.flush
    /\ dmp' = [dmp EXCEPT !.flush = FALSE]
    /\ Flow({}, Sorted(dmp.type, dmp.prev))
    /\ UNCHANGED <<lc, cics, iid, cl, dip>>

----------------------------------------------------------------------------
(* length_check: two words are held back until the third has shown the length. *)

LengthOf(half) == Field(half, 8, frames[half[1]].len, MaxDatagramSize + 1)

LengthWord ==
    /\ lc.left = 0 /\ Has("lengthCheckIn")
    /\ LET w == Head(q.lengthCheckIn)
           filter == IF lc.st = "size" THEN LengthOf(w.h[1]) > MaxDatagramSize ELSE lc.filter
       IN  /\ lc' = [st |-> CASE w.last -> "idle"
                              [] lc.st = "idle" -> IF lc.count = 1 THEN "size" ELSE "idle"
                              [] OTHER -> "stream",
                     count |-> IF w.last THEN 0 ELSE IF lc.st = "idle" THEN lc.count + 1 ELSE lc.count,
                     left |-> IF w.last THEN 2 ELSE 0,
                     filter |-> filter, buffer |-> <<w, lc.buffer[1]>>]
           /\ Flow({"lengthCheckIn"}, Only(lc.st # "idle" /\ ~filter, "ipDataFifo" :> lc.buffer[2]))
    /\ UNCHANGED <<dmp, cics, iid, cl, dip>>

LengthRest ==
    /\ lc.left > 0
    /\ lc' = [lc EXCEPT !.left = @ - 1, !.buffer = <<NoWord, @[1]>>]
    /\ Flow({}, Only(~lc.filter, "ipDataFifo" :> lc.buffer[2]))
    /\ UNCHANGED <<dmp, cics, iid, cl, dip>>

----------------------------------------------------------------------------
(* check_ip_checksum: takes the MAC header off, which moves the half-words by one word less one,   *)
(* and sends three verdicts: on the version, on the fragment and, through the next process, on     *)
(* the sum and the address.  The address is read again from each word from the fifth on.           *)

(* The half-words of a word that are summed, hl being what is left of the header.  The code sums a *)
(* whole word where three half-words would be left in it: an odd number of words of options.       *)
Summed(n, hl, w) ==
    CASE n = 0 -> <<>>
      [] n = 1 -> Part(w.h, 4, 4)
      [] n = 4 /\ hl = 0 -> <<>>
      [] n = 4 /\ hl = 1 -> Part(w.h, 1, 1)
      [] OTHER -> w.h

HeaderLeft(n, w) ==
    CASE n = 1 -> Field(w.h[4], 7, frames[FrameOf(w)].ihl, 15)
      [] n \in {2, 3} -> cics.hl - 2
      [] n = 4 -> IF cics.hl > 2 THEN cics.hl - 2 ELSE 0
      [] OTHER -> cics.hl

AddressIsOurs(dst) ==
    dst[1][1] = dst[2][1] /\ dst[1][2] = 15 /\ dst[2][2] = 16 /\ frames[dst[1][1]].dst \in {"us", "all"}

ChecksumWord ==
    /\ ~cics.wasLast /\ Has("ipDataFifo")
    /\ LET w == Head(q.ipDataFifo)
           f == frames[FrameOf(w)]
           n == cics.count
           sum == IF n = 0 THEN <<>> ELSE cics.sum \o Summed(n, cics.hl, w)
           dst == CASE n = 3 -> <<w.h[4], cics.dst[2]>>
                    [] n = 4 -> <<cics.dst[1], w.h[1]>>
                    [] OTHER -> cics.dst
           send == [h |-> Part(cics.prev.h, 4, 4) \o Part(w.h, 1, 3), last |-> Len(w.h) <= 3]
       IN  /\ cics' = [count |-> IF w.last THEN 0 ELSE IF n < 4 THEN n + 1 ELSE 4,
                       hl |-> HeaderLeft(n, w), sum |-> sum, dst |-> dst, prev |-> w,
                       wasLast |-> w.last /\ Len(w.h) = 4]
           /\ Flow({"ipDataFifo"},
                   Only(n = 1, "ipVersion" :> Field(w.h[4], 7, f.version = 4, FALSE))
                   @@ Only(n = 2, "ipFragment" :> Field(w.h[3], 10, ~f.fragment, FALSE))
                   @@ Only(n = 4 /\ cics.hl \in {1, 2}, "subSums" :> [sum |-> sum, match |-> AddressIsOurs(dst)])
                   @@ Only(n >= 2, "ipDataCheckFifo" :> send))
    /\ UNCHANGED <<dmp, lc, iid, cl, dip>>

ChecksumLast ==
    /\ cics.wasLast
    /\ cics' = [cics EXCEPT !.wasLast = FALSE]
    /\ Flow({}, "ipDataCheckFifo" :> [h |-> Part(cics.prev.h, 4, 4), last |-> TRUE])
    /\ UNCHANGED <<dmp, lc, iid, cl, dip>>

(* iph_check_ip_checksum.  The sum is right when it has the half-words of the header, and no       *)
(* other: the first half-word behind a header, a port or the type of a message, is not zero.       *)
HeaderRight(sum) ==
    LET k == sum[1][1]
        f == frames[k]
    IN  /\ f.right /\ Len(sum) = 2 * f.ihl
        /\ {sum[i] : i \in DOMAIN sum} = {<<k, i>> : i \in 7 .. 6 + 2 * f.ihl}

SumVerdict ==
    /\ Has("subSums")
    /\ LET s == Head(q.subSums) IN Flow({"subSums"}, "ipValid" :> (HeaderRight(s.sum) /\ s.match))
    /\ UNCHANGED handler

----------------------------------------------------------------------------
(* ip_invalid_dropper: the verdicts are read with the first word. *)

Verdicts == {"ipValid", "ipVersion", "ipFragment"}
AfterWord(w, drop) == IF w.last THEN [first |-> TRUE, drop |-> FALSE] ELSE [first |-> FALSE, drop |-> drop]

DropFirst ==
    /\ iid.first /\ ~iid.drop /\ Has("ipDataCheckFifo") /\ \A v \in Verdicts : Has(v)
    /\ LET w == Head(q.ipDataCheckFifo)
           valid == \A v \in Verdicts : Head(q[v])
       IN  /\ iid' = AfterWord(w, ~valid)
           /\ Flow(Verdicts \cup {"ipDataCheckFifo"}, Only(valid, "ipDataDropFifo" :> w))
    /\ UNCHANGED <<dmp, lc, cics, cl, dip>>

DropRest ==
    /\ iid.drop \/ ~iid.first
    /\ Has("ipDataCheckFifo")
    /\ LET w == Head(q.ipDataCheckFifo)
       IN  /\ iid' = AfterWord(w, iid.drop)
           /\ Flow({"ipDataCheckFifo"}, Only(~iid.drop, "ipDataDropFifo" :> w))
    /\ UNCHANGED <<dmp, lc, cics, cl, dip>>

----------------------------------------------------------------------------
(* cut_length: the word in which the length of the header ends is the last one. *)

CutDrop ==
    /\ cl.drop /\ Has("ipDataDropFifo")
    /\ cl' = [cl EXCEPT !.drop = ~Head(q.ipDataDropFifo).last]
    /\ Flow({"ipDataDropFifo"}, Nothing)
    /\ UNCHANGED <<dmp, lc, cics, iid, dip>>

(* A fault: the rest of a frame is not taken away. *)
CutsKeep(w) == FALSE
(* There is padding behind the packet. *)
Cuts(w) == ~w.last

CutWord ==
    /\ ~cl.drop /\ Has("ipDataDropFifo")
    /\ LET w == Head(q.ipDataDropFifo)
           total == IF cl.count = 0 THEN LengthOf(w.h[2]) ELSE cl.total
           ends == cl.count > 0 /\ 4 * (cl.count + 1) >= total
           out == IF ends THEN [h |-> Part(w.h, 1, total - 4 * cl.count), last |-> TRUE] ELSE w
       IN  /\ cl' = [count |-> IF out.last THEN 0 ELSE cl.count + 1, total |-> total, drop |-> ends /\ Cuts(w)]
           /\ Flow({"ipDataDropFifo"}, "ipDataCutFifo" :> out)
    /\ UNCHANGED <<dmp, lc, cics, iid, dip>>

----------------------------------------------------------------------------
(* detect_ip_protocol: the second word tells where the packet goes. *)

Routed(ttl, proto, w) ==
    CASE ttl             -> "ttlIn" :> w
      [] ~ttl /\ proto = "ICMP" -> "icmpIn" :> w
      [] ~ttl /\ proto = "UDP"  -> "udp" :> w
      [] ~ttl /\ proto = "TCP"  -> "tcp" :> w
      [] OTHER           -> Nothing

ProtoWord ==
    /\ ~dip.left /\ Has("ipDataCutFifo")
    /\ LET w == Head(q.ipDataCutFifo)
           f == frames[FrameOf(w)]
           second == dip.count = 1
           ttl == IF second THEN Field(w.h[1], 11, f.ttl = 1, TRUE) ELSE dip.ttl
           proto == IF second THEN Field(w.h[1], 11, f.proto, "other") ELSE dip.proto
       IN  /\ dip' = [proto |-> proto, ttl |-> ttl, prev |-> w, left |-> w.last,
                      count |-> IF w.last THEN 0 ELSE IF dip.count = 0 THEN 1 ELSE 2]
           /\ Flow({"ipDataCutFifo"}, Only(dip.count > 0, Routed(ttl, proto, dip.prev)))
    /\ UNCHANGED <<dmp, lc, cics, iid, cl>>

ProtoLast ==
    /\ dip.left
    /\ dip' = [dip EXCEPT !.left = FALSE]
    /\ Flow({}, Routed(dip.ttl, dip.proto, dip.prev))
    /\ UNCHANGED <<dmp, lc, cics, iid, cl>>

HandlerStep ==
    \/ MacWord \/ MacFlush \/ LengthWord \/ LengthRest \/ ChecksumWord \/ ChecksumLast \/ SumVerdict
    \/ DropFirst \/ DropRest \/ CutDrop \/ CutWord \/ ProtoWord \/ ProtoLast
=============================================================================
