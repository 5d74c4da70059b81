------------------------------ MODULE ArpServer ------------------------------
(* arp_server with the table that it keeps in a content-addressable memory outside, and            *)
(* mac_ip_encode, which asks it for the MAC address of the next hop of each packet.                *)
(*                                                                                                 *)
(* Half-words of a packet that is sent have the indices 0, 1, ...: header length 0, checksum 5,    *)
(* destination 8 and 9.  Those of a MAC header are <<0, address>>.                                 *)
EXTENDS IcmpServer

CONSTANTS
    Broadcast,      \* 255.255.255.255
    Gateway,
    Subnet,         \* the addresses that need no gateway
    BroadcastMac,
    OurMac

VARIABLES
    aps,            \* arp_pkg_sender
    arpState, inputIP,      \* arp_table
    cam,            \* the table: address to MAC address, or 0
    everHad,        \* the pairs that it ever had
    computeCs,      \* compute_ip_checksum
    ici, eia,       \* the counters of ip_checksum_insert and extract_ip_address
    mw,             \* handle_arp_reply
    arpSent,        \* what arp_pkg_sender has sent
    leaked          \* the updates whose answer nobody waited for

arp == <<aps, arpState, inputIP, cam, everHad, arpSent, leaked>>
encode == <<computeCs, ici, eia, mw>>

ArpInit ==
    /\ aps = <<>> /\ arpState = "idle" /\ inputIP = 0 /\ arpSent = <<>> /\ leaked = 0
    /\ everHad = {<<ip, cam[ip]>> : ip \in {i \in DOMAIN cam : cam[i] # 0}}
    /\ computeCs = [count |-> 0, hl |-> 0, sum |-> <<>>, written |-> TRUE]
    /\ ici = 0 /\ eia = 0
    /\ mw = [st |-> "lookup", prev |-> NoWord, writeLast |-> FALSE]

----------------------------------------------------------------------------
(* arp_pkg_receiver.  Every frame that comes with ARP has all of the fields: the last word counts. *)

ArpWord ==
    /\ Has("arpDataIn")
    /\ LET w == Head(q.arpDataIn)
           f == frames[FrameOf(w)]
       IN  Flow({"arpDataIn"},
                Only(w.last /\ f.op = "request" /\ f.dst = "us", "arpReplyMeta" :> f.source)
                @@ Only(w.last, "arpTableInsert" :> [ip |-> f.source, mac |-> f.sourceMac]))
    /\ UNCHANGED <<arp, encode>>

(* arp_pkg_sender: replies come before requests; six words are sent for each. *)
ArpTake ==
    /\ aps = <<>> /\ (Has("arpReplyMeta") \/ Has("arpRequestMeta"))
    /\ LET f == IF Has("arpReplyMeta") THEN "arpReplyMeta" ELSE "arpRequestMeta"
       IN  aps' = <<f, Head(q[f])>> /\ Flow({f}, Nothing)
    /\ UNCHANGED <<arpState, inputIP, cam, everHad, arpSent, leaked, encode>>

ArpSend ==
    /\ aps # <<>>
    /\ arpSent' = Append(arpSent, aps) /\ aps' = <<>>
    /\ UNCHANGED <<q, arpState, inputIP, cam, everHad, leaked, encode>>

----------------------------------------------------------------------------
(* arp_table.  When an entry and a packet wait at the same time, one call takes both: then the     *)
(* state that waits for the answer to the update is left out.                                      *)

TableIdle ==
    /\ arpState = "idle" /\ (Has("arpTableInsert") \/ Has("lookup"))
    /\ LET insert == Has("arpTableInsert")
           lookup == Has("lookup")
           ip == Head(q.lookup)
       IN  /\ arpState' = IF ~lookup THEN "update" ELSE IF ip = Broadcast THEN "idle" ELSE "lookup"
           /\ inputIP' = IF lookup THEN ip ELSE inputIP
           /\ leaked' = IF insert /\ lookup THEN leaked + 1 ELSE leaked
           /\ Flow((IF insert THEN {"arpTableInsert"} ELSE {}) \cup (IF lookup THEN {"lookup"} ELSE {}),
                   (IF insert THEN "macUpdate_req" :> Head(q.arpTableInsert) ELSE Nothing)
                   @@ (IF ~lookup THEN Nothing
                       ELSE IF ip = Broadcast THEN "macIpEncode_rsp" :> [hit |-> TRUE, mac |-> BroadcastMac]
                       ELSE "macLookup_req" :> ip))
    /\ UNCHANGED <<aps, cam, everHad, arpSent, encode>>

TableUpdate ==
    /\ arpState = "update" /\ Has("macUpdate_resp")
    /\ arpState' = "idle" /\ Flow({"macUpdate_resp"}, Nothing)
    /\ UNCHANGED <<aps, inputIP, cam, everHad, arpSent, leaked, encode>>

(* A fault: nobody is asked for an address that the table does not have. *)
AsksNever(hit) == FALSE
Asks(hit) == ~hit

TableLookup ==
    /\ arpState = "lookup" /\ Has("macLookup_resp")
    /\ LET reply == Head(q.macLookup_resp)
       IN  Flow({"macLookup_resp"}, "macIpEncode_rsp" :> reply @@ Only(Asks(reply.hit), "arpRequestMeta" :> inputIP))
    /\ arpState' = "idle"
    /\ UNCHANGED <<aps, inputIP, cam, everHad, arpSent, leaked, encode>>

(* The memory: updates and lookups are separate ports. *)
CamUpdate ==
    /\ Has("macUpdate_req")
    /\ LET entry == Head(q.macUpdate_req)
       IN  /\ cam' = [cam EXCEPT ![entry.ip] = entry.mac]
           /\ everHad' = everHad \cup {<<entry.ip, entry.mac>>}
    /\ Flow({"macUpdate_req"}, "macUpdate_resp" :> TRUE)
    /\ UNCHANGED <<aps, arpState, inputIP, arpSent, leaked, encode>>

CamLookup ==
    /\ Has("macLookup_req")
    /\ LET mac == cam[Head(q.macLookup_req)]
       IN  Flow({"macLookup_req"}, "macLookup_resp" :> [hit |-> mac # 0, mac |-> mac])
    /\ UNCHANGED <<arp, encode>>

----------------------------------------------------------------------------
(* compute_ip_checksum: the words pass, and a header is summed on the way; before the next word    *)
(* its sum is sent, which takes four calls.                                                        *)

EncodedHalves(n, hl, w) ==
    CASE n = 0 -> w.h
      [] n = 1 -> Part(w.h, 1, 1) \o Part(w.h, 3, 4)
      [] n = 2 /\ hl = 0 -> <<>>
      [] n = 2 /\ hl = 3 -> Part(w.h, 1, 2)
      [] OTHER -> w.h

ComputeWord ==
    /\ computeCs.written /\ Has("ipIn")
    /\ LET w == Head(q.ipIn)
           n == computeCs.count
           hl == computeCs.hl
           ends == n = 2 /\ hl \in {3, 4}
       IN  computeCs' =
             [count |-> IF w.last THEN 0 ELSE IF n < 2 THEN n + 1 ELSE 2,
              hl |-> CASE n = 0 -> Field(w.h[1], 0, frames[FrameOf(w)].ihl, 15)
                       [] n > 0 /\ (ends \/ (n = 2 /\ hl = 0)) -> 0
                       [] OTHER -> hl - 2,
              sum |-> computeCs.sum \o EncodedHalves(n, hl, w), written |-> ~ends]
    /\ Flow({"ipIn"}, "dataStreamBuffer0" :> Head(q.ipIn))
    /\ UNCHANGED <<arp, ici, eia, mw>>

EncodedRight(sum) ==
    LET k == sum[1][1]
    IN  Len(sum) = 2 * frames[k].ihl - 1 /\ {sum[i] : i \in DOMAIN sum} = {<<k, i>> : i \in (0 .. 2 * frames[k].ihl - 1) \ {5}}

ComputeDone ==
    /\ ~computeCs.written
    /\ computeCs' = [computeCs EXCEPT !.written = TRUE, !.sum = <<>>]
    /\ Flow({}, "checksum" :> IF EncodedRight(computeCs.sum) THEN computeCs.sum[1][1] ELSE 0)
    /\ UNCHANGED <<arp, ici, eia, mw>>

(* ip_checksum_insert: the second word waits for the checksum, which names its packet. *)
InsertIpWord ==
    /\ Has("dataStreamBuffer0") /\ (ici = 1 => Has("checksum"))
    /\ LET w == Head(q.dataStreamBuffer0)
       IN  /\ ici' = IF w.last THEN 0 ELSE IF ici < 2 THEN ici + 1 ELSE 2
           /\ Flow({"dataStreamBuffer0"} \cup (IF ici = 1 THEN {"checksum"} ELSE {}),
                   "dataStreamBuffer1" :> IF ici = 1 THEN [w EXCEPT !.h[2] = <<Head(q.checksum), -5>>] ELSE w)
    /\ UNCHANGED <<arp, computeCs, eia, mw>>

(* extract_ip_address: the third word has the destination.  (Packets have four words or more.) *)
NextHop(dst) == IF dst \in Subnet \cup {Broadcast} THEN dst ELSE Gateway

Counts(w) == IF eia # 2 /\ w.last THEN 0 ELSE IF eia < 3 THEN eia + 1 ELSE 3

ExtractWord ==
    /\ Has("dataStreamBuffer1")
    /\ LET w == Head(q.dataStreamBuffer1)
       IN  /\ eia' = Counts(w)
           /\ Flow({"dataStreamBuffer1"},
                   "dataStreamBuffer2" :> w
                   @@ Only(eia = 2, "lookup" :> NextHop(Field(w.h[1], 8, frames[FrameOf(w)].dst, 0))))
    /\ UNCHANGED <<arp, computeCs, ici, mw>>

----------------------------------------------------------------------------
(* handle_arp_reply: with a hit the packet leaves behind a MAC header of three and a half words,   *)
(* which moves its half-words by three; without one all of it is dropped.                          *)

HandleLast ==
    /\ mw.writeLast
    /\ mw' = [mw EXCEPT !.writeLast = FALSE]
    /\ Flow({}, "macOut" :> [h |-> Part(mw.prev.h, 2, 4), last |-> TRUE])
    /\ UNCHANGED <<arp, computeCs, ici, eia>>

HandleReply ==
    /\ ~mw.writeLast /\ mw.st = "lookup" /\ Has("macIpEncode_rsp")
    /\ LET reply == Head(q.macIpEncode_rsp)
           to == <<0, reply.mac>>
       IN  /\ mw' = [mw EXCEPT !.st = IF reply.hit THEN "writeFirst" ELSE "drop"]
           /\ Flow({"macIpEncode_rsp"}, Only(reply.hit, "macOut" :> [h |-> <<to, to, to, <<0, OurMac>>>>, last |-> FALSE]))
    /\ UNCHANGED <<arp, computeCs, ici, eia>>

HandleFirst ==
    /\ ~mw.writeLast /\ mw.st = "writeFirst" /\ Has("dataStreamBuffer2")
    /\ LET w == Head(q.dataStreamBuffer2)
           us == <<0, OurMac>>
       IN  /\ mw' = [mw EXCEPT !.st = "write", !.prev = w]
           /\ Flow({"dataStreamBuffer2"}, "macOut" :> [h |-> <<us, us, <<0, 0>>, w.h[1]>>, last |-> FALSE])
    /\ UNCHANGED <<arp, computeCs, ici, eia>>

(* A fault: the half-words behind the first one of a last word are forgotten. *)
LeavesNothing(w) == FALSE
Leaves(w) == w.last /\ Len(w.h) > 1

HandleWrite ==
    /\ ~mw.writeLast /\ mw.st = "write" /\ Has("dataStreamBuffer2")
    /\ LET w == Head(q.dataStreamBuffer2)
       IN  /\ mw' = [st |-> IF w.last THEN "lookup" ELSE "write", prev |-> w, writeLast |-> Leaves(w)]
           /\ Flow({"dataStreamBuffer2"}, "macOut" :> [h |-> Part(mw.prev.h, 2, 4) \o Part(w.h, 1, 1), last |-> Len(w.h) = 1])
    /\ UNCHANGED <<arp, computeCs, ici, eia>>

HandleDrop ==
    /\ ~mw.writeLast /\ mw.st = "drop" /\ Has("dataStreamBuffer2")
    /\ mw' = [mw EXCEPT !.st = IF Head(q.dataStreamBuffer2).last THEN "lookup" ELSE "drop"]
    /\ Flow({"dataStreamBuffer2"}, Nothing)
    /\ UNCHANGED <<arp, computeCs, ici, eia>>

ArpStep ==
    \/ ArpWord \/ ArpTake \/ ArpSend \/ TableIdle \/ TableUpdate \/ TableLookup \/ CamUpdate \/ CamLookup

EncodeStep ==
    \/ ComputeWord \/ ComputeDone \/ InsertIpWord \/ ExtractWord
    \/ HandleLast \/ HandleReply \/ HandleFirst \/ HandleWrite \/ HandleDrop
=============================================================================
