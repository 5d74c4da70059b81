------------------------------ MODULE TxSegments ------------------------------
(* The rest of tx_engine: how a segment is put together.  metaLoader (TxMetaLoader) sends its       *)
(* length to one process, its metadata to another and says to a third where the addresses come      *)
(* from; the payload comes from memory, in one piece (RingAccess).  Five streams meet by their      *)
(* order alone.                                                                                     *)
(*                                                                                                  *)
(* Half-words are those of the packet: IP header 0 .. 9, ports 10 and 11, numbers 12 .. 15, flags   *)
(* 16, window 17, checksum 18, payload from 20.  The pseudo header has protocol and length besides. *)
EXTENDS ArpServer

VARIABLES
    ts,             \* tupleSplitter: "meta", or where the addresses come from
    ihc, phc,       \* ipHeaderConstruction, pseudoHeaderConstruction
    stitched,       \* tcpPkgStitcher: ps_wordCount
    tcts,           \* tx_compute_tcp_subchecksums
    psWords         \* pkgStitcher: ps_wordCount

builder == <<ts, ihc, phc, stitched, tcts, psWords>>

Protocol == -1
Length == -2
SegmentHeader == 20
PayloadLength(k) == frames[k].len - SegmentHeader

BuilderInit ==
    /\ ts = "meta" /\ ihc = [word |-> 0, tuple |-> 0]
    /\ phc = [word |-> 0, meta |-> 0, tuple |-> 0, done |-> TRUE]
    /\ stitched = 0 /\ tcts = [first |-> TRUE, sum |-> <<>>] /\ psWords = 0

----------------------------------------------------------------------------
(* tupleSplitter *)

SplitMeta ==
    /\ ts = "meta" /\ Has("isLookUp")
    /\ ts' = IF Head(q.isLookUp) THEN "rev_rsp" ELSE "tupleShortCut"
    /\ Flow({"isLookUp"}, Nothing)
    /\ UNCHANGED <<ihc, phc, stitched, tcts, psWords>>

SplitTuple ==
    /\ ts # "meta" /\ Has(ts)
    /\ ts' = "meta"
    /\ Flow({ts}, "ipTuple" :> Head(q[ts]) @@ "tcpTuple" :> Head(q[ts]))
    /\ UNCHANGED <<ihc, phc, stitched, tcts, psWords>>

----------------------------------------------------------------------------
(* ipHeaderConstruction: the length, the addresses, and the destination on its own. *)

IpLength ==
    /\ ihc.word = 0 /\ Has("ipMeta")
    /\ ihc' = [ihc EXCEPT !.word = 1]
    /\ Flow({"ipMeta"}, "ipHeader" :> [h |-> Cells(Head(q.ipMeta), 0, 4), last |-> FALSE])
    /\ UNCHANGED <<ts, phc, stitched, tcts, psWords>>

IpAddresses ==
    /\ ihc.word = 1 /\ Has("ipTuple")
    /\ ihc' = [word |-> 2, tuple |-> Head(q.ipTuple)]
    /\ Flow({"ipTuple"}, "ipHeader" :> [h |-> Cells(Head(q.ipTuple), 4, 4), last |-> FALSE])
    /\ UNCHANGED <<ts, phc, stitched, tcts, psWords>>

IpDestination ==
    /\ ihc.word = 2
    /\ ihc' = [ihc EXCEPT !.word = 0]
    /\ Flow({}, "ipHeader" :> [h |-> Cells(ihc.tuple, 8, 2), last |-> TRUE])
    /\ UNCHANGED <<ts, phc, stitched, tcts, psWords>>

----------------------------------------------------------------------------
(* pseudoHeaderConstruction: the addresses, protocol and length with the ports, the numbers, and   *)
(* flags and window with a checksum of zero.                                                       *)

PseudoMeta ==
    /\ phc.done /\ Has("tcpMeta")
    /\ phc' = [phc EXCEPT !.done = FALSE, !.meta = Head(q.tcpMeta)]
    /\ Flow({"tcpMeta"}, Nothing)
    /\ UNCHANGED <<ts, ihc, stitched, tcts, psWords>>

PseudoAddresses ==
    /\ ~phc.done /\ phc.word = 0 /\ Has("tcpTuple")
    /\ phc' = [phc EXCEPT !.word = 1, !.tuple = Head(q.tcpTuple)]
    /\ Flow({"tcpTuple"}, "tcpHeader" :> [h |-> Cells(Head(q.tcpTuple), 6, 4), last |-> FALSE])
    /\ UNCHANGED <<ts, ihc, stitched, tcts, psWords>>

PseudoWord(n) ==
    CASE n = 1 -> <<<<phc.meta, Protocol>>, <<phc.meta, Length>>>> \o Cells(phc.tuple, 10, 2)
      [] n = 2 -> Cells(phc.meta, 12, 4)
      [] n = 3 -> Cells(phc.meta, 16, 4)

PseudoRest ==
    /\ ~phc.done /\ phc.word > 0
    /\ phc' = [phc EXCEPT !.word = (phc.word + 1) % 4, !.done = phc.word = 3]
    /\ Flow({}, "tcpHeader" :> [h |-> PseudoWord(phc.word), last |-> phc.word = 3 /\ PayloadLength(phc.meta) = 0])
    /\ UNCHANGED <<ts, ihc, stitched, tcts, psWords>>

----------------------------------------------------------------------------
(* tcpPkgStitcher: four words of header, and the payload unless the last of them ends the segment. *)

StitchHeader ==
    /\ stitched < 4 /\ Has("tcpHeader")
    /\ stitched' = IF stitched > 0 /\ Head(q.tcpHeader).last THEN 0 ELSE stitched + 1
    /\ Flow({"tcpHeader"}, "tcpPkgBuffer1" :> Head(q.tcpHeader))
    /\ UNCHANGED <<ts, ihc, phc, tcts, psWords>>

StitchPayload ==
    /\ stitched = 4 /\ Has("txBufferReadData")
    /\ stitched' = IF Head(q.txBufferReadData).last THEN 0 ELSE 4
    /\ Flow({"txBufferReadData"}, "tcpPkgBuffer1" :> Head(q.txBufferReadData))
    /\ UNCHANGED <<ts, ihc, phc, tcts, psWords>>

----------------------------------------------------------------------------
(* tx_compute_tcp_subchecksums sums all words and keeps the first one, which is no part of the     *)
(* segment; tx_compute_tcp_checksum makes one sum of four.                                         *)

SubSums ==
    /\ Has("tcpPkgBuffer1")
    /\ LET w == Head(q.tcpPkgBuffer1)
           sum == tcts.sum \o w.h
       IN  /\ tcts' = [first |-> w.last, sum |-> IF w.last THEN <<>> ELSE sum]
           /\ Flow({"tcpPkgBuffer1"}, Only(~tcts.first, "tcpPkgBuffer2" :> w) @@ Only(w.last, "subChecksums" :> sum))
    /\ UNCHANGED <<ts, ihc, phc, stitched, psWords>>

(* What the checksum of a segment covers: addresses, protocol, length, header and payload. *)
SegmentRight(sum) ==
    LET k == sum[1][1]
        covered == (6 .. frames[k].len - 1) \cup {Protocol, Length}
    IN  /\ Len(sum) = frames[k].len - 4
        /\ {sum[i] : i \in DOMAIN sum} = {<<k, i>> : i \in covered}

ChecksumOfSums ==
    /\ Has("subChecksums")
    /\ LET sum == Head(q.subChecksums)
       IN  Flow({"subChecksums"}, "tcpChecksum" :> IF SegmentRight(sum) THEN sum[1][1] ELSE 0)
    /\ UNCHANGED builder

----------------------------------------------------------------------------
(* pkgStitcher: the destination is joined with the ports, and the third word of the segment waits  *)
(* for the checksum, which the whole of the segment goes into.                                     *)

JoinHeader ==
    /\ psWords < 2 /\ Has("ipHeader")
    /\ psWords' = psWords + 1
    /\ Flow({"ipHeader"}, "ipIn" :> Head(q.ipHeader))
    /\ UNCHANGED <<ts, ihc, phc, stitched, tcts>>

JoinPorts ==
    /\ psWords = 2 /\ Has("ipHeader") /\ Has("tcpPkgBuffer2")
    /\ psWords' = 3
    /\ Flow({"ipHeader", "tcpPkgBuffer2"},
            "ipIn" :> [h |-> Part(Head(q.ipHeader).h, 1, 2) \o Part(Head(q.tcpPkgBuffer2).h, 3, 4), last |-> FALSE])
    /\ UNCHANGED <<ts, ihc, phc, stitched, tcts>>

JoinChecksum ==
    /\ psWords = 4 /\ Has("tcpPkgBuffer2") /\ Has("tcpChecksum")
    /\ LET w == [Head(q.tcpPkgBuffer2) EXCEPT !.h[3] = <<Head(q.tcpChecksum), -18>>]
       IN  /\ psWords' = IF w.last THEN 0 ELSE 5
           /\ Flow({"tcpPkgBuffer2", "tcpChecksum"}, "ipIn" :> w)
    /\ UNCHANGED <<ts, ihc, phc, stitched, tcts>>

(* The word in front of the one with the checksum, and those behind it. *)
JoinRest ==
    /\ psWords \in {3, 5} /\ Has("tcpPkgBuffer2")
    /\ LET w == Head(q.tcpPkgBuffer2)
       IN  /\ psWords' = IF psWords = 3 THEN 4 ELSE IF w.last THEN 0 ELSE 5
           /\ Flow({"tcpPkgBuffer2"}, "ipIn" :> w)
    /\ UNCHANGED <<ts, ihc, phc, stitched, tcts>>

BuilderStep ==
    \/ SplitMeta \/ SplitTuple \/ IpLength \/ IpAddresses \/ IpDestination
    \/ PseudoMeta \/ PseudoAddresses \/ PseudoRest \/ StitchHeader \/ StitchPayload
    \/ SubSums \/ ChecksumOfSums \/ JoinHeader \/ JoinPorts \/ JoinChecksum \/ JoinRest
=============================================================================
