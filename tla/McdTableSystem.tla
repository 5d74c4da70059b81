--------------------------- MODULE McdTableSystem ---------------------------
(* The hash table with a client in front of it and the value stores behind it, both reduced to     *)
(* what they exchange with the table.                                                              *)
EXTENDS McdHashTable

CONSTANTS Asked,        \* the requests that clients make
          MaxRequests,  \* bound on the requests in work; one less for each flush that was asked for
          MaxFlushes    \* bound on flushes in a behaviour

ASSUME AskedAssumption == Asked \subseteq Request

(* The instance that TLC checks: two keys of one bucket with two bins; "b", with a large value, is  *)
(* only set.                                                                                       *)
MCBuckets == [k \in Keys |-> 1]
MCAsked == {[op |-> "flush"]} \cup [op : {"get", "delete"}, key : {"a"}]
             \cup [op : {"set"}, key : {"a"}, class : {"small"}]
             \cup [op : {"set"}, key : {"b"}, class : {"large"}]

VARIABLE flushes        \* number of flushes that were asked for

vars == <<tableVars, hostVars, flushes>>

Init == TableInit /\ HostInit /\ flushes = 0

ClientAsks(r) ==
    /\ Len(mdBuffer) + flushes < MaxRequests
    /\ r.op = "flush" => flushes < MaxFlushes
    /\ InputLogic(r)
    /\ flushes' = IF r.op = "flush" THEN flushes + 1 ELSE flushes

Internal ==
    \/ CcAccept \/ CcRelease \/ CcPop
    \/ MemRead \/ AccessRead \/ AccessWrite \/ HtCompare
    \/ EvalGet \/ EvalSet \/ EvalSetFails \/ EvalSetHangs \/ EvalDelete \/ SetRest
    \/ FlushStart \/ FlushWait \/ FlushSweep
    \/ HostStep /\ UNCHANGED tableVars
    \/ OutputLogic

Next ==
    \/ \E r \in Asked : ClientAsks(r)
    \/ Internal /\ UNCHANGED flushes

Spec == Init /\ [][Next]_vars

----------------------------------------------------------------------------
(* Correctness                                                             *)

(* What a bucket holds once the writes on their way to it are done. *)
Pending(b) == {i \in DOMAIN memWrCtrl : b \in memWrCtrl[i].buckets}
Current(b) == IF Pending(b) = {} THEN mem[b] ELSE memWrCtrl[Highest(Pending(b))].words

(* Each address of a value is in one place: a pool of the host, on its way to or from the table,   *)
(* or in one entry.  A flush brings all of them back.                                              *)
Holds(b, i, a) == ~Current(b)[i].free /\ Current(b)[i].addr = a
EntriesWith(a) == {e \in Buckets \X Bins : Holds(e[1], e[2], a)}
PlacesOf(a) ==
    LET in(q) == Cardinality({i \in DOMAIN q : q[i] = a})
    IN  in(freeDram) + in(freeFlash) + in(assignDram) + in(assignFlash) + in(addressReturn)
          + Cardinality(EntriesWith(a))
AddressesAccounted ==
    (~flushReq /\ hostState \in {"managing", "waitForDone"}) => \A a \in Dram \cup Flash : PlacesOf(a) = 1

(* As long as a request has no answer, some process can go on.  There are three ways out: memWrite *)
(* is lost in MW_EVAL; the host has gone; or the host did not see flushDone before the next flush  *)
(* took it back, and waits for it while memWrite waits for the host.                               *)
Lost == memWrState = "hung"
Alone == memWrState = "flushWait" /\ hostState = "gone"
DoneMissed == memWrState = "flushWait" /\ hostState = "waitForDone" /\ ~flushAck /\ flushes > 1
NeverStuck == mdBuffer # <<>> => Lost \/ Alone \/ DoneMissed \/ ENABLED Internal

(* The table implements the atomic one.  A request is executed when memWrite evaluates it. *)
Entry(k) ==
    LET words == Current(BucketOf[k])
        match == MatchingBins(words, k)
    IN  IF match = {} THEN [present |-> FALSE]
        ELSE [present |-> TRUE, class |-> words[Lowest(match)].class, addr |-> words[Lowest(match)].addr]

Atomic == INSTANCE McdAtomicTable WITH
    Addresses <- Dram \cup Flash,
    waiting <- SubSeq(mdBuffer, Len(memWr2out) + 1, Len(mdBuffer)),
    table <- [k \in Keys |-> Entry(k)],
    answered <- [i \in DOMAIN memWr2out |-> [req |-> mdBuffer[i], answer |-> memWr2out[i]]]

AtomicTable == Atomic!Spec

=============================================================================
