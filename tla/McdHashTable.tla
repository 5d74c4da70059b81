---------------------------- MODULE McdHashTable ----------------------------
(* The hash table of the memcached server (hls/sources/hashTable), with the memory of its buckets. *)
(*                                                                                                 *)
(* A request passes hash, concurrencyControl, memRead, ht_compare, memWrite and ht_outputLogic,    *)
(* each a process with FIFOs between them, so that several requests are in work at a time.  A      *)
(* bucket has NoBins bins; a word of it is read by memRead, judged by ht_compare and written back  *)
(* by memWrite.  The filter of concurrencyControl keeps a request back whose bucket a request in   *)
(* front of it may still write.                                                                    *)
EXTENDS McdHost, FiniteSets

CONSTANTS
    Keys,               \* keys, of at most 16 bytes: one word of the pipeline
    BucketOf,           \* [Keys -> buckets], bits 6..0 of the hash
    FlushBucket,        \* the same of the byte that a flush has in place of a key
    NoBins,             \* noOfBins
    ConcFilterEntries,  \* concFilterEntries
    Classes,            \* lengths that requests have: "small" < splitLength <= "large"
    FifoDepth,          \* of the FIFOs between the processes
    PopDepth            \* of dec2cc

ASSUME BucketAssumption == DOMAIN BucketOf = Keys
ASSUME SizeAssumption == {NoBins, ConcFilterEntries, FifoDepth, PopDepth} \subseteq Nat \ {0}
ASSUME ClassAssumption == Classes \subseteq {"small", "large"}

Buckets == {BucketOf[k] : k \in Keys}
Bins == 1 .. NoBins
Free == [free |-> TRUE]                             \* a bin with key length 0
EmptyBucket == [i \in Bins |-> Free]

Request == [op : {"get", "delete"}, key : Keys] \cup [op : {"set"}, key : Keys, class : Classes]
             \cup {[op |-> "flush"]}

VARIABLES
    in2cc,          \* requests behind ht_inputLogic, with their hash
    mdBuffer,       \* hashMdBuffer, hashKeyBuffer, hashValueBuffer: requests without an answer
    hashFilter,     \* filterEntries between rdPtr and wrPtr
    held,           \* the request concurrencyControl keeps back (CC_WAIT), or <<>>
    dec2cc,         \* number of pops on their way to concurrencyControl
    cc2memRead, memRd2comp,
    memRdCtrl,      \* buckets to be read
    memRdData,      \* buckets that were read
    comp2memWr,     \* requests with the bucket they were compared with
    memWrState,     \* "idle", "setRest", "flushWait", "flush", "hung"
    memWrCtrl,      \* write commands with their data
    memWr2out,      \* answers
    mem             \* [Buckets -> BucketWords]

queues == <<in2cc, mdBuffer, cc2memRead, memRd2comp, memRdCtrl, memRdData, comp2memWr, memWr2out>>
filterVars == <<hashFilter, held, dec2cc>>
memVars == <<memWrState, memWrCtrl, mem>>
tableVars == <<queues, filterVars, memVars>>

(* The buckets are cleared once, before the first request (MW_INIT_MEM). *)
TableInit ==
    /\ in2cc = <<>> /\ mdBuffer = <<>>
    /\ hashFilter = <<>> /\ held = <<>> /\ dec2cc = 0
    /\ cc2memRead = <<>> /\ memRd2comp = <<>> /\ memRdCtrl = <<>> /\ memRdData = <<>>
    /\ comp2memWr = <<>> /\ memWrCtrl = <<>> /\ memWr2out = <<>>
    /\ memWrState = "idle"
    /\ mem = [b \in Buckets |-> EmptyBucket]

----------------------------------------------------------------------------
(* ht_inputLogic and hash                                                  *)

InputLogic(r) ==
    /\ Room(in2cc, FifoDepth)
    /\ in2cc' = Append(in2cc, r)
    /\ mdBuffer' = Append(mdBuffer, r)
    /\ UNCHANGED <<cc2memRead, memRd2comp, memRdCtrl, memRdData, comp2memWr, memWr2out,
                   filterVars, memVars, hostVars>>

----------------------------------------------------------------------------
(* concurrencyControl: the filter                                          *)

Address(r) == IF r.op = "flush" THEN FlushBucket ELSE BucketOf[r.key]

Blocks(entry, r) ==
    \/ entry.op = "flush"
    \/ entry.op \in {"set", "delete"} /\ Address(entry) = Address(r)

Compare(r) == \E i \in DOMAIN hashFilter : Blocks(hashFilter[i], r)

Full == Len(hashFilter) = ConcFilterEntries

(* CC_PUSH *)
Push(r) ==
    /\ Room(cc2memRead, FifoDepth)
    /\ hashFilter' = Append(hashFilter, r)
    /\ cc2memRead' = Append(cc2memRead, r)

(* CC_IDLE with a new request: pops go first *)
CcAccept ==
    /\ held = <<>> /\ dec2cc = 0 /\ in2cc # <<>>
    /\ in2cc' = Tail(in2cc)
    /\ IF Compare(Head(in2cc)) \/ Full
       THEN held' = <<Head(in2cc)>> /\ UNCHANGED <<hashFilter, cc2memRead>>
       ELSE Push(Head(in2cc)) /\ UNCHANGED held
    /\ UNCHANGED <<mdBuffer, memRd2comp, memRdCtrl, memRdData, comp2memWr, memWr2out, dec2cc,
                   memVars, hostVars>>

(* CC_WAIT *)
CcRelease ==
    /\ held # <<>> /\ dec2cc = 0
    /\ ~Full /\ ~Compare(held[1])
    /\ Push(held[1])
    /\ held' = <<>>
    /\ UNCHANGED <<in2cc, mdBuffer, memRd2comp, memRdCtrl, memRdData, comp2memWr, memWr2out, dec2cc,
                   memVars, hostVars>>

(* CC_POP_IDLE, CC_POP_WAIT *)
CcPop ==
    /\ dec2cc > 0
    /\ dec2cc' = dec2cc - 1
    /\ hashFilter' = Tail(hashFilter)
    /\ UNCHANGED <<held, queues, memVars, hostVars>>

----------------------------------------------------------------------------
(* memRead, the memory, ht_compare                                         *)

MemRead ==
    /\ cc2memRead # <<>> /\ Room(memRd2comp, FifoDepth) /\ Room(memRdCtrl, FifoDepth)
    /\ LET r == Head(cc2memRead) IN
       /\ memRdCtrl' = IF r.op = "flush" THEN memRdCtrl ELSE Append(memRdCtrl, BucketOf[r.key])
       /\ memRd2comp' = Append(memRd2comp, r)
    /\ cc2memRead' = Tail(cc2memRead)
    /\ UNCHANGED <<in2cc, mdBuffer, memRdData, comp2memWr, memWr2out, filterVars, memVars, hostVars>>

(* cmdAggregator takes a write before a read, and memAccess executes one command after the other; *)
(* the last write waits for its second word, which memWrite sends in MW_SET_REST.                 *)
WriteComplete == Len(memWrCtrl) > 1 \/ memWrState # "setRest"
AccessWrite ==
    /\ memWrCtrl # <<>> /\ WriteComplete
    /\ mem' = [b \in Buckets |-> IF b \in Head(memWrCtrl).buckets THEN Head(memWrCtrl).words ELSE mem[b]]
    /\ memWrCtrl' = Tail(memWrCtrl)
    /\ UNCHANGED <<memWrState, queues, filterVars, hostVars>>

WriteFirst == memWrCtrl = <<>>
AccessRead ==
    /\ WriteFirst /\ memRdCtrl # <<>> /\ Room(memRdData, FifoDepth)
    /\ memRdData' = Append(memRdData, mem[Head(memRdCtrl)])
    /\ memRdCtrl' = Tail(memRdCtrl)
    /\ UNCHANGED <<in2cc, mdBuffer, cc2memRead, memRd2comp, comp2memWr, memWr2out, filterVars, memVars,
                   hostVars>>

(* CMP_HEAD and CMP_COMPARE wait for the words of the bucket; CMP_STREAM passes a flush *)
HtCompare ==
    /\ memRd2comp # <<>> /\ Room(comp2memWr, FifoDepth)
    /\ IF Head(memRd2comp).op = "flush"
       THEN /\ comp2memWr' = Append(comp2memWr, [req |-> Head(memRd2comp), words |-> EmptyBucket])
            /\ UNCHANGED memRdData
       ELSE /\ memRdData # <<>>
            /\ comp2memWr' = Append(comp2memWr, [req |-> Head(memRd2comp), words |-> Head(memRdData)])
            /\ memRdData' = Tail(memRdData)
    /\ memRd2comp' = Tail(memRd2comp)
    /\ UNCHANGED <<in2cc, mdBuffer, cc2memRead, memRdCtrl, memWr2out, filterVars, memVars, hostVars>>

----------------------------------------------------------------------------
(* memWrite                                                                *)

FreeBins(words) == {i \in Bins : words[i].free}
MatchingBins(words, k) == {i \in Bins : ~words[i].free /\ words[i].key = k}
Lowest(S) == CHOOSE i \in S : \A j \in S : i <= j
Highest(S) == CHOOSE i \in S : \A j \in S : i >= j

PoolFor(class) == IF class = "small" THEN assignDram ELSE assignFlash

(* MW_IDLE and MW_EVAL take the request at the head; in "setRest" and "flushWait" memWrite waits. *)
Evaluates(op) ==
    /\ memWrState = "idle" /\ comp2memWr # <<>> /\ Head(comp2memWr).req.op = op
    /\ Room(memWr2out, FifoDepth) /\ dec2cc < PopDepth
    /\ comp2memWr' = Tail(comp2memWr)
    /\ UNCHANGED <<in2cc, mdBuffer, cc2memRead, memRd2comp, memRdCtrl, memRdData, mem,
                   hashFilter, held, freeDram, freeFlash, hostState, flushAck>>

PopFilter == dec2cc' = dec2cc + 1
Reply(answer) == memWr2out' = Append(memWr2out, answer)
Write(bs, words) == memWrCtrl' = Append(memWrCtrl, [buckets |-> bs, words |-> words])

EvalGet ==
    /\ Evaluates("get")
    /\ LET c == Head(comp2memWr)
           match == MatchingBins(c.words, c.req.key)
       IN  Reply(IF match = {} THEN [ok |-> FALSE]
                 ELSE LET e == c.words[Lowest(match)] IN [ok |-> TRUE, class |-> e.class, addr |-> e.addr])
    /\ PopFilter
    /\ UNCHANGED <<memWrState, memWrCtrl, assignDram, assignFlash, addressReturn, flushReq, flushDone>>

(* what MW_EVAL computes for a set *)
SetFound == FreeBins(Head(comp2memWr).words)
(* A fault: a key that is there is not looked for. *)
SetReplaceNever == {}
SetReplace == MatchingBins(Head(comp2memWr).words, Head(comp2memWr).req.key)
SetFails == \/ SetFound = {} /\ SetReplace = {}
            \/ PoolFor(Head(comp2memWr).req.class) = <<>>

(* A fault: the filter keeps a set that failed. *)
EvalSetFailsKept ==
    /\ Evaluates("set") /\ SetFails
    /\ Reply([ok |-> FALSE])
    /\ UNCHANGED <<dec2cc, memWrState, memWrCtrl, assignDram, assignFlash, addressReturn, flushReq, flushDone>>

EvalSetFails ==
    /\ Evaluates("set") /\ SetFails
    /\ Reply([ok |-> FALSE])
    /\ PopFilter
    /\ UNCHANGED <<memWrState, memWrCtrl, assignDram, assignFlash, addressReturn, flushReq, flushDone>>

EvalSet ==
    /\ Evaluates("set") /\ ~SetFails /\ SetFound # {}
    /\ Room(memWrCtrl, FifoDepth)
    /\ LET c == Head(comp2memWr)
           location == IF SetReplace # {} THEN Lowest(SetReplace) ELSE Lowest(SetFound)
           address == IF SetReplace # {} THEN c.words[location].addr ELSE Head(PoolFor(c.req.class))
           entry == [free |-> FALSE, key |-> c.req.key, class |-> c.req.class, addr |-> address]
       IN  /\ Write({BucketOf[c.req.key]}, [c.words EXCEPT ![location] = entry])
           /\ Reply([ok |-> TRUE, class |-> c.req.class, addr |-> address])
           /\ IF SetReplace # {} THEN UNCHANGED <<assignDram, assignFlash>>
              ELSE IF c.req.class = "small" THEN assignDram' = Tail(assignDram) /\ UNCHANGED assignFlash
              ELSE assignFlash' = Tail(assignFlash) /\ UNCHANGED assignDram
    /\ memWrState' = "setRest"
    /\ UNCHANGED <<dec2cc, addressReturn, flushReq, flushDone>>

(* MW_SET_REST: the word with the keys, then the pop *)
SetRest ==
    /\ memWrState = "setRest" /\ dec2cc < PopDepth
    /\ PopFilter
    /\ memWrState' = "idle"
    /\ UNCHANGED <<queues, hashFilter, held, memWrCtrl, mem, hostVars>>

(* A set of a key that is there, in a bucket without a free bin, meets no branch: the word is      *)
(* consumed and MW_EVAL is never left for this request.  What later words do to it is not modelled. *)
EvalSetHangs ==
    /\ Evaluates("set") /\ ~SetFails /\ SetFound = {}
    /\ memWrState' = "hung"
    /\ UNCHANGED <<memWr2out, memWrCtrl, dec2cc, assignDram, assignFlash, addressReturn, flushReq, flushDone>>

EvalDelete ==
    /\ Evaluates("delete")
    /\ Room(memWrCtrl, FifoDepth)
    /\ LET c == Head(comp2memWr)
           match == MatchingBins(c.words, c.req.key)
       IN  IF match = {}
           THEN Reply([ok |-> FALSE]) /\ UNCHANGED <<memWrCtrl, addressReturn>>
           ELSE /\ Reply([ok |-> TRUE])
                /\ Write({BucketOf[c.req.key]}, [c.words EXCEPT ![Highest(match)] = Free])
                /\ Room(addressReturn, ReturnDepth)
                /\ addressReturn' = Append(addressReturn, c.words[Highest(match)].addr)
    /\ PopFilter
    /\ UNCHANGED <<memWrState, assignDram, assignFlash, flushReq, flushDone>>

(* MW_IDLE with a flush: as long as flushReq is set, the FIFOs of the bridge are held in reset *)
FlushStart ==
    /\ Evaluates("flush")
    /\ memWrState' = "flushWait"
    /\ flushReq' = TRUE /\ flushDone' = FALSE
    /\ assignDram' = <<>> /\ assignFlash' = <<>> /\ addressReturn' = <<>>
    /\ UNCHANGED <<memWr2out, memWrCtrl, dec2cc>>

(* MW_FLUSH_WAIT: the acknowledgement is a pulse *)
FlushWait ==
    /\ memWrState = "flushWait" /\ flushAck
    /\ memWrState' = "flush" /\ flushAck' = FALSE
    /\ UNCHANGED <<memWrCtrl, mem, queues, filterVars, freeDram, freeFlash, hostState, flushReq, flushDone,
                   assignDram, assignFlash, addressReturn>>

(* MW_FLUSH sends a write for each word; the last one, and the answer, end it *)
FlushSweep ==
    /\ memWrState = "flush" /\ Room(memWrCtrl, FifoDepth) /\ Room(memWr2out, FifoDepth) /\ dec2cc < PopDepth
    /\ Write(Buckets, EmptyBucket)
    /\ Reply([ok |-> TRUE])
    /\ PopFilter
    /\ flushReq' = FALSE /\ flushDone' = TRUE
    /\ memWrState' = "idle"
    /\ UNCHANGED <<in2cc, mdBuffer, cc2memRead, memRd2comp, memRdCtrl, memRdData, comp2memWr, mem,
                   hashFilter, held, freeDram, freeFlash, hostState, flushAck,
                   assignDram, assignFlash, addressReturn>>

----------------------------------------------------------------------------
(* ht_outputLogic joins the answer with the metadata of the oldest request *)

OutputLogic ==
    /\ memWr2out # <<>> /\ mdBuffer # <<>>
    /\ mdBuffer' = Tail(mdBuffer) /\ memWr2out' = Tail(memWr2out)
    /\ UNCHANGED <<in2cc, cc2memRead, memRd2comp, memRdCtrl, memRdData, comp2memWr,
                   filterVars, memVars, hostVars>>
=============================================================================
