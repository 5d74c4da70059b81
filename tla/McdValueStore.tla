---------------------------- MODULE McdValueStore ----------------------------
(* The two value stores of the memcached server (valueStore.cpp, flashValueStore.cpp), each with   *)
(* the memory behind it.  In a store the words of a packet pass accessControl and demux; setPath   *)
(* writes the value of a set, dispatch and receive read the value of a get, and remux joins the    *)
(* value with the metadata, which waited meanwhile, for the answer.  The store in DRAM has a       *)
(* filter that keeps a get back while a set of its address is in work; the one in flash has none.  *)
(*                                                                                                 *)
(* The two differ in widths and in the few switches below, so a store is an index of all variables.*)
(* A key is one word and travels with the first word of metadata.  Values have two words or more.  *)
EXTENDS Naturals, Sequences, FiniteSets, TLC

CONSTANTS
    LineWords,      \* [Stores -> Nat], words of a value in a line of the memory
    Filtered,       \* the stores with accessControl
    WritesFirst,    \* the stores whose memory takes commands to write before those to read
    SlotLines,      \* lines from an address of a value to the next
    Addresses,
    AccFilterEntries,   \* accFilterEntries
    FifoDepth,      \* of FIFOs that carry words or commands
    MdDepth         \* of metadataBuffer

Stores == {"dram", "flash"}

ASSUME LineAssumption == LineWords \in [Stores -> Nat \ {0}] /\ SlotLines \in Nat \ {0}
ASSUME StoreAssumption == Filtered \subseteq Stores /\ WritesFirst \subseteq Stores
ASSUME AddressesAssumption == Addresses \subseteq Nat
ASSUME DepthAssumption == {AccFilterEntries, FifoDepth} \subseteq Nat \ {0} /\ MdDepth \in Nat \ {0, 1}

VARIABLES
    history,        \* the packets so far: [op, store, addr, len], op "set", "get" or "pass"
    inData,         \* words of packets, from the splitter
    accState,       \* 0 or, from ACC_EVAL to ACC_PUSH, the packet that is kept back
    filter,         \* packets in accessCtrl
    filterSeq, streamToPop,     \* operations in the order in which they will be popped
    popSet, popGet, \* pops on their way, each of the packet that is done
    toDemux,        \* accCtrl2demux
    setMd, setValueIn, setBuf,  \* a set on its way to the memory; setBuf: the line it fills
    getMd, disp2rec,            \* gets on their way to the memory, and from it
    memWrCmd, memWrData, memRdCmd,
    memCmd,         \* aggregateMemCmd with, at its head, the command that memAccess executes
    memory,         \* the lines that were written
    rdData,
    recPos,         \* the word that receive sends next
    getPath2remux,
    metadataBuffer, \* <<packet, 1>>, <<packet, 2>>
    remuxPos,       \* <<packet, number of words sent>>, or <<>>
    outData

accVars == <<accState, filter, filterSeq, streamToPop>>
popVars == <<popSet, popGet>>
setVars == <<setMd, setValueIn, setBuf>>
getVars == <<getMd, disp2rec, rdData, recPos, getPath2remux>>
memVars == <<memWrCmd, memWrData, memRdCmd, memCmd, memory>>
remuxVars == <<metadataBuffer, remuxPos>>
storeVars == <<inData, accVars, popVars, toDemux, setVars, getVars, memVars, remuxVars, outData>>

Room(fifo, depth) == Len(fifo) < depth
Op(p) == history[p].op
Addr(p) == history[p].addr
ValueWords(p) == history[p].len
(* words of a packet: two of metadata, or as many as the value has *)
PacketWords(p) == IF Op(p) = "get" THEN 2 ELSE ValueWords(p)
LastWord(w) == w.i = PacketWords(w.p)
(* A fault: a value that fills its last line gets one more. *)
LinesOneMore(p, s) == ValueWords(p) \div LineWords[s] + 1
Lines(p, s) == (ValueWords(p) + LineWords[s] - 1) \div LineWords[s]
LineOf(a, k) == a * SlotLines + k           \* k-th line, from 0, of the value at address a

StoreInit ==
    /\ history = <<>>
    /\ inData = [s \in Stores |-> <<>>]
    /\ accState = [s \in Stores |-> 0] /\ filter = [s \in Stores |-> <<>>]
    /\ filterSeq = [s \in Stores |-> <<>>] /\ streamToPop = [s \in Stores |-> "none"]
    /\ popSet = [s \in Stores |-> <<>>] /\ popGet = [s \in Stores |-> <<>>]
    /\ toDemux = [s \in Stores |-> <<>>]
    /\ setMd = [s \in Stores |-> <<>>] /\ setValueIn = [s \in Stores |-> <<>>]
    /\ setBuf = [s \in Stores |-> <<>>]
    /\ getMd = [s \in Stores |-> <<>>] /\ disp2rec = [s \in Stores |-> <<>>]
    /\ memWrCmd = [s \in Stores |-> <<>>] /\ memWrData = [s \in Stores |-> <<>>]
    /\ memRdCmd = [s \in Stores |-> <<>>] /\ memCmd = [s \in Stores |-> <<>>]
    /\ memory = [s \in Stores |-> <<>>]
    /\ rdData = [s \in Stores |-> <<>>] /\ recPos = [s \in Stores |-> 0]
    /\ getPath2remux = [s \in Stores |-> <<>>]
    /\ metadataBuffer = [s \in Stores |-> <<>>] /\ remuxPos = [s \in Stores |-> <<>>]
    /\ outData = [s \in Stores |-> <<>>]

Put(fifos, s, x) == [fifos EXCEPT ![s] = Append(@, x)]
Drop(fifos, s) == [fifos EXCEPT ![s] = Tail(@)]

----------------------------------------------------------------------------
(* accessControl                                                           *)

Passes(p) == Op(p) = "pass"                 \* a failed operation, a delete or a flush
(* A fault: the operations are compared the wrong way round. *)
ConflictsSwapped(p, s) == \E i \in DOMAIN filter[s] :
    Addr(filter[s][i]) = Addr(p) /\ Op(p) = "set" /\ Op(filter[s][i]) = "get"
Conflicts(p, s) == \E i \in DOMAIN filter[s] :
    Addr(filter[s][i]) = Addr(p) /\ Op(p) = "get" /\ Op(filter[s][i]) = "set"
FilterFull(s) == Len(filter[s]) = AccFilterEntries

Forward(s) ==
    /\ Room(toDemux[s], FifoDepth)
    /\ toDemux' = Put(toDemux, s, Head(inData[s])) /\ inData' = Drop(inData, s)

CanPop(s) ==
    \/ streamToPop[s] = "set" /\ popSet[s] # <<>>
    \/ streamToPop[s] = "get" /\ popGet[s] # <<>>

(* ACC_STREAM, a packet that passes, and every packet of a store without the filter *)
AccStream(s) ==
    /\ inData[s] # <<>> /\ accState[s] = 0
    /\ \/ s \notin Filtered
       \/ Head(inData[s]).i > 1
       \/ Passes(Head(inData[s]).p) /\ ~CanPop(s)
    /\ Forward(s)
    /\ UNCHANGED <<history, accVars, popVars, setVars, getVars, memVars, remuxVars, outData>>

(* ACC_IDLE takes a get or a set; its first word stays in inData until ACC_PUSH *)
AccTake(s) ==
    /\ s \in Filtered /\ accState[s] = 0 /\ ~CanPop(s)
    /\ inData[s] # <<>> /\ Head(inData[s]).i = 1 /\ ~Passes(Head(inData[s]).p)
    /\ accState' = [accState EXCEPT ![s] = Head(inData[s]).p]
    /\ filterSeq' = Put(filterSeq, s, Op(Head(inData[s]).p))
    /\ UNCHANGED <<history, inData, filter, streamToPop, popVars, toDemux, setVars, getVars, memVars, remuxVars,
                   outData>>

NextToPop(s) ==
    IF filterSeq[s] = <<>>
    THEN streamToPop' = [streamToPop EXCEPT ![s] = "none"] /\ UNCHANGED filterSeq
    ELSE streamToPop' = [streamToPop EXCEPT ![s] = Head(filterSeq[s])] /\ filterSeq' = Drop(filterSeq, s)

(* ACC_EVAL to ACC_PUSH; without anything to pop, the operation is moved to streamToPop first *)
AccPush(s) ==
    /\ accState[s] > 0 /\ ~Conflicts(accState[s], s) /\ ~FilterFull(s)
    /\ filter' = Put(filter, s, accState[s])
    /\ IF streamToPop[s] = "none" THEN NextToPop(s) ELSE UNCHANGED <<streamToPop, filterSeq>>
    /\ accState' = [accState EXCEPT ![s] = 0]
    /\ Forward(s)
    /\ UNCHANGED <<history, popVars, setVars, getVars, memVars, remuxVars, outData>>

(* ACC_POP at a word that starts a packet, and ACC_POP_WAIT *)
AccPop(s) ==
    /\ CanPop(s)
    /\ (accState[s] = 0 /\ inData[s] # <<>>) => Head(inData[s]).i = 1
    /\ IF streamToPop[s] = "set"
       THEN popSet' = Drop(popSet, s) /\ UNCHANGED popGet
       ELSE popGet' = Drop(popGet, s) /\ UNCHANGED popSet
    /\ NextToPop(s)
    /\ filter' = Drop(filter, s)
    /\ UNCHANGED <<history, inData, accState, toDemux, setVars, getVars, memVars, remuxVars, outData>>

----------------------------------------------------------------------------
(* demux: the first two words of a packet bring metadata *)

BringsMetadataOnce(w) == w.i = 1                 \* a fault: the second word is forgotten
BringsMetadata(w) == w.i <= 2

Demux(s) ==
    /\ toDemux[s] # <<>>
    /\ LET w == Head(toDemux[s]) IN
       /\ IF BringsMetadata(w)
          THEN Room(metadataBuffer[s], MdDepth) /\ metadataBuffer' = Put(metadataBuffer, s, <<w.p, w.i>>)
          ELSE UNCHANGED metadataBuffer
       /\ IF Op(w.p) = "get" /\ w.i = 1
          THEN Room(getMd[s], FifoDepth) /\ getMd' = Put(getMd, s, w.p)
          ELSE UNCHANGED getMd
       /\ IF Op(w.p) = "set" /\ w.i = 1
          THEN Room(setMd[s], FifoDepth) /\ setMd' = Put(setMd, s, w.p)
          ELSE UNCHANGED setMd
       /\ IF Op(w.p) = "set"
          THEN Room(setValueIn[s], FifoDepth) /\ setValueIn' = Put(setValueIn, s, w)
          ELSE UNCHANGED setValueIn
    /\ toDemux' = Drop(toDemux, s)
    /\ UNCHANGED <<history, inData, accVars, popVars, setBuf, disp2rec, rdData, recPos, getPath2remux, memVars,
                   remuxPos, outData>>

----------------------------------------------------------------------------
(* setPath gathers a line; with the first line goes the command, with the last one the pop.  demux *)
(* writes setMd and the first word in one step, so that address and length are those of the word.  *)
(* Its buffer is cleared for a new value and not for a new line: what a value leaves of its last   *)
(* line still holds words of the line before.                                                      *)

(* What a packet asks of the memory. *)
Command(write, p, s) == [write |-> write, p |-> p, line |-> LineOf(Addr(p), 0), count |-> Lines(p, s)]

EndsLine(w, s) == LastWord(w) \/ w.i % LineWords[s] = 0
InFirstLine(w, s) == w.i <= LineWords[s]
PutInLine(words, place, w) == IF place <= Len(words) THEN [words EXCEPT ![place] = w] ELSE Append(words, w)

SetPath(s) ==
    /\ setValueIn[s] # <<>>
    /\ LET w == Head(setValueIn[s])
           line == PutInLine(setBuf[s], ((w.i - 1) % LineWords[s]) + 1, w)
       IN  /\ IF w.i = 1 THEN setMd[s] # <<>> /\ setMd' = Drop(setMd, s)
              ELSE UNCHANGED setMd
           /\ IF EndsLine(w, s)
              THEN /\ Room(memWrData[s], FifoDepth) /\ memWrData' = Put(memWrData, s, line)
              ELSE UNCHANGED memWrData
           /\ setBuf' = [setBuf EXCEPT ![s] = IF LastWord(w) THEN <<>> ELSE line]
           /\ IF EndsLine(w, s) /\ InFirstLine(w, s)
              THEN /\ Room(memWrCmd[s], FifoDepth)
                   /\ memWrCmd' = Put(memWrCmd, s, Command(TRUE, w.p, s))
              ELSE UNCHANGED memWrCmd
           /\ popSet' = IF LastWord(w) /\ s \in Filtered THEN Put(popSet, s, w.p) ELSE popSet
    /\ setValueIn' = Drop(setValueIn, s)
    /\ UNCHANGED <<history, inData, accVars, popGet, toDemux, getVars, memRdCmd, memCmd, memory, remuxVars, outData>>

----------------------------------------------------------------------------
(* dispatch, and the memory: cmdAggregator takes a command, memAccess executes one after the other *)

Dispatch(s) ==
    /\ getMd[s] # <<>> /\ Room(memRdCmd[s], FifoDepth) /\ Room(disp2rec[s], FifoDepth)
    /\ LET p == Head(getMd[s]) IN
       /\ memRdCmd' = Put(memRdCmd, s, Command(FALSE, p, s))
       /\ disp2rec' = Put(disp2rec, s, p)
    /\ getMd' = Drop(getMd, s)
    /\ UNCHANGED <<history, inData, accVars, popVars, toDemux, setVars, rdData, recPos, getPath2remux,
                   memWrCmd, memWrData, memCmd, memory, remuxVars, outData>>

TakesWrite(s) == memWrCmd[s] # <<>> /\ (s \in WritesFirst \/ memRdCmd[s] = <<>>)

Aggregate(s) ==
    /\ Room(memCmd[s], FifoDepth)
    /\ IF TakesWrite(s)
       THEN memCmd' = Put(memCmd, s, Head(memWrCmd[s])) /\ memWrCmd' = Drop(memWrCmd, s) /\ UNCHANGED memRdCmd
       ELSE /\ memRdCmd[s] # <<>>
            /\ memCmd' = Put(memCmd, s, Head(memRdCmd[s])) /\ memRdCmd' = Drop(memRdCmd, s) /\ UNCHANGED memWrCmd
    /\ UNCHANGED <<history, inData, accVars, popVars, toDemux, setVars, getVars, memWrData, memory, remuxVars, outData>>

(* The lines after one of them is written. *)
Written(lines, a, words) == [l \in DOMAIN lines \cup {a} |-> IF l = a THEN words ELSE lines[l]]

MemAccess(s) ==
    /\ memCmd[s] # <<>>
    /\ LET c == Head(memCmd[s]) IN
       /\ IF c.write
          THEN /\ memWrData[s] # <<>>
               /\ memory' = [memory EXCEPT ![s] = Written(@, c.line, Head(memWrData[s]))]
               /\ memWrData' = Drop(memWrData, s) /\ UNCHANGED rdData
          ELSE /\ Room(rdData[s], FifoDepth)
               /\ rdData' = Put(rdData, s, [p |-> c.p, line |-> c.line,
                                              words |-> IF c.line \in DOMAIN memory[s] THEN memory[s][c.line] ELSE <<>>])
               /\ UNCHANGED <<memory, memWrData>>
       /\ memCmd' = [memCmd EXCEPT ![s] =
                        IF c.count = 1 THEN Tail(@)
                        ELSE <<[c EXCEPT !.line = @ + 1, !.count = @ - 1]>> \o Tail(@)]
    /\ UNCHANGED <<history, inData, accVars, popVars, toDemux, setVars, getMd, disp2rec, recPos, getPath2remux,
                   memWrCmd, memRdCmd, remuxVars, outData>>

----------------------------------------------------------------------------
(* receive: the words of the lines that were read *)

NoWord == [p |-> 0, i |-> 0]                \* what a line holds that was never written
WordOf(line, i) == IF i \in DOMAIN line THEN line[i] ELSE NoWord

Receive(s) ==
    /\ disp2rec[s] # <<>> /\ rdData[s] # <<>> /\ Room(getPath2remux[s], FifoDepth)
    /\ LET p == Head(disp2rec[s])
           inLine == (recPos[s] % LineWords[s]) + 1
           last == recPos[s] + 1 = ValueWords(p)
       IN  /\ getPath2remux' = Put(getPath2remux, s, [p |-> p, i |-> recPos[s] + 1, v |-> WordOf(Head(rdData[s]).words, inLine)])
           /\ recPos' = [recPos EXCEPT ![s] = IF last THEN 0 ELSE @ + 1]
           /\ rdData' = IF last \/ inLine = LineWords[s] THEN Drop(rdData, s) ELSE rdData
           /\ disp2rec' = IF last THEN Drop(disp2rec, s) ELSE disp2rec
           /\ popGet' = IF last /\ s \in Filtered THEN Put(popGet, s, p) ELSE popGet
    /\ UNCHANGED <<history, inData, accVars, popSet, toDemux, setVars, getMd, memVars, remuxVars, outData>>

----------------------------------------------------------------------------
(* remux                                                                   *)

Emit(s, p, i, v, last) ==
    /\ Room(outData[s], FifoDepth)
    /\ outData' = Put(outData, s, [p |-> p, i |-> i, v |-> v, last |-> last])
    /\ remuxPos' = [remuxPos EXCEPT ![s] = IF last THEN <<>> ELSE <<p, i>>]

Md(s) == Head(metadataBuffer[s])

(* RMUX_IDLE and RMUX_OPCODECHECK.  An idle remux without metadata goes on to OPCODECHECK with the *)
(* metadata of the packet before, which is its second word.  The bits of the operation in it are   *)
(* zero (udpShim.cpp:34), that of a get, so remux does not send another answer without a value;    *)
(* and for that to a get it never finds a value, as WaitingIsExpected shows.  This is left out.    *)
RemuxFirst(s) ==
    /\ remuxPos[s] = <<>> /\ metadataBuffer[s] # <<>>
    /\ IF Op(Md(s)[1]) = "get"
       THEN /\ getPath2remux[s] # <<>>
            /\ Emit(s, Md(s)[1], 1, Head(getPath2remux[s]).v, FALSE)
            /\ getPath2remux' = Drop(getPath2remux, s)
       ELSE Emit(s, Md(s)[1], 1, NoWord, FALSE) /\ UNCHANGED getPath2remux
    /\ metadataBuffer' = Drop(metadataBuffer, s)
    /\ UNCHANGED <<history, inData, accVars, popVars, toDemux, setVars, getMd, disp2rec, rdData, recPos, memVars>>

(* RMUX_REST_MD1 *)
RemuxRest(s) ==
    /\ remuxPos[s] # <<>> /\ Op(remuxPos[s][1]) # "get" /\ metadataBuffer[s] # <<>>
    /\ Emit(s, remuxPos[s][1], 2, NoWord, TRUE)
    /\ metadataBuffer' = Drop(metadataBuffer, s)
    /\ UNCHANGED <<history, inData, accVars, popVars, toDemux, setVars, getVars, memVars>>

(* RMUX_GET_MD1 with the second word of metadata, RMUX_GET_REST without *)
RemuxGet(s) ==
    /\ remuxPos[s] # <<>> /\ Op(remuxPos[s][1]) = "get" /\ getPath2remux[s] # <<>>
    /\ LET p == remuxPos[s][1]
           i == remuxPos[s][2] + 1
       IN  /\ Emit(s, p, i, Head(getPath2remux[s]).v, i = ValueWords(p))
           /\ IF i = 2
              THEN metadataBuffer[s] # <<>> /\ metadataBuffer' = Drop(metadataBuffer, s)
              ELSE UNCHANGED metadataBuffer
    /\ getPath2remux' = Drop(getPath2remux, s)
    /\ UNCHANGED <<history, inData, accVars, popVars, toDemux, setVars, getMd, disp2rec, rdData, recPos, memVars>>

StoreStep(s) ==
    \/ AccStream(s) \/ AccTake(s) \/ AccPush(s) \/ AccPop(s) \/ Demux(s)
    \/ SetPath(s) \/ Dispatch(s) \/ Aggregate(s) \/ MemAccess(s) \/ Receive(s)
    \/ RemuxFirst(s) \/ RemuxRest(s) \/ RemuxGet(s)
=============================================================================
