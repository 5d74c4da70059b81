------------------------------ MODULE McdValues ------------------------------
(* The value path of the memcached server: the splitter sends the packets that leave the hash      *)
(* table to one of two value stores, the merger joins their answers.  The table and the host are   *)
(* reduced to the addresses they give: a key keeps the address it has, a deleted key's is free.    *)
EXTENDS McdValueStore

CONSTANTS Keys,
          SplitLength,  \* splitLength
          SmallAddresses,   \* those of Addresses for values below SplitLength
          Lengths,      \* numbers of words that values have
          MaxPackets    \* bound on the packets of a behaviour

ASSUME LengthsAssumption == Lengths \subseteq Nat \ {0, 1} /\ SplitLength \in Nat
ASSUME SmallAssumption == SmallAddresses \subseteq Addresses

VARIABLES
    table,          \* [Keys -> the set that gave the key its value, or 0]
    splitIn,        \* words on their way to the splitter
    answer,         \* the words of the packet that the merger is sending
    merging,        \* M_STREAM: the store the merger takes words from, or "none"
    answered        \* packets that have left

valueVars == <<history, storeVars, table, splitIn, answer, merging, answered>>

ValuesInit ==
    /\ StoreInit
    /\ table = [k \in Keys |-> 0]
    /\ splitIn = <<>> /\ answer = <<>> /\ merging = "none" /\ answered = {}

Used == {Addr(table[k]) : k \in {k \in Keys : table[k] > 0}}
FreeAddresses(n) == (IF n < SplitLength THEN SmallAddresses ELSE Addresses \ SmallAddresses) \ Used
StoreOf(n) == IF n > SplitLength THEN "flash" ELSE "dram"       \* the splitter decides
Lowest(S) == CHOOSE a \in S : \A b \in S : a <= b
Pass == [op |-> "pass", store |-> "dram", addr |-> 0, len |-> 2]    \* no value, two words of metadata

(* What ht_outputLogic sends: the packet p, with the entry of the table *)
Sends(p, packet) ==
    /\ history' = Append(history, packet)
    /\ splitIn' = splitIn \o [i \in 1 .. (IF packet.op = "get" THEN 2 ELSE packet.len) |-> [p |-> p, i |-> i]]

TableExecutes(k, op, n) ==
    /\ splitIn = <<>>
    /\ LET p == Len(history) + 1
           found == k \in Keys /\ table[k] > 0
       IN  \/ op = "get" /\ found /\ Sends(p, [history[table[k]] EXCEPT !.op = "get"]) /\ UNCHANGED table
           \/ op = "get" /\ ~found /\ Sends(p, Pass) /\ UNCHANGED table
           \/ /\ op = "set" /\ k \in Keys /\ FreeAddresses(n) # {}
              /\ Sends(p, [op |-> "set", store |-> StoreOf(n), len |-> n,
                           addr |-> IF found THEN Addr(table[k]) ELSE Lowest(FreeAddresses(n))])
              /\ table' = [table EXCEPT ![k] = p]
           \/ op = "delete" /\ Sends(p, Pass) /\ table' = [key \in Keys |-> IF key = k THEN 0 ELSE table[key]]
           \/ op = "flush" /\ Sends(p, Pass) /\ table' = [key \in Keys |-> 0]
    /\ UNCHANGED <<storeVars, answer, merging, answered>>

(* A set may fail at any time: the host has given no address yet, or the bucket is full.  It keeps  *)
(* its value, which takes the way that its length says.                                             *)
SetFails(n) ==
    /\ splitIn = <<>>
    /\ Sends(Len(history) + 1, [Pass EXCEPT !.store = StoreOf(n), !.len = n])
    /\ UNCHANGED <<storeVars, table, answer, merging, answered>>

Splitter ==
    /\ splitIn # <<>>
    /\ LET s == history[Head(splitIn).p].store IN
       /\ Room(inData[s], FifoDepth)
       /\ inData' = Put(inData, s, Head(splitIn))
    /\ splitIn' = Tail(splitIn)
    /\ UNCHANGED <<history, accVars, popVars, toDemux, setVars, getVars, memVars, remuxVars, outData, table, answer,
                   merging, answered>>

(* A fault: the merger looks at the flash first in the middle of a packet, too. *)
MayMergeAny(s) == outData[s] # <<>> /\ (s = "flash" \/ outData["flash"] = <<>>)
(* M_IDLE takes from the flash first *)
MayMerge(s) ==
    /\ outData[s] # <<>>
    /\ \/ merging = s
       \/ merging = "none" /\ (s = "flash" \/ outData["flash"] = <<>>)

Merger(s) ==
    /\ MayMerge(s)
    /\ LET w == Head(outData[s]) IN
       /\ merging' = IF w.last THEN "none" ELSE s
       /\ answered' = IF w.last THEN answered \cup {w.p} ELSE answered
       /\ answer' = IF merging = "none" THEN <<w>> ELSE Append(answer, w)
    /\ outData' = Drop(outData, s)
    /\ UNCHANGED <<history, inData, accVars, popVars, toDemux, setVars, getVars, memVars, remuxVars, table, splitIn>>

(* Any packet that the table may send *)
TableAnswers ==
    /\ Len(history) < MaxPackets
    /\ \/ \E k \in Keys, n \in Lengths : TableExecutes(k, "set", n)
       \/ \E k \in Keys, op \in {"get", "delete"} : TableExecutes(k, op, 2)

Pipeline ==
    \/ Splitter
    \/ \E s \in Stores : StoreStep(s) /\ UNCHANGED <<table, splitIn, answer, merging, answered>>

----------------------------------------------------------------------------
(* Correctness                                                             *)

Packets == DOMAIN history

(* What comes to the stores has two words or more, one for each word of metadata: demux and remux  *)
(* count two of them, and take a shorter value for the start of the next packet.  The parser keeps *)
(* to it while no client sends an empty value: it puts a word of flags in front of the value, and  *)
(* joins metadata, key and value to as many words as their lengths say.                            *)
LongValues == \A p \in Packets : history[p].len \in Nat \ {0, 1}

(* A value waits at an idle remux only with its metadata, so remux, which goes on to the opcode    *)
(* without a test for metadata, never sends a value with the metadata of the packet before; the    *)
(* value is the next word that the packet asked for; and the metadata remux finds is the next word *)
(* of the packet it sends, or starts a packet.                                                     *)
WaitingIsExpected ==
    \A s \in Stores :
        /\ getPath2remux[s] # <<>> =>
              LET v == Head(getPath2remux[s]) IN
              IF remuxPos[s] = <<>>
              THEN metadataBuffer[s] # <<>> /\ (Op(Md(s)[1]) = "get" => v.p = Md(s)[1] /\ v.i = 1)
              ELSE Op(remuxPos[s][1]) = "get" => v.p = remuxPos[s][1] /\ v.i = remuxPos[s][2] + 1
        /\ metadataBuffer[s] # <<>> =>
              IF remuxPos[s] # <<>> /\ remuxPos[s][2] = 1 THEN Md(s) = <<remuxPos[s][1], 2>> ELSE Md(s)[2] = 1

(* Answers leave whole: the merger never mixes two packets, a get brings all its words, and the    *)
(* answers of a store keep the order of the requests.                                              *)
AnswersWhole ==
    answer # <<>> =>
        LET p == answer[1].p IN
        /\ \A i \in DOMAIN answer : answer[i].p = p /\ answer[i].i = i
        /\ answer[Len(answer)].last => Len(answer) = (IF Op(p) = "get" THEN ValueWords(p) ELSE 2)
        /\ \A q \in 1 .. p - 1 : history[q].store = history[p].store => q \in answered

(* A get of the store in DRAM never brings a word that is older than the last set of its address   *)
(* in front of it.  It may bring the word of a later set, for which accessControl does not stop,   *)
(* and miss one, where a later value is shorter and ends in the same line: there is nothing, or    *)
(* what the later value had in the line before.                                                    *)
SetsBefore(p) == {q \in 1 .. p - 1 : Op(q) = "set" /\ Addr(q) = Addr(p) /\ history[q].store = history[p].store}
Highest(S) == CHOOSE a \in S : \A b \in S : a >= b
SetsBehind(p) == {q \in Packets : q > p /\ Op(q) = "set" /\ Addr(q) = Addr(p) /\ history[q].store = history[p].store}
Fresh(w) ==
    \/ w.v.i = w.i /\ w.v.p >= Highest(SetsBefore(w.p)) /\ Addr(w.v.p) = Addr(w.p)
    \/ \E q \in SetsBehind(w.p) :
          /\ ValueWords(q) < w.i
          /\ w.v = NoWord \/ (w.v.p = q /\ w.v.i = w.i - LineWords[history[q].store])
NoOldWords ==
    \A i \in DOMAIN answer :
        (Op(answer[i].p) = "get" /\ history[answer[i].p].store \in Filtered) => Fresh(answer[i])
=============================================================================
