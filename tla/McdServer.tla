------------------------------ MODULE McdServer ------------------------------
(* The memcached server from the bytes of a request to those of its answer: binaryParser in front   *)
(* of the hash table, which is reduced as in McdValues, and binaryResponse behind the merger.       *)
(*                                                                                                  *)
(* A word has eight bytes.  A byte is known by where it comes from: <<k, i>> is byte i of request   *)
(* k, or i of the key k; <<-k, n>> is a field of an answer.  Keys have two words at most, as the    *)
(* stores treat them as metadata, and each request has as many bytes as its lengths say.            *)
EXTENDS McdValues, Integers

CONSTANTS
    Requests,       \* sequences of requests that clients may send; <<>> if the table is free in what it sends
    KeyDepth, ValueDepth    \* of keyBuffer_rp, valueBuffer_rp and valueBuffer_rf

VARIABLES
    requests,       \* those of this behaviour
    feInput,        \* words on their way to the parser
    front, metadataIn, keyIn, valueIn,      \* bp_f, and what it leaves for bp_r
    rear, toTable,  \* bp_r
    parsed,         \* the words of the request that the table is reading
    values,         \* what the table knows of each packet: the words of its value, their bytes, and whether it failed
    respInput,      \* merger2responseFormatter
    respFront, metadataOut, valueOut,       \* response_f, and what it leaves for response_r
    respRear,
    response, responded     \* the words of the answer that is being sent, and those sent

parserVars == <<feInput, front, metadataIn, keyIn, valueIn, rear, toTable>>
formatterVars == <<respFront, metadataOut, valueOut, respRear, response, responded>>
clientVars == <<requests, parserVars, parsed, values, respInput, formatterVars>>
serverVars == <<valueVars, clientVars>>

S == INSTANCE SequencesExt

----------------------------------------------------------------------------
(* Bytes *)

Zero == <<0, 0>>
Header == 24
Fill(bytes, n) == [i \in 1 .. n |-> IF i \in DOMAIN bytes THEN bytes[i] ELSE Zero]
AsWords(bytes) == [i \in 1 .. (Len(bytes) + 7) \div 8 |-> Fill(SubSeq(bytes, 8 * i - 7, S!Min({8 * i, Len(bytes)})), 8)]

Extras(r) == IF r.op = "set" THEN 8 ELSE 0
BodyLength(r) == Extras(r) + r.keyLen + r.valueLen
KeyBytes(key, n) == [i \in 1 .. n |-> <<key, i>>]
BytesOf(k, from, n) == [i \in 1 .. n |-> <<k, from + i - 1>>]
Datagram(k) ==
    LET r == requests[k] IN
    AsWords(BytesOf(k, 0, Header + Extras(r)) \o KeyBytes(r.key, r.keyLen) \o BytesOf(k, Header + Extras(r) + r.keyLen, r.valueLen))

----------------------------------------------------------------------------
(* bp_f takes a request apart.  It goes by the lengths, and not by where a packet ends. *)

FrontStart == [word |-> 0, op |-> "none", key |-> 0, value |-> 0, shift |-> 0, temp |-> Fill(<<>>, 8), spill |-> FALSE, req |-> 0]

Input == Head(feInput)
Reads(word) == front.word = word /\ ~front.spill /\ feInput # <<>> /\ feInput' = Tail(feInput)

Unspoilt == /\ UNCHANGED <<valueVars, requests, rear, toTable, parsed, values, respInput, formatterVars>>

(* The fields of a header; a word that is none has fields of no use. *)
NoRequest == [op |-> "none", key |-> 0, keyLen |-> 0, valueLen |-> 0]
FieldsOf(word, i) == IF word[1][2] = i /\ word[1][1] \in DOMAIN requests THEN requests[word[1][1]] ELSE NoRequest

ParseHeader ==
    /\ Reads(0)
    /\ front' = [front EXCEPT !.word = 1, !.op = FieldsOf(Input, 0).op, !.key = FieldsOf(Input, 0).keyLen, !.req = Input[1][1]]
    /\ UNCHANGED <<metadataIn, keyIn, valueIn>> /\ Unspoilt

ParseLength ==
    /\ Reads(1) /\ Room(metadataIn, MdDepth)
    /\ LET value == BodyLength(FieldsOf(Input, 8)) - front.key
       IN  /\ front' = [front EXCEPT !.word = 2, !.value = value]
           /\ metadataIn' = Append(metadataIn, [req |-> front.req, op |-> front.op, key |-> front.key, value |-> value])
    /\ UNCHANGED <<keyIn, valueIn>> /\ Unspoilt

ToKey == IF front.key >= 8 THEN 4 ELSE 5

(* An operation that is none of these stays here, and the parser with it. *)
ParseThird ==
    /\ Reads(2)
    /\ front' = [front EXCEPT !.word = CASE front.op = "set" -> 3
                                         [] front.op \in {"get", "delete"} -> ToKey
                                         [] front.op = "flush" -> 0
                                         [] OTHER -> 2]
    /\ UNCHANGED <<metadataIn, keyIn, valueIn>> /\ Unspoilt

(* Only the flags are kept, the time of expiry is not. *)
ParseExtras ==
    /\ Reads(3) /\ Room(valueIn, ValueDepth)
    /\ valueIn' = Append(valueIn, Fill(SubSeq(Input, 1, 4), 8))
    /\ front' = [front EXCEPT !.word = ToKey, !.value = @ - 8]
    /\ UNCHANGED <<metadataIn, keyIn>> /\ Unspoilt

ParseKey ==
    /\ Reads(4) /\ Room(keyIn, KeyDepth)
    /\ keyIn' = Append(keyIn, Input)
    /\ LET last == front.op \in {"get", "delete"}
           shift == IF front.key = 8 THEN 0 ELSE front.shift
           next == CASE front.key = 8 -> IF last THEN 0 ELSE 6
                     [] front.key < 8 -> 0
                     [] front.key \in 9 .. 15 -> IF last THEN 4 ELSE 5
                     [] OTHER -> 4
       IN  front' = [front EXCEPT !.word = next, !.shift = shift, !.key = (@ + 248) % 256]
    /\ UNCHANGED <<metadataIn, valueIn>> /\ Unspoilt

(* The end of a key, with the first bytes of the value behind it. *)
ParseKeyEnd ==
    /\ Reads(5) /\ Room(keyIn, KeyDepth)
    /\ keyIn' = Append(keyIn, Input)
    /\ LET shift == 8 - front.key
           saved == SubSeq(Input, front.key + 1, 8) \o SubSeq(front.temp, shift + 1, 8)
       IN  IF front.op # "set"
           THEN front' = [front EXCEPT !.key = 0, !.word = 0] /\ UNCHANGED valueIn
           ELSE IF front.value > shift
           THEN /\ front' = [front EXCEPT !.key = 0, !.word = 6, !.shift = shift, !.value = @ - shift, !.temp = saved]
                /\ UNCHANGED valueIn
           ELSE /\ Room(valueIn, ValueDepth) /\ valueIn' = Append(valueIn, saved)
                /\ front' = [front EXCEPT !.key = 0, !.word = 0, !.shift = shift, !.value = 0, !.temp = saved]
    /\ UNCHANGED metadataIn /\ Unspoilt

(* Words of the value, each joined with what the word before it has left over. *)
ParseValue ==
    /\ Reads(6) /\ Room(valueIn, ValueDepth)
    /\ LET shift == front.shift
           joined == SubSeq(front.temp, 1, shift) \o SubSeq(Input, 1, 8 - shift)
           over == SubSeq(Input, 9 - shift, 8) \o SubSeq(joined, shift + 1, 8)
       IN  /\ valueIn' = Append(valueIn, joined)
           /\ front' = IF front.value <= 8 - shift
                       THEN [front EXCEPT !.word = 0, !.value = 0, !.temp = joined]
                       ELSE [front EXCEPT !.value = IF @ > 8 THEN @ - 8 ELSE 0, !.temp = IF shift = 0 THEN joined ELSE over,
                                          !.spill = shift # 0 /\ front.value - front.key \in 1 .. 8]
    /\ UNCHANGED <<metadataIn, keyIn>> /\ Unspoilt

ParseSpill ==
    /\ front.spill /\ Room(valueIn, ValueDepth)
    /\ valueIn' = Append(valueIn, front.temp)
    /\ front' = [front EXCEPT !.spill = FALSE, !.word = 0]
    /\ UNCHANGED <<feInput, metadataIn, keyIn>> /\ Unspoilt

----------------------------------------------------------------------------
(* bp_r joins metadata, key and value to the words of the pipeline. *)

RearStart == [state |-> "BPR_IDLE", md |-> <<>>, key |-> 0, value |-> 0]

Less8(n) == IF n > 8 THEN n - 8 ELSE 0
Rest(fifo, taken) == IF taken THEN Tail(fifo) ELSE fifo
FrontKept == UNCHANGED <<valueVars, requests, feInput, front, parsed, values, respInput, formatterVars>>

RearIdle ==
    /\ rear.state = "BPR_IDLE" /\ metadataIn # <<>>
    /\ rear' = [rear EXCEPT !.state = "BPR_W1", !.md = Head(metadataIn)]
    /\ metadataIn' = Tail(metadataIn)
    /\ UNCHANGED <<keyIn, valueIn, toTable>> /\ FrontKept

RearWord(key, value, ends) ==
    /\ key => keyIn # <<>>
    /\ value => valueIn # <<>>
    /\ Room(toTable, FifoDepth)
    /\ toTable' = Append(toTable, [md |-> rear.md, key |-> IF key THEN Head(keyIn) ELSE <<>>,
                                   value |-> IF value THEN <<Head(valueIn)>> ELSE <<>>, last |-> ends])
    /\ keyIn' = Rest(keyIn, key) /\ valueIn' = Rest(valueIn, value)
    /\ UNCHANGED metadataIn /\ FrontKept

RearFirst ==
    /\ rear.state = "BPR_W1"
    /\ LET value == rear.md.op = "set"
       IN  /\ RearWord(rear.md.op # "flush", value, FALSE)
           /\ rear' = [rear EXCEPT !.state = "BPR_REST", !.key = Less8(rear.md.key),
                                   !.value = IF value THEN Less8(rear.md.value) ELSE rear.md.value]

RearRest ==
    /\ rear.state = "BPR_REST"
    /\ LET ends == rear.key <= 8 /\ rear.value <= 8
       IN  /\ RearWord(rear.key > 0, rear.value > 0, ends)
           /\ rear' = [rear EXCEPT !.state = IF ends THEN "BPR_IDLE" ELSE "BPR_REST", !.key = Less8(@), !.value = Less8(@)]

----------------------------------------------------------------------------
(* The table reads a request, and sends the packet with the entry of its key. *)

KeyOf(words) ==
    LET bytes == SubSeq(S!FlattenSeq([i \in DOMAIN words |-> words[i].key]), 1, words[1].md.key)
        same == {key \in Keys : bytes = KeyBytes(key, words[1].md.key)}
    IN  IF same = {} THEN 0 ELSE CHOOSE key \in same : TRUE

TableReads ==
    /\ toTable # <<>> /\ toTable' = Tail(toTable)
    /\ LET words == Append(parsed, Head(toTable))
           md == words[1].md
           key == KeyOf(words)
           value == S!FlattenSeq([i \in DOMAIN words |-> words[i].value])
           hit == key \in Keys /\ table[key] > 0
       IN  IF ~Head(toTable).last
           THEN parsed' = words /\ UNCHANGED <<valueVars, values>>
           ELSE /\ parsed' = <<>>
                /\ TableExecutes(key, md.op, Len(value)) \/ (md.op = "set" /\ SetFails(Len(value)))
                /\ values' = Append(values,
                       [words |-> value, len |-> IF md.op = "get" /\ hit THEN values[table[key]].len ELSE md.value, op |-> md.op,
                        failed |-> IF md.op = "delete" THEN ~hit ELSE md.op # "flush" /\ history'[Len(history) + 1].op = "pass"])
    /\ UNCHANGED <<requests, feInput, front, metadataIn, keyIn, valueIn, rear, respInput, formatterVars>>

----------------------------------------------------------------------------
(* response_f parts metadata and value. *)

FormatterKept == UNCHANGED <<valueVars, requests, parserVars, parsed, values>>
BringsValue(w) == Op(w.p) = "get"

ResponseFront ==
    /\ respInput # <<>> /\ Room(metadataOut, MdDepth) /\ Room(valueOut, ValueDepth)
    /\ LET w == Head(respInput)
           starts == respFront = 0 /\ w.i = 1
       IN  /\ respFront' = CASE starts -> 1
                             [] respFront > 0 -> IF w.last THEN 0 ELSE 2
                             [] OTHER -> 0
           /\ metadataOut' = IF respFront = 1 THEN Append(metadataOut, w.p) ELSE metadataOut
           /\ valueOut' = IF (starts \/ respFront > 0) /\ BringsValue(w)
                          THEN Append(valueOut, IF w.v = NoWord THEN Fill(<<>>, 8) ELSE values[w.v.p].words[w.v.i]) ELSE valueOut
    /\ respInput' = Tail(respInput)
    /\ FormatterKept /\ UNCHANGED <<respRear, response, responded>>

----------------------------------------------------------------------------
(* response_r: the header of an answer, and behind it the flags and the value, moved by half a word. *)

ResponseStart == [word |-> 0, p |-> 0, length |-> 0, extras |-> Fill(<<>>, 8)]

Failed == values[respRear.p].failed
Gets == values[respRear.p].op = "get"
ValueBytes(p) == values[p].len

Send(bytes, last) ==
    /\ response' = IF respRear.word = 1 THEN <<bytes>> ELSE Append(response, bytes)
    /\ responded' = IF last THEN responded \cup {respRear.p} ELSE responded
RespKept == FormatterKept /\ UNCHANGED <<respInput, respFront>>
LowHalf(word) == SubSeq(word, 1, 4)
HighHalf(word) == SubSeq(word, 5, 8)

RespMetadata ==
    /\ respRear.word = 0 /\ metadataOut # <<>>
    /\ respRear' = [respRear EXCEPT !.word = 1, !.p = Head(metadataOut)]
    /\ metadataOut' = Tail(metadataOut)
    /\ UNCHANGED <<valueOut, response, responded>> /\ RespKept

(* The fields of the header: status, bytes of the extras, bytes of the datagram, bytes behind the header. *)
Field(p, n) == <<-p, n>>
StatusWord(p, failed, extras, bytes) == <<Field(p, IF failed THEN 1 ELSE 0), Field(p, extras), Field(p, bytes)>>

RespHeader ==
    /\ respRear.word = 1
    /\ LET brings == Gets /\ ~Failed
           p == respRear.p
       IN  /\ brings => valueOut # <<>>
           /\ valueOut' = Rest(valueOut, brings)
           /\ respRear' = [respRear EXCEPT !.word = 2, !.length = ValueBytes(p) - 8,
                                           !.extras = IF brings THEN Head(valueOut) ELSE Fill(<<>>, 8)]
           /\ Send(StatusWord(p, Failed, IF brings THEN 4 ELSE 0,
                              IF brings THEN Header + ValueBytes(p) - 4 ELSE IF Failed THEN Header + 8 ELSE Header), FALSE)
    /\ UNCHANGED metadataOut /\ RespKept

(* A set that failed has a text behind its header that its length does not count. *)
RespLength ==
    /\ respRear.word = 2
    /\ respRear' = [respRear EXCEPT !.word = 3]
    /\ Send(<<Field(respRear.p, IF Gets /\ ~Failed THEN respRear.length + 4
                                ELSE IF Failed /\ values[respRear.p].op # "set" THEN 8 ELSE 0)>>, FALSE)
    /\ UNCHANGED <<metadataOut, valueOut>> /\ RespKept

RespThird ==
    /\ respRear.word = 3
    /\ respRear' = [respRear EXCEPT !.word = IF Failed THEN 7 ELSE IF Gets THEN 4 ELSE 0]
    /\ Send(<<Field(respRear.p, 0)>>, ~Failed /\ ~Gets)
    /\ UNCHANGED <<metadataOut, valueOut>> /\ RespKept

RespFlags ==
    /\ respRear.word = 4 /\ valueOut # <<>>
    /\ LET last == respRear.length <= 4
           bytes == LowHalf(respRear.extras) \o LowHalf(Head(valueOut))
       IN  /\ Send(SubSeq(bytes, 1, IF last THEN respRear.length + 4 ELSE 8), last)
           /\ respRear' = [respRear EXCEPT !.word = IF last THEN 0 ELSE 5, !.extras = Head(valueOut),
                                           !.length = IF last THEN @ ELSE @ - 4]
    /\ valueOut' = Tail(valueOut)
    /\ UNCHANGED metadataOut /\ RespKept

AfterWord(left) == IF left = 0 THEN 0 ELSE IF left <= 4 THEN 6 ELSE 5

RespValue ==
    /\ respRear.word = 5 /\ respRear.length > 4 /\ valueOut # <<>>
    /\ LET left == Less8(respRear.length)
           bytes == HighHalf(respRear.extras) \o LowHalf(Head(valueOut))
       IN  /\ Send(SubSeq(bytes, 1, IF left = 0 THEN respRear.length ELSE 8), AfterWord(left) = 0)
           /\ respRear' = [respRear EXCEPT !.word = AfterWord(left), !.extras = Head(valueOut), !.length = left]
    /\ valueOut' = Tail(valueOut)
    /\ UNCHANGED metadataOut /\ RespKept

RespEnd ==
    /\ respRear.word = 6 \/ (respRear.word = 5 /\ respRear.length <= 4)
    /\ Send(SubSeq(HighHalf(respRear.extras), 1, respRear.length), TRUE)
    /\ respRear' = [respRear EXCEPT !.word = 0, !.length = 0]
    /\ UNCHANGED <<metadataOut, valueOut>> /\ RespKept

RespError ==
    /\ respRear.word = 7
    /\ Send(Fill(<<>>, 8), TRUE)
    /\ respRear' = [respRear EXCEPT !.word = 0]
    /\ UNCHANGED <<metadataOut, valueOut>> /\ RespKept

----------------------------------------------------------------------------
(* The server *)

Init ==
    /\ ValuesInit
    /\ requests \in Requests
    /\ feInput = S!FlattenSeq([k \in DOMAIN requests |-> Datagram(k)])
    /\ front = FrontStart /\ metadataIn = <<>> /\ keyIn = <<>> /\ valueIn = <<>>
    /\ rear = RearStart /\ toTable = <<>> /\ parsed = <<>> /\ values = <<>>
    /\ respInput = <<>> /\ respFront = 0 /\ metadataOut = <<>> /\ valueOut = <<>>
    /\ respRear = ResponseStart /\ response = <<>> /\ responded = {}

ParserStep ==
    \/ ParseHeader \/ ParseLength \/ ParseThird \/ ParseExtras \/ ParseKey \/ ParseKeyEnd \/ ParseValue \/ ParseSpill
    \/ RearIdle \/ RearFirst \/ RearRest

FormatterStep ==
    \/ ResponseFront \/ RespMetadata \/ RespHeader \/ RespLength \/ RespThird
    \/ RespFlags \/ RespValue \/ RespEnd \/ RespError

(* The merger writes for the formatter, if somebody waits for the bytes. *)
Merge(s) ==
    /\ Room(respInput, FifoDepth)
    /\ Merger(s)
    /\ respInput' = IF requests = <<>> THEN <<>> ELSE Append(respInput, Head(outData[s]))
    /\ UNCHANGED <<requests, parserVars, parsed, values, formatterVars>>

Serves ==
    \/ Pipeline /\ UNCHANGED clientVars
    \/ \E s \in Stores : Merge(s)
    \/ ParserStep \/ TableReads \/ FormatterStep

Next ==
    \/ Serves
    \/ requests = <<>> /\ TableAnswers /\ UNCHANGED clientVars

Spec == Init /\ [][Next]_serverVars

----------------------------------------------------------------------------
(* Correctness *)

(* The set whose value a get must bring: the last one of its key, unless something took it away. *)
Takes(j, k) == requests[j].op = "flush" \/ (requests[j].op \in {"set", "delete"} /\ requests[j].key = requests[k].key /\ ~values[j].failed)
SetFor(k) ==
    LET last == {j \in 1 .. k - 1 : Takes(j, k) /\ \A i \in j + 1 .. k - 1 : ~Takes(i, k)}
    IN  {j \in last : requests[j].op = "set"}

RightAnswer(k) ==
    LET r == requests[k]
        found == SetFor(k) # {}
        set == CHOOSE j \in SetFor(k) : TRUE
        n == requests[set].valueLen
        failed == IF r.op \in {"get", "delete"} THEN ~found ELSE values[k].failed
        bytes == BytesOf(set, Header, 4) \o BytesOf(set, Header + 8 + requests[set].keyLen, n)
    IN  IF r.op = "get" /\ found
        THEN <<StatusWord(k, FALSE, 4, Header + 4 + n), <<Field(k, 4 + n)>>, <<Field(k, 0)>>>>
             \o [i \in 1 .. (Len(bytes) + 7) \div 8 |-> SubSeq(bytes, 8 * i - 7, S!Min({8 * i, Len(bytes)}))]
        ELSE <<StatusWord(k, failed, 0, IF failed THEN Header + 8 ELSE Header),
               <<Field(k, IF failed /\ r.op # "set" THEN 8 ELSE 0)>>, <<Field(k, 0)>>>>
             \o IF failed THEN <<Fill(<<>>, 8)>> ELSE <<>>

(* A client gets back, byte for byte, what was set, with lengths that are those of the answer,      *)
(* whatever the alignment of key and value, and whatever request was parsed or answered before.     *)
BytesReturn ==
    response # <<>> =>
        LET k == -response[1][1][1] IN
        IF k \in responded THEN response = RightAnswer(k) ELSE S!IsPrefix(response, RightAnswer(k))

(* Every answer is right: it is made by stores that get what they are made for, brings the value    *)
(* that was set last, and reaches the client with the bytes of the client that set it.              *)
AnswersRight == LongValues /\ NoOldWords /\ BytesReturn

(* A packet that has not left goes on: the FIFOs never block each other. *)
NeverStuck == (answered # Packets \/ responded # DOMAIN requests) => ENABLED Serves
=============================================================================
