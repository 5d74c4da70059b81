--------------------------- MODULE McdAtomicTable ---------------------------
(* What the clients of the hash table count on: requests are executed one at a time, in the order  *)
(* in which they came, on a table that each of them sees as the one before left it; the answers     *)
(* leave in the same order.                                                                         *)
EXTENDS Naturals, Sequences

CONSTANTS Keys, Classes, Addresses

Request == [op : {"get", "delete"}, key : Keys] \cup [op : {"set"}, key : Keys, class : Classes]
             \cup {[op |-> "flush"]}
Absent == [present |-> FALSE]
Entry == {Absent} \cup [present : {TRUE}, class : Classes, addr : Addresses]

VARIABLES
    waiting,    \* requests that are not executed
    table,      \* [Keys -> Entry]
    answered    \* requests with their answers

vars == <<waiting, table, answered>>

Init == waiting = <<>> /\ table = [k \in Keys |-> Absent] /\ answered = <<>>

Ask ==
    /\ Len(waiting') = Len(waiting) + 1
    /\ \E r \in Request : waiting' = Append(waiting, r)
    /\ UNCHANGED <<table, answered>>

Refused == [ok |-> FALSE]
Found(e) == IF e.present THEN [ok |-> TRUE, class |-> e.class, addr |-> e.addr] ELSE Refused

Get(k, answer) == answer = Found(table[k]) /\ UNCHANGED table

(* A set keeps the address of its key, or gets one; it may fail, and then changes nothing. *)
Set(k, class, answer) ==
    \/ answer = Refused /\ UNCHANGED table
    \/ \E a \in Addresses :
           /\ table[k].present => a = table[k].addr
           /\ answer = [ok |-> TRUE, class |-> class, addr |-> a]
           /\ table' = [table EXCEPT ![k] = [present |-> TRUE, class |-> class, addr |-> a]]

Delete(k, answer) ==
    /\ answer = [ok |-> table[k].present]
    /\ table' = [table EXCEPT ![k] = Absent]

Flush(answer) == answer = [ok |-> TRUE] /\ table' = [k \in Keys |-> Absent]

Execute ==
    /\ waiting # <<>> /\ waiting' = Tail(waiting)
    /\ Len(answered') = Len(answered) + 1
    /\ LET r == Head(waiting)
           answer == answered'[Len(answered')].answer
       IN  /\ answered' = Append(answered, [req |-> r, answer |-> answer])
           /\ \/ r.op = "get" /\ Get(r.key, answer)
              \/ r.op = "set" /\ Set(r.key, r.class, answer)
              \/ r.op = "delete" /\ Delete(r.key, answer)
              \/ r.op = "flush" /\ Flush(answer)

Give == answered # <<>> /\ answered' = Tail(answered) /\ UNCHANGED <<waiting, table>>

Next == Ask \/ Execute \/ Give

Spec == Init /\ [][Next]_vars
=============================================================================
