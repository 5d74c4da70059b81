----------------------------- MODULE MCMcdValues -----------------------------
(* The values of McdServer for TLC: packets as the table may send them, and requests of clients. *)
EXTENDS McdServer

MCLineWords == [s \in Stores |-> IF s = "dram" THEN 2 ELSE 1]
KeySymmetry == Permutations(Keys)

Set(key, n, v) == [op |-> "set", key |-> key, keyLen |-> n, valueLen |-> v]
Get(key, n) == [op |-> "get", key |-> key, keyLen |-> n, valueLen |-> 0]
Delete(key, n) == [op |-> "delete", key |-> key, keyLen |-> n, valueLen |-> 0]
Flush == [op |-> "flush", key |-> 0, keyLen |-> 0, valueLen |-> 0]

(* Keys and values that end next to a word or half a word; then requests behind others that leave   *)
(* something behind, and answers that say no.  Any set may fail.                                    *)
MCRequests ==
    {<<>>}
    \cup {<<Set(x, l[1], l[2]), Get(x, l[1])>> :
              x \in Keys, l \in ({3} \X {1, 4, 5, 8, 9, 13, 20}) \cup ({8, 16} \X {4, 9}) \cup ({9} \X {5, 7, 8, 12})}
    \cup UNION {{<<Set(x, 5, 7), Set(x, 5, 5), Get(x, 5)>>, <<Set(x, 8, 6), Get(y, 8), Set(y, 8, 2)>>,
                 <<Set(x, 11, 2), Delete(x, 11), Get(x, 11)>>, <<Delete(y, 4), Set(x, 3, 7), Get(x, 3)>>,
                 <<Set(x, 3, 2), Flush, Get(x, 3)>>}
                : <<x, y>> \in {<<x, y>> \in Keys \X Keys : x # y}}
=============================================================================
