---------------------------- MODULE MCStateTable ----------------------------
(***************************************************************************)
(* StateTableSystem for TLC.  Each client gets a budget of requests, so    *)
(* that the run is finite and everything must drain; replies and the table *)
(* are never bounded.                                                      *)
(***************************************************************************)
EXTENDS StateTableSystem

CONSTANTS RxBudget,     \* packets the receive engine may process
          TxBudget,     \* open and close requests of the application
          QueryBudget,  \* packets the application may send
          TimerBudget   \* sessions the timers may give up

VARIABLE spent

MCInit == Init /\ spent = [c \in {"rx", "tx", "query", "timer"} |-> 0]

Spend(client, budget) ==
  /\ spent[client] < budget
  /\ spent' = [spent EXCEPT ![client] = @ + 1]

MCNext ==
  \/ \E s \in Sessions :
       \/ RxLoad(s) /\ Spend("rx", RxBudget)
       \/ (TxOpen(s) \/ TxCloseRequest(s)) /\ Spend("tx", TxBudget)
       \/ StreamRequest(s) /\ Spend("query", QueryBudget)
       \/ TimerRelease(s) /\ Spend("timer", TimerBudget)
  \/ /\ Table \/ RxTransition \/ TxCloseConn \/ StreamReply \/ LookupTakesRelease
     /\ UNCHANGED spent

MCSpec == MCInit /\ [][MCNext]_<<vars, spent>>

MCFairSpec == MCSpec /\ Fairness
=============================================================================
