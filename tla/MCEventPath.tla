---------------------------- MODULE MCEventPath ----------------------------
(***************************************************************************)
(* EventPath for TLC, with a budget for each source.                       *)
(***************************************************************************)
EXTENDS EventPath

CONSTANTS RxBudget, TimerBudget, AppBudget

VARIABLE spent

MCInit == Init /\ spent = [rx |-> 0, timer |-> 0, app |-> 0]

Spend(source, budget) ==
  /\ spent[source] < budget
  /\ spent' = [spent EXCEPT ![source] = @ + 1]

MCNext ==
  \/ \E e \in Event :
       \/ RxEvent(e) /\ Spend("rx", RxBudget)
       \/ TimerEvent(e) /\ Spend("timer", TimerBudget)
       \/ AppEvent(e) /\ Spend("app", AppBudget)
  \/ (EventEngine \/ AckDelay \/ TxTake) /\ UNCHANGED spent

MCSpec == MCInit /\ [][MCNext]_<<vars, spent>> /\ Fairness
=============================================================================
