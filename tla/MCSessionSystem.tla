-------------------------- MODULE MCSessionSystem --------------------------
(***************************************************************************)
(* SessionSystem for TLC, with budgets for the inputs.                     *)
(***************************************************************************)
EXTENDS SessionSystem

CONSTANTS PacketBudget, ListenBudget, OpenBudget, TimeOutBudget,
          TotalBudget,  \* of all inputs together
          SegmentPorts  \* the ports, in network order, that segments are for

VARIABLE spent

MCInit == Init /\ spent = [packet |-> 0, listen |-> 0, open |-> 0, timeOut |-> 0]

Spend(input, budget) ==
  /\ spent[input] < budget
  /\ spent.packet + spent.listen + spent.open + spent.timeOut < TotalBudget
  /\ spent' = [spent EXCEPT ![input] = @ + 1]

(* One port listens. *)
MCNext ==
  \/ \E p \in Packet :
       /\ p.tuple.port \in SegmentPorts
       /\ Arrive(p) /\ Spend("packet", PacketBudget)
  \/ Listening(Half - 1) /\ Spend("listen", ListenBudget)
  \/ \E p \in Peers : OpenReq(p) /\ Spend("open", OpenBudget)
  \/ \E i \in Ids : TimeOut(i) /\ Spend("timeOut", TimeOutBudget)
  \/ Step /\ UNCHANGED spent

MCSpec == MCInit /\ [][MCNext]_<<vars, spent>> /\ Fairness
=============================================================================
