--------------------------- MODULE MCToeConnection ---------------------------
(***************************************************************************)
(* ToeConnection for TLC.  Segments may be repeated and timers may expire  *)
(* for ever, so both get a budget; everything else is bounded by itself.   *)
(* For liveness the budget of the timers is lifted: the retries are        *)
(* bounded, and with it the states.                                        *)
(***************************************************************************)
EXTENDS ToeConnection

(* A transfer over a network that delays acknowledgements, a teardown with *)
(* everything that may end a connection, a passive open that is given up   *)
(* and comes again, a plain open and close, and one byte that is sent.     *)
(* The budgets are fields that only this module uses: segments of the peer *)
(* that arrive, and times a timer expires. *)
Race ==
  [calls |-> {FALSE}, appBytes |-> 1, appCloses |-> 0, peerBytes |-> 0,
   firstCredit |-> 1, credit |-> 1, peerCloses |-> FALSE, peerAborts |-> FALSE,
   reorder |-> FALSE, oldPeer |-> FALSE, slowPeer |-> FALSE, overload |-> FALSE,
   segments |-> 3, timeouts |-> 1]
Transfer ==
  [Race EXCEPT !.appBytes = 3, !.firstCredit = 2, !.credit = 2, !.reorder = TRUE,
               !.segments = 4, !.timeouts = 2]
Teardown ==
  [Race EXCEPT !.calls = BOOLEAN, !.appCloses = 1, !.peerBytes = 1, !.firstCredit = 3,
               !.credit = 3, !.peerCloses = TRUE, !.peerAborts = TRUE,
               !.reorder = TRUE, !.oldPeer = TRUE]
OpenAndClose ==
  [Race EXCEPT !.appBytes = 0, !.appCloses = 1, !.peerCloses = TRUE, !.segments = 4]

Reopen ==
  [Race EXCEPT !.calls = {TRUE}, !.peerBytes = 1, !.peerCloses = TRUE, !.firstCredit = 2,
               !.credit = 2, !.segments = 4, !.timeouts = 2]

SafetyPlans == {Transfer, Teardown, Reopen}
LivePlans == {OpenAndClose}
RacePlans == {Race}

VARIABLE spent

MCInit == Init /\ spent = [segments |-> 0, timeouts |-> 0]

Spend(what, budget) ==
  /\ spent[what] < budget
  /\ spent' = [spent EXCEPT ![what] = @ + 1]

(* The peer needs one segment more to open a connection than to answer. *)
Segments == IF peer.calls THEN peer.plan.segments + 1 ELSE peer.plan.segments

Others == Local \/ AppRequest \/ PeerSends \/ PeerReads

MCNext ==
  \/ Arrives /\ Spend("segments", Segments)
  \/ Expires /\ Spend("timeouts", peer.plan.timeouts)
  \/ Others /\ UNCHANGED spent

MCSpec == MCInit /\ [][MCNext]_<<sessionVars, spent>>

LiveNext ==
  \/ Arrives /\ Spend("segments", Segments)
  \/ (Expires \/ Others) /\ UNCHANGED spent

MCFairSpec == MCInit /\ [][LiveNext]_<<sessionVars, spent>> /\ Fairness
=============================================================================
