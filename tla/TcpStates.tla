----------------------------- MODULE TcpStates -----------------------------
(***************************************************************************)
(* The connection states of the TCP offload engine (toe.hpp, enum          *)
(* sessionState) and, for each writer of the state table, the states it    *)
(* may write over a state it has read.                                     *)
(*                                                                         *)
(* As the comment of the enum says, LISTEN is merged into CLOSED and       *)
(* CLOSE_WAIT does not exist: the FIN is queued as soon as the peer's FIN  *)
(* is accepted.                                                            *)
(***************************************************************************)

SessionState ==
  {"CLOSED", "SYN_SENT", "SYN_RECEIVED", "ESTABLISHED", "FIN_WAIT_1",
   "FIN_WAIT_2", "CLOSING", "TIME_WAIT", "LAST_ACK"}

(***************************************************************************)
(* What rxTcpFSM may write after it read st: st itself (a segment that     *)
(* changes nothing still has to release the lock), CLOSED (a RST in the    *)
(* window), or the state an acceptable SYN, SYN-ACK, ACK or FIN leads to.  *)
(***************************************************************************)
RxMoves ==
  { <<"CLOSED", "SYN_RECEIVED">>, <<"SYN_SENT", "SYN_RECEIVED">>,
    <<"SYN_SENT", "ESTABLISHED">>, <<"SYN_RECEIVED", "ESTABLISHED">>,
    <<"ESTABLISHED", "LAST_ACK">>,
    <<"FIN_WAIT_1", "TIME_WAIT">>, <<"FIN_WAIT_1", "CLOSING">>,
    <<"FIN_WAIT_2", "TIME_WAIT">>, <<"FIN_WAIT_2", "CLOSING">>,
    <<"CLOSING", "TIME_WAIT">> }

RxMayWrite(st) == {st, "CLOSED"} \cup {to \in SessionState : <<st, to>> \in RxMoves}

(* The states in which tx_app_if turns a close request into a FIN. *)
Closeable == {"ESTABLISHED", "FIN_WAIT_1", "FIN_WAIT_2"}

(* What tx_app_if writes after it read st for a close request. *)
AppCloseWrites(st) == IF st \in Closeable THEN "FIN_WAIT_1" ELSE st

=============================================================================
