--------------------------- MODULE AtomicSessions ---------------------------
(***************************************************************************)
(* What the state table promises: every update of a session is one atomic  *)
(* step that computes the new state from the current one, and a session    *)
(* whose close is recorded is announced for release in that same step.     *)
(***************************************************************************)
EXTENDS TcpStates, Naturals, Sequences

CONSTANTS Sessions

VARIABLES state,      \* the connection state of every session
          released    \* the announced releases, oldest first

avars == <<state, released>>

AbsInit ==
  /\ state = [s \in Sessions |-> "CLOSED"]
  /\ released = <<>>

(* The receive engine processes a segment of session s. *)
RxUpdate(s) ==
  \E st \in RxMayWrite(state[s]) :
    /\ state' = [state EXCEPT ![s] = st]
    /\ released' = IF st = "CLOSED" THEN Append(released, s) ELSE released

(* The application opens session s. *)
AppOpen(s) == state' = [state EXCEPT ![s] = "SYN_SENT"] /\ UNCHANGED released

(* The application closes session s; nothing happens unless it is open. *)
AppClose(s) ==
  /\ state[s] \in Closeable
  /\ state' = [state EXCEPT ![s] = "FIN_WAIT_1"]
  /\ UNCHANGED released

(* A timer gives session s up. *)
TimerClose(s) ==
  /\ state' = [state EXCEPT ![s] = "CLOSED"]
  /\ released' = Append(released, s)

(* The session lookup takes an announced release. *)
TakeReleased ==
  /\ released # <<>>
  /\ released' = Tail(released)
  /\ UNCHANGED state

AbsNext ==
  \/ \E s \in Sessions : RxUpdate(s) \/ AppOpen(s) \/ AppClose(s) \/ TimerClose(s)
  \/ TakeReleased

AbsSpec == AbsInit /\ [][AbsNext]_avars

=============================================================================
