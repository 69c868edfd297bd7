-------------------------- MODULE MCRestartSignal --------------------------
(***************************************************************************)
(* Instance of RestartSignal for TLC.  Every request is of a session of    *)
(* its own: two requests of one session only replace each other.           *)
(***************************************************************************)
EXTENDS RestartSignal

OwnSession == [r \in Requests |-> r]
=============================================================================
