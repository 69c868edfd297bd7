--------------------------- MODULE MCHeartbeatWake ---------------------------
(***************************************************************************)
(* Instances of HeartbeatWake for TLC.  With a retry delay of four a tick  *)
(* is 250 ms; otherwise the retry delay only needs to be the longest.      *)
(***************************************************************************)
EXTENDS HeartbeatWake

\* Requests of one priority: the proofs cover the mixture of them.
OneRequest == {[source |-> "other", intent |-> "event"]}
=============================================================================
