--------------------------- MODULE MCRestartNotice ---------------------------
(***************************************************************************)
(* An instance of RestartNotice for TLC.                                   *)
(***************************************************************************)
EXTENDS RestartNotice

\* A notice names no policy, which recovery reads as "required".
NoticeOptions == {[policy |-> "required", bestEffort |-> FALSE, exact |-> FALSE,
                   reconciles |-> TRUE, payloads |-> 1]}
=============================================================================
