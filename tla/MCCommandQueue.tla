--------------------------- MODULE MCCommandQueue ---------------------------
(***************************************************************************)
(* Instances of CommandQueue for TLC.  Lanes are not symmetric where one   *)
(* of them is a probe lane; calls and waiters are interchangeable, which   *)
(* the safety runs use.                                                    *)
(***************************************************************************)
EXTENDS CommandQueue, TLC

CallSymmetry == Permutations(Calls) \cup Permutations(Waiters)

\* The callers of session lanes pass no timeout (lane-controller.ts).
NoTimeouts == {{}}

\* The callers of global lanes pass a timeout with both signals.
GlobalLaneOptions == {{}, {"timeout", "abort", "release"}}
=============================================================================
