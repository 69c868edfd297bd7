-------------------------- MODULE MCSessionLifecycle --------------------------
(***************************************************************************)
(* Instances of SessionLifecycle for TLC.                                  *)
(***************************************************************************)
EXTENDS SessionLifecycle, TLC

CONSTANTS w1, w2, m1, m2

\* One session under two identities; the second turn names it by one of them.
TwoIdentities == {w1 :> {1, 2} @@ w2 :> {2} @@ m1 :> {1, 2} @@ m2 :> {1, 2}}
=============================================================================
