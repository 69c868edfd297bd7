--------------------------- MODULE MCDeliveryQueue ---------------------------
(***************************************************************************)
(* Instances of DeliveryQueue for TLC.                                     *)
(***************************************************************************)
EXTENDS DeliveryQueue

Option(policy, bestEffort, exact, reconciles, payloads) ==
  [policy |-> policy, bestEffort |-> bestEffort, exact |-> exact,
   reconciles |-> reconciles, payloads |-> payloads]

\* Both policies, sends that go on after a failed payload and sends that do
\* not, channels that can reconcile and channels that cannot, and one payload
\* whose marker is written by its adapter.
SomeOptions == {Option("best_effort", TRUE, FALSE, FALSE, 2),
                Option("best_effort", FALSE, FALSE, TRUE, 2),
                Option("required", FALSE, FALSE, TRUE, 2),
                Option("required", FALSE, TRUE, TRUE, 1),
                Option("best_effort", TRUE, TRUE, TRUE, 1)}
=============================================================================
