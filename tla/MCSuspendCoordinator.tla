------------------------ MODULE MCSuspendCoordinator ------------------------
(***************************************************************************)
(* Instances of SuspendCoordinator, and with it of GatewayAdmission, for   *)
(* TLC.  Records, closures and leases are taken once each, so the number   *)
(* of roots, restart signals and suspensions is the size of their pool.    *)
(***************************************************************************)
EXTENDS SuspendCoordinator, TLC
=============================================================================
