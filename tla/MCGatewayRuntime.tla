-------------------------- MODULE MCGatewayRuntime --------------------------
(***************************************************************************)
(* Instances of GatewayRuntime for TLC.  Roots and leases are              *)
(* interchangeable; calls are taken in a fixed order already.              *)
(***************************************************************************)
EXTENDS GatewayRuntime, TLC

RuntimeSymmetry == Permutations(Roots) \cup Permutations(Leases)

NoTimeouts == {{}}
=============================================================================
