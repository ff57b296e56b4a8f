----------------------------- MODULE MCBridgeCall -----------------------------
(***************************************************************************)
(* An instance of BridgeCall for TLC: four requests, so that two wait in   *)
(* order and a fourth finds the queue full, and two stations.              *)
(***************************************************************************)
EXTENDS BridgeCall

=============================================================================
