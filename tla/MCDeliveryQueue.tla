-------------------------- MODULE MCDeliveryQueue --------------------------
(***************************************************************************)
(* An instance of DeliveryQueue for TLC: each queue, with two jobs and two *)
(* drains.                                                                 *)
(***************************************************************************)
EXTENDS DeliveryQueue

=============================================================================
