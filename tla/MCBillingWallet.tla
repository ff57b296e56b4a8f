-------------------------- MODULE MCBillingWallet --------------------------
(***************************************************************************)
(* Instances of BillingWallet for TLC: a top-up that pays for one of two   *)
(* launches, and two webhook requests at a time.                           *)
(***************************************************************************)
EXTENDS BillingWallet

CONSTANTS t, l1, l2, d1, d2

Refuel == [x \in {t} |-> 3]
Quotes == [l \in {l1, l2} |-> 2]

=============================================================================
