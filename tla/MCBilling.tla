----------------------------- MODULE MCBilling -----------------------------
(* Instances of Billing for TLC. *)
EXTENDS Billing

CONSTANTS free, i1, c1, c2
=============================================================================
