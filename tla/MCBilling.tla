------------------------------ MODULE MCBilling ------------------------------
(* Model-checking instances of Billing.                                     *)
EXTENDS Billing, TLC

RequestSymmetry == Permutations(Requests)
=============================================================================
