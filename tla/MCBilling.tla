----------------------------- MODULE MCBilling ------------------------------
(***************************************************************************)
(* Billing with an invoice that one payment covers or two: totals of 1 and *)
(* 2 against payments of 1.                                                *)
(***************************************************************************)
EXTENDS Billing, TLC

Symmetry == Permutations(Workers) \cup Permutations(Payments)
=============================================================================
