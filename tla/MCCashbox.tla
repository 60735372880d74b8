------------------------------ MODULE MCCashbox ------------------------------
(***************************************************************************)
(* Cashbox with amounts that reach the three levels of discrepancy and     *)
(* both sides of their limits (differences of 4, 5, 50 and 51).            *)
(***************************************************************************)
EXTENDS Cashbox, TLC

Symmetry == Permutations(Workers) \cup Permutations(Sessions)
=============================================================================
