------------------------------ MODULE MCCosts ------------------------------
(* Costs for TLC: two requests at a time on one order. *)
EXTENDS Costs, TLC

\* No discount, more than the costs, and one below zero.
SomeDiscounts == {-1, 0, 3}

WorkerSymmetry == Permutations(Workers)
=============================================================================
