------------------------------ MODULE MCIntake ------------------------------
(* Two requests, two orders of one vehicle, four photos of at most two looks. *)
EXTENDS Intake, TLC

Symmetry == Permutations(Images) \cup Permutations(Workers)
=============================================================================
