------------------------------- MODULE MCStaff -------------------------------
(***************************************************************************)
(* Staff with one worker over a day of three hours and the first hour of   *)
(* the next: before nine, nine sharp (late for one rule and not for the    *)
(* other), after nine, and past midnight.                                  *)
(***************************************************************************)
EXTENDS Staff, TLC

Symmetry == Permutations(Workers)
=============================================================================
