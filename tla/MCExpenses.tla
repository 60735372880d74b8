----------------------------- MODULE MCExpenses -----------------------------
(***************************************************************************)
(* Expenses with amounts on either side of each limit, rounding included.  *)
(***************************************************************************)
EXTENDS Expenses, TLC

\* 99.996 (stored as 100.00), 100, 100.01, 500.01, 2000.004 (DUAL_OWNER, stored
\* as 2000.00) and 2000.01
MCAmounts == {99996, 100000, 100010, 500010, 2000004, 2000010}

WorkerSymmetry == Permutations(Workers)
=============================================================================
