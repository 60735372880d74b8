---------------------------- MODULE MCInventory -----------------------------
(***************************************************************************)
(* Inventory with one line and receptions of every useful shape.           *)
(***************************************************************************)
EXTENDS Inventory, TLC

\* What a reception brings for a line: nothing, or one entry of n units.
NoEntry == [last |-> 0, max |-> 0, sum |-> 0]
OneEntry(n) == [last |-> n, max |-> n, sum |-> n]

TwoEntries(n) == [last |-> n, max |-> n, sum |-> 2 * n]

\* A reception leaves a line out, names it once, or names it twice.
Receptions == [Items -> {NoEntry, OneEntry(1), OneEntry(2), TwoEntries(1)}]

\* Every line was ordered by the same quantity.
OrderedTwo == [i \in Items |-> 2]

Symmetry == Permutations(Workers) \cup Permutations(Items)
=============================================================================
