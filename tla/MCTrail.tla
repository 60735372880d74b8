------------------------------- MODULE MCTrail -------------------------------
(***************************************************************************)
(* Trail with a payment of high value to a personal account, which two     *)
(* checks flag, and a change of an order, which none does.                 *)
(***************************************************************************)
EXTENDS Trail, TLC

Payment == [roles |-> {"OWNER", "ADMIN", "FINANCE"}, session |-> FALSE, amount |-> 501,
            area |-> "payment", personal |-> TRUE, adjustment |-> FALSE]

OrderChange == [roles |-> {"OWNER", "ADMIN", "MECHANIC"}, session |-> FALSE, amount |-> 0,
                area |-> "other", personal |-> FALSE, adjustment |-> FALSE]

TwoCalls == {Payment, OrderChange}

Symmetry == Permutations(Workers)
=============================================================================
