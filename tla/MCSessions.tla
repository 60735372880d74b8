----------------------------- MODULE MCSessions -----------------------------
(* Sessions for TLC: one privileged role and one of the workshop; tokens and *)
(* workers are interchangeable.                                              *)
EXTENDS Sessions, TLC

TwoRoles == {"ADMIN", "MECHANIC"}

Symmetry == Permutations(Tokens) \cup Permutations(Workers)

=============================================================================
