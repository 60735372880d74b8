------------------------------ MODULE MCRealtime -----------------------------
(***************************************************************************)
(* Realtime with one connection at a time, made again and again with the   *)
(* one token signed; two users who change roles, an order that changes     *)
(* hands, and two messages or revocations under way.                       *)
(***************************************************************************)
EXTENDS Realtime, TLC

Symmetry == Permutations(Workers) \cup Permutations(Users)
=============================================================================
