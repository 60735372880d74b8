---------------------------- MODULE MCWorkOrders ----------------------------
(***************************************************************************)
(* WorkOrders on one order with two requests at a time; the workers are    *)
(* interchangeable.  Requests that never overlap are among its behaviors.  *)
(***************************************************************************)
EXTENDS WorkOrders, TLC

WorkerSymmetry == Permutations(Workers)
=============================================================================
