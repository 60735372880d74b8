------------------------------- MODULE MCAlerts ------------------------------
(***************************************************************************)
(* Alerts with one subject of each kind, so that each queue holds the jobs *)
(* of several handlers, and stock on both sides of minStock.               *)
(***************************************************************************)
EXTENDS Alerts
=============================================================================
