---------------------------- MODULE MCDashboard ----------------------------
(* The instances of MCFunnel, seen through the dashboard. *)
EXTENDS Dashboard, MCFunnel
=============================================================================
