-------------------------- MODULE MCDashboardUsers --------------------------
(* Users whose calls overlap, with one key.                                *)
EXTENDS DashboardUsers, MCDashboard
=============================================================================
