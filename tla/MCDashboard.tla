---------------------------- MODULE MCDashboard ----------------------------
(* Model-checking instance of Dashboard: a poll, a decision and a third       *)
(* handler may be in progress at once.                                        *)
EXTENDS Dashboard

MCSlots == 1..3
=============================================================================
