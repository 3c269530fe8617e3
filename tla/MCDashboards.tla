---------------------------- MODULE MCDashboards ----------------------------
(* Instances of Dashboards for TLC. *)
EXTENDS Dashboards, TLC

MCSymmetry == Permutations(Runs) \cup Permutations(Jobs)
=============================================================================
