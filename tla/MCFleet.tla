------------------------------- MODULE MCFleet -------------------------------
(* Cluster membership for model checking.                                   *)
EXTENDS Fleet

=============================================================================
