----------------------------- MODULE MCElection -----------------------------
(* The electors for model checking. *)
EXTENDS Election

=============================================================================
