------------------------ MODULE MCDeploymentService -------------------------
(* The deployment service for model checking: the project of every          *)
(* deployment id, and the symmetries of the configurations.                 *)
EXTENDS DeploymentService, TLC

CONSTANT p1

\* Every deployment in one project: all handlers want the same lock.
OneProject == [d \in Deps |-> p1]

\* Ids of one project are interchangeable, and so are handlers.
Symmetry == Permutations(Deps) \cup Permutations(Threads)

=============================================================================
