--------------------------- MODULE MCControlPlane ---------------------------
(* The whole control plane for model checking.                              *)
EXTENDS ControlPlane, TLC

CONSTANT p1

\* Handlers are interchangeable, and so are the ids of one project.
Handlers == Permutations(Threads)
HandlersAndIds == Permutations(Threads) \cup Permutations(Deps)

OneProject == [d \in Deps |-> p1]

=============================================================================
