--------------------------- MODULE MCContainerOps ---------------------------
(* Instances of ContainerOps for TLC. *)
EXTENDS ContainerOps, TLC

Symmetry == Permutations(Callers) \cup Permutations(LockObjects)
              \cup Permutations(Instances) \cup Permutations(Containers)

=============================================================================
