---------------------------- MODULE MCReconciler ----------------------------
(* The reconciliation loop alone, for model checking.                       *)
EXTENDS Reconciler

CONSTANT p1

OneProject == [d \in Deps |-> p1]

=============================================================================
