----------------------------- MODULE Leadership -----------------------------
(***************************************************************************)
(* What the elector promises (internal/ha/election.go): leadership under a *)
(* valid lease.  At most one node has it, and it passes from one node to   *)
(* another only through a state in which nobody has it.                    *)
(***************************************************************************)
CONSTANT Nodes

VARIABLE lead   \* the nodes that lead under a valid lease

Init == lead = {}

Take(n) == lead = {} /\ lead' = {n}

GiveUp(n) == lead = {n} /\ lead' = {}

Next == \E n \in Nodes : Take(n) \/ GiveUp(n)

Spec == Init /\ [][Next]_lead

=============================================================================
