-------------------------- MODULE DeploymentStatus --------------------------
(***************************************************************************)
(* The lifecycle of a deployment: the statuses of internal/deployments/    *)
(* model.go and the transition table of internal/deployments/              *)
(* state_machine.go.  "NONE" stands for a deployment that does not exist.  *)
(***************************************************************************)

Statuses == {"QUEUED", "BUILDING", "BUILT", "SCHEDULING", "STARTING",
             "RUNNING", "FAILED", "STOPPED", "ROLLED_BACK"}

IsTerminal(s) == s \in {"RUNNING", "FAILED", "STOPPED", "ROLLED_BACK"}

IsInFlight(s) == s \in {"QUEUED", "BUILDING", "BUILT", "SCHEDULING", "STARTING"}

\* legalTransitions, as the set of pairs <<from, to>>.
legalTransitions ==
    {<<"QUEUED", "BUILDING">>, <<"QUEUED", "SCHEDULING">>,
     <<"BUILDING", "BUILT">>, <<"BUILT", "SCHEDULING">>,
     <<"SCHEDULING", "STARTING">>, <<"STARTING", "RUNNING">>,
     <<"RUNNING", "STOPPED">>, <<"RUNNING", "ROLLED_BACK">>}
    \cup {<<s, "FAILED">> : s \in {"QUEUED", "BUILDING", "BUILT", "SCHEDULING",
                                   "STARTING", "RUNNING"}}

\* ValidateTransition returns no error.
ValidateTransition(from, to) == from = to \/ <<from, to>> \in legalTransitions

=============================================================================
