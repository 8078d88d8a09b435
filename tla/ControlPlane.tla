---------------------------- MODULE ControlPlane ----------------------------
(***************************************************************************)
(* The control plane process (cmd/control-plane/main.go): start-up         *)
(* recovery, the deployment service's handlers, the reconciliation loop    *)
(* and crashes of the process, over the workers and the repositories.      *)
(***************************************************************************)
EXTENDS DeploymentService, Reconciler, Recovery

vars == <<clusterVars, svcVars, recVars, recovery>>

TypeOK == ClusterTypeOK /\ ServiceTypeOK /\ ReconcilerTypeOK /\ RecoveryTypeOK

Init ==
    /\ ClusterInit /\ phase = "recovering"
    /\ ServiceInit /\ ReconcilerInit /\ RecoveryInit

\* The RunContainer calls that handlers, and the pass, may be waiting for; the pass
\* makes one at a time.
HandlerCalls == {<<loc[t].w, Newest(dep[t])>> : t \in {u \in Threads : pc[u] = "run"}}
PassCalls == {c \in Workers \X Insts : \E w \in Workers \cup {NoWorker} :
                 \/ /\ rpc = "repair" /\ <<c[2], w>> \in rec.missing
                    /\ RunningCount(DepOf(c[2])) < rec.want[DepOf(c[2])]
                    /\ c[1] \in RepairWorkers(w)
                 \/ /\ rpc = "drain" /\ <<c[2], w>> \in rec.todo
                    /\ c[1] \in Feasible}

\* The process dies and starts again.  Handlers, locks, routes, workload
\* counters and the in-memory release list are gone; deployments, instances and
\* workers are in PostgreSQL.  A RunContainer call under way may still be
\* carried out by its worker.
Crash ==
    /\ Happens("crash") /\ Count
    /\ \E sent \in SUBSET HandlerCalls, passSent \in {{}} \cup {{c} : c \in PassCalls} :
         late' = late \cup sent \cup passSent
    /\ phase' = "recovering"
    /\ routes' = {} /\ releases' = {}
    /\ load' = [w \in Workers |-> 0]
    /\ lock' = [p \in Projects |-> NoThread]
    /\ pc' = [t \in Threads |-> "idle"]
    /\ dep' = [t \in Threads |-> NoDep]
    /\ old' = [t \in Threads |-> NoDep]
    /\ loc' = [t \in Threads |-> NoLocals]
    /\ rpc' = "idle" /\ rec' = NoPass
    /\ recovery' = NoRecovery
    /\ UNCHANGED <<status, count, inst, health, draining, node, kind, calls>>

Next ==
    \/ Service /\ UNCHANGED <<recVars, recovery>>
    \/ Reconcile /\ UNCHANGED <<svcVars, recovery>>
    \/ Recover /\ UNCHANGED <<svcVars, recVars>>
    \/ Environment /\ UNCHANGED <<svcVars, recVars, recovery>>
    \/ Crash

Spec == Init /\ [][Next]_vars

\* Handlers, the reconciliation loop's goroutine and start-up are never
\* descheduled for ever, and a call in flight is delivered or dropped.
Fairness ==
    /\ \A t \in Threads : WF_vars(Handle(t) /\ UNCHANGED <<recVars, recovery>>)
    /\ WF_vars(Reconcile /\ UNCHANGED <<svcVars, recovery>>)
    /\ WF_vars(Recover /\ UNCHANGED <<svcVars, recVars>>)
    /\ WF_vars(/\ \E w \in Workers, i \in Insts : DeliverLate(w, i) \/ DropLate(w, i)
               /\ UNCHANGED <<svcVars, recVars, recovery>>)

FairSpec == Spec /\ Fairness

-----------------------------------------------------------------------------
(* Properties.  Those of DeploymentService are checked here too, with       *)
(* passes and restarts in between.                                          *)

\* RACE-04: a repair never starts a container for a deployment in flight, even
\* when the pass and the deploy overlap.
NoDoubleCreate ==
    [][rpc = "repair" /\ rpc' = "repaired" =>
         \A x \in rec'.cur : ~IsInFlight(status[DepOf(x[1])])]_vars

\* G-16 to G-19: a deployment that a crash interrupted ends FAILED.
InterruptedResolved ==
    \A d \in Deps : phase = "recovering" /\ IsInFlight(status[d]) ~> status[d] = "FAILED"

\* A deployment that failed, was stopped or was rolled back ends up with no
\* container running, whatever was started late, lost or revived meanwhile.
OrphansStopped ==
    \A d \in Deps :
        <>[](status[d] \in {"FAILED", "STOPPED", "ROLLED_BACK"} => Running(d) = {})

-----------------------------------------------------------------------------
(* What comments and tests of the code say, and it does not guarantee       *)

\* ReconcileOnce: only steady-state RUNNING deployments are subject to drift
\* reconciliation; a pass stops no container of a deployment in flight.
InFlightLeftAlone ==
    [][\A w \in Workers, i \in Insts :
         /\ rpc = "orphans" /\ rec'.extra # rec.extra
         /\ node[w][i].cur = "running" /\ node'[w][i].cur # "running"
         => ~IsInFlight(status[DepOf(i)])]_vars

=============================================================================
