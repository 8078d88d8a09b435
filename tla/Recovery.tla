------------------------------ MODULE Recovery ------------------------------
(***************************************************************************)
(* The crash recovery engine (internal/deployments/recovery.go): what the  *)
(* control plane does at start, before it reconciles and serves, with the  *)
(* deployments its previous life left in flight.                           *)
(***************************************************************************)
EXTENDS ClusterState

\* stuck: the deployments still to resolve, as DetectStuckDeployments listed
\* them; fixing: the one in hand; stage: the next thing to do.
VARIABLE recovery

NoRecovery == [stage |-> "detect", stuck |-> {}, fixing |-> NoDep]

RecoveryTypeOK ==
    recovery \in [stage: {"detect", "next", "instances", "fail"},
                  stuck: SUBSET Deps, fixing: Deps \cup {NoDep}]

RecoveryInit == recovery = NoRecovery

\* Mutant: only deployments that may have containers are looked for.
DetectStuckDeployments_Starting ==
    /\ phase = "recovering" /\ recovery.stage = "detect"
    /\ recovery' = [recovery EXCEPT !.stage = "next",
                                    !.stuck = {d \in Deps : status[d] = "STARTING"}]
    /\ UNCHANGED clusterVars

DetectStuckDeployments ==
    /\ phase = "recovering" /\ recovery.stage = "detect"
    /\ recovery' = [recovery EXCEPT !.stage = "next",
                                    !.stuck = {d \in Deps : IsInFlight(status[d])}]
    /\ UNCHANGED clusterVars

\* QUEUED and BUILDING leave nothing behind, BUILT and SCHEDULING only records.
TakeStuck(d) ==
    /\ recovery.stage = "next" /\ d \in recovery.stuck
    /\ status[d] # "STARTING"
    /\ recovery' = [stage |-> IF status[d] \in {"QUEUED", "BUILDING"} THEN "fail"
                                                                      ELSE "instances",
                    stuck |-> recovery.stuck \ {d}, fixing |-> d]
    /\ UNCHANGED clusterVars

\* cleanupPartialContainers: every healthy worker that answers is told to stop
\* the containers it lists for the deployment.
CleanedNode(w, d) ==
    [i \in Insts |-> IF DepOf(i) = d /\ Listed(node[w][i]) THEN Stopped(node[w][i])
                                                           ELSE node[w][i]]

CleanupPartialContainers(d) ==
    /\ recovery.stage = "next" /\ d \in recovery.stuck
    /\ status[d] = "STARTING"
    /\ \E unreachable \in {{}} \cup {{w} : w \in Workers} :
         /\ IF unreachable = {} THEN UNCHANGED events ELSE Happens("lost") /\ Count
         /\ node' = [w \in Workers |->
                       IF health[w] = "HEALTHY" /\ w \notin unreachable THEN CleanedNode(w, d)
                                                                        ELSE node[w]]
    /\ recovery' = [stage |-> "instances", stuck |-> recovery.stuck \ {d}, fixing |-> d]
    /\ UNCHANGED <<repoVars, fleetVars, routes, late, phase>>

\* A deployment that was STARTING loses all its instances, one that was not
\* only those it had not started.
FailInstances ==
    /\ recovery.stage = "instances"
    /\ LET d == recovery.fixing
           lost == {i \in Instances(d) : status[d] = "STARTING" \/ inst[i].status = "PENDING"}
       IN  inst' = [i \in Insts |-> IF i \in lost THEN [inst[i] EXCEPT !.status = "FAILED"]
                                                  ELSE inst[i]]
    /\ recovery' = [recovery EXCEPT !.stage = "fail"]
    /\ UNCHANGED <<status, count, releases, fleetVars, routes, nodeVars, phase, events>>

FailDeployment ==
    /\ recovery.stage = "fail"
    /\ status' = [status EXCEPT ![recovery.fixing] = "FAILED"]
    /\ recovery' = [recovery EXCEPT !.stage = "next", !.fixing = NoDep]
    /\ UNCHANGED <<count, inst, releases, fleetVars, routes, nodeVars, phase, events>>

\* main: recovery, one full reconciliation pass, then the API.
RecoveryDone ==
    /\ recovery.stage = "next" /\ recovery.stuck = {}
    /\ recovery' = NoRecovery
    /\ phase' = "reconciling"
    /\ UNCHANGED <<repoVars, fleetVars, routes, nodeVars, events>>

Recover ==
    \/ DetectStuckDeployments
    \/ \E d \in recovery.stuck : TakeStuck(d) \/ CleanupPartialContainers(d)
    \/ FailInstances \/ FailDeployment \/ RecoveryDone

=============================================================================
