----------------------------- MODULE Reconciler -----------------------------
(***************************************************************************)
(* The reconciliation loop (internal/reconcile): ReconcileOnce with        *)
(* ComputeDiff, EnforceOrphanPolicy, RepairMissing, the pruning of excess  *)
(* replicas and ReconcileDraining.  A pass takes no project lock: it reads *)
(* the repositories and the workers one after the other and acts on what   *)
(* it read.                                                                *)
(***************************************************************************)
EXTENDS ClusterState, Integers

CONSTANT Drifts   \* what has become of recorded containers when a pass starts

\* running: as recorded; exited: dead, the worker's record says RUNNING; removed:
\* gone, the worker's record says RUNNING; unknown: the worker has no trace of it.
DriftKinds == {"running", "exited", "removed", "unknown"}

ASSUME DriftAssumption == Drifts \subseteq DriftKinds

ASSUME WorkersAssumption == IsFiniteSet(Workers)

VARIABLES rpc, rec   \* the pass's position and locals

recVars == <<rpc, rec>>

\* active, want: the RUNNING deployments and their InstanceCount; desired: the
\* instances wanted, with their workers; poll: workers still to list; seen: the
\* containers listed, as <<worker, instance, running?>>; then the diff: match,
\* extra, missing; ran: instances repaired; todo: instances to migrate; cur:
\* the instance in hand, to: its new worker, ok: whether its RPC succeeded.
NoPass == [active |-> {}, want |-> [d \in Deps |-> 0], desired |-> {}, poll |-> {},
           seen |-> {}, match |-> {}, extra |-> {}, missing |-> {}, ran |-> {},
           todo |-> {}, cur |-> {}, to |-> NoWorker, ok |-> FALSE]

Placed == Insts \X (Workers \cup {NoWorker})

ReconcilerTypeOK ==
    /\ rpc \in {"idle", "insts", "observe", "orphans", "repair", "repaired",
                "prune", "pruned", "drain", "migrated", "vacate"}
    /\ rec \in [active: SUBSET Deps, want: [Deps -> 0..MaxInst], desired: SUBSET Placed,
                poll: SUBSET Workers, seen: SUBSET (Workers \X Insts \X BOOLEAN),
                match: SUBSET (Workers \X Insts), extra: SUBSET (Workers \X Insts),
                missing: SUBSET Placed, ran: SUBSET Insts, todo: SUBSET Placed,
                cur: SUBSET Placed, to: Workers \cup {NoWorker}, ok: BOOLEAN]

ReconcilerInit == rpc = "idle" /\ rec = NoPass

Step(p, r) == rpc' = p /\ rec' = r

-----------------------------------------------------------------------------
(* Desired and observed state                                               *)

\* Mutant: every deployment not yet ended is reconciled, in-flight ones too.
ReadDeployments_InFlight ==
    /\ phase # "recovering" /\ rpc = "idle"
    /\ LET running == {d \in Deps : status[d] = "RUNNING" \/ IsInFlight(status[d])}
       IN  Step("insts", [rec EXCEPT !.active = running,
                                     !.want = [d \in Deps |-> IF d \in running THEN count[d]
                                                                               ELSE 0]])
    /\ UNCHANGED clusterVars

\* depRepo.List: only RUNNING deployments are reconciled.
ReadDeployments ==
    /\ phase # "recovering" /\ rpc = "idle"
    /\ LET running == {d \in Deps : status[d] = "RUNNING"}
       IN  Step("insts", [rec EXCEPT !.active = running,
                                     !.want = [d \in Deps |-> IF d \in running THEN count[d]
                                                                               ELSE 0]])
    /\ UNCHANGED clusterVars

\* instRepo.ListAll, then registry.List: unhealthy workers are not asked.
ReadInstances ==
    /\ rpc = "insts"
    /\ Step("observe", [rec EXCEPT
         !.desired = {<<i, inst[i].worker>> :
                        i \in {j \in Insts : /\ DepOf(j) \in rec.active
                                             /\ inst[j].status \in {"RUNNING", "REPAIR_FAILED"}}},
         !.poll = {w \in Workers : health[w] # "UNHEALTHY"}])
    /\ UNCHANGED clusterVars

\* ListContainers of one worker: every container, running or not.
Containers(w) ==
    {<<w, i, TRUE>> : i \in {j \in Insts : node[w][j].cur = "running"}}
    \cup {<<w, i, FALSE>> : i \in {j \in Insts : node[w][j].cur = "exited" \/ node[w][j].old}}

Observe(w) ==
    /\ rpc = "observe" /\ w \in rec.poll
    /\ rec' = [rec EXCEPT !.poll = @ \ {w}, !.seen = @ \cup Containers(w)]
    /\ UNCHANGED <<rpc, clusterVars>>

\* The worker cannot be reached: its containers stay unknown.
ObserveFails(w) ==
    /\ rpc = "observe" /\ w \in rec.poll
    /\ Happens("lost") /\ Count
    /\ rec' = [rec EXCEPT !.poll = @ \ {w}]
    /\ UNCHANGED <<rpc, repoVars, fleetVars, routes, nodeVars, phase>>

-----------------------------------------------------------------------------
(* ComputeDiff: a desired instance matches the first running container that *)
(* carries its key; every other container is extra.                         *)

Wanted(r) == {x[1] : x \in r.desired}

\* The matchings ComputeDiff can produce, over the orders of the observed list.
Matchings(r) ==
    LET running == {<<x[1], x[2]>> : x \in {y \in r.seen : y[3] /\ y[2] \in Wanted(r)}}
    IN  {m \in SUBSET running :
           \A i \in Wanted(r) :
              Cardinality({x \in m : x[2] = i}) = IF \E x \in running : x[2] = i THEN 1 ELSE 0}

\* Mutant: only surplus containers of desired instances are extra.
Extra_Desired(r, m) ==
    {<<x[1], x[2]>> : x \in {y \in r.seen : y[2] \in Wanted(r)
                                             /\ (~y[3] \/ <<y[1], y[2]>> \notin m)}}

Extra(r, m) == {<<x[1], x[2]>> : x \in {y \in r.seen : ~y[3] \/ <<y[1], y[2]>> \notin m}}

Missing(r, m) == {x \in r.desired : \A y \in m : y[2] # x[1]}

Diff ==
    /\ rpc = "observe" /\ rec.poll = {}
    /\ \E m \in Matchings(rec) :
         Step("orphans", [rec EXCEPT !.match = m, !.extra = Extra(rec, m),
                                     !.missing = Missing(rec, m),
                                     !.desired = {}, !.seen = {}])
    /\ UNCHANGED clusterVars

-----------------------------------------------------------------------------
(* Orphans                                                                  *)

\* EnforceOrphanPolicy: the worker is told to stop the container's instance.
StopExtra(x) ==
    /\ rpc = "orphans" /\ x \in rec.extra
    /\ CallStop(x[1], x[2])
    /\ rec' = [rec EXCEPT !.extra = @ \ {x}]
    /\ UNCHANGED <<rpc, repoVars, fleetVars, routes, late, phase>>

OrphansDone ==
    /\ rpc = "orphans" /\ rec.extra = {}
    /\ Step("repair", rec)
    /\ UNCHANGED clusterVars

-----------------------------------------------------------------------------
(* RepairMissing                                                            *)

\* Mutant: the instances this pass repaired are not counted.
RunningCount_Matched(d) == Cardinality({x \in rec.match : DepOf(x[2]) = d})

\* runningCountByDep: what matched and what this pass has repaired.
RunningCount(d) == Cardinality({x \in rec.match : DepOf(x[2]) = d})
                   + Cardinality({i \in rec.ran : DepOf(i) = d})

\* G-11: the count already suffices.
RepairSkipped(x) ==
    /\ rpc = "repair" /\ x \in rec.missing
    /\ RunningCount(DepOf(x[1])) >= rec.want[DepOf(x[1])]
    /\ rec' = [rec EXCEPT !.missing = @ \ {x}]
    /\ UNCHANGED <<rpc, clusterVars>>

\* The instance's own worker while it is healthy and not draining, else the
\* scheduler's choice.
RepairWorkers(w) ==
    IF w # NoWorker /\ w \notin draining /\ health[w] = "HEALTHY" THEN {w} ELSE Feasible

RepairUnplaced(x) ==
    /\ rpc = "repair" /\ x \in rec.missing
    /\ RunningCount(DepOf(x[1])) < rec.want[DepOf(x[1])]
    /\ RepairWorkers(x[2]) = {}
    /\ rec' = [rec EXCEPT !.missing = @ \ {x}]
    /\ UNCHANGED <<rpc, clusterVars>>

RepairRun(x) ==
    /\ rpc = "repair" /\ x \in rec.missing
    /\ RunningCount(DepOf(x[1])) < rec.want[DepOf(x[1])]
    /\ \E w \in RepairWorkers(x[2]), ok \in BOOLEAN :
         /\ CallRun(w, x[1], ok)
         /\ Step("repaired", [rec EXCEPT !.missing = @ \ {x}, !.cur = {x}, !.to = w, !.ok = ok])
    /\ UNCHANGED <<repoVars, fleetVars, routes, phase>>

\* The record is read again and updated, whatever its status has become.
RepairRecord ==
    /\ rpc = "repaired"
    /\ \E x \in rec.cur :
         /\ IF rec.ok THEN SetInst(x[1], "RUNNING", rec.to)
                      ELSE SetInst(x[1], "REPAIR_FAILED", inst[x[1]].worker)
         /\ Step("repair", [rec EXCEPT !.ran = IF rec.ok THEN @ \cup {x[1]} ELSE @,
                                       !.cur = {}, !.to = NoWorker, !.ok = FALSE])
    /\ UNCHANGED <<status, count, releases, fleetVars, routes, nodeVars, phase, events>>

RepairDone ==
    /\ rpc = "repair" /\ rec.missing = {}
    /\ Step("prune", rec)
    /\ UNCHANGED clusterVars

-----------------------------------------------------------------------------
(* Pruning of excess replicas                                               *)

Excess(d) == RunningCount(d) > rec.want[d]

PruneStop(x) ==
    /\ rpc = "prune" /\ x \in rec.match
    /\ Excess(DepOf(x[2]))
    /\ CallStop(x[1], x[2])
    /\ Step("pruned", [rec EXCEPT !.match = @ \ {x}, !.cur = {<<x[2], x[1]>>}])
    /\ UNCHANGED <<repoVars, fleetVars, routes, late, phase>>

PruneRecord ==
    /\ rpc = "pruned"
    /\ \E x \in rec.cur :
         /\ SetInst(x[1], "STOPPED", inst[x[1]].worker)
         /\ routes' = routes \ {x[1]}
    /\ Step("prune", [rec EXCEPT !.cur = {}])
    /\ UNCHANGED <<status, count, releases, fleetVars, nodeVars, phase, events>>

\* ReconcileDraining starts: registry.List.
PruneDone ==
    /\ rpc = "prune"
    /\ \A x \in rec.match : ~Excess(DepOf(x[2]))
    /\ Step("drain", [NoPass EXCEPT !.poll = draining])
    /\ UNCHANGED clusterVars

-----------------------------------------------------------------------------
(* ReconcileDraining                                                        *)

\* ListByWorker: the RUNNING instances, whatever their deployment's status.
ListDraining(w) ==
    /\ rpc = "drain" /\ rec.todo = {} /\ w \in rec.poll
    /\ rec' = [rec EXCEPT !.poll = @ \ {w},
                          !.todo = {<<i, w>> : i \in {j \in Insts : /\ inst[j].status = "RUNNING"
                                                                  /\ inst[j].worker = w}}]
    /\ UNCHANGED <<rpc, clusterVars>>

MigrateDeferred(x) ==
    /\ rpc = "drain" /\ x \in rec.todo /\ Feasible = {}
    /\ rec' = [rec EXCEPT !.todo = @ \ {x}]
    /\ UNCHANGED <<rpc, clusterVars>>

\* Mutant: the answer of RunContainer is not looked at.
MigrateRun_Unchecked(x) ==
    /\ rpc = "drain" /\ x \in rec.todo
    /\ \E w \in Feasible, ok \in BOOLEAN :
         /\ CallRun(w, x[1], ok)
         /\ Step("migrated", [rec EXCEPT !.todo = @ \ {x}, !.cur = {x}, !.to = w])
    /\ UNCHANGED <<repoVars, fleetVars, routes, phase>>

MigrateRun(x) ==
    /\ rpc = "drain" /\ x \in rec.todo
    /\ \E w \in Feasible, ok \in BOOLEAN :
         /\ CallRun(w, x[1], ok)
         /\ IF ok THEN Step("migrated", [rec EXCEPT !.todo = @ \ {x}, !.cur = {x}, !.to = w])
                  ELSE Step("drain", [rec EXCEPT !.todo = @ \ {x}])
    /\ UNCHANGED <<repoVars, fleetVars, routes, phase>>

\* The record as read, status included, is written back with the new worker.
MigrateRecord ==
    /\ rpc = "migrated"
    /\ \E x \in rec.cur :
         /\ SetInst(x[1], "RUNNING", rec.to)
         /\ load' = [load EXCEPT ![rec.to] = @ + 1, ![x[2]] = IF @ = 0 THEN 0 ELSE @ - 1]
    /\ Step("vacate", rec)
    /\ UNCHANGED <<status, count, releases, health, draining, routes, nodeVars, phase, events>>

MigrateStop ==
    /\ rpc = "vacate"
    /\ \E x \in rec.cur : CallStop(x[2], x[1])
    /\ Step("drain", [rec EXCEPT !.cur = {}, !.to = NoWorker])
    /\ UNCHANGED <<repoVars, fleetVars, routes, late, phase>>

\* The pass ends; the first one after a start opens the API.
EndPass ==
    /\ rpc = "drain" /\ rec.todo = {} /\ rec.poll = {}
    /\ Step("idle", NoPass)
    /\ phase' = "serving"
    /\ UNCHANGED <<repoVars, fleetVars, routes, nodeVars, events>>

-----------------------------------------------------------------------------
Reconcile ==
    \/ ReadDeployments \/ ReadInstances \/ Diff
    \/ \E w \in rec.poll : Observe(w) \/ ObserveFails(w) \/ ListDraining(w)
    \/ \E x \in rec.extra : StopExtra(x)
    \/ OrphansDone
    \/ \E x \in rec.missing : RepairSkipped(x) \/ RepairUnplaced(x) \/ RepairRun(x)
    \/ RepairRecord \/ RepairDone
    \/ \E x \in rec.match : PruneStop(x)
    \/ PruneRecord \/ PruneDone
    \/ \E x \in rec.todo : MigrateDeferred(x) \/ MigrateRun(x)
    \/ MigrateRecord \/ MigrateStop \/ EndPass

(* The loop alone, over a cluster that has drifted from its records.        *)

DriftedNode(k) ==
    CASE k = "running" -> [tracker |-> "RUNNING", cur |-> "running", old |-> FALSE]
      [] k = "exited"  -> [tracker |-> "RUNNING", cur |-> "exited", old |-> FALSE]
      [] k = "removed" -> [tracker |-> "RUNNING", cur |-> "none", old |-> FALSE]
      [] OTHER         -> EmptyNode

\* Deployments that run or were stopped, instances RUNNING or STOPPED on some
\* worker, at least InstanceCount of a RUNNING deployment's RUNNING.
DriftedInit ==
    /\ status \in [Deps -> {"RUNNING", "STOPPED"}]
    /\ count \in [Deps -> 1..MaxInst]
    /\ inst \in [Insts -> [status: {"RUNNING", "STOPPED"}, worker: Workers]]
    /\ \A d \in Deps : status[d] = "RUNNING" =>
         Cardinality({i \in Instances(d) : inst[i].status = "RUNNING"}) >= count[d]
    /\ \E k \in [Insts -> Drifts] :
         node = [w \in Workers |-> [i \in Insts |->
                   IF w = inst[i].worker THEN DriftedNode(k[i]) ELSE EmptyNode]]
    /\ releases = {} /\ routes = {} /\ late = {} /\ events = 0
    /\ health = [w \in Workers |-> "HEALTHY"] /\ draining = {}
    /\ load = [w \in Workers |-> 0]
    /\ phase = "serving"
    /\ ReconcilerInit

reconcilerVars == <<clusterVars, recVars>>

ReconcilerNext == Reconcile \/ (Environment /\ UNCHANGED recVars)

ReconcilerSpec == DriftedInit /\ [][ReconcilerNext]_reconcilerVars

\* The loop's goroutine never stops between two ticks for ever.
FairReconcilerSpec == ReconcilerSpec /\ WF_reconcilerVars(Reconcile)

-----------------------------------------------------------------------------
(* Properties                                                               *)

\* Containers of d on workers the control plane can see.
Visible(d) == {x \in Running(d) : health[x[1]] # "UNHEALTHY"}

\* G-11: a repair never takes a deployment beyond its InstanceCount.
NoOvershoot ==
    [][rpc = "repair" /\ rpc' = "repaired" =>
         \A x \in rec'.cur : Cardinality(Visible(DepOf(x[1]))') <= count[DepOf(x[1])]
      ]_reconcilerVars

\* A dead container holds the instance's name where a repair may run it.
Blocked(i) ==
    /\ inst[i].status \in {"RUNNING", "REPAIR_FAILED"}
    /\ \E w \in RepairWorkers(inst[i].worker) :
         NameInUse(node[w][i]) /\ node[w][i].cur # "running"

\* Once the cluster is left alone with a usable worker, the loop stops what a
\* stopped deployment runs and what a RUNNING one runs beyond its replicas, and
\* starts what it lacks, but for instances whose name a dead container holds: no
\* part of the code removes those.
Converges ==
    <>[]((\E w \in Workers : health[w] # "UNHEALTHY") =>
           \A d \in Deps :
              LET goal == IF status[d] = "RUNNING" THEN count[d] ELSE 0
              IN  /\ Cardinality(Visible(d)) <= goal
                  /\ \/ Cardinality(Visible(d)) = goal
                     \/ \E i \in Instances(d) : Blocked(i))

\* DRN-02: a pass moves an instance from a draining worker to another one, and
\* stops it on the first only once the second has started it and keeps it on
\* record, though it may have died since.  (A worker that is undrained during the
\* pass may be chosen itself, and is then told to stop its only container.)
MigratesBeforeStop ==
    [][\A x \in Placed :
         /\ rpc = "drain" /\ rpc' = "migrated" /\ x \in rec'.cur /\ x[2] \in draining
              => rec'.to # x[2]
         /\ rpc = "vacate" /\ rpc' = "drain" /\ x \in rec.cur
              => node[rec.to][x[1]].tracker = "RUNNING"]_reconcilerVars

\* G-01, G-23: an instance recorded RUNNING for a deployment that asks for all
\* its instances, whose container is not there, gets one again.
MissingRepaired ==
    \A d \in Deps :
        <>[](status[d] = "RUNNING" => Cardinality(Visible(d)) >= count[d])

=============================================================================
