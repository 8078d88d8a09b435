-------------------------- MODULE DeploymentService --------------------------
(***************************************************************************)
(* deployments.Service (internal/deployments/service.go): the API handlers *)
(* that create, stop, scale and roll back deployments, each holding its    *)
(* project's mutex.  A handler's step ends where another handler, the      *)
(* reconciler or the environment can see or change what it relies on.      *)
(***************************************************************************)
EXTENDS ClusterState

CONSTANTS
    Ops,        \* the API operations in use, a subset of OpKinds
    Targets,    \* the replica counts requests ask for
    MaxCalls    \* bound on the number of API calls

OpKinds == {"create", "stop", "scale", "rollback"}

ASSUME ServiceAssumption ==
    /\ Ops \subseteq OpKinds
    /\ Targets \subseteq 1..MaxInst
    /\ MaxCalls \in Nat

VARIABLES
    lock,              \* projectLocks: the handler that holds each project's mutex
    pc, kind, dep,     \* each handler's position, operation and deployment
    old,               \* the deployment its rollback supersedes
    loc,               \* its other locals
    calls              \* API calls so far

svcVars == <<lock, pc, kind, dep, old, loc, calls>>

\* seen: the status read before the lock; n: the requested count; last: the index
\* of the last instance to create; w: the worker selected; todo: instances still
\* to stop, as read, and hit: the one whose container has just been stopped.
NoLocals == [seen |-> "NONE", n |-> 0, last |-> 0,
             w |-> NoWorker, todo |-> {}, hit |-> {}]

\* The handler is bringing up the deployment it created.
DeployPCs == {"queued", "building", "built", "scheduling", "place", "run", "record", "route"}
LockedPCs == DeployPCs \cup {"stop", "stopped"}

ServiceTypeOK ==
    /\ lock \in [Projects -> Threads \cup {NoThread}]
    /\ pc \in [Threads -> LockedPCs \cup {"idle", "lock"}]
    /\ kind \in [Threads -> OpKinds]
    /\ dep \in [Threads -> Deps \cup {NoDep}]
    /\ old \in [Threads -> Deps \cup {NoDep}]
    /\ loc \in [Threads -> [seen: Statuses \cup {"NONE"}, n: 0..MaxInst, last: 0..MaxInst,
                            w: Workers \cup {NoWorker},
                            todo: SUBSET (Insts \X (Workers \cup {NoWorker})),
                            hit: SUBSET (Insts \X (Workers \cup {NoWorker}))]]
    /\ calls \in 0..MaxCalls

ServiceInit ==
    /\ lock = [p \in Projects |-> NoThread]
    /\ pc = [t \in Threads |-> "idle"]
    /\ kind = [t \in Threads |-> "create"]
    /\ dep = [t \in Threads |-> NoDep]
    /\ old = [t \in Threads |-> NoDep]
    /\ loc = [t \in Threads |-> NoLocals]
    /\ calls = 0

-----------------------------------------------------------------------------
Goto(t, p) == pc' = [pc EXCEPT ![t] = p]

\* Mutant: the deferred Unlock is missing on the way out.
Return_StillLocked(t) ==
    /\ Goto(t, "idle")
    /\ dep' = [dep EXCEPT ![t] = NoDep]
    /\ old' = [old EXCEPT ![t] = NoDep]
    /\ loc' = [loc EXCEPT ![t] = NoLocals]
    /\ UNCHANGED <<lock, kind, calls>>

\* The handler returns: the deferred Unlock, its locals gone.
Return(t) ==
    /\ Goto(t, "idle")
    /\ lock' = [lock EXCEPT ![ProjectOf[dep[t]]] = NoThread]
    /\ dep' = [dep EXCEPT ![t] = NoDep]
    /\ old' = [old EXCEPT ![t] = NoDep]
    /\ loc' = [loc EXCEPT ![t] = NoLocals]
    /\ UNCHANGED <<kind, calls>>

\* What every handler leaves alone between taking and releasing the lock.
Stay == UNCHANGED <<lock, kind, dep, old, calls>>

UpdateStatus(d, s) == status' = [status EXCEPT ![d] = s]

\* uuid.New(): an id nobody has.
Fresh(d) == status[d] = "NONE" /\ \A t \in Threads : dep[t] # d

\* A request arrives and is handled up to the project's lock.  Stop, Rollback
\* and Scale read the deployment first; Scale returns unless it is RUNNING.
Call(t, k, d, n) ==
    /\ phase = "serving" /\ k \in Ops /\ calls < MaxCalls
    /\ pc[t] = "idle"
    /\ CASE k = "create"   -> Fresh(d)
         [] k = "scale"    -> status[d] = "RUNNING"
         [] OTHER          -> status[d] # "NONE"
    /\ Goto(t, "lock")
    /\ kind' = [kind EXCEPT ![t] = k]
    /\ dep' = [dep EXCEPT ![t] = d]
    /\ loc' = [loc EXCEPT ![t] = [NoLocals EXCEPT
                 !.seen = status[d],
                 !.n = IF k \in {"create", "scale"} THEN n ELSE count[d]]]
    /\ calls' = calls + 1
    /\ UNCHANGED <<clusterVars, lock, old>>

\* Mutant: a lock per deployment, not per project, excludes nobody.
Lock_NotExclusive(t) ==
    /\ pc[t] = "lock"
    /\ lock' = [lock EXCEPT ![ProjectOf[dep[t]]] = t]
    /\ UNCHANGED <<kind, calls>>

Lock(t) ==
    /\ pc[t] = "lock"
    /\ lock[ProjectOf[dep[t]]] = NoThread
    /\ lock' = [lock EXCEPT ![ProjectOf[dep[t]]] = t]
    /\ UNCHANGED <<kind, calls>>

\* The stop list: the deployment's instances with their workers, as read now.
AsRead(is) == {<<i, inst[i].worker>> : i \in is}

-----------------------------------------------------------------------------
(* CreateAndDeploy                                                          *)

CreateQueued(t) ==
    /\ kind[t] = "create" /\ Lock(t)
    /\ UpdateStatus(dep[t], "QUEUED")
    /\ count' = [count EXCEPT ![dep[t]] = loc[t].n]
    /\ loc' = [loc EXCEPT ![t].last = loc[t].n]
    /\ Goto(t, "queued")
    /\ UNCHANGED <<inst, releases, fleetVars, routes, nodeVars, phase, events, dep, old>>

BuildStart(t) ==
    /\ pc[t] = "queued" /\ kind[t] = "create"
    /\ UpdateStatus(dep[t], "BUILDING")
    /\ Goto(t, "building")
    /\ Stay /\ UNCHANGED <<count, inst, releases, fleetVars, routes, nodeVars, phase,
                           events, loc>>

\* The build or the push fails, or, without a build, the registry is unavailable.
BuildFails(t) ==
    /\ \/ pc[t] = "building"
       \/ pc[t] = "queued" /\ kind[t] = "create"
    /\ UpdateStatus(dep[t], "FAILED")
    /\ Return(t)
    /\ UNCHANGED <<count, inst, releases, fleetVars, routes, nodeVars, phase, events>>

BuildDone(t) ==
    /\ pc[t] = "building"
    /\ UpdateStatus(dep[t], "BUILT")
    /\ Goto(t, "built")
    /\ Stay /\ UNCHANGED <<count, inst, releases, fleetVars, routes, nodeVars, phase,
                           events, loc>>

\* The release is recorded, with a digest when the image was built or is known
\* to the registry; a rollback records none.
ToScheduling(t) ==
    /\ pc[t] \in {"queued", "built"}
    /\ UpdateStatus(dep[t], "SCHEDULING")
    /\ \/ kind[t] = "create" /\ releases' = releases \cup {dep[t]}
       \/ (kind[t] = "rollback" \/ pc[t] = "queued") /\ UNCHANGED releases
    /\ Goto(t, "scheduling")
    /\ Stay /\ UNCHANGED <<count, inst, fleetVars, routes, nodeVars, phase, events, loc>>

-----------------------------------------------------------------------------
(* scheduleAndDispatchInstances, and the same loop in ScaleDeployment       *)

ToStarting(t) ==
    /\ pc[t] = "scheduling"
    /\ UpdateStatus(dep[t], "STARTING")
    /\ Goto(t, "place")
    /\ Stay /\ UNCHANGED <<count, inst, releases, fleetVars, routes, nodeVars, phase,
                           events, loc>>

Placing(t) == pc[t] = "place" /\ Cardinality(Instances(dep[t])) < loc[t].last

\* A failed placement or dispatch fails the instance and, unless it was a
\* scale-up, the deployment.  Instances already started stay as they are.
Fail(t, i) ==
    /\ SetInst(i, "FAILED", NoWorker)
    /\ IF kind[t] = "scale" THEN UNCHANGED status ELSE UpdateStatus(dep[t], "FAILED")
    /\ Return(t)

\* instRepo.Create, then SelectWorker.
Place(t) ==
    /\ Placing(t)
    /\ \E w \in Feasible : loc' = [loc EXCEPT ![t].w = w]
    /\ SetInst(<<dep[t], Cardinality(Instances(dep[t])) + 1>>, "PENDING", NoWorker)
    /\ Goto(t, "run")
    /\ Stay /\ UNCHANGED <<status, count, releases, fleetVars, routes, nodeVars, phase,
                           events>>

PlaceFails(t) ==
    /\ Placing(t) /\ Feasible = {}
    /\ Fail(t, <<dep[t], Cardinality(Instances(dep[t])) + 1>>)
    /\ UNCHANGED <<count, releases, fleetVars, routes, nodeVars, phase, events>>

Run(t) ==
    /\ pc[t] = "run"
    /\ CallRun(loc[t].w, Newest(dep[t]), TRUE)
    /\ Goto(t, "record")
    /\ Stay /\ UNCHANGED <<repoVars, fleetVars, routes, phase, loc>>

RunFails(t) ==
    /\ pc[t] = "run"
    /\ CallRun(loc[t].w, Newest(dep[t]), FALSE)
    /\ Fail(t, Newest(dep[t]))
    /\ UNCHANGED <<count, releases, fleetVars, routes, phase>>

Record(t) ==
    /\ pc[t] = "record"
    /\ SetInst(Newest(dep[t]), "RUNNING", loc[t].w)
    /\ Goto(t, "route")
    /\ Stay /\ UNCHANGED <<status, count, releases, fleetVars, routes, nodeVars, phase,
                           events, loc>>

\* RegisterTarget, UpdateWorkload(+1)
Route(t) ==
    /\ pc[t] = "route"
    /\ routes' = routes \cup {Newest(dep[t])}
    /\ AddLoad(loc[t].w)
    /\ Goto(t, "place")
    /\ loc' = [loc EXCEPT ![t].w = NoWorker]
    /\ Stay /\ UNCHANGED <<repoVars, health, draining, nodeVars, phase, events>>

\* Mutant: the dispatch loop ends one instance early.
AllPlaced_Early(t) == pc[t] = "place" /\ Cardinality(Instances(dep[t])) + 1 >= loc[t].last

AllPlaced(t) == pc[t] = "place" /\ Cardinality(Instances(dep[t])) >= loc[t].last

FinishCreate(t) ==
    /\ AllPlaced(t) /\ kind[t] = "create"
    /\ UpdateStatus(dep[t], "RUNNING")
    /\ Return(t)
    /\ UNCHANGED <<count, inst, releases, fleetVars, routes, nodeVars, phase, events>>

-----------------------------------------------------------------------------
(* Stopping a list of instances: StopDeployment, Rollback, scale-down       *)

\* The RPC.  Scale-down takes the instance out of rotation first and corrects
\* the worker's load; the other two never do.
StopCall(t, x) ==
    /\ pc[t] = "stop" /\ x \in loc[t].todo
    /\ IF x[2] = NoWorker THEN UNCHANGED <<node, events>> ELSE CallStop(x[2], x[1])
    /\ IF kind[t] = "scale"
         THEN /\ routes' = routes \ {x[1]}
              /\ IF x[2] = NoWorker THEN UNCHANGED load ELSE DropLoad(x[2])
         ELSE UNCHANGED <<routes, load>>
    /\ loc' = [loc EXCEPT ![t].todo = @ \ {x}, ![t].hit = {x}]
    /\ Goto(t, "stopped")
    /\ Stay /\ UNCHANGED <<repoVars, health, draining, late, phase>>

\* instRepo.Update writes back the record as it was read, but for the status;
\* StopDeployment and Rollback then unregister the target.
StopRecord(t) ==
    /\ pc[t] = "stopped"
    /\ \E x \in loc[t].hit :
         /\ SetInst(x[1], "STOPPED", x[2])
         /\ routes' = IF kind[t] = "scale" THEN routes ELSE routes \ {x[1]}
    /\ loc' = [loc EXCEPT ![t].hit = {}]
    /\ Goto(t, "stop")
    /\ Stay /\ UNCHANGED <<status, count, releases, fleetVars, nodeVars, phase, events>>

AllStopped(t) == pc[t] = "stop" /\ loc[t].todo = {}

-----------------------------------------------------------------------------
(* StopDeployment: no look at the status, before or under the lock          *)

\* Mutant: StopDeployment does not take the project's lock.
StopLocked_Unlocked(t) ==
    /\ kind[t] = "stop" /\ pc[t] = "lock"
    /\ loc' = [loc EXCEPT ![t].todo = AsRead(Instances(dep[t]))]
    /\ Goto(t, "stop")
    /\ UNCHANGED <<clusterVars, lock, kind, dep, old, calls>>

StopLocked(t) ==
    /\ kind[t] = "stop" /\ Lock(t)
    /\ loc' = [loc EXCEPT ![t].todo = AsRead(Instances(dep[t]))]
    /\ Goto(t, "stop")
    /\ UNCHANGED <<clusterVars, dep, old>>

FinishStop(t) ==
    /\ AllStopped(t) /\ kind[t] = "stop"
    /\ UpdateStatus(dep[t], "STOPPED")
    /\ Return(t)
    /\ UNCHANGED <<count, inst, releases, fleetVars, routes, nodeVars, phase, events>>

-----------------------------------------------------------------------------
(* Rollback                                                                 *)

\* Releases of the project the rollback may restore; ListByProject of the
\* in-memory repository returns them in no particular order.
Candidates(d) == {r \in releases : /\ ProjectOf[r] = ProjectOf[d] /\ r # d
                                   /\ status[r] # "FAILED"}

\* Already rolled back, as far as the read before the lock tells, or nothing to
\* roll back to: the lock is taken and released, nothing happens.
RollbackRefused(t) ==
    /\ kind[t] = "rollback" /\ pc[t] = "lock"
    /\ lock[ProjectOf[dep[t]]] = NoThread
    /\ loc[t].seen = "ROLLED_BACK" \/ Candidates(dep[t]) = {}
    /\ Return(t)
    /\ UNCHANGED clusterVars

\* A new deployment with the replica count read before the lock.
RollbackQueued(t) ==
    /\ kind[t] = "rollback" /\ Lock(t)
    /\ loc[t].seen # "ROLLED_BACK" /\ Candidates(dep[t]) # {}
    /\ \E d \in Deps :
         /\ Fresh(d) /\ ProjectOf[d] = ProjectOf[dep[t]]
         /\ dep' = [dep EXCEPT ![t] = d]
         /\ UpdateStatus(d, "QUEUED")
         /\ count' = [count EXCEPT ![d] = loc[t].n]
    /\ old' = [old EXCEPT ![t] = dep[t]]
    /\ loc' = [loc EXCEPT ![t].last = loc[t].n]
    /\ Goto(t, "queued")
    /\ UNCHANGED <<inst, releases, fleetVars, routes, nodeVars, phase, events>>

\* Mutant: the lock is released before the superseded deployment is retired.
Restored_Unlocked(t) ==
    /\ AllPlaced(t) /\ kind[t] = "rollback"
    /\ UpdateStatus(dep[t], "RUNNING")
    /\ loc' = [loc EXCEPT ![t].todo = AsRead(Instances(old[t]))]
    /\ Goto(t, "stop")
    /\ lock' = [lock EXCEPT ![ProjectOf[dep[t]]] = NoThread]
    /\ UNCHANGED <<count, inst, releases, fleetVars, routes, nodeVars, phase, events,
                   kind, dep, old, calls>>

\* The restored deployment runs; the superseded one's instances are next.
Restored(t) ==
    /\ AllPlaced(t) /\ kind[t] = "rollback"
    /\ UpdateStatus(dep[t], "RUNNING")
    /\ loc' = [loc EXCEPT ![t].todo = AsRead(Instances(old[t]))]
    /\ Goto(t, "stop")
    /\ Stay /\ UNCHANGED <<count, inst, releases, fleetVars, routes, nodeVars, phase, events>>

FinishRollback(t) ==
    /\ AllStopped(t) /\ kind[t] = "rollback"
    /\ UpdateStatus(old[t], "ROLLED_BACK")
    /\ Return(t)
    /\ UNCHANGED <<count, inst, releases, fleetVars, routes, nodeVars, phase, events>>

-----------------------------------------------------------------------------
(* ScaleDeployment                                                          *)

\* Mutant: stopped and failed instances count as replicas.
Active_Every(d) == Instances(d)

Active(d) == {i \in Instances(d) : inst[i].status \notin {"STOPPED", "FAILED"}}

\* The deployment is read again under the lock, its status not looked at.
ScaleLocked(t) ==
    LET d == dep[t]
        have == Cardinality(Active(d))
        made == Cardinality(Instances(d))
    IN  /\ kind[t] = "scale" /\ Lock(t)
        /\ made + loc[t].n - have <= MaxInst
        /\ IF loc[t].n >= have
             THEN /\ loc' = [loc EXCEPT ![t].last = made + loc[t].n - have]
                  /\ Goto(t, "place")
             ELSE /\ \E is \in SUBSET Active(d) :
                       /\ Cardinality(is) = have - loc[t].n
                       /\ loc' = [loc EXCEPT ![t].todo = AsRead(is)]
                  /\ Goto(t, "stop")
        /\ UNCHANGED <<clusterVars, dep, old>>

\* UpdateScale, also when the count was right from the start.
FinishScale(t) ==
    /\ kind[t] = "scale" /\ (AllPlaced(t) \/ AllStopped(t))
    /\ count' = [count EXCEPT ![dep[t]] = loc[t].n]
    /\ Return(t)
    /\ UNCHANGED <<status, inst, releases, fleetVars, routes, nodeVars, phase, events>>

-----------------------------------------------------------------------------
\* The steps of a handler that has been called.
Handle(t) ==
    \/ CreateQueued(t) \/ BuildStart(t) \/ BuildFails(t) \/ BuildDone(t)
    \/ ToScheduling(t) \/ ToStarting(t) \/ Place(t) \/ PlaceFails(t)
    \/ Run(t) \/ RunFails(t) \/ Record(t) \/ Route(t) \/ FinishCreate(t)
    \/ \E x \in loc[t].todo : StopCall(t, x)
    \/ StopRecord(t) \/ StopLocked(t) \/ FinishStop(t)
    \/ RollbackRefused(t) \/ RollbackQueued(t) \/ Restored(t) \/ FinishRollback(t)
    \/ ScaleLocked(t) \/ FinishScale(t)

Service ==
    \E t \in Threads :
        \/ \E k \in Ops, d \in Deps, n \in Targets : Call(t, k, d, n)
        \/ Handle(t)

(* The service alone, without reconciler and crashes.                       *)

serviceVars == <<clusterVars, svcVars>>

ServiceNext == Service \/ (Environment /\ UNCHANGED svcVars)

ServingInit == ClusterInit /\ ServiceInit /\ phase = "serving"

ServiceSpec == ServingInit /\ [][ServiceNext]_serviceVars

-----------------------------------------------------------------------------
(* Properties                                                               *)

Owns(t, d) ==
    /\ dep[t] = d /\ lock[ProjectOf[d]] = t
    /\ pc[t] \in DeployPCs /\ kind[t] \in {"create", "rollback"}

\* An in-flight deployment has exactly one handler bringing it up, which holds
\* its project's lock (getProjectLock), or the process is still recovering:
\* nothing else can find a deployment in flight and nobody at work on it.
InFlightOwned ==
    \A d \in Deps : IsInFlight(status[d]) =>
        phase = "recovering" \/ \E t \in Threads : Owns(t, d)

\* Simultaneous deploys to one project are serialized: at most one of its
\* deployments is in flight once the API serves.
OneInFlight ==
    phase # "recovering" =>
        \A d, e \in Deps : /\ IsInFlight(status[d]) /\ IsInFlight(status[e])
                           /\ ProjectOf[d] = ProjectOf[e]
                           => d = e

\* legalTransitions holds although nothing enforces it: every change of status
\* other than StopDeployment's STOPPED and Rollback's ROLLED_BACK follows it,
\* start-up recovery's included.
ProgressLegal ==
    [][\A d \in Deps :
         status[d] # "NONE" /\ status'[d] \notin {"STOPPED", "ROLLED_BACK"}
         => ValidateTransition(status[d], status'[d])]_status

\* scheduleAndDispatchInstances reports RUNNING only when as many instances as
\* the deployment asked for are recorded RUNNING on a worker.
RunningBacked ==
    [][\A d \in Deps : status[d] # "RUNNING" /\ status'[d] = "RUNNING" =>
          Cardinality({i \in Instances(d) : inst[i].status = "RUNNING" /\ inst[i].worker # NoWorker})
            >= count[d]]_status

\* Rollback gives up the superseded deployment only while the one it brought up
\* in its place is still RUNNING: no call that came in meanwhile has stopped it.
RollbackContinuity ==
    [][\A d \in Deps : status[d] # "ROLLED_BACK" /\ status'[d] = "ROLLED_BACK" =>
          \E t \in Threads : old[t] = d /\ dep[t] # d /\ status[dep[t]] = "RUNNING"]_status

\* Between handlers, and while no container dies by itself, a RUNNING deployment
\* has at least InstanceCount instances whose recorded worker runs their
\* container.
ReplicasServed ==
    \A d \in Deps : status[d] = "RUNNING" /\ lock[ProjectOf[d]] = NoThread =>
        Cardinality({i \in Instances(d) :
                       /\ inst[i].status = "RUNNING" /\ inst[i].worker # NoWorker
                       /\ node[inst[i].worker][i].cur = "running"}) >= count[d]

\* Every API call returns: whichever of its paths a handler takes, and whenever
\* the process dies, the project's lock is free again for the next call.
HandlersReturn == \A t \in Threads : []<>(pc[t] = "idle")

=============================================================================
