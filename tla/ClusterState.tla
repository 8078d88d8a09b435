---------------------------- MODULE ClusterState ----------------------------
(***************************************************************************)
(* The state the control plane's parts share: the deployment and instance  *)
(* repositories (internal/deployments/repository.go), the release list,    *)
(* the worker registry's view of the fleet (internal/workers/registry.go), *)
(* the load balancer's routing table (internal/loadbalancer/router.go) and *)
(* the worker nodes as the control plane meets them over gRPC.             *)
(*                                                                         *)
(* A node runs RunContainer and StopContainer of one instance one at a     *)
(* time (module ContainerOps proves it), so here each is a single step.    *)
(***************************************************************************)
EXTENDS DeploymentStatus, Naturals, FiniteSets

CONSTANTS
    Projects, Deps,
    ProjectOf,     \* the project each deployment id will be created in
    Workers, Threads,
    MaxInst,       \* bound on the instances ever created for a deployment
    Capacity,      \* Worker.Capacity
    NoThread, NoDep, NoWorker,
    NameConflict,  \* TRUE: real Docker, which refuses a name in use
    Events,        \* what the environment may do, a subset of EventKinds
    MaxEvents      \* bound on the number of environment events

\* exit, remove: a container dies, or an operator removes it; runfail: a worker
\* refuses RunContainer (signature or create error); startfail: the container it
\* created does not start; lost: an RPC or its answer is lost; health, drain,
\* undrain: the registry's view of a worker changes; crash: the control plane
\* restarts.
EventKinds == {"exit", "remove", "runfail", "startfail", "lost", "health", "drain",
               "undrain", "crash"}

ASSUME ClusterAssumption ==
    /\ ProjectOf \in [Deps -> Projects]
    /\ NoThread \notin Threads /\ NoDep \notin Deps /\ NoWorker \notin Workers
    /\ MaxInst \in Nat /\ Capacity \in Nat /\ MaxEvents \in Nat
    /\ NameConflict \in BOOLEAN
    /\ Events \subseteq EventKinds

VARIABLES
    status, count,   \* Deployment.Status ("NONE": not created), InstanceCount
    inst,            \* the instance records
    releases,        \* deployments whose release records an image digest
    health, draining, load,   \* registry: Health, State = DRAINING, ActiveWorkloads
    routes,          \* instances the router sends traffic to
    node,            \* each worker's tracker and containers
    late,            \* RunContainer calls whose caller has stopped waiting
    phase,           \* control plane start-up: recovering, reconciling, serving
    events           \* environment events so far

repoVars == <<status, count, inst, releases>>
fleetVars == <<health, draining, load>>
nodeVars == <<node, late>>
clusterVars == <<status, count, inst, releases, health, draining, load, routes,
                 node, late, phase, events>>

Insts == Deps \X (1..MaxInst)
DepOf(i) == i[1]

InstStatuses == {"NONE", "PENDING", "RUNNING", "FAILED", "STOPPED", "REPAIR_FAILED"}
Healths == {"HEALTHY", "SUSPECTED", "UNHEALTHY"}

\* What a worker holds for an instance: the tracker's state, the container its
\* record names (exited: it does not run, whether it ever started or not), and
\* whether containers of earlier runs are still there.
Nodes == [tracker: {"NONE", "RUNNING", "STOPPING", "STOPPED", "FAILED"},
          cur: {"none", "running", "exited"}, old: BOOLEAN]
EmptyNode == [tracker |-> "NONE", cur |-> "none", old |-> FALSE]

ClusterTypeOK ==
    /\ status \in [Deps -> Statuses \cup {"NONE"}]
    /\ count \in [Deps -> 0..MaxInst]
    /\ inst \in [Insts -> [status: InstStatuses, worker: Workers \cup {NoWorker}]]
    /\ releases \subseteq Deps
    /\ health \in [Workers -> Healths] /\ draining \subseteq Workers
    /\ load \in [Workers -> Nat]
    /\ routes \subseteq Insts
    /\ node \in [Workers -> [Insts -> Nodes]]
    /\ late \subseteq Workers \X Insts
    /\ phase \in {"recovering", "reconciling", "serving"}
    /\ events \in 0..MaxEvents

ClusterInit ==
    /\ status = [d \in Deps |-> "NONE"]
    /\ count = [d \in Deps |-> 0]
    /\ inst = [i \in Insts |-> [status |-> "NONE", worker |-> NoWorker]]
    /\ releases = {}
    /\ health = [w \in Workers |-> "HEALTHY"] /\ draining = {}
    /\ load = [w \in Workers |-> 0]
    /\ routes = {}
    /\ node = [w \in Workers |-> [i \in Insts |-> EmptyNode]]
    /\ late = {}
    /\ events = 0

-----------------------------------------------------------------------------
(* The repositories                                                         *)

\* ListByDeployment
Instances(d) == {i \in Insts : DepOf(i) = d /\ inst[i].status # "NONE"}

\* The instance the handler that holds d's project lock created last.
Newest(d) == <<d, Cardinality(Instances(d))>>

SetInst(i, s, w) == inst' = [inst EXCEPT ![i] = [status |-> s, worker |-> w]]

-----------------------------------------------------------------------------
(* Registry and scheduler                                                   *)

\* FeasibilityFilter.Filter for a runtime workload without label requirements.
\* Which feasible worker Rank prefers is left open.
Feasible == {w \in Workers : /\ w \notin draining
                             /\ health[w] # "UNHEALTHY"
                             /\ load[w] < Capacity}

\* UpdateWorkload: ActiveWorkloads never goes below zero.
AddLoad(w) == load' = [load EXCEPT ![w] = @ + 1]
DropLoad(w) == load' = [load EXCEPT ![w] = IF @ = 0 THEN 0 ELSE @ - 1]

-----------------------------------------------------------------------------
(* The worker's RPC handlers, one step per call                             *)

Listed(n) == n.cur # "none" \/ n.old
NameInUse(n) == NameConflict /\ Listed(n)

\* RunContainer: a no-op when the tracker says RUNNING; otherwise a new
\* container replaces the record, unless its name is still in use.
Ran(n) ==
    IF n.tracker = "RUNNING" THEN n
    ELSE IF NameInUse(n)
    THEN [tracker |-> "FAILED", cur |-> "none", old |-> TRUE]
    ELSE [tracker |-> "RUNNING", cur |-> "running", old |-> Listed(n)]

RunOk(n) == Ran(n).tracker = "RUNNING"

\* The image is rejected or no container is created: a FAILED record without one.
Refused(n) == [tracker |-> "FAILED", cur |-> "none", old |-> Listed(n)]

\* The container is created and does not start: it is left behind, on record.
Unstarted(n) == [tracker |-> "FAILED", cur |-> "exited", old |-> Listed(n)]

\* StopContainer: nothing without a record or when STOPPED; a container that
\* was removed makes docker stop fail and leaves the record STOPPING.
Stopped(n) ==
    IF n.tracker \in {"NONE", "STOPPED"} THEN n
    ELSE IF n.cur = "none" /\ n.tracker # "FAILED"
    THEN [n EXCEPT !.tracker = "STOPPING"]
    ELSE [n EXCEPT !.tracker = "STOPPED",
                   !.cur = IF @ = "running" THEN "exited" ELSE @]

Apply(w, i, n) == node' = [node EXCEPT ![w][i] = n]

Happens(e) == e \in Events /\ events < MaxEvents
Count == events' = events + 1

\* client.RunContainer(w, i) as the caller sees it: ok, refused, or an error
\* after which the worker may still carry the call out.
CallRun(w, i, ok) ==
    \/ /\ Apply(w, i, Ran(node[w][i]))
       /\ ok = RunOk(node[w][i])
       /\ UNCHANGED <<late, events>>
    \/ /\ Happens("runfail") /\ Count
       /\ node[w][i].tracker # "RUNNING"
       /\ Apply(w, i, Refused(node[w][i]))
       /\ ok = FALSE
       /\ UNCHANGED late
    \/ /\ Happens("startfail") /\ Count
       /\ node[w][i].tracker # "RUNNING" /\ ~NameInUse(node[w][i])
       /\ Apply(w, i, Unstarted(node[w][i]))
       /\ ok = FALSE
       /\ UNCHANGED late
    \/ /\ Happens("lost") /\ Count
       /\ late' = late \cup {<<w, i>>}
       /\ ok = FALSE
       /\ UNCHANGED node

\* client.StopContainer(w, i): no caller acts on its result.
CallStop(w, i) ==
    \/ Apply(w, i, Stopped(node[w][i])) /\ UNCHANGED events
    \/ Happens("lost") /\ Count /\ UNCHANGED node

-----------------------------------------------------------------------------
(* The environment                                                          *)

\* A call that timed out at its caller reaches the worker after all.
DeliverLate(w, i) ==
    /\ <<w, i>> \in late
    /\ late' = late \ {<<w, i>>}
    /\ Apply(w, i, Ran(node[w][i]))
    /\ UNCHANGED <<repoVars, fleetVars, routes, phase, events>>

\* ... or never does.
DropLate(w, i) ==
    /\ <<w, i>> \in late
    /\ late' = late \ {<<w, i>>}
    /\ UNCHANGED <<repoVars, fleetVars, routes, node, phase, events>>

ContainerExits(w, i) ==
    /\ Happens("exit") /\ Count
    /\ node[w][i].cur = "running"
    /\ Apply(w, i, [node[w][i] EXCEPT !.cur = "exited"])
    /\ UNCHANGED <<repoVars, fleetVars, routes, late, phase>>

ContainerRemoved(w, i) ==
    /\ Happens("remove") /\ Count
    /\ node[w][i].cur # "none"
    /\ Apply(w, i, [node[w][i] EXCEPT !.cur = "none"])
    /\ UNCHANGED <<repoVars, fleetVars, routes, late, phase>>

\* SetHealthWithReason, Heartbeat or Register change what the registry says.
HealthChanges(w, h) ==
    /\ Happens("health") /\ Count
    /\ health[w] # h
    /\ health' = [health EXCEPT ![w] = h]
    /\ UNCHANGED <<repoVars, draining, load, routes, nodeVars, phase>>

\* Drain
Drain(w) ==
    /\ Happens("drain") /\ Count
    /\ w \notin draining
    /\ draining' = draining \cup {w}
    /\ UNCHANGED <<repoVars, health, load, routes, nodeVars, phase>>

\* Undrain, or Register of a worker that comes back, which ends a drain as well.
Undrain(w) ==
    /\ Happens("undrain") /\ Count
    /\ w \in draining
    /\ draining' = draining \ {w}
    /\ UNCHANGED <<repoVars, health, load, routes, nodeVars, phase>>

Environment ==
    \E w \in Workers :
        \/ \E i \in Insts : \/ DeliverLate(w, i) \/ DropLate(w, i)
                            \/ ContainerExits(w, i) \/ ContainerRemoved(w, i)
        \/ \E h \in Healths : HealthChanges(w, h)
        \/ Drain(w) \/ Undrain(w)

-----------------------------------------------------------------------------
\* The running containers of a deployment, with their workers.
Running(d) == {x \in Workers \X Insts : DepOf(x[2]) = d /\ node[x[1]][x[2]].cur = "running"}

=============================================================================
