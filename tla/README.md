# Nebula control plane: TLA+ specifications

Nebula is a small container cloud: a control plane keeps deployments and their
instances in PostgreSQL, places them on worker agents over gRPC, repairs what
drifts and recovers after a crash. This directory models the parts of it whose
correctness depends on the order in which handlers, goroutines, worker calls and
restarts happen, checks them with TLC and proves the central properties with
TLAPS. Paths below are relative to `src/`.

## The system and its parts

| part | state | operations | hard behaviour |
|---|---|---|---|
| worker runtime (`internal/runtime`) | tracker records, reference-counted per-instance locks, the daemon's containers | RunContainer, StopContainer | duplicate and overlapping calls, faults after the work is done, containers that exit or are removed, agent restarts |
| deployment service (`internal/deployments/service.go`) | project locks, deployments, instances, releases | CreateAndDeploy, StopDeployment, Rollback, ScaleDeployment | handlers queueing for a project with reads made before the lock, partial placement, lost worker calls |
| status machine (`state_machine.go`) | a table of transitions | ValidateTransition | the service writes statuses without asking it |
| reconciliation (`internal/reconcile`) | a pass's snapshot and diff | ReconcileOnce, RepairMissing, EnforceOrphanPolicy, ReconcileDraining | takes no lock, acts on what it read earlier |
| crash recovery (`recovery.go`) | the stuck deployments | DetectStuckDeployments, RecoverDeployments, cleanupPartialContainers | may be interrupted itself, does not reach every worker |
| process (`cmd/control-plane/main.go`) | start-up phase | recovery, one pass, then the API | crash at any point |
| membership (`internal/workers`, `heartbeat`, `discovery`, `loadbalancer`) | registry and its table, endpoints, routes | Register, Heartbeat, Drain, timeout monitor, eviction | verdicts on stale copies, lost heartbeats, rows not written, restarts |
| leader election (`internal/ha`) | a lease, one elector per node | campaign loop, Stop, StepDown, RecordDecision | leases that run out unnoticed, other goroutines between the loop's steps |
| delivery (`internal/api`, `build`, `registry`) | idempotency entries, build loads, images | createDeployment, webhooks, builds, pushes, garbage collection | duplicates, killed builders, disconnecting clients, an unreliable registry |
| secrets (`internal/secrets`, `storage/secrets_repo.go`) and audit (`internal/observability/audit.go`) | rows, wrapped data keys, snapshots, a hash chain | set, rotate, re-wrap, snapshot, inject, append, verify | concurrent writers, half-finished re-wrapping, storage that was changed |
| autoscaler (`internal/autoscaler`) | policy, cooldown stamps | Evaluate, EvaluateAndScale | evaluations that overlap, rounding, odd bounds |
| backup (`internal/storage/backup/backup.go`) | base backup, WAL archive | CreateBaseBackup, RecordMutation, ArchiveWAL, Restore | writers between the reads of two tables, mutations that arrive out of order |

How they interact: an API handler takes its project's mutex, writes the
repositories, asks the scheduler for a worker and calls the worker's runtime.
The reconciliation loop reads the same repositories and workers without that
mutex, stops containers nobody wants, and runs instances that are missing. After
a restart, recovery fails the deployments that were in flight, a full pass runs,
and only then the API serves. Routes, workload counters and release records
live in memory and are lost in a restart. Workers register and send heartbeats;
the timeout monitor judges them and evicts the endpoints of those it finds dead.

## Modules

| module | models | extends |
|---|---|---|
| `ContainerOps` | worker runtime: one action per step of a gRPC handler between two points where another can intervene | |
| `DeploymentStatus` | statuses and the transition table | |
| `ClusterState` | what control-plane parts share: repositories, fleet, routes, and each worker as the control plane meets it | `DeploymentStatus` |
| `DeploymentService` | the API's deployment operations | `ClusterState` |
| `Reconciler` | the reconciliation loop | `ClusterState` |
| `Recovery` | start-up recovery | `ClusterState` |
| `ControlPlane` | the process: handlers, passes, recovery and crashes together | the three above |
| `WorkerRegistry` | the registry's cache and the workers table | |
| `Discovery` | endpoints and the routing table | `WorkerRegistry` |
| `Fleet` | heartbeat senders, gRPC service, timeout monitor, restarts, and the service and the loop as they start, route, announce and prune instances | `Discovery` |
| `Leadership` | what an elector promises | |
| `Election` | the electors over the lease store | (`INSTANCE Leadership`) |
| `Builds` | build placement, load charging, build workers | |
| `Images` | pushes, outages, recorded digests, garbage collection | `Builds` |
| `Delivery` | from an HTTP request to a deployment | `Images` |
| `AuditLog` | the hash chain | |
| `Secrets` | versions, snapshots, injection and keys of a secret; its handlers write the audit log | `AuditLog` |
| `Autoscaler` | decision, cooldowns, concurrent evaluations | |
| `Backup` | base backup, archive, point-in-time recovery | |
| `ContainerOps_proofs` | theorems about `ContainerOps` | |
| `Delivery_proofs` | theorems about `Delivery` and `Backup` | |
| `DeploymentService_proofs`, `Replicas_proofs` | the deployment service's invariants, action by action | `DeploymentService` |
| `Reconciler_proofs` | theorems about the reconciliation loop | `Reconciler` |
| `ControlPlane_proofs` | theorems about the process as a whole and about the service alone | `ControlPlane` and the three above |
| `Capacity_proofs` | theorems about `Fleet` and `Autoscaler` | |
| `Stores_proofs` | theorems about `Secrets`, `AuditLog` and `Election` | |
| `MC*` | constants and symmetries for TLC; `MCServices` puts delivery, secrets, audit, autoscaler and backup into one run | |

`PROJECT.json` maps every definition to its source lines.

**ContainerOps.** `LockInstance` is two steps on entry (`LockEnter` finds or
creates the `keyedLock` and takes a reference under the tracker's mutex,
`LockAcquire` takes the lock's own mutex) and two on exit (`Unlock`, `Deref`).
Lock objects are heap objects of their own, so a handler may wait on one that is
no longer in the map. Daemon calls are separate steps, and a fault returns an
error with the work done or not. `NameConflict` distinguishes the Docker client,
which names a container after its instance, from the mock, which does not.

**ClusterState.** A worker node carries out a call in one step; that is what
`ContainerOps` justifies, since calls of one instance exclude each other there.
A node keeps, per instance, the tracker's state, the container the record names
and whether earlier exited containers remain. `CallRun` of an instance that is not
RUNNING can be refused (`Refused`: the image is rejected or no container is created),
fail at the start (`Unstarted`: the new container is left behind), or be lost;
a lost call may be carried out later (`late`). A drain ends with `Undrain` or with a
registration. Ranking is abstracted to a free
choice among feasible workers. UNREACHABLE and partitioned workers are left out
of the healths; `Fleet` has them. Repository writes succeed; in `Delivery` they
fail when the request was cancelled.

**DeploymentService.** A handler is a thread with a position `pc`. `Call` is
everything up to the project's mutex, including the read that `Stop`, `Rollback`
and `Scale` make before it; the locals keep what was read. `StopCall` and
`StopRecord` are apart, because a pass can come between them, and the record
written back is the one read earlier. A build is a step that succeeds or fails.
Scale-down's unregistering, worker call and workload correction are one step.

**Reconciler.** A pass reads deployments, then instances, then one worker after
the other, computes the diff, and acts on it in the order of `ReconcileOnce`:
orphans, repairs, pruning, draining. Which of several running containers of one
instance matches is open, as is the order within each list. Extras of one
instance on one worker are one stop call, as repeated stops change nothing
more. The loop is modelled with a router set, as the tests set it up; the shipped
`main.go` sets none.

**Recovery and ControlPlane.** Recovery takes one deployment after the other:
stop containers on healthy workers, fail instances, fail the deployment. `Crash`
drops everything held in memory and may leave the worker calls of the handlers
(`HandlerCalls`) and one of the pass (`PassCalls`) under way.
Workers keep their addresses across a crash.

**WorkerRegistry, Discovery, Fleet.** The registry keeps a cache and the rows it
is warmed from; a heartbeat changes the cache at once and the row later, and any
row write may fail. Time is the number of heartbeat intervals since a worker's last
beat. The timeout monitor lists copies (`MonitorList`), then applies a verdict
(`MonitorApply`) and evicts endpoints (`MonitorEvict`) worker by worker, with
everything else in between. `byWorker` is a relation that keeps entries of
endpoints that have moved, as the code's index does. Three parties write the routing
table: discovery, the deployment service (`Route`, `Unroute`), which does not tell
discovery, and the loop (`Announce` through discovery, `Prune` in both). Addresses
are the worker's: the service routes to the application's port and the loop announces the
agent's, which the model does not tell apart. A migration touches neither.

**Leadership, Election.** `Leadership` has at most one leader and passes it on
only through a state with none. `Election` has a campaign loop per node (each
step of `campaignLoop` an action), and `Stop`, `StepDown` and `RecordDecision`
called by other goroutines between them. The store grants leases of `TTL` ticks;
a partitioned node cannot reach it. The refinement maps the leader to the nodes
that are in state LEADER, run, and were granted the lock at most `TTL` ago.

**Builds, Images, Delivery.** A request passes the idempotency table, queues for
its project's lock, builds on a charged worker, pushes, records the image and is
scheduled (one step with an outcome). Builders are killed, unregistered or
drained, the registry goes away, clients disconnect, after which the request's
database writes fail. Duplicates of a key wait for the first one's answer. A
collection keeps what the digest provider was given (`Referenced`), whatever the
deployments recorded: nothing in the program feeds the provider.

**AuditLog, Secrets.** A hash is the tuple of what it covers: the index, the entry's
fields joined into one text (`TextOf`, by which different fields may have the same
text), and the previous hash. A request reads
the data key, unwraps it, asks for the next version, inserts and is audited, in
steps; the unique index refuses a second row of one version and the request fails.
Re-wrapping goes key by key and may stop half way. Deployments snapshot the newest
row, or fail to and go on without; injection reads and unwraps its key later, instance
by instance, and an instance that a repair or a migration starts, or whose injection
fails, runs without (`RunPlain`).

**Autoscaler.** `Desired` is `CalculateDesiredReplicas` in integers, with ratios
cross-multiplied. The code computes in float64: where the exact value lies on the edge of
the deadband, or on a whole number of replicas reached through a ratio that is not whole,
the rounded one may fall on either side, and `InDeadband`, `Ceils` and `Floors` have
both outcomes. Tolerance is in percent, ten when it is left out. An evaluation reads policy
and stamps, decides, scales and stamps in four steps. Stamps are kept as ages.

**Backup.** A writer creates or changes a record, then draws an LSN, a timestamp, and
waits for the archive, with other writers in between; a base backup reads six tables one
after the other, any of which it may fail to read, and takes the base LSN last. A restore
wipes and fills the tables the backup has and replays what the archive has above the base
LSN up to the target time, in the order of arrival.

History variables (marked so in the modules) only record what properties speak about.

## Runs

| run | configuration | distinct states | properties |
|---|---|---|---|
| `runtime` | 3 callers, 1 instance, 4 calls; containers exit and are removed; no name conflicts | 19,692 (symmetry) | `OneRunning`, `StopEffective` |
| `runtime_faults` | 2 callers, 3 calls; also daemon faults and agent restarts; fair | 66,893 | `KeyMutex`, `LocksReclaimed`, `CallReturns` |
| `service` | 2 handlers, 4 calls of every operation, 3 deployments of one project, 2 replicas, a refused or lost call | 886,054 (symmetry) | `ReplicasServed`, `RollbackContinuity` |
| `reconcile` | 2 instances in every drifted state on 2 workers, two events: exit, removal, refusal, failed start, drain, undrain | 332,808 | `NoOvershoot`, `MigratesBeforeStop` |
| `reconcile_converge` | the same, where names conflict; two events: health, exit, lost, refused or failing calls; fair | 379,288 | `Converges` |
| `plane` | 2 handlers, 3 calls, 3 deployments, passes, 2 crashes | 1,010,369 (symmetry) | `InFlightOwned`, `OneInFlight`, `ProgressLegal`, `RunningBacked`, `NoDoubleCreate` |
| `plane_resolve` | 2 calls one after the other, 2 workers, two of: crash, lost call, drain; fair | 130,919 | `HandlersReturn`, `InterruptedResolved`, `OrphansStopped` |
| `election` | 2 electors, two of: partition, heal, stop, step-down; fair | 136,541 | `LeaseKept`, `ImplementsLeadership`, `LostLockFenced`, `LeaderEmerges` |
| `fleet` | 2 workers, 1 instance, two of: death, return, re-registration, drain, partition mark, failed write, lost heartbeat, launch, move, restart; fair | 512,948 | `DrainSurvives`, `RoutesAgree`, `UnhealthyEvicted`, `DeadWorkerDetected`, `LiveWorkerRecovers` |
| `services` | each service from its own initial state; fair handlers | 317,589 | `OncePerKey`, `LoadExact`, `NoneLeftInFlight`, `RequestsAnswered`; `RowsReadable`, `NoLostVersion`, `OneValuePerDeployment`; `TamperEvident`; `DecisionSound`, `CooldownKept`; `PointInTime` |
| `reconcile_removed` | | violation | `MissingRepaired` |
| `plane_in_flight` | | violation | `InFlightLeftAlone` |

What they show:

- **runtime** and **runtime_faults**: however runs and stops of an instance
  overlap, lock objects come and go exactly with their users, calls exclude each
  other, at most one container of the instance runs (gate G-09) and a stop that
  reports success is one. The mock client is the harder case for `OneRunning`,
  as the daemon's names do not help.
- **service**: between handlers, a RUNNING deployment has the replicas it asks
  for, wherever scale-ups and scale-downs failed half way; when a rollback gives up
  the superseded deployment, the one it has itself brought up is still RUNNING.
- **reconcile**: repairs of one pass add up correctly (G-11): they never exceed the
  count the pass read at its start. A container of a worker that is
  draining when its replacement is chosen goes to another worker, and is stopped only once it is
  on record there (DRN-02), while workers are drained and undrained during the pass. **reconcile_converge**: passes end with exactly
  the replicas asked for, and never with more; with fewer only while a dead container
  occupies the name of a missing one on a worker the repair may choose (`Blocked`).
- **plane**: with passes and crashes in between, an in-flight deployment always
  has its handler under the project's lock or the process is recovering; recovery and
  handlers follow the transition table except for STOPPED and ROLLED_BACK, which
  are written without it and which `ProgressLegal` leaves out; a pass creates nothing
  for a deployment in flight (RACE-04).
- **plane_resolve**: interrupted deployments end FAILED (G-16 to G-19), and
  whatever was left running or started late is stopped in the end, though not
  before the API serves.
- **election**: no running elector loses the lock within its lease; the electors
  implement `Leadership`; a leader that lost the lock to another node steps
  down; as long as a running, connected node remains, a leader emerges.
- **fleet**: a worker an operator drained gets no work until it is undrained or registers
  again, over restarts too (with two events the run does not reach a drain, a
  verdict and a restart together; the theorem does); an instance discovery knows is routed
  only where discovery has it, and only while healthy; dead workers are found and their
  endpoints evicted; live workers are trusted again. The properties hold with the exceptions their
  comments state, which are listed below as divergences.
- **services**: one deployment per idempotency key (RACE-02), exact build loads,
  and answers for every request, deployments resolved unless the client disconnected;
  every secret row readable through key rotation (G-37), no acknowledged version lost, one value for all instances of a deployment that get one
  (SEC-04); the audit chain notices changes of an entry's text (G-40); the autoscaler's
  decisions and cooldowns (G-32); restores to a point in time.

The two violations are listed under `findings` in `PROJECT.json`: a container removed
with `docker rm -f` is never recreated, because the worker's tracker answers the
repair with its stale RUNNING record; a pass takes the containers of a deployment
being brought up for orphans and stops them.

**Bounds.** Two handlers suffice for every pairwise race on a project's lock;
three callers on a worker let a lock object be deleted and created anew while
one waits. Three deployment ids are a release, its successor and the one a
rollback creates. Two replicas distinguish "some" from "all" in placing,
repairing and scaling. Events are bounded by `MaxEvents`, calls by `MaxCalls`,
instances by `MaxInst`: a scale-up that would need more records than that is not
taken. One project is enough, as locks of different projects never meet; the
theorems cover any number. `Capacity` is large where placement failures are not
the question. In `election` two nodes are a leader and its successor, `MaxFaults`
two is a failover and a fault during it. In `fleet` two workers let an endpoint
move. In `services`: three requests (two duplicates, a third that deploys the first one's
image), of which the collection's provider knows one, one builder of capacity 1 that fills up, `MaxUpsets` 1; two writers of a secret and one
deployment, two master and two data keys (`MaxMasters`, `MaxDEKs`); four audit
entries (`MaxEntries`), of which two field values share a text; two evaluations, metrics
well below and above the target and on the edges of the deadband, a
policy with its minimum left out and one with swapped bounds, users scaling up to
`MaxReplicas` 4, so that counts outside the bounds occur; five writers of three
records: a deployment (replaced by replay), an event (added to) and a project (created once),
two writers at a time. The
theorems below lift most of these bounds.

Model checking is with deadlock detection wherever a loop runs; the service, the
runtime and the services stop when their calls are used up. `MCServices` picks one part per
behaviour: the parts share no state, so a product would add interleavings and
nothing else.

**Fairness.** Weak fairness of each handler (a goroutine is not descheduled for
ever), of the reconciliation loop, of start-up, and of delivering or dropping
calls in flight. The runtime's and the service's mutexes need no strong fairness: the
number of calls is bounded, so nobody is overtaken for ever. `Delivery` has strong
fairness of taking the project's lock, since Go's mutex hands itself to a waiter that
starves. `Election`: time, the loops and started calls go on; strong fairness of `LoopExit`, since
`select` chooses at random among ready cases and so does not ignore a closed channel
for ever. `Fleet`: heartbeats that are not lost arrive within their interval,
and the monitor's ticker fires. No environment event is fair.

## What is proved

For all values of the constants. Each proof module states its inductive invariant
first, then one step per action.

`ContainerOps_proofs`:

- `TypeCorrect`, `Exclusion` (`KeyMutex`) and `Reclamation` (`LocksReclaimed`),
  with faults and restarts. `KeyMutex` alone is not inductive. The invariant
  `LockInv` adds that every handler between entering and leaving refers to the
  lock object that the map holds for its instance, that `refCount` is the number of
  those handlers, and that a handler in its critical section holds that object's
  mutex. Hence an entry is deleted only with its last user.
- `OneRunningHolds` and `StopEffectiveHolds`, for agents without daemon faults
  and restarts (`NoFaults`). `RunInv` ties each running container to the
  instance's record or to the handler that holds the lock and is starting it.

`ControlPlane_proofs`, for any projects, deployments, handlers, workers, replica
counts, passes and crashes:

- `InFlightIsOwned`, `DeploysSerialized` (`OneInFlight`), `ProgressIsLegal`, `RollbackContinues`, `RunningStaysBacked`
  (`RunningBacked`), `RepairsOnlyAtRest` (`NoDoubleCreate`) and `TypesHold`. The inductive
  invariant `OwnInv` has four parts. `SvcInv` says which handler holds which lock at
  each position, that its deployment exists and has the status its position implies, and
  that a rollback's superseded deployment is another one at rest. `BackInv` says that
  instances are numbered without gaps, that a handler bringing up a deployment has
  started each of them but the one in hand, and that one that stops instances has only
  its target's on its list. `StartUp` says where recovery stands. `PassInv` says what the
  pass under way holds: it repairs and prunes only what belongs to a deployment at rest.
  The lemma `ThreadStep` carries the argument for the statuses: a handler that changes
  only its own deployment and its project's lock preserves `SvcInv`, because everyone
  else at work on an in-flight deployment holds another project's lock. Passes take no
  lock and rewrite instance records under the handlers' feet; `Rewrites` says how far
  (`AtRest`, or as RUNNING on another worker), which is why `BackInv` survives them.
  Recovery runs without handlers; a crash leaves everything to recovery.
- `ReplicasStayServed` (`ReplicasServed`), about the service alone, while no container
  dies by itself (`Undying`: neither exits nor removals are among the events; a handler
  that has returned cannot keep a container alive). Calls may fail, be lost or be
  delivered late. `SrvInv` says that a worker's tracker agrees with its containers; that
  a RUNNING deployment nobody scales or stops serves all it asks for; that a scale-up has
  kept what was served, and with what it will still start reaches its target; and that a
  scale-down leaves at least its target outside its list. A scale that fails half way
  then returns with the old count still served, or the new one.
- `RunningIsBacked`, the same as `RunningStaysBacked` for the service alone, from its own
  initial state.

The lemmas for single handler steps are in `DeploymentService_proofs` and
`Replicas_proofs`. They need a few laws about the sizes of finite sets; those are collected
in `Counting`, proved as `CountingLaws` in `ControlPlane_proofs`, and carried by the
invariant.

`Reconciler_proofs`, about the loop alone, from any drifted state:

- `StopsAfterStart` (`MigratesBeforeStop`), with every event, by `Started`: between its two
  calls a pass that moves an instance has it on record at the worker it moves to, which was
  feasible, hence not draining, when it was chosen.
- `RepairsDoNotOvershoot` (`NoOvershoot`), while workers answer and stay healthy
  (`Reachable`: no health changes and no lost calls are among the events; after a lost call
  a container may run that no pass has counted). `CountInv` says that a pass holds every
  instance at most once among those that match, those it repaired, the one in hand and
  those still missing, and that everything running was seen by it or started by it. The
  count a repair is based on is then the number of running containers, at most
  `InstanceCount`.

`Stores_proofs`, about `Election`, for any nodes, lease length and number of faults:

- `LeaseKeptHolds`, by `LeaseInv`: the store's age is that of the owner's last grant, and
  only a stopped node releases.
- `Refinement`: `Election` implements `Leadership`. Two valid leaders would both be
  the owner; a promotion finds no other valid leader, since the node owns the lock.
- `LateDecisions`: a decision recorded after the test of `IsLeader` finds another valid
  leader only when the recorder's own lease has run out.

`Capacity_proofs`, about `Fleet`, for any workers, instances, thresholds and events:

- `DrainSurvivesHolds`, `RoutesAgreeHolds`, `UnhealthyEvictedHolds`, by `FleetInv`, which
  adds that a drain is in the cache and, unless its write failed, in the table (`Durable`: later
  verdicts write the row back from the cache); that every endpoint is listed under its worker
  (`Indexed`), on which eviction relies; and that discovery knows only what was launched
  (`Unannounced`), so that the service routes no instance discovery has elsewhere.

`Delivery_proofs`, for any requests, keys, builders and upsets:

- `DeploysOnce` (`OncePerKey`) and `AllResolved` (`NoneLeftInFlight`), by `HandlerInv`: each key's
  entry names the one request that got past it, and every other request of the
  key has no record and gets that entry's answer.
- `LoadsExact`, by `LoadInv`: a request that is charged has a builder, and the load is
  the cardinality of those requests.

`Stores_proofs`, about `Secrets` and `AuditLog`, for any writers, deployments and rotations:

- `AlwaysReadable`, `VersionsKept`, `OneValue`, by `StoreInv`: each data key is wrapped under
  the master key recorded for it, versions are unique, a request between its steps
  holds a matching pair of key and id, an answered request has its row, and what an instance
  was given is the value of its deployment's snapshot, whose row stays.
- `TamperSeen` (`TamperEvident`) for logs of any length, by `LogInv`: while nothing was changed every
  entry matches its position, its predecessor and its hash; afterwards some entry has
  a wrong index or a wrong hash, which later appends leave in place.

`Capacity_proofs`, about `Autoscaler`, for any policies, metrics, target and windows:

- `DecisionsSound`: the decision is the rounded-up (or down) share of the load, cut off at
  the bound, up to one replica where floating-point rounding decides. It rests on lemmas about `\div` (`DivBounds`, `CeilBounds`), by which
  the code's minimum step of one replica never matters.
- `CooldownsKept`, by `ScalerInv`: a stamp lags behind what was scaled only while
  the request that scaled is about to stamp, and a request that nobody
  overlaps is the only one under way.

`Delivery_proofs`, about `Backup`, for any writers, records and tables:

- `RestoreIsPointInTime` (`PointInTime`), by `BackupInv`: a record that was not overlapped is
  archived in the order of its writes (`Serial`), the repositories hold the last write
  (`Stored`), the backup the last one it read of each table (`Copied`), and what a finished
  backup does not hold has an LSN above its base or was missed (`Covered`).

Assumptions: those named `...Assumption` in the modules (sentinels are not
members, bounds are naturals, callers and workers are finite), which TLC evaluates in the runs.

Only model-checked: the liveness properties (`CallReturns`, `Converges`,
`HandlersReturn`, `InterruptedResolved`, `OrphansStopped`, `LostLockFenced`,
`LeaderEmerges`, `DeadWorkerDetected`, `LiveWorkerRecovers`, `RequestsAnswered`), which TLAPS does not
handle. Every invariant and action property of the passing runs is also a theorem, some under the
hypotheses named above (`NoFaults`, `Undying`, `Reachable`), which the runs' events satisfy.

## Divergences noted without a run

Deployments and workers:

- `Rollback` (`service.go:938`) decides on a status read before the lock: two rollbacks of
  one deployment both run. A crash between its two last writes leaves both
  deployments RUNNING (`service.go:1010`).
- `StopDeployment` (`service.go:881-920`) writes STOPPED whatever the status,
  FAILED and ROLLED_BACK included, though the table of `state_machine.go` has no such
  edge.
- `ScaleDeployment` (`service.go:1105-1114`) tests RUNNING before the lock only;
  queued behind a stop it starts containers of a stopped deployment. The next
  pass stops them.
- `StopDeployment`, `Rollback` and repairs do not correct `ActiveWorkloads`
  (`workers/model.go:48`), so workers look fuller than they are.
- A create that fails after the daemon made the container leaves a record
  without its id (`container_ops.go:171-192`); a later stop succeeds and stops nothing.
- `cleanupPartialContainers` (`recovery.go:207`) skips workers that are not
  HEALTHY: containers of a failed deployment survive recovery until a pass
  reaches the worker.
- A pass that read `InstanceCount` before a scale-down repairs up to the old
  count (`loop.go:257`); `NoOvershoot` is about the count it read.
- A worker undrained after a pass listed it as draining may be chosen for its own
  container, which the pass then stops (`loop.go:450-485`).
- A migrated instance keeps its route to the old worker (`loop.go:472-490`).
- An exited container is listed as extra and its name stays in use, so on Docker
  the repair on the same worker is refused every time (`repair.go:144`).

Membership and election:

- An endpoint that moved stays listed under its old worker (`service_registry.go:50`), whose
  eviction then removes the live route; the comment at `:144` expects only that
  worker's endpoints.
- Routes of the service have no endpoint (`service.go:839`, `:1231`): evicting a dead worker
  leaves them, and a restart forgets all routes, which nothing rebuilds.
- An endpoint announced after its worker was evicted stays routed to it (`timeout_monitor.go:88`).
- The monitor's verdict may overwrite a newer heartbeat or registration
  (`timeout_monitor.go:86`) and skips the hysteresis of `health.go:41-47`.
- A registration, or a stale HEALTHY verdict, after `SetPartitioned(true)` leaves a worker HEALTHY and marked
  partitioned, which the monitor then skips (`timeout_monitor.go:71`).
- The filter excludes UNHEALTHY workers only (`filter.go:43`), `schedulability.go:20` more.
- `GRPCPort`, the beat count and the partition mark are not stored
  (`workers_repo.go:33`). A worker unknown after a restart is told `Success: false` and does not
  register again (`sender.go:78`). Registering again ends a drain (`registry.go:100-102`).
- `Stop` of an elector "releases advisory locks immediately" (`election.go:245`); racing
  the loop, it may leave the stopped elector LEADER, or the loop takes the lock again before the release.

Services:

- Collection "never selects a digest still referenced by any deployment record"
  (`gc_policy.go:93`), but it asks a provider that only tests fill (`:48`): the image of a deployment
  on record is deleted, also one pushed after the references were read. The embedded server's
  collection keeps manifests but not their layers (`gc.go:70-76`).
- Idempotency keys are shared by all projects; errors, a cancelled request's 502 included, are cached
  for ever; a panic leaves the entry in flight.
- When secrets cannot be injected the instance runs without them (`service.go:759-763`), and so does
  every instance that is repaired or migrated (`repair.go:144`, `loop.go:456`).
  `GenerateAndWrapKey` with an existing version overwrites its data key (`kms.go:187`); the
  constructor calls it with version 1, so after a restart the rows written before cannot be read.
- The audit chain does not notice that its last entries are missing, nor a change that leaves the
  joined text as it was (`audit.go:61-75`).
- The autoscaler "enforces minimum replica floor, maximum ceiling" (`policy.go:65-66`); the code
  enforces the one in the direction of the step (`:92-125`): scaling up from below the floor may stay below
  it, and inside the deadband nothing is corrected. From above the ceiling, SCALE_UP reduces.
  Overlapping evaluations both pass the cooldown. A scale-up that fails half way is not stamped.
- "A full consistent snapshot of all repository tables" (`backup.go:126`): a mutation
  applied after its table was read, with an LSN below the base, is lost. Workers are
  backed up but not restored; releases are not replayed; a project that exists is not
  replaced; an event may come back twice. Replay follows the order of arrival, not the LSNs
  (`backup.go:310`), and would create the record of a DELETE again; no caller records one.

## Not modelled

Contents of requests, events, metrics, logs, credentials and images; failing
repository writes outside `Delivery` and `Fleet`; containers without Nebula labels
(only flagged by the code); the cycle timeout; graceful shutdown; the Postgres
lock provider, which has no lease; the embedded image server and the remote registry client (HTTP
transport); round-robin selection and proxying; certificates; generated
code. Components without a module are listed with reasons in `PROJECT.json`.
`main.go` wires neither the autoscaler nor the elector nor the timeout monitor; they
are modelled as the tests use them, as are the KMS key provider and the recording of mutations
for backups. Instance keys are distinct in the models; the code's may collide
(`service.go:1146`). Idempotency keys are in memory: a restart forgets them, and
`OncePerKey` is about one process. Image signatures only matter as a reason to refuse a run.
Of backups, the in-memory manager with one base backup is modelled, not the one that runs `pg_dump`.

## Plan

1. `Fleet` as a refinement of the health changes and drains `ClusterState` allows.
2. A container service that promises one container per instance, implemented by
   `ContainerOps`; a deployment lifecycle implemented by `ControlPlane`.
3. Failing repository writes in `DeploymentService` and `Reconciler`.
4. `ComputeDiff` and the ranking against reference definitions.
5. Proofs of the refinements of 1 and 2.
