---------------------------- MODULE ContainerOps ----------------------------
(***************************************************************************)
(* The container runtime of one worker agent: ContainerOps                 *)
(* (internal/runtime/container_ops.go), the InstanceTracker with its       *)
(* reference-counted per-instance locks (internal/runtime/idempotency.go)  *)
(* and the Docker daemon behind the DockerClient interface                 *)
(* (internal/runtime/docker_client.go).                                    *)
(*                                                                         *)
(* Concurrent gRPC handlers ("callers") run RunContainer and StopContainer *)
(* for instance identities.  One action is one step a handler takes        *)
(* between two points where another handler, or the daemon, can intervene. *)
(***************************************************************************)
EXTENDS Naturals, FiniteSets

CONSTANTS
    Instances,     \* instance identities (InstanceKey)
    Callers,       \* concurrent gRPC handler goroutines
    LockObjects,   \* heap objects of type keyedLock
    Containers,    \* Docker container ids
    NoLock, NoCaller, NoInstance, NoContainer,
    NameConflict,  \* TRUE: RealDockerClient, which names a container after its
                   \* instance, so the daemon refuses a second one of that name
    Events,        \* what the environment may do, a subset of EventKinds
    MaxCalls       \* bound on the number of calls

\* exit: a container's process ends; remove: an operator's docker rm -f;
\* fault: a daemon call returns an error (refused, or its context expired
\* with the work done or not); restart: the agent process restarts.
EventKinds == {"exit", "remove", "fault", "restart"}

ASSUME ConstantsAssumption ==
    /\ IsFiniteSet(Callers)
    /\ NoLock \notin LockObjects
    /\ NoCaller \notin Callers
    /\ NoInstance \notin Instances
    /\ NoContainer \notin Containers
    /\ NameConflict \in BOOLEAN
    /\ Events \subseteq EventKinds
    /\ MaxCalls \in Nat

VARIABLES
    keyLocks,   \* InstanceTracker.keyLocks: Instances -> keyedLock or absent
    refCount,   \* keyedLock.refCount
    holder,     \* keyedLock.mu: the caller that holds the mutex
    records,    \* InstanceTracker.records
    docker,     \* the daemon's containers
    pc, op, inst, kl, ctr, result,   \* each caller's position and locals
    calls       \* calls made so far

lockVars == <<keyLocks, refCount, holder>>
callVars == <<op, inst, kl, calls>>
vars == <<keyLocks, refCount, holder, records, docker, pc, op, inst, kl, ctr,
          result, calls>>

States == {"NONE", "STARTING", "RUNNING", "STOPPING", "STOPPED", "FAILED"}
ContainerStates == {"unused", "created", "running", "exited", "removed"}
PCs == {"idle", "enter", "acquire", "check", "create", "start", "started",
        "stop", "stopped", "unlock", "deref"}
\* between LockInstance's return and the deferred unlock
CriticalPCs == {"check", "create", "start", "started", "stop", "stopped", "unlock"}
NoRecord == [state |-> "NONE", ctr |-> NoContainer]

TypeOK ==
    /\ keyLocks \in [Instances -> LockObjects \cup {NoLock}]
    /\ refCount \in [LockObjects -> Nat]
    /\ holder \in [LockObjects -> Callers \cup {NoCaller}]
    /\ records \in [Instances -> [state: States, ctr: Containers \cup {NoContainer}]]
    /\ docker \in [Containers ->
                     [state: ContainerStates, inst: Instances \cup {NoInstance}]]
    /\ pc \in [Callers -> PCs]
    /\ op \in [Callers -> {"run", "stop"}]
    /\ inst \in [Callers -> Instances \cup {NoInstance}]
    /\ kl \in [Callers -> LockObjects \cup {NoLock}]
    /\ ctr \in [Callers -> Containers \cup {NoContainer}]
    /\ result \in [Callers -> {"none", "ok", "error"}]
    /\ calls \in 0..MaxCalls

Init ==
    /\ keyLocks = [i \in Instances |-> NoLock]
    /\ refCount = [o \in LockObjects |-> 0]
    /\ holder = [o \in LockObjects |-> NoCaller]
    /\ records = [i \in Instances |-> NoRecord]
    /\ docker = [c \in Containers |-> [state |-> "unused", inst |-> NoInstance]]
    /\ pc = [t \in Callers |-> "idle"]
    /\ op = [t \in Callers |-> "run"]
    /\ inst = [t \in Callers |-> NoInstance]
    /\ kl = [t \in Callers |-> NoLock]
    /\ ctr = [t \in Callers |-> NoContainer]
    /\ result = [t \in Callers |-> "none"]
    /\ calls = 0

-----------------------------------------------------------------------------
(* InstanceTracker.LockInstance and the unlock function it returns          *)

\* A handler is invoked with a non-empty instance id.
Call(t, o, i) ==
    /\ pc[t] = "idle"
    /\ calls < MaxCalls
    /\ pc' = [pc EXCEPT ![t] = "enter"]
    /\ op' = [op EXCEPT ![t] = o]
    /\ inst' = [inst EXCEPT ![t] = i]
    /\ result' = [result EXCEPT ![t] = "none"]
    /\ calls' = calls + 1
    /\ UNCHANGED <<lockVars, records, docker, kl, ctr>>

\* A keyedLock object no map entry and no caller refers to: what &keyedLock{}
\* can return.
FreeLock(o) ==
    /\ \A i \in Instances : keyLocks[i] # o
    /\ \A t \in Callers : kl[t] # o

\* Under keyLockMu: find or create the instance's lock and take a reference.
LockEnter(t) ==
    /\ pc[t] = "enter"
    /\ \E o \in LockObjects :
         /\ IF keyLocks[inst[t]] # NoLock THEN o = keyLocks[inst[t]] ELSE FreeLock(o)
         /\ keyLocks' = [keyLocks EXCEPT ![inst[t]] = o]
         /\ refCount' = [refCount EXCEPT
                           ![o] = (IF keyLocks[inst[t]] # NoLock THEN @ ELSE 0) + 1]
         /\ kl' = [kl EXCEPT ![t] = o]
    /\ pc' = [pc EXCEPT ![t] = "acquire"]
    /\ UNCHANGED <<holder, records, docker, op, inst, ctr, result, calls>>

\* kl.mu.Lock()
LockAcquire(t) ==
    /\ pc[t] = "acquire"
    /\ holder[kl[t]] = NoCaller
    /\ holder' = [holder EXCEPT ![kl[t]] = t]
    /\ pc' = [pc EXCEPT ![t] = "check"]
    /\ UNCHANGED <<keyLocks, refCount, records, docker, callVars, ctr, result>>

\* Mutant: the deferred function never unlocks the mutex.
Unlock_Kept(t) ==
    /\ pc[t] = "unlock"
    /\ pc' = [pc EXCEPT ![t] = "deref"]
    /\ UNCHANGED <<lockVars, records, docker, callVars, ctr, result>>

\* The deferred unlock, first half: kl.mu.Unlock().
Unlock(t) ==
    /\ pc[t] = "unlock"
    /\ holder' = [holder EXCEPT ![kl[t]] = NoCaller]
    /\ pc' = [pc EXCEPT ![t] = "deref"]
    /\ UNCHANGED <<keyLocks, refCount, records, docker, callVars, ctr, result>>

\* Mutant: the map entry is deleted with every reference, not only the last.
Deref_AlwaysDelete(t) ==
    /\ pc[t] = "deref"
    /\ refCount' = [refCount EXCEPT ![kl[t]] = @ - 1]
    /\ keyLocks' = [keyLocks EXCEPT ![inst[t]] = NoLock]
    /\ kl' = [kl EXCEPT ![t] = NoLock]
    /\ ctr' = [ctr EXCEPT ![t] = NoContainer]
    /\ pc' = [pc EXCEPT ![t] = "idle"]
    /\ UNCHANGED <<holder, records, docker, op, inst, result, calls>>

\* Mutant: the count is tested before it is decremented.
Deref_OffByOne(t) ==
    /\ pc[t] = "deref"
    /\ refCount' = [refCount EXCEPT ![kl[t]] = @ - 1]
    /\ keyLocks' = IF refCount[kl[t]] = 0
                     THEN [keyLocks EXCEPT ![inst[t]] = NoLock]
                     ELSE keyLocks
    /\ kl' = [kl EXCEPT ![t] = NoLock]
    /\ ctr' = [ctr EXCEPT ![t] = NoContainer]
    /\ pc' = [pc EXCEPT ![t] = "idle"]
    /\ UNCHANGED <<holder, records, docker, op, inst, result, calls>>

\* Second half, under keyLockMu: drop the reference, delete the map entry with
\* the last one.
Deref(t) ==
    /\ pc[t] = "deref"
    /\ refCount' = [refCount EXCEPT ![kl[t]] = @ - 1]
    /\ keyLocks' = IF refCount[kl[t]] = 1
                     THEN [keyLocks EXCEPT ![inst[t]] = NoLock]
                     ELSE keyLocks
    /\ kl' = [kl EXCEPT ![t] = NoLock]
    /\ ctr' = [ctr EXCEPT ![t] = NoContainer]
    /\ pc' = [pc EXCEPT ![t] = "idle"]
    /\ UNCHANGED <<holder, records, docker, op, inst, result, calls>>

-----------------------------------------------------------------------------
(* The Docker daemon                                                        *)

Present(i) == {c \in Containers : /\ docker[c].inst = i
                                  /\ docker[c].state \in {"created", "running", "exited"}}

Running(i) == {c \in Containers : /\ docker[c].inst = i
                                  /\ docker[c].state = "running"}

\* The daemon refuses a container name that is in use.
NameTaken(i) == NameConflict /\ Present(i) # {}

-----------------------------------------------------------------------------
(* ContainerOps.RunContainer                                                *)

Finish(t, r) ==
    /\ pc' = [pc EXCEPT ![t] = "unlock"]
    /\ result' = [result EXCEPT ![t] = r]

\* The tracker says RUNNING or STARTING: a no-op duplicate invocation.
RunDuplicate(t) ==
    /\ pc[t] = "check" /\ op[t] = "run"
    /\ records[inst[t]].state \in {"RUNNING", "STARTING"}
    /\ Finish(t, "ok")
    /\ UNCHANGED <<lockVars, records, docker, callVars, ctr>>

\* The image verifier rejects the image: FAILED, no container id.
RunRejected(t) ==
    /\ pc[t] = "check" /\ op[t] = "run"
    /\ records[inst[t]].state \notin {"RUNNING", "STARTING"}
    /\ records' = [records EXCEPT ![inst[t]] = [state |-> "FAILED", ctr |-> NoContainer]]
    /\ Finish(t, "error")
    /\ UNCHANGED <<lockVars, docker, callVars, ctr>>

\* Mutant: the duplicate test looks for STARTING only.
RunMarkStarting_Rerun(t) ==
    /\ pc[t] = "check" /\ op[t] = "run"
    /\ records[inst[t]].state # "STARTING"
    /\ records' = [records EXCEPT ![inst[t]] = [state |-> "STARTING", ctr |-> NoContainer]]
    /\ pc' = [pc EXCEPT ![t] = "create"]
    /\ UNCHANGED <<lockVars, docker, callVars, ctr, result>>

\* Verified (or no verifier configured): a fresh STARTING record replaces the
\* old one, and with it the old container id.
RunMarkStarting(t) ==
    /\ pc[t] = "check" /\ op[t] = "run"
    /\ records[inst[t]].state \notin {"RUNNING", "STARTING"}
    /\ records' = [records EXCEPT ![inst[t]] = [state |-> "STARTING", ctr |-> NoContainer]]
    /\ pc' = [pc EXCEPT ![t] = "create"]
    /\ UNCHANGED <<lockVars, docker, callVars, ctr, result>>

RunCreate(t) ==
    /\ pc[t] = "create"
    /\ ~NameTaken(inst[t])
    /\ \E c \in Containers :
         /\ docker[c].state = "unused"
         /\ docker' = [docker EXCEPT ![c] = [state |-> "created", inst |-> inst[t]]]
         /\ ctr' = [ctr EXCEPT ![t] = c]
    /\ pc' = [pc EXCEPT ![t] = "start"]
    /\ UNCHANGED <<lockVars, records, callVars, result>>

\* CreateContainer returns an error: the name is taken, or a fault, after which
\* the daemon may or may not have created the container.
RunCreateFails(t) ==
    /\ pc[t] = "create"
    /\ NameTaken(inst[t]) \/ "fault" \in Events
    /\ \/ UNCHANGED docker
       \/ /\ ~NameTaken(inst[t])
          /\ \E c \in Containers :
               /\ docker[c].state = "unused"
               /\ docker' = [docker EXCEPT ![c] = [state |-> "created", inst |-> inst[t]]]
    /\ records' = [records EXCEPT ![inst[t]] = [state |-> "FAILED", ctr |-> NoContainer]]
    /\ Finish(t, "error")
    /\ UNCHANGED <<lockVars, callVars, ctr>>

RunStart(t) ==
    /\ pc[t] = "start"
    /\ docker[ctr[t]].state = "created"
    /\ docker' = [docker EXCEPT ![ctr[t]].state = "running"]
    /\ pc' = [pc EXCEPT ![t] = "started"]
    /\ UNCHANGED <<lockVars, records, callVars, ctr, result>>

\* StartContainer returns an error: the container was removed meanwhile, or a
\* fault.  The record keeps the container id; the container stays behind.
RunStartFails(t) ==
    /\ pc[t] = "start"
    /\ docker[ctr[t]].state # "created" \/ "fault" \in Events
    /\ \/ UNCHANGED docker
       \/ /\ docker[ctr[t]].state = "created"
          /\ docker' = [docker EXCEPT ![ctr[t]].state = "running"]
    /\ records' = [records EXCEPT ![inst[t]] = [state |-> "FAILED", ctr |-> ctr[t]]]
    /\ Finish(t, "error")
    /\ UNCHANGED <<lockVars, callVars, ctr>>

\* Mutant: the RUNNING record does not keep the container id.
RunRecord_NoId(t) ==
    /\ pc[t] = "started"
    /\ records' = [records EXCEPT ![inst[t]] = [state |-> "RUNNING", ctr |-> NoContainer]]
    /\ Finish(t, "ok")
    /\ UNCHANGED <<lockVars, docker, callVars, ctr>>

RunRecord(t) ==
    /\ pc[t] = "started"
    /\ records' = [records EXCEPT ![inst[t]] = [state |-> "RUNNING", ctr |-> ctr[t]]]
    /\ Finish(t, "ok")
    /\ UNCHANGED <<lockVars, docker, callVars, ctr>>

-----------------------------------------------------------------------------
(* ContainerOps.StopContainer                                               *)

\* No record, or already STOPPED: success without a word to the daemon.
StopNothing(t) ==
    /\ pc[t] = "check" /\ op[t] = "stop"
    /\ records[inst[t]].state \in {"NONE", "STOPPED"}
    /\ Finish(t, "ok")
    /\ UNCHANGED <<lockVars, records, docker, callVars, ctr>>

StopMarkStopping(t) ==
    /\ pc[t] = "check" /\ op[t] = "stop"
    /\ records[inst[t]].state \notin {"NONE", "STOPPED"}
    /\ records' = [records EXCEPT ![inst[t]].state = "STOPPING"]
    /\ ctr' = [ctr EXCEPT ![t] = records[inst[t]].ctr]
    /\ pc' = [pc EXCEPT ![t] = IF records[inst[t]].ctr = NoContainer
                                 THEN "stopped" ELSE "stop"]
    /\ UNCHANGED <<lockVars, docker, callVars, result>>

\* docker stop of a container that is not running succeeds and changes nothing.
StopDocker(t) ==
    /\ pc[t] = "stop"
    /\ docker[ctr[t]].state \in {"created", "running", "exited"}
    /\ docker' = [docker EXCEPT ![ctr[t]].state = IF @ = "running" THEN "exited" ELSE @]
    /\ pc' = [pc EXCEPT ![t] = "stopped"]
    /\ UNCHANGED <<lockVars, records, callVars, ctr, result>>

\* docker stop returns an error: no such container, or a fault, after which the
\* container may or may not have stopped.  The record stays STOPPING.
StopDockerFails(t) ==
    /\ pc[t] = "stop"
    /\ docker[ctr[t]].state = "removed" \/ "fault" \in Events
    /\ \/ UNCHANGED docker
       \/ /\ docker[ctr[t]].state = "running"
          /\ docker' = [docker EXCEPT ![ctr[t]].state = "exited"]
    /\ Finish(t, "error")
    /\ UNCHANGED <<lockVars, records, callVars, ctr>>

StopRecord(t) ==
    /\ pc[t] = "stopped"
    /\ records' = [records EXCEPT ![inst[t]].state = "STOPPED"]
    /\ Finish(t, "ok")
    /\ UNCHANGED <<lockVars, docker, callVars, ctr>>

-----------------------------------------------------------------------------
(* The environment                                                          *)

ContainerExits(c) ==
    /\ "exit" \in Events
    /\ docker[c].state = "running"
    /\ docker' = [docker EXCEPT ![c].state = "exited"]
    /\ UNCHANGED <<lockVars, records, pc, callVars, ctr, result>>

ContainerRemoved(c) ==
    /\ "remove" \in Events
    /\ docker[c].state \in {"created", "running", "exited"}
    /\ docker' = [docker EXCEPT ![c].state = "removed"]
    /\ UNCHANGED <<lockVars, records, pc, callVars, ctr, result>>

\* The agent's memory is lost, the tracker with it; the containers live on.
AgentRestart ==
    /\ "restart" \in Events
    /\ keyLocks' = [i \in Instances |-> NoLock]
    /\ refCount' = [o \in LockObjects |-> 0]
    /\ holder' = [o \in LockObjects |-> NoCaller]
    /\ records' = [i \in Instances |-> NoRecord]
    /\ pc' = [t \in Callers |-> "idle"]
    /\ kl' = [t \in Callers |-> NoLock]
    /\ ctr' = [t \in Callers |-> NoContainer]
    /\ result' = [t \in Callers |-> "none"]
    /\ UNCHANGED <<docker, op, inst, calls>>

-----------------------------------------------------------------------------
\* The steps of a handler that has been called.
Step(t) ==
    \/ LockEnter(t) \/ LockAcquire(t) \/ Unlock(t) \/ Deref(t)
    \/ RunDuplicate(t) \/ RunRejected(t) \/ RunMarkStarting(t)
    \/ RunCreate(t) \/ RunCreateFails(t) \/ RunStart(t) \/ RunStartFails(t)
    \/ RunRecord(t)
    \/ StopNothing(t) \/ StopMarkStopping(t) \/ StopDocker(t)
    \/ StopDockerFails(t) \/ StopRecord(t)

Next ==
    \/ \E t \in Callers :
         \/ \E o \in {"run", "stop"}, i \in Instances : Call(t, o, i)
         \/ Step(t)
    \/ \E c \in Containers : ContainerExits(c) \/ ContainerRemoved(c)
    \/ AgentRestart

Spec == Init /\ [][Next]_vars

\* Every handler goroutine keeps being scheduled.  The calls are bounded, so no
\* caller can be overtaken on a mutex for ever and weak fairness is enough.
FairSpec == Spec /\ \A t \in Callers : WF_vars(Step(t))

-----------------------------------------------------------------------------
InCritical(t) == pc[t] \in CriticalPCs

\* The keyed lock excludes: two handlers are never both inside RunContainer or
\* StopContainer of one instance, whatever lock objects were created and
\* deleted in between (LockInstance).
KeyMutex ==
    \A t, u \in Callers :
        InCritical(t) /\ InCritical(u) /\ inst[t] = inst[u] => t = u

\* The reference counts are exact: a keyedLock is in the map while, and only
\* while, some handler refers to it.  No lock is deleted under a waiter and
\* none is left behind (the refCount test of LockInstance's unlock).
LocksReclaimed ==
    \A i \in Instances :
        keyLocks[i] # NoLock <=>
            \E t \in Callers : inst[t] = i /\ pc[t] \notin {"idle", "enter"}

\* G-09: one instance identity, at most one running container, however
\* RunContainer and StopContainer calls for it interleave.
OneRunning ==
    \A i \in Instances : \A c, d \in Running(i) : c = d

\* A StopContainer that reports success leaves no container of the instance
\* running when it releases the instance's lock.
StopEffective ==
    \A t \in Callers :
        pc[t] = "unlock" /\ op[t] = "stop" /\ result[t] = "ok" => Running(inst[t]) = {}

\* No handler waits for ever: every call returns.
CallReturns == \A t \in Callers : []<>(pc[t] = "idle")

=============================================================================
