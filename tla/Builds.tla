------------------------------- MODULE Builds -------------------------------
(***************************************************************************)
(* Building on dedicated workers (internal/build): the WorkerSandbox picks *)
(* a build worker and charges it for the build; the BuildWorkerNode checks *)
(* whether it was killed before and after the work.                        *)
(***************************************************************************)
EXTENDS Naturals, FiniteSets

CONSTANTS
    Reqs,                    \* requests, each with the deployment it creates
    BuildWorkers, NoBuilder,
    Capacity

ASSUME BuildsAssumption ==
    /\ IsFiniteSet(Reqs)
    /\ NoBuilder \notin BuildWorkers
    /\ Capacity \in Nat

VARIABLES
    load,       \* ActiveWorkloads of each build worker
    draining,   \* workers the scheduler's filter leaves out
    killed,     \* nodes that have been killed
    pool,       \* workers the sandbox has a client for
    site        \* selectedWorker of each build in progress

builds == <<load, draining, killed, pool, site>>
nodes == <<draining, killed, pool>>

BuildsTypeOK ==
    /\ load \in [BuildWorkers -> Nat]
    /\ draining \subseteq BuildWorkers /\ killed \subseteq BuildWorkers
    /\ pool \subseteq BuildWorkers
    /\ site \in [Reqs -> BuildWorkers \cup {NoBuilder}]

BuildsInit ==
    /\ load = [w \in BuildWorkers |-> 0]
    /\ draining = {} /\ killed = {} /\ pool = BuildWorkers
    /\ site = [r \in Reqs |-> NoBuilder]

-----------------------------------------------------------------------------
(* Scheduling                                                               *)

UpdateWorkload(w, n) == load' = [load EXCEPT ![w] = n]

FeasibleBuilders == {w \in BuildWorkers \ draining : load[w] < Capacity}

\* The least loaded, all workers having one capacity.
Rank(feasible) == {w \in feasible : \A v \in feasible : load[w] <= load[v]}

\* Selecting and charging are one step, under the sandbox's mutex.
SelectWorker(r) ==
    \E w \in Rank(FeasibleBuilders) :
      /\ UpdateWorkload(w, load[w] + 1)
      /\ site' = [site EXCEPT ![r] = w]
      /\ UNCHANGED nodes

\* The deferred decrement, on every return path.  The counter never goes below 0.
ReleaseWorker(r) ==
    LET w == site[r] IN
      /\ UpdateWorkload(w, IF load[w] = 0 THEN 0 ELSE load[w] - 1)
      /\ site' = [site EXCEPT ![r] = NoBuilder]
      /\ UNCHANGED nodes

-----------------------------------------------------------------------------
(* Build workers                                                            *)

\* What lets a build begin: a client for the worker, and a node not killed.
CanExecute(r) == site[r] \in pool \ killed

\* Kill: the flag first, then the registry's Drain.
Kill(w) ==
    /\ w \notin killed
    /\ killed' = killed \cup {w}
    /\ UNCHANGED <<load, draining, pool, site>>

DrainKilled(w) ==
    /\ w \in killed \ draining
    /\ draining' = draining \cup {w}
    /\ UNCHANGED <<load, killed, pool, site>>

UnregisterWorker(w) ==
    /\ w \in pool
    /\ pool' = pool \ {w}
    /\ UNCHANGED <<load, draining, killed, site>>

=============================================================================
