-------------------------------- MODULE Fleet --------------------------------
(***************************************************************************)
(* Cluster membership: the registry and discovery with the goroutines that *)
(* drive them.  Workers send heartbeats (internal/heartbeat/sender.go)     *)
(* through the control plane's gRPC service; the timeout monitor judges    *)
(* them from copies it took earlier; the deployment service starts, routes *)
(* and unroutes instances without discovery, and the reconciliation loop   *)
(* repairs them and announces where; the control plane may restart.        *)
(*                                                                         *)
(* A heartbeat that is not lost arrives within its interval.  The service  *)
(* routes an instance in the step that records it as running.              *)
(***************************************************************************)
EXTENDS Discovery

VARIABLES
    down,       \* workers whose process is dead
    due,        \* workers that have yet to send this interval's heartbeat
    saving,     \* heartbeats whose row is not written yet
    mon,        \* the monitor's pass: what it is still to do for each worker
    launched,   \* instances that the service has started
    placing,    \* where an instance is being started or repaired
    fresh       \* endpoints announced since their worker's last verdict (history)

instances == <<launched, placing>>
vars == <<registry, events, discovery, down, due, saving, mon, instances, fresh>>

TypeOK ==
    /\ RegistryTypeOK /\ DiscoveryTypeOK
    /\ down \subseteq Workers /\ due \subseteq Workers /\ saving \subseteq Workers
    /\ mon \in [Workers -> {"done", "evict", "HEALTHY", "SUSPECTED", "UNHEALTHY"}]
    /\ launched \subseteq Insts /\ placing \in [Insts -> Workers \cup {NoWorker}]
    /\ fresh \subseteq Insts

Init ==
    /\ RegistryInit /\ DiscoveryInit
    /\ down = {} /\ due = Workers /\ saving = {}
    /\ mon = [w \in Workers |-> "done"]
    /\ launched = {} /\ placing = [i \in Insts |-> NoWorker]
    /\ fresh = {}

-----------------------------------------------------------------------------
(* Time, workers and their heartbeats                                       *)

Aged(c) == [c EXCEPT !.age = IF @ < UnhealthyThreshold THEN @ + 1 ELSE @]

Tick ==
    /\ due \cap known = {} /\ saving = {}
    /\ cache' = [w \in Workers |-> IF w \in known THEN Aged(cache[w]) ELSE cache[w]]
    /\ repo' = [w \in Workers |-> IF w \in stored THEN Aged(repo[w]) ELSE repo[w]]
    /\ due' = Workers \ down
    /\ UNCHANGED <<known, beats, partitioned, stored, requests, events, discovery,
                   down, saving, mon, instances, fresh>>

\* A process dies, or comes back.  It does not register again by itself.
Die(w) ==
    /\ Spend(1) /\ w \notin down
    /\ down' = down \cup {w} /\ due' = due \ {w}
    /\ UNCHANGED <<registry, discovery, saving, mon, instances, fresh>>

Revive(w) ==
    /\ Spend(1) /\ w \in down
    /\ down' = down \ {w}
    /\ UNCHANGED <<registry, discovery, due, saving, mon, instances, fresh>>

\* SendOne, and the gRPC handler up to the registry's mutex.
Heartbeat(w) ==
    /\ w \in due
    /\ HeartbeatAt(w)
    /\ due' = due \ {w}
    /\ saving' = IF w \in known THEN saving \cup {w} ELSE saving
    /\ UNCHANGED <<events, discovery, down, mon, instances, fresh>>

SaveHeartbeat(w, ok) ==
    /\ w \in saving /\ Spend(Cost(ok))
    /\ UpdateHeartbeat(w, ok)
    /\ saving' = saving \ {w}
    /\ UNCHANGED <<discovery, down, due, mon, instances, fresh>>

LoseHeartbeat(w) ==
    /\ w \in due \cap known /\ Spend(1)
    /\ due' = due \ {w}
    /\ UNCHANGED <<registry, discovery, down, saving, mon, instances, fresh>>

-----------------------------------------------------------------------------
(* TimeoutMonitor.CheckWorkers                                              *)

\* Mutant: a worker that is suspected already is not judged again.
MonitorList_Once ==
    /\ \A w \in Workers : mon[w] = "done"
    /\ mon' = [w \in Workers |->
         LET c == cache[w]
             verdict == EvaluateHealthTransition(c.age)
         IN  IF w \in known \ partitioned /\ c.health \notin {"UNREACHABLE", "SUSPECTED", verdict}
               THEN verdict ELSE "done"]
    /\ UNCHANGED <<registry, events, discovery, down, due, saving, instances, fresh>>

\* The pass works on the copies that List made: workers not marked partitioned
\* whose health differs from what their last beat says.
MonitorList ==
    /\ \A w \in Workers : mon[w] = "done"
    /\ mon' = [w \in Workers |->
         LET c == cache[w]
             verdict == EvaluateHealthTransition(c.age)
         IN  IF w \in known \ partitioned /\ c.health \notin {"UNREACHABLE", verdict}
               THEN verdict ELSE "done"]
    /\ UNCHANGED <<registry, events, discovery, down, due, saving, instances, fresh>>

MonitorApply(w, ok) ==
    /\ mon[w] \in Healths /\ Spend(Cost(ok))
    /\ SetHealthWithReason(w, mon[w], ok)
    /\ mon' = [mon EXCEPT ![w] = IF @ = "UNHEALTHY" THEN "evict" ELSE "done"]
    /\ fresh' = IF mon[w] = "UNHEALTHY"
                  THEN {i \in fresh : endpoints[i].worker # w} ELSE fresh
    /\ UNCHANGED <<discovery, down, due, saving, instances>>

\* By the worker's id, which endpoints are registered under, and by its key.
MonitorEvict(w) ==
    /\ mon[w] = "evict"
    /\ EvictWorkerEndpoints(w)
    /\ mon' = [mon EXCEPT ![w] = "done"]
    /\ UNCHANGED <<registry, events, down, due, saving, instances, fresh>>

Monitor(w) == MonitorApply(w, TRUE) \/ MonitorEvict(w)

-----------------------------------------------------------------------------
(* The gRPC service and operators                                           *)

RegisterWorker(w, ok) ==
    /\ w \notin down
    /\ Register(w, ok)
    /\ UNCHANGED <<discovery, down, due, saving, mon, instances, fresh>>

DrainWorker(w, ok) ==
    /\ Drain(w, ok) \/ Undrain(w, ok)
    /\ UNCHANGED <<discovery, down, due, saving, mon, instances, fresh>>

MarkPartitioned(w, isCut) ==
    /\ SetPartitioned(w, isCut)
    /\ UNCHANGED <<discovery, down, due, saving, mon, instances, fresh>>

-----------------------------------------------------------------------------
(* The deployment service and the reconciliation loop, as the router sees them *)

\* The service ran a new instance on a feasible worker that answered ...
Launch(i, w) ==
    /\ i \notin launched /\ placing[i] = NoWorker
    /\ w \in Feasible \ down
    /\ placing' = [placing EXCEPT ![i] = w]
    /\ UNCHANGED <<registry, events, discovery, down, due, saving, mon, launched, fresh>>

\* ... and routes it after the call, without announcing it.
Route(i) ==
    /\ i \notin launched /\ placing[i] # NoWorker
    /\ RegisterTarget(i, placing[i])
    /\ launched' = launched \cup {i}
    /\ placing' = [placing EXCEPT ![i] = NoWorker]
    /\ UNCHANGED <<registry, events, endpoints, byWorker, down, due, saving, mon, fresh>>

\* Stopping, scaling down and rolling back take the route and leave the endpoint.
Unroute(i) ==
    /\ Spend(1) /\ i \in launched
    /\ UnregisterTarget(i)
    /\ UNCHANGED <<registry, endpoints, byWorker, down, due, saving, mon, instances, fresh>>

\* A repair ran the instance on a feasible worker that answered ...
Repair(i, w) ==
    /\ Spend(Cost(endpoints[i] = NoEndpoint))
    /\ i \in launched /\ placing[i] = NoWorker
    /\ w \in Feasible \ down
    /\ placing' = [placing EXCEPT ![i] = w]
    /\ UNCHANGED <<registry, discovery, down, due, saving, mon, launched, fresh>>

\* ... and is announced after the call.
Announce(i) ==
    /\ i \in launched /\ placing[i] # NoWorker
    /\ RegisterEndpoint(i, placing[i])
    /\ placing' = [placing EXCEPT ![i] = NoWorker]
    /\ fresh' = fresh \cup {i}
    /\ UNCHANGED <<registry, events, down, due, saving, mon, launched>>

\* An excess replica loses its endpoint, if it has one, and its route.
Prune(i) ==
    /\ Spend(1) /\ i \in launched
    /\ \/ UnregisterEndpoint(i)
       \/ endpoints[i] = NoEndpoint /\ UnregisterTarget(i) /\ UNCHANGED <<endpoints, byWorker>>
    /\ fresh' = fresh \ {i}
    /\ UNCHANGED <<registry, down, due, saving, mon, instances>>

CheckEndpoint(i, healthy) ==
    /\ Spend(1)
    /\ SetEndpointHealth(i, healthy)
    /\ fresh' = IF healthy THEN fresh \cup {i} ELSE fresh
    /\ UNCHANGED <<registry, down, due, saving, mon, instances>>

\* The control plane's process is replaced.
Restart ==
    /\ Spend(1)
    /\ NewRegistry /\ NewServiceRegistry
    /\ saving' = {} /\ fresh' = {}
    /\ mon' = [w \in Workers |-> "done"]
    /\ placing' = [i \in Insts |-> NoWorker]
    /\ UNCHANGED <<down, due, launched>>

-----------------------------------------------------------------------------
Next ==
    \/ Tick \/ MonitorList \/ Restart
    \/ \E w \in Workers, ok \in BOOLEAN :
         \/ RegisterWorker(w, ok) \/ DrainWorker(w, ok)
         \/ SaveHeartbeat(w, ok) \/ MonitorApply(w, ok)
    \/ \E w \in Workers :
         \/ Die(w) \/ Revive(w) \/ Heartbeat(w) \/ LoseHeartbeat(w) \/ MonitorEvict(w)
    \/ \E w \in Workers, isCut \in BOOLEAN : MarkPartitioned(w, isCut)
    \/ \E i \in Insts, w \in Workers : Launch(i, w) \/ Repair(i, w)
    \/ \E i \in Insts : Route(i) \/ Unroute(i) \/ Announce(i) \/ Prune(i)
    \/ \E i \in Insts, healthy \in BOOLEAN : CheckEndpoint(i, healthy)

Spec == Init /\ [][Next]_vars

\* Time passes, workers beat, the monitor's ticker fires and its pass goes on.
Fairness ==
    /\ WF_vars(Tick) /\ WF_vars(MonitorList)
    /\ \A w \in Workers :
         WF_vars(Heartbeat(w)) /\ WF_vars(SaveHeartbeat(w, TRUE)) /\ WF_vars(Monitor(w))

FairSpec == Spec /\ Fairness

-----------------------------------------------------------------------------
(* Properties                                                               *)

\* G-10 and G-12: once the monitor has dealt with a worker it found dead, no
\* instance announced before that verdict is routed to it.  (One announced later,
\* by a repair that chose the worker while it was alive, still is; and so is one
\* that only the service routed, of which discovery knows nothing.)
UnhealthyEvicted ==
    \A i \in Insts, w \in Workers :
      targets[i] = w /\ w \in known /\ cache[w].health = "UNHEALTHY" /\ mon[w] # "evict"
        => i \in fresh \/ endpoints[i] = NoEndpoint

\* G-12: a worker whose process is dead is found out, whatever verdicts on older
\* beats, registrations and restarts come between, unless it is marked
\* partitioned, which the monitor skips.
DeadWorkerDetected ==
    \A w \in Workers :
      []<>(w \in down \cap known /\ w \notin partitioned => cache[w].health \in {"UNHEALTHY", "UNREACHABLE"})

\* FS-06 and FS-07: once nothing more goes wrong, a worker that beats is healthy
\* in the end and stays so.
LiveWorkerRecovers ==
    \A w \in Workers :
      <>[](w \in known \ down) => <>[](w \in known /\ cache[w].health = "HEALTHY")

=============================================================================
