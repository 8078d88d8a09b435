-------------------------- MODULE Capacity_proofs ---------------------------
(***************************************************************************)
(* The cluster's capacity.  Membership keeps drains in force, and the      *)
(* router in line with discovery and the monitor's verdicts, for any       *)
(* number of workers, instances, restarts and failing writes; the          *)
(* autoscaler's decisions and cooldowns hold for any policies, metrics,    *)
(* windows and requests.                                                   *)
(***************************************************************************)
EXTENDS Fleet, Autoscaler, TLAPS

-----------------------------------------------------------------------------
(* Membership                                                               *)

\* An endpoint is listed under its worker, which eviction relies on.
Indexed ==
    \A i \in Insts : endpoints[i] # NoEndpoint => <<endpoints[i].worker, i>> \in byWorker

\* Discovery hears of an instance from the loop, after the service started it.
Unannounced == \A i \in Insts \ launched : endpoints[i] = NoEndpoint

\* A drain is in force in memory, and in the table unless it is marked unsaved.
Durable ==
    /\ \A w \in drained : w \in known /\ cache[w].state = "DRAINING"
    /\ \A w \in drained \ unsaved : w \in stored /\ repo[w].state = "DRAINING"

FleetInv == TypeOK /\ Durable /\ Indexed /\ Unannounced /\ RoutesAgree /\ UnhealthyEvicted

-----------------------------------------------------------------------------
(* Types                                                                    *)

\* Spending keeps the number of events within its bound.
LEMMA Spent ==
  ASSUME NEW n \in Nat, events \in 0..MaxEvents, Spend(n)
  PROVE  events' \in 0..MaxEvents
BY RegistryAssumption DEF Spend

\* The cost of a write is a number, alone and with a request's.
LEMMA CostNat ==
  ASSUME NEW a \in BOOLEAN, NEW b \in BOOLEAN
  PROVE  Cost(a) \in Nat /\ 1 + Cost(a) \in Nat /\ Cost(a) + Cost(b) \in Nat
BY DEF Cost

\* A verdict is a health that the monitor gives.
LEMMA Verdicts ==
  \A a : EvaluateHealthTransition(a) \in {"HEALTHY", "SUSPECTED", "UNHEALTHY"}
BY Zenon DEF EvaluateHealthTransition

\* A worker starts with a record, and has one an interval later.
LEMMA Records ==
  /\ New \in Worker /\ New.state = "READY" /\ New.health = "HEALTHY"
  /\ \A c \in Worker : /\ Aged(c) \in Worker
                       /\ Aged(c).state = c.state /\ Aged(c).health = c.health
<1>1. New \in Worker /\ New.state = "READY" /\ New.health = "HEALTHY"
  BY RegistryAssumption DEF New, Worker, Ages, Healths
<1>2. ASSUME NEW c \in Worker
      PROVE  /\ Aged(c) \in Worker
             /\ Aged(c).state = c.state /\ Aged(c).health = c.health
  BY RegistryAssumption DEF Aged, Worker, Ages
<1>. QED BY Zenon, <1>1, <1>2

\* The invariant holds before any worker has registered.
LEMMA InitFleet == Init => FleetInv
<1>. SUFFICES ASSUME Init PROVE FleetInv
  BY Zenon
<1>. USE DEF Init, RegistryInit, DiscoveryInit
<1>1. RegistryTypeOK
  BY RegistryAssumption, Records DEF RegistryTypeOK
<1>2. DiscoveryTypeOK
  BY Zenon DEF DiscoveryTypeOK, NoEndpoint
<1>3. TypeOK
  BY Zenon, <1>1, <1>2 DEF TypeOK
<1>4. Durable
  BY Zenon DEF Durable
<1>5. Indexed /\ Unannounced
  BY Zenon DEF Indexed, Unannounced
<1>6. RoutesAgree
  BY Zenon DEF RoutesAgree
<1>7. UnhealthyEvicted
  BY Zenon, DiscoveryAssumption DEF UnhealthyEvicted
<1>. QED BY Zenon, <1>3, <1>4, <1>5, <1>6, <1>7 DEF FleetInv

-----------------------------------------------------------------------------
(* The registry                                                             *)

RegistryOK == RegistryTypeOK /\ Durable

\* No operation turns a worker UNHEALTHY, and each keeps drains durable.
Sober == \A w \in known' : cache'[w].health = "UNHEALTHY" => w \in known /\ cache[w].health = "UNHEALTHY"

\* A registration makes its worker ready in both tables, or marks the row unsaved.
LEMMA RegisterKeeps ==
  ASSUME RegistryOK, NEW w \in Workers, NEW ok \in BOOLEAN, Register(w, ok)
  PROVE  RegistryOK' /\ Sober
<1>. USE DEF RegistryOK, RegistryTypeOK, Register, Upsert, Requested
<1>1. events' \in 0..MaxEvents
  BY Zenon, Spent, CostNat
<1>2. RegistryTypeOK'
  BY Zenon, <1>1, Records
<1>3. Durable'
  BY Zenon DEF Durable
<1>4. Sober
  BY Zenon, Records DEF Sober
<1>. QED BY Zenon, <1>2, <1>3, <1>4

\* A beat changes health and age, never the drain, and finds no worker dead.
LEMMA HeartbeatKeeps ==
  ASSUME RegistryOK, NEW w \in Workers, HeartbeatAt(w), UNCHANGED events
  PROVE  RegistryOK' /\ Sober
<1>. USE DEF RegistryOK, RegistryTypeOK, HeartbeatAt, ApplyHeartbeatSuccess, table, requests
<1>1. RegistryTypeOK'
  <2>1. beats' \in [Workers -> 0..ConsecutiveBeatsToHeal]
    BY RegistryAssumption DEF OneMore
  <2>2. cache' \in [Workers -> Worker]
    BY RegistryAssumption DEF Worker, Ages, Healths
  <2>. QED BY Zenon, <2>1, <2>2
<1>2. \A v \in Workers : cache'[v].state = cache[v].state
  BY DEF Worker
<1>3. Durable'
  BY Zenon, <1>2 DEF Durable
<1>4. Sober
  <2>. SUFFICES ASSUME NEW v \in known, cache'[v].health = "UNHEALTHY"
                PROVE  cache[v].health = "UNHEALTHY"
    BY Zenon DEF Sober
  <2>1. CASE w \in known /\ v = w
    BY <2>1
  <2>2. CASE ~(w \in known /\ v = w)
    BY Zenon, <2>2
  <2>. QED BY Zenon, <2>1, <2>2
<1>. QED BY Zenon, <1>1, <1>3, <1>4

\* The row of a beat is its time only.
LEMMA SaveKeeps ==
  ASSUME RegistryOK, NEW w \in Workers, NEW ok \in BOOLEAN, UpdateHeartbeat(w, ok),
         events' \in 0..MaxEvents
  PROVE  RegistryOK' /\ Sober
<1>. USE DEF RegistryOK, RegistryTypeOK, UpdateHeartbeat, requests
<1>1. repo' \in [Workers -> Worker] /\ \A v \in Workers : repo'[v].state = repo[v].state
  BY RegistryAssumption DEF Worker, Ages
<1>2. Durable'
  BY Zenon, <1>1 DEF Durable
<1>. QED BY Zenon, <1>1, <1>2 DEF Sober

\* A verdict is about one worker, and writes the row it read under the mutex.
LEMMA SetHealthKeeps ==
  ASSUME RegistryOK, NEW w \in Workers, NEW ok \in BOOLEAN, NEW health \in Healths,
         SetHealthWithReason(w, health, ok), events' \in 0..MaxEvents
  PROVE  /\ RegistryOK' /\ known' = known
         /\ \A v \in Workers \ {w} : cache'[v] = cache[v]
         /\ cache'[w].health = health
<1>. USE DEF RegistryOK, RegistryTypeOK, SetHealthWithReason, Upsert
<1>1. cache' \in [Workers -> Worker] /\ repo' \in [Workers -> Worker]
  BY DEF Worker
<1>2. beats' \in [Workers -> 0..ConsecutiveBeatsToHeal]
  BY RegistryAssumption
<1>3. RegistryTypeOK'
  BY Zenon, <1>1, <1>2
<1>4. cache'[w].health = health /\ \A v \in Workers : cache'[v].state = cache[v].state
  BY DEF Worker
<1>5. Durable'
  <2>1. \A v \in drained' : v \in known' /\ cache'[v].state = "DRAINING"
    BY Zenon, <1>4 DEF Durable
  <2>2. ASSUME NEW v \in drained' \ unsaved' PROVE v \in stored' /\ repo'[v].state = "DRAINING"
    <3>1. CASE ok /\ v = w
      <4>1. cache[w] \in Worker /\ cache[w].state = "DRAINING"
        BY Zenon, <2>2, <3>1 DEF Durable
      <4>2. [cache[w] EXCEPT !.health = health].state = "DRAINING"
        BY <4>1 DEF Worker
      <4>3. repo'[w] = [cache[w] EXCEPT !.health = health] /\ w \in stored'
        BY Zenon, <3>1
      <4>. QED BY Zenon, <3>1, <4>2, <4>3
    <3>2. CASE ~(ok /\ v = w)
      BY Zenon, <2>2, <3>2 DEF Durable
    <3>. QED BY Zenon, <3>1, <3>2
  <2>. QED BY Zenon, <2>1, <2>2 DEF Durable
<1>. QED BY Zenon, <1>3, <1>4, <1>5

\* A partition mark is not a drain, and not UNHEALTHY.
LEMMA PartitionKeeps ==
  ASSUME RegistryOK, NEW w \in Workers, NEW isCut \in BOOLEAN, SetPartitioned(w, isCut)
  PROVE  RegistryOK' /\ Sober
<1>. USE DEF RegistryOK, RegistryTypeOK, SetPartitioned, table, requests
<1>1. events' \in 0..MaxEvents
  BY Zenon, Spent
<1>2. cache' \in [Workers -> Worker]
  BY DEF Worker, Healths
<1>3. beats' \in [Workers -> 0..ConsecutiveBeatsToHeal]
  BY RegistryAssumption
<1>4. \A v \in Workers : cache'[v].state = cache[v].state
  BY Zenon DEF Worker
<1>5. Durable'
  BY Zenon, <1>4 DEF Durable
<1>6. Sober
  BY Zenon DEF Sober, Worker
<1>. QED BY Zenon, <1>1, <1>2, <1>3, <1>5, <1>6

\* A drain that was written is in both tables.
LEMMA DrainKeeps ==
  ASSUME RegistryOK, NEW w \in Workers, NEW ok \in BOOLEAN, Drain(w, ok) \/ Undrain(w, ok)
  PROVE  RegistryOK' /\ Sober
<1>. USE DEF RegistryOK, RegistryTypeOK, Drain, Undrain, SetDrain, Requested
<1>1. events' \in 0..MaxEvents
  BY Zenon, Spent, CostNat
<1>2. cache' \in [Workers -> Worker] /\ repo' \in [Workers -> Worker]
  <2>1. CASE Drain(w, ok)
    BY <2>1, SMTT(30) DEF Worker
  <2>2. CASE Undrain(w, ok)
    BY <2>2, SMTT(30) DEF Worker
  <2>. QED BY Zenon, <2>1, <2>2
<1>3. Durable'
  BY DEF Durable, Worker
<1>4. Sober
  <2>1. ASSUME NEW v \in Workers PROVE cache'[v].health = cache[v].health
    <3>1. cache[v] \in Worker
      BY Zenon
    <3>2. cache'[v] \in {cache[v], [cache[v] EXCEPT !.state = "DRAINING"], [cache[v] EXCEPT !.state = "READY"]}
      BY Zenon
    <3>. QED BY <3>1, <3>2 DEF Worker
  <2>. QED BY Zenon, <2>1 DEF Sober
<1>. QED BY Zenon, <1>1, <1>2, <1>3, <1>4

\* A new process has what the table has.
LEMMA WarmKeeps ==
  ASSUME RegistryOK, NewRegistry, events' \in 0..MaxEvents
  PROVE  RegistryOK'
BY RegistryAssumption, Records DEF RegistryOK, RegistryTypeOK, NewRegistry, Durable

\* Time changes ages only.
LEMMA TickKeeps ==
  ASSUME RegistryOK, Tick
  PROVE  RegistryOK' /\ Sober
<1>. USE DEF RegistryOK, RegistryTypeOK, Tick, requests
<1>1. cache' \in [Workers -> Worker] /\ repo' \in [Workers -> Worker]
  BY Zenon, Records
<1>2. \A v \in Workers : /\ cache'[v].state = cache[v].state /\ repo'[v].state = repo[v].state
                         /\ cache'[v].health = cache[v].health
  <2>1. ASSUME NEW v \in Workers
        PROVE  /\ cache'[v].state = cache[v].state /\ repo'[v].state = repo[v].state
               /\ cache'[v].health = cache[v].health
    BY Zenon, Records
  <2>. QED BY Zenon, <2>1
<1>3. Durable'
  BY <1>2 DEF Durable
<1>4. Sober
  BY Zenon, <1>2 DEF Sober
<1>. QED BY Zenon, <1>1, <1>3, <1>4

-----------------------------------------------------------------------------
(* Discovery and the router                                                 *)

DiscoveryOK == DiscoveryTypeOK /\ Indexed /\ Unannounced /\ RoutesAgree

\* No route appears.
NoNewRoute == \A i \in Insts : targets'[i] \in {targets[i], NoWorker}

\* An announced endpoint is listed, and routed where it is.
LEMMA AnnounceKeeps ==
  ASSUME DiscoveryOK, NEW i \in launched, i \in Insts, NEW w \in Workers, RegisterEndpoint(i, w),
         UNCHANGED launched
  PROVE  DiscoveryOK' /\ \A j \in Insts \ {i} : targets'[j] = targets[j] /\ endpoints'[j] = endpoints[j]
<1>. USE DEF DiscoveryOK, DiscoveryTypeOK, RegisterEndpoint, RegisterTarget
<1>1. DiscoveryTypeOK'
  OBVIOUS
<1>2. Indexed'
  BY Zenon DEF Indexed
<1>3. RoutesAgree' /\ Unannounced'
  BY Zenon DEF RoutesAgree, Unannounced
<1>. QED BY Zenon, <1>1, <1>2, <1>3

\* The service routes an instance of which discovery knows nothing.
LEMMA RouteKeeps ==
  ASSUME DiscoveryOK, NEW i \in Insts \ launched, NEW w \in Workers, RegisterTarget(i, w),
         launched' = launched \cup {i}, UNCHANGED <<endpoints, byWorker>>
  PROVE  /\ DiscoveryOK' /\ endpoints[i] = NoEndpoint
         /\ \A j \in Insts \ {i} : targets'[j] = targets[j]
BY Zenon DEF DiscoveryOK, DiscoveryTypeOK, RegisterTarget, Indexed, RoutesAgree, Unannounced

\* Taking a route away leaves nothing to agree on.
LEMMA UnrouteKeeps ==
  ASSUME DiscoveryOK, NEW i \in Insts, UnregisterTarget(i), UNCHANGED <<endpoints, byWorker, launched>>
  PROVE  DiscoveryOK' /\ NoNewRoute /\ targets'[i] = NoWorker
BY Zenon DEF DiscoveryOK, DiscoveryTypeOK, UnregisterTarget, Indexed, RoutesAgree, Unannounced, NoNewRoute

\* An endpoint taken out of discovery is off the router.
LEMMA PruneKeeps ==
  ASSUME DiscoveryOK, NEW i \in Insts, UnregisterEndpoint(i), UNCHANGED launched
  PROVE  DiscoveryOK' /\ NoNewRoute /\ targets'[i] = NoWorker
<1>. USE DEF DiscoveryOK, DiscoveryTypeOK, UnregisterEndpoint, UnregisterTarget
<1>1. DiscoveryTypeOK'
  BY Zenon DEF NoEndpoint
<1>2. Indexed'
  BY Zenon DEF Indexed
<1>3. RoutesAgree' /\ Unannounced'
  BY Zenon DEF RoutesAgree, Unannounced
<1>. QED BY Zenon, <1>1, <1>2, <1>3 DEF NoNewRoute

\* A health check takes an endpoint off the router, or puts it back where it is.
LEMMA CheckKeeps ==
  ASSUME DiscoveryOK, NEW i \in Insts, NEW healthy \in BOOLEAN, SetEndpointHealth(i, healthy),
         UNCHANGED launched
  PROVE  /\ DiscoveryOK' /\ \A j \in Insts \ {i} : targets'[j] = targets[j] /\ endpoints'[j] = endpoints[j]
         /\ ~healthy => targets'[i] = NoWorker
<1>. USE DEF DiscoveryOK, DiscoveryTypeOK, SetEndpointHealth, RegisterTarget, UnregisterTarget
<1>1. DiscoveryTypeOK'
  OBVIOUS
<1>2. \A j \in Insts : endpoints'[j].worker = endpoints[j].worker
  OBVIOUS
<1>3. \A j \in Insts : endpoints'[j] # NoEndpoint => endpoints[j] # NoEndpoint
  BY Zenon
<1>4. Indexed'
  BY <1>2, <1>3 DEF Indexed
<1>5. Unannounced'
  BY Zenon, <1>3 DEF Unannounced
<1>6. RoutesAgree'
  <2>. SUFFICES ASSUME NEW j \in Insts, targets'[j] # NoWorker
                PROVE  endpoints'[j] \in {NoEndpoint, [worker |-> targets'[j], status |-> "HEALTHY"]}
    BY Zenon DEF RoutesAgree
  <2>1. CASE j = i
    BY <2>1 DEF RoutesAgree
  <2>2. CASE j # i
    BY Zenon, <2>2 DEF RoutesAgree
  <2>. QED BY Zenon, <2>1, <2>2
<1>7. /\ \A j \in Insts \ {i} : targets'[j] = targets[j] /\ endpoints'[j] = endpoints[j]
      /\ ~healthy => targets'[i] = NoWorker
  BY Zenon
<1>. QED BY Zenon, <1>1, <1>4, <1>5, <1>6, <1>7

\* Eviction takes every route to the worker away but those that discovery does not
\* know of, because the index lists its endpoints.
LEMMA EvictKeeps ==
  ASSUME DiscoveryOK, NEW w \in Workers, EvictWorkerEndpoints(w), UNCHANGED launched
  PROVE  /\ DiscoveryOK' /\ NoNewRoute
         /\ \A i \in Insts : /\ endpoints'[i] = NoEndpoint <=> endpoints[i] = NoEndpoint
                             /\ targets'[i] = w => endpoints'[i] = NoEndpoint
<1>. USE DEF DiscoveryOK, DiscoveryTypeOK, EvictWorkerEndpoints, Listed
<1>1. DiscoveryTypeOK'
  BY Zenon
<1>2. \A j \in Insts : /\ endpoints'[j].worker = endpoints[j].worker
                       /\ endpoints'[j] = NoEndpoint <=> endpoints[j] = NoEndpoint
  BY DiscoveryAssumption DEF NoEndpoint
<1>3. Indexed'
  BY ZenonT(60), <1>2 DEF Indexed
<1>4. Unannounced'
  BY Zenon, <1>2 DEF Unannounced
<1>5. ASSUME NEW j \in Insts, targets'[j] # NoWorker
      PROVE  endpoints'[j] \in {NoEndpoint, [worker |-> targets'[j], status |-> "HEALTHY"]}
  <2>1. <<w, j>> \notin byWorker
    BY Zenon, <1>5
  <2>. QED BY Zenon, <1>5, <2>1 DEF RoutesAgree
<1>6. RoutesAgree'
  BY Zenon, <1>5 DEF RoutesAgree
<1>7. ASSUME NEW j \in Insts, targets'[j] = w, endpoints'[j] # NoEndpoint PROVE FALSE
  <2>1. <<w, j>> \notin byWorker /\ targets[j] = w
    BY Zenon, <1>7, DiscoveryAssumption
  <2>2. endpoints[j] = [worker |-> w, status |-> "HEALTHY"]
    BY Zenon, <1>2, <1>7, <2>1, DiscoveryAssumption DEF RoutesAgree
  <2>3. endpoints[j].worker = w
    BY <2>2
  <2>. QED BY Zenon, <1>2, <1>7, <2>1, <2>3 DEF Indexed
<1>. QED BY Zenon, <1>1, <1>2, <1>3, <1>4, <1>6, <1>7 DEF NoNewRoute

\* A new process routes nothing.
LEMMA EmptyKeeps ==
  ASSUME NewServiceRegistry
  PROVE  DiscoveryOK' /\ \A i \in Insts : targets'[i] = NoWorker
BY Zenon DEF NewServiceRegistry, DiscoveryOK, DiscoveryTypeOK, Indexed, Unannounced, RoutesAgree, NoEndpoint

-----------------------------------------------------------------------------
(* The goroutines                                                           *)

\* A route that discovery does not know of, or that was announced since.
Excused(i) == i \in fresh \/ endpoints[i] = NoEndpoint

\* Routes stay right with the verdicts while no route appears, no worker turns
\* UNHEALTHY, and no eviction is forgotten.
LEMMA VerdictsKeep ==
  ASSUME TypeOK, UnhealthyEvicted, Sober, NoNewRoute,
         \A i \in Insts : Excused(i) => Excused(i)' \/ targets'[i] = NoWorker,
         \A w \in Workers : mon[w] = "evict" => mon'[w] = "evict"
  PROVE  UnhealthyEvicted'
<1>. SUFFICES ASSUME NEW i \in Insts, NEW w \in Workers,
                     targets'[i] = w, w \in known', cache'[w].health = "UNHEALTHY",
                     mon'[w] # "evict"
              PROVE  Excused(i)'
  BY Zenon DEF UnhealthyEvicted, Excused
<1>1. targets[i] = w
  BY Zenon, DiscoveryAssumption DEF NoNewRoute
<1>2. w \in known /\ cache[w].health = "UNHEALTHY"
  BY Zenon DEF Sober
<1>3. Excused(i)
  BY Zenon, <1>1, <1>2 DEF UnhealthyEvicted, Excused
<1>. QED BY Zenon, <1>3, DiscoveryAssumption

\* What the registry's operations leave alone.
Aside == UNCHANGED <<discovery, instances, fresh>>

\* An operation of the registry that finds no worker dead keeps the invariant.
LEMMA AsideKeeps ==
  ASSUME FleetInv, RegistryOK', Sober, Aside,
         down' \subseteq Workers, due' \subseteq Workers, saving' \subseteq Workers,
         mon' \in [Workers -> {"done", "evict", "HEALTHY", "SUSPECTED", "UNHEALTHY"}],
         \A w \in Workers : mon[w] = "evict" => mon'[w] = "evict"
  PROVE  FleetInv'
<1>. USE DEF FleetInv, Aside, discovery, instances
<1>1. TypeOK'
  BY Zenon DEF TypeOK, RegistryOK, DiscoveryTypeOK
<1>2. Indexed' /\ Unannounced' /\ RoutesAgree'
  BY Zenon DEF Indexed, Unannounced, RoutesAgree
<1>3. NoNewRoute /\ \A i \in Insts : Excused(i) => Excused(i)'
  BY Zenon DEF NoNewRoute, Excused
<1>4. UnhealthyEvicted'
  BY Zenon, <1>3, VerdictsKeep
<1>. QED BY Zenon, <1>1, <1>2, <1>4 DEF RegistryOK

\* The steps that leave the registry alone keep what holds of it.
LEMMA StillKeeps ==
  ASSUME RegistryOK, UNCHANGED registry, events' \in 0..MaxEvents
  PROVE  RegistryOK' /\ Sober
BY Zenon DEF RegistryOK, RegistryTypeOK, Durable, registry, table, requests, Sober

\* Applying an UNHEALTHY verdict leaves the worker's routes to the eviction that
\* follows; any other verdict makes no worker dead.
LEMMA ApplyKeeps ==
  ASSUME FleetInv, NEW w \in Workers, NEW ok \in BOOLEAN, MonitorApply(w, ok)
  PROVE  FleetInv'
<1>. USE DEF FleetInv, TypeOK, MonitorApply
<1>1. events' \in 0..MaxEvents
  BY Zenon, Spent, CostNat DEF RegistryTypeOK
<1>2. /\ RegistryOK' /\ known' = known
      /\ \A v \in Workers \ {w} : cache'[v] = cache[v]
      /\ cache'[w].health = mon[w]
  BY Zenon, <1>1, SetHealthKeeps DEF RegistryOK
<1>3. mon' \in [Workers -> {"done", "evict", "HEALTHY", "SUSPECTED", "UNHEALTHY"}]
  BY Zenon
<1>4. TypeOK' /\ Durable' /\ Indexed' /\ Unannounced' /\ RoutesAgree'
  BY Zenon, <1>2, <1>3 DEF RegistryOK, DiscoveryTypeOK, Indexed, Unannounced, RoutesAgree, discovery, instances
<1>5. UnhealthyEvicted'
  <2>. SUFFICES ASSUME NEW i \in Insts, NEW v \in Workers,
                       targets'[i] = v, v \in known', cache'[v].health = "UNHEALTHY",
                       mon'[v] # "evict"
                PROVE  Excused(i)'
    BY Zenon DEF UnhealthyEvicted, Excused
  <2>1. v # w
    <3>1. mon[w] = "UNHEALTHY" => mon'[w] = "evict"
      BY Zenon
    <3>. QED BY Zenon, <3>1, <1>2
  <2>2. Excused(i) /\ targets[i] = v
    BY Zenon, <2>1, <1>2 DEF UnhealthyEvicted, Excused, discovery
  <2>3. CASE endpoints[i] = NoEndpoint
    BY Zenon, <2>3 DEF Excused, discovery
  <2>4. CASE i \in fresh /\ endpoints[i] # NoEndpoint
    <3>1. endpoints[i] = [worker |-> v, status |-> "HEALTHY"]
      BY Zenon, <2>2, <2>4, DiscoveryAssumption DEF RoutesAgree
    <3>2. endpoints[i].worker = v
      BY <3>1
    <3>. QED BY Zenon, <2>1, <2>4, <3>2 DEF Excused
  <2>. QED BY Zenon, <2>2, <2>3, <2>4 DEF Excused
<1>. QED BY Zenon, <1>4, <1>5

\* An eviction leaves the worker no route to be wrong about.
LEMMA MonitorEvictKeeps ==
  ASSUME FleetInv, NEW w \in Workers, MonitorEvict(w)
  PROVE  FleetInv'
<1>. USE DEF FleetInv, TypeOK, MonitorEvict
<1>1. /\ DiscoveryOK' /\ NoNewRoute
      /\ \A i \in Insts : /\ endpoints'[i] = NoEndpoint <=> endpoints[i] = NoEndpoint
                          /\ targets'[i] = w => endpoints'[i] = NoEndpoint
  BY Zenon, EvictKeeps DEF DiscoveryOK, instances
<1>2. RegistryOK'
  BY Zenon, StillKeeps DEF RegistryOK, RegistryTypeOK
<1>3. mon' \in [Workers -> {"done", "evict", "HEALTHY", "SUSPECTED", "UNHEALTHY"}]
  BY Zenon
<1>4. TypeOK' /\ Durable'
  BY Zenon, <1>1, <1>2, <1>3 DEF RegistryOK, DiscoveryOK, instances
<1>5. UnhealthyEvicted'
  <2>. SUFFICES ASSUME NEW i \in Insts, NEW v \in Workers,
                       targets'[i] = v, v \in known', cache'[v].health = "UNHEALTHY",
                       mon'[v] # "evict"
                PROVE  Excused(i)'
    BY Zenon DEF UnhealthyEvicted, Excused
  <2>1. CASE v = w
    BY Zenon, <1>1, <2>1 DEF Excused
  <2>2. CASE v # w
    <3>1. targets[i] = v
      BY Zenon, <1>1, DiscoveryAssumption DEF NoNewRoute
    <3>2. Excused(i)
      BY Zenon, <2>2, <3>1 DEF UnhealthyEvicted, Excused, registry
    <3>. QED BY Zenon, <1>1, <3>2 DEF Excused
  <2>. QED BY Zenon, <2>1, <2>2
<1>. QED BY Zenon, <1>1, <1>4, <1>5 DEF DiscoveryOK

\* What a step on one instance's endpoint and route may do to the others.
Apart(i) ==
    \A j \in Insts \ {i} :
      /\ targets'[j] \in {targets[j], NoWorker} /\ endpoints'[j] = endpoints[j]
      /\ j \in fresh => j \in fresh'

\* Whatever puts a route on the router marks it fresh, or leaves it unknown to
\* discovery.
EndpointStep(i) ==
    /\ DiscoveryOK' /\ Apart(i)
    /\ Excused(i)' \/ targets'[i] = NoWorker
       \/ (targets'[i] = targets[i] /\ endpoints'[i] = endpoints[i] /\ fresh' = fresh)

LEMMA LaunchSteps ==
  ASSUME FleetInv, NEW i \in Insts, Route(i) \/ Unroute(i)
  PROVE  EndpointStep(i)
<1>. USE DEF FleetInv, TypeOK, DiscoveryOK
<1>1. CASE Route(i)
  <2>1. placing[i] \in Workers
    BY Zenon, <1>1 DEF Route
  <2>2. /\ DiscoveryOK' /\ endpoints[i] = NoEndpoint
        /\ \A j \in Insts \ {i} : targets'[j] = targets[j]
    BY Zenon, <1>1, <2>1, RouteKeeps DEF Route
  <2>3. endpoints' = endpoints /\ fresh' = fresh
    BY Zenon, <1>1 DEF Route
  <2>. QED BY Zenon, <2>2, <2>3 DEF EndpointStep, Apart, Excused
<1>2. CASE Unroute(i)
  <2>1. DiscoveryOK' /\ NoNewRoute /\ targets'[i] = NoWorker
    BY Zenon, <1>2, UnrouteKeeps DEF Unroute, instances
  <2>2. endpoints' = endpoints /\ fresh' = fresh
    BY Zenon, <1>2 DEF Unroute
  <2>. QED BY Zenon, <2>1, <2>2 DEF EndpointStep, Apart, NoNewRoute
<1>. QED BY Zenon, <1>1, <1>2

LEMMA EndpointSteps ==
  ASSUME FleetInv, NEW i \in Insts,
         \/ Announce(i) \/ Prune(i)
         \/ \E healthy \in BOOLEAN : CheckEndpoint(i, healthy)
  PROVE  EndpointStep(i)
<1>. USE DEF FleetInv, TypeOK, DiscoveryOK
<1>1. CASE Announce(i)
  <2>1. placing[i] \in Workers
    BY Zenon, <1>1 DEF Announce
  <2>2. DiscoveryOK' /\ \A j \in Insts \ {i} : targets'[j] = targets[j] /\ endpoints'[j] = endpoints[j]
    BY Zenon, <1>1, <2>1, AnnounceKeeps DEF Announce
  <2>3. i \in fresh' /\ fresh \subseteq fresh'
    BY Zenon, <1>1 DEF Announce
  <2>. QED BY Zenon, <2>2, <2>3 DEF EndpointStep, Apart, Excused
<1>2. CASE Prune(i)
  <2>1. DiscoveryOK' /\ NoNewRoute /\ targets'[i] = NoWorker
    BY Zenon, <1>2, PruneKeeps, UnrouteKeeps DEF Prune, instances
  <2>2. \A j \in Insts \ {i} : endpoints'[j] = endpoints[j] /\ (j \in fresh => j \in fresh')
    BY Zenon, <1>2 DEF Prune, UnregisterEndpoint, DiscoveryTypeOK
  <2>. QED BY Zenon, <2>1, <2>2 DEF EndpointStep, Apart, NoNewRoute
<1>3. ASSUME NEW healthy \in BOOLEAN, CheckEndpoint(i, healthy)
      PROVE  EndpointStep(i)
  <2>1. /\ DiscoveryOK' /\ \A j \in Insts \ {i} : targets'[j] = targets[j] /\ endpoints'[j] = endpoints[j]
        /\ ~healthy => targets'[i] = NoWorker
    BY Zenon, <1>3, CheckKeeps DEF CheckEndpoint, instances
  <2>2. (healthy => i \in fresh') /\ fresh \subseteq fresh'
    BY Zenon, <1>3 DEF CheckEndpoint
  <2>. QED BY Zenon, <2>1, <2>2 DEF EndpointStep, Apart, Excused
<1>. QED BY Zenon, <1>1, <1>2, <1>3

\* Launching, routing, announcing, pruning and checking keep the invariant.
LEMMA EndpointKeeps ==
  ASSUME FleetInv, NEW i \in Insts, EndpointStep(i),
         UNCHANGED <<registry, down, due, saving, mon>>, events' \in 0..MaxEvents,
         placing' \in [Insts -> Workers \cup {NoWorker}], fresh' \subseteq Insts, launched' \subseteq Insts
  PROVE  FleetInv'
<1>. USE DEF FleetInv, TypeOK
<1>1. RegistryOK' /\ Sober
  BY Zenon, StillKeeps DEF RegistryOK
<1>2. TypeOK'
  BY Zenon, <1>1 DEF RegistryOK, EndpointStep, DiscoveryOK
<1>3. UnhealthyEvicted'
  <2>. SUFFICES ASSUME NEW j \in Insts, NEW w \in Workers,
                       targets'[j] = w, w \in known', cache'[w].health = "UNHEALTHY",
                       mon'[w] # "evict"
                PROVE  Excused(j)'
    BY Zenon DEF UnhealthyEvicted, Excused
  <2>1. targets[j] = w => Excused(j)
    BY Zenon DEF UnhealthyEvicted, Excused, registry
  <2>2. CASE j = i
    BY Zenon, <2>1, <2>2, DiscoveryAssumption DEF EndpointStep, Excused
  <2>3. CASE j # i
    BY Zenon, <2>1, <2>3, DiscoveryAssumption DEF EndpointStep, Apart, Excused
  <2>. QED BY Zenon, <2>2, <2>3
<1>. QED BY Zenon, <1>1, <1>2, <1>3 DEF RegistryOK, DiscoveryOK, EndpointStep

\* A restart keeps the invariant: nothing is routed, and every row is in memory.
LEMMA RestartKeeps ==
  ASSUME FleetInv, Restart
  PROVE  FleetInv'
<1>. USE DEF FleetInv, TypeOK, Restart
<1>1. events' \in 0..MaxEvents
  BY Zenon, Spent DEF RegistryTypeOK
<1>2. RegistryOK'
  BY Zenon, <1>1, WarmKeeps DEF RegistryOK
<1>3. DiscoveryOK' /\ \A i \in Insts : targets'[i] = NoWorker
  BY Zenon, EmptyKeeps
<1>4. TypeOK'
  BY Zenon, <1>2, <1>3 DEF RegistryOK, DiscoveryOK
<1>5. UnhealthyEvicted'
  BY Zenon, <1>3, DiscoveryAssumption DEF UnhealthyEvicted
<1>. QED BY Zenon, <1>2, <1>3, <1>4, <1>5 DEF RegistryOK, DiscoveryOK

\* Every step keeps the invariant.
LEMMA NextFleet == FleetInv /\ [Next]_vars => FleetInv'
<1>. SUFFICES ASSUME FleetInv, [Next]_vars PROVE FleetInv'
  BY Zenon
<1>0. RegistryOK /\ TypeOK
  BY Zenon DEF FleetInv, TypeOK, RegistryOK
<1>1. CASE Tick
  <2>1. RegistryOK' /\ Sober
    BY Zenon, <1>0, <1>1, TickKeeps
  <2>. QED BY Zenon, <1>0, <1>1, <2>1, AsideKeeps DEF Tick, Aside, TypeOK
<1>2. CASE MonitorList
  <2>. USE DEF MonitorList
  <2>1. RegistryOK' /\ Sober
    BY Zenon, <1>0, <1>2, StillKeeps DEF RegistryOK, RegistryTypeOK
  <2>2. mon' \in [Workers -> {"done", "evict", "HEALTHY", "SUSPECTED", "UNHEALTHY"}]
    BY Zenon, <1>0, <1>2, Verdicts
  <2>. QED BY Zenon, <1>0, <1>2, <2>1, <2>2, AsideKeeps DEF Aside, TypeOK
<1>3. CASE Restart
  BY Zenon, <1>3, RestartKeeps
<1>4. ASSUME NEW w \in Workers, NEW ok \in BOOLEAN,
             \/ RegisterWorker(w, ok) \/ DrainWorker(w, ok) \/ SaveHeartbeat(w, ok)
      PROVE  FleetInv'
  <2>. USE DEF RegisterWorker, DrainWorker, SaveHeartbeat
  <2>1. CASE RegisterWorker(w, ok)
    <3>1. RegistryOK' /\ Sober
      BY Zenon, <1>0, <2>1, RegisterKeeps
    <3>. QED BY Zenon, <1>0, <2>1, <3>1, AsideKeeps DEF Aside, TypeOK
  <2>2. CASE DrainWorker(w, ok)
    <3>1. RegistryOK' /\ Sober
      BY Zenon, <1>0, <2>2, DrainKeeps
    <3>. QED BY Zenon, <1>0, <2>2, <3>1, AsideKeeps DEF Aside, TypeOK
  <2>3. CASE SaveHeartbeat(w, ok)
    <3>1. events' \in 0..MaxEvents
      BY Zenon, <1>0, <2>3, Spent, CostNat DEF RegistryOK, RegistryTypeOK
    <3>2. RegistryOK' /\ Sober
      BY Zenon, <1>0, <2>3, <3>1, SaveKeeps
    <3>. QED BY Zenon, <1>0, <2>3, <3>2, AsideKeeps DEF Aside, TypeOK
  <2>. QED BY Zenon, <1>4, <2>1, <2>2, <2>3
<1>5. ASSUME NEW w \in Workers, NEW ok \in BOOLEAN, MonitorApply(w, ok)
      PROVE  FleetInv'
  BY Zenon, <1>5, ApplyKeeps
<1>6. ASSUME NEW w \in Workers, \/ Die(w) \/ Revive(w) \/ LoseHeartbeat(w)
      PROVE  FleetInv'
  <2>. USE DEF Die, Revive, LoseHeartbeat
  <2>1. events' \in 0..MaxEvents
    BY Zenon, <1>0, <1>6, Spent DEF RegistryOK, RegistryTypeOK
  <2>2. RegistryOK' /\ Sober
    BY Zenon, <1>0, <1>6, <2>1, StillKeeps
  <2>. QED BY Zenon, <1>0, <1>6, <2>2, AsideKeeps DEF Aside, TypeOK
<1>7. ASSUME NEW w \in Workers, Heartbeat(w)
      PROVE  FleetInv'
  <2>. USE DEF Heartbeat
  <2>1. RegistryOK' /\ Sober
    BY Zenon, <1>0, <1>7, HeartbeatKeeps
  <2>. QED BY Zenon, <1>0, <1>7, <2>1, AsideKeeps DEF Aside, TypeOK
<1>8. ASSUME NEW w \in Workers, MonitorEvict(w)
      PROVE  FleetInv'
  BY Zenon, <1>8, MonitorEvictKeeps
<1>9. ASSUME NEW w \in Workers, NEW isCut \in BOOLEAN, MarkPartitioned(w, isCut)
      PROVE  FleetInv'
  <2>. USE DEF MarkPartitioned
  <2>1. RegistryOK' /\ Sober
    BY Zenon, <1>0, <1>9, PartitionKeeps
  <2>. QED BY Zenon, <1>0, <1>9, <2>1, AsideKeeps DEF Aside, TypeOK
<1>10. ASSUME NEW i \in Insts, NEW w \in Workers, Launch(i, w) \/ Repair(i, w)
       PROVE  FleetInv'
  <2>. USE DEF Launch, Repair
  <2>1. events' \in 0..MaxEvents
    BY Zenon, <1>0, <1>10, Spent, CostNat DEF RegistryOK, RegistryTypeOK
  <2>2. RegistryOK' /\ Sober
    BY Zenon, <1>0, <1>10, <2>1, StillKeeps
  <2>3. TypeOK'
    BY Zenon, <1>0, <1>10, <2>2 DEF TypeOK, RegistryOK, DiscoveryTypeOK, discovery
  <2>4. Durable' /\ Indexed' /\ Unannounced' /\ RoutesAgree'
    BY Zenon, <1>10, <2>2 DEF FleetInv, RegistryOK, Indexed, Unannounced, RoutesAgree, discovery
  <2>5. UnhealthyEvicted'
    BY Zenon, <1>10 DEF FleetInv, UnhealthyEvicted, discovery, registry
  <2>. QED BY Zenon, <2>3, <2>4, <2>5 DEF FleetInv
<1>11. ASSUME NEW i \in Insts,
              \/ Route(i) \/ Unroute(i) \/ Announce(i) \/ Prune(i)
              \/ \E healthy \in BOOLEAN : CheckEndpoint(i, healthy)
       PROVE  FleetInv'
  <2>. USE DEF Route, Unroute, Announce, Prune, CheckEndpoint
  <2>1. EndpointStep(i)
    BY Zenon, <1>11, LaunchSteps, EndpointSteps
  <2>2. UNCHANGED <<registry, down, due, saving, mon>>
    BY Zenon, <1>11
  <2>3. events' \in 0..MaxEvents
    BY Zenon, <1>0, <1>11, Spent DEF RegistryOK, RegistryTypeOK
  <2>4. /\ placing' \in [Insts -> Workers \cup {NoWorker}]
        /\ fresh' \subseteq Insts /\ launched' \subseteq Insts
    BY Zenon, <1>0, <1>11 DEF TypeOK, instances
  <2>. QED BY Zenon, <2>1, <2>2, <2>3, <2>4, EndpointKeeps
<1>12. CASE UNCHANGED vars
  <2>1. RegistryOK' /\ Sober
    BY Zenon, <1>0, <1>12, StillKeeps DEF vars, RegistryOK, RegistryTypeOK
  <2>. QED BY Zenon, <1>0, <1>12, <2>1, AsideKeeps DEF vars, Aside, TypeOK
<1>. QED
  BY Zenon, <1>1, <1>2, <1>3, <1>4, <1>5, <1>6, <1>7, <1>8, <1>9, <1>10, <1>11, <1>12 DEF Next

-----------------------------------------------------------------------------
(* Theorems                                                                 *)

\* Every reachable state of the fleet satisfies the invariant.
THEOREM FleetInvariant == Spec => []FleetInv
BY InitFleet, NextFleet, PTL DEF Spec

\* A drained worker is not feasible until it is undrained or registers again, in
\* this process and, if the table has the drain, in the next (registry.go's Drain,
\* Undrain, Register, SetHealthWithReason and NewRegistry).
THEOREM DrainSurvivesHolds == Spec => []DrainSurvives
<1>1. FleetInv => DrainSurvives
  BY Zenon DEF FleetInv, Durable, DrainSurvives, Feasible
<1>. QED BY <1>1, FleetInvariant, PTL

\* An instance that discovery has is routed only where discovery has it, and only
\* while it is healthy there (service_registry.go), although the service and the
\* loop write the router as well.
THEOREM RoutesAgreeHolds == Spec => []RoutesAgree
<1>1. FleetInv => RoutesAgree
  BY Zenon DEF FleetInv
<1>. QED BY <1>1, FleetInvariant, PTL

\* No route announced before the verdict survives the eviction of a dead worker
\* (timeout_monitor.go and service_registry.go).
THEOREM UnhealthyEvictedHolds == Spec => []UnhealthyEvicted
<1>1. FleetInv => UnhealthyEvicted
  BY Zenon DEF FleetInv
<1>. QED BY <1>1, FleetInvariant, PTL

-----------------------------------------------------------------------------
(* Autoscaler                                                               *)

EvalStates == {"idle", "decide", "scale", "stamp"}
PolicyRecords == [min : Nat, max : Nat, tolerance : Nat]
EvalRecords == [at : EvalStates, policy : PolicyRecords, up : ScaleAges, down : ScaleAges,
                from : Nat, to : Nat, action : {"NONE", "SCALE_UP", "SCALE_DOWN"}, metric : Nat]

ScalerTypes ==
    /\ replicas \in Nat \ {0}
    /\ policy \subseteq Policies
    /\ lastScaleUp \in ScaleAges /\ lastScaleDown \in ScaleAges
    /\ scaledUp \in ScaleAges /\ scaledDown \in ScaleAges
    /\ eval \in [Evals -> EvalRecords]
    /\ overlap \in [Evals -> SUBSET Evals]

\* A stamp is behind what was scaled only while the request that scaled has not
\* stamped it.
StampsOK ==
    /\ lastScaleUp <= scaledUp \/ \E e \in Evals : eval[e].at = "stamp" /\ eval[e].action = "SCALE_UP"
    /\ lastScaleDown <= scaledDown \/ \E e \in Evals : eval[e].at = "stamp" /\ eval[e].action = "SCALE_DOWN"

\* A request no other overlaps is the only one under way.
AloneOK ==
    \A e, f \in Evals : e # f /\ eval[e].at # "idle" /\ eval[f].at # "idle" => overlap[e] # {}

\* What such a request has read is not older than what was scaled, and its
\* decision is outside the windows.
CooldownsOK ==
    \A e \in Evals : overlap[e] = {} =>
      /\ eval[e].at = "decide" => eval[e].up <= scaledUp /\ eval[e].down <= scaledDown
      /\ eval[e].at = "scale" =>
           IF eval[e].action = "SCALE_UP" THEN scaledUp >= ScaleUpCooldown
           ELSE scaledUp >= ScaleDownCooldown /\ scaledDown >= ScaleDownCooldown

ScalesOK == \A e \in Evals : eval[e].at = "scale" => eval[e].to # 0 /\ eval[e].action # "NONE"

ScalerInv == ScalerTypes /\ StampsOK /\ AloneOK /\ CooldownsOK /\ ScalesOK /\ DecisionSound

-----------------------------------------------------------------------------

LEMMA OldIsLongest ==
    Old \in Nat /\ ScaleUpCooldown <= Old /\ ScaleDownCooldown <= Old
    /\ Old \in ScaleAges /\ 0 \in ScaleAges
BY AutoscalerAssumption DEF Old, ScaleAges

LEMMA AgeGrows ==
    ASSUME NEW a \in ScaleAges
    PROVE  Age(a) \in ScaleAges /\ a <= Age(a)
BY OldIsLongest DEF Age, ScaleAges

LEMMA AgeMonotone ==
    ASSUME NEW a \in ScaleAges, NEW b \in ScaleAges, a <= b
    PROVE  Age(a) <= Age(b)
BY OldIsLongest DEF Age, ScaleAges

\* Division rounds down.
LEMMA DivBounds ==
    ASSUME NEW n \in Nat, NEW d \in Nat \ {0}
    PROVE  n \div d \in Nat /\ (n \div d) * d <= n /\ n < ((n \div d) + 1) * d
OBVIOUS

LEMMA CeilBounds ==
    ASSUME NEW n \in Nat \ {0}, NEW d \in Nat \ {0}
    PROVE  Ceil(n, d) \in Nat \ {0} /\ Ceil(n, d) * d >= n /\ (Ceil(n, d) - 1) * d < n
<1> DEFINE c == (n + d - 1) \div d
<1>1. c \in Nat /\ c * d <= n + d - 1 /\ n + d - 1 < (c + 1) * d
  BY DivBounds
<1> HIDE DEF c
<1>2. (c + 1) * d = c * d + d /\ (c - 1) * d = c * d - d
  BY <1>1
<1>3. c * d \in Nat
  BY <1>1
<1>4. c * d >= n /\ (c - 1) * d < n
  BY <1>1, <1>2, <1>3
<1>5. c # 0
  BY <1>1, <1>4
<1> QED BY Zenon, <1>1, <1>4, <1>5 DEF c, Ceil

LEMMA TimesMonotone ==
    ASSUME NEW a \in Nat, NEW b \in Nat, NEW d \in Nat, a <= b
    PROVE  a * d <= b * d
OBVIOUS

LEMMA BoundTypes ==
    ASSUME NEW p \in PolicyRecords
    PROVE  Floor(p) \in Nat \ {0} /\ Ceiling(p) \in Nat \ {0}
BY DEF PolicyRecords, Floor, Ceiling, Upper

\* Rounding up or down costs at most one replica.
LEMMA CeilsBounds ==
    ASSUME NEW n \in Nat, NEW m \in Nat, n * m \in Nat \ {0}, NEW k \in Ceils(n, m)
    PROVE  k \in Nat \ {0} /\ k * TargetValue >= n * m /\ (k - 1) * TargetValue <= n * m
<1> DEFINE T == TargetValue
<1> DEFINE L == n * m
<1> DEFINE c == Ceil(L, T)
<1>1. T \in Nat \ {0} /\ L \in Nat \ {0}
  BY Zenon, AutoscalerAssumption
<1>2. k = c \/ (k = c + 1 /\ L % T = 0)
  BY Zenon DEF Ceils, Edge
<1> HIDE DEF L, T
<1>3. c \in Nat \ {0} /\ c * T >= L /\ (c - 1) * T < L
  BY Zenon, <1>1, CeilBounds
<1> HIDE DEF c
<1>4. L % T = 0 => c * T <= L
  <2> SUFFICES ASSUME L % T = 0 PROVE c * T <= L
    OBVIOUS
  <2> DEFINE q == L \div T
  <2>1. q \in Nat /\ q * T = L
    BY <1>1
  <2> HIDE DEF q
  <2>2. c <= q
    <3> SUFFICES ASSUME q <= c - 1 PROVE FALSE
      BY <1>3, <2>1
    <3>1. q * T <= (c - 1) * T
      BY <1>1, <1>3, <2>1, TimesMonotone
    <3> QED BY <1>1, <1>3, <2>1, <3>1
  <2>3. c * T <= q * T
    BY Zenon, <1>1, <1>3, <2>1, <2>2, TimesMonotone
  <2> QED BY Zenon, <2>1, <2>3
<1>5. (c + 1) * T = c * T + T /\ c * T \in Nat /\ (c - 1) * T \in Int /\ (c + 1) - 1 = c
  BY <1>1, <1>3
<1>6. k \in Nat \ {0} /\ k * T >= L /\ (k - 1) * T <= L
  <2>1. CASE k = c
    BY <1>1, <1>3, <1>5, <2>1
  <2>2. CASE k = c + 1 /\ L % T = 0
    <3>1. (k - 1) * T <= L
      BY Zenon, <1>4, <1>5, <2>2
    <3>2. k * T >= L /\ k \in Nat \ {0}
      BY <1>1, <1>3, <1>5, <2>2
    <3> QED BY Zenon, <3>1, <3>2
  <2> QED BY Zenon, <1>2, <2>1, <2>2
<1> QED BY Zenon, <1>6 DEF L, T

LEMMA FloorsBounds ==
    ASSUME NEW n \in Nat, NEW m \in Nat, n * m \in Nat, NEW k \in Floors(n, m)
    PROVE  k \in Int /\ k * TargetValue <= n * m /\ (k + 1) * TargetValue >= n * m
<1> DEFINE T == TargetValue
<1> DEFINE L == n * m
<1> DEFINE f == L \div T
<1>1. T \in Nat \ {0} /\ L \in Nat
  BY Zenon, AutoscalerAssumption
<1>2. k = f \/ (k = f - 1 /\ L % T = 0)
  BY Zenon DEF Floors, Edge
<1> HIDE DEF L, T
<1>3. f \in Nat /\ f * T <= L /\ L < (f + 1) * T /\ (L % T = 0 => f * T = L)
  BY <1>1, DivBounds
<1> HIDE DEF f
<1>4. f * T \in Nat /\ (f + 1) * T \in Nat /\ (f - 1) * T = f * T - T /\ (f - 1) + 1 = f
  BY <1>1, <1>3
<1>5. k \in Int /\ k * T <= L /\ (k + 1) * T >= L
  <2>1. CASE k = f
    BY <1>1, <1>3, <1>4, <2>1
  <2>2. CASE k = f - 1 /\ L % T = 0
    <3>1. (k + 1) * T = L
      BY Zenon, <1>3, <1>4, <2>2
    <3>2. k * T = f * T - T
      BY Zenon, <1>4, <2>2
    <3>3. k \in Int /\ k * T <= L
      BY <1>1, <1>3, <1>4, <2>2, <3>2
    <3> QED BY <1>1, <3>1, <3>3
  <2> QED BY Zenon, <1>2, <2>1, <2>2
<1> QED BY Zenon, <1>5 DEF L, T

\* Above the target, the replicas needed are more than there are.
LEMMA UpSound ==
    ASSUME NEW n \in Nat \ {0}, NEW m \in Nat, NEW p \in PolicyRecords, m > TargetValue,
           NEW to \in DesiredUp(n, m, p)
    PROVE  /\ to \in Nat \ {0}
           /\ \/ to = Ceiling(p)
              \/ to < Ceiling(p) /\ to * TargetValue >= n * m /\ (to - 1) * TargetValue <= n * m
<1> DEFINE T == TargetValue
<1> DEFINE L == n * m
<1>1. T \in Nat \ {0}
  BY Zenon, AutoscalerAssumption
<1>2. L \in Nat \ {0} /\ L > n * T /\ n * T \in Nat
  <2>1. n * (T + 1) <= n * m
    BY <1>1, TimesMonotone
  <2>2. n * (T + 1) = n * T + n
    BY <1>1
  <2>3. n * T \in Nat /\ n * m \in Nat
    BY <1>1
  <2> QED BY <1>1, <2>1, <2>2, <2>3
<1>0. PICK c \in Ceils(n, m) : to = Lower(Upper(c, n + 1), Ceiling(p))
  BY Zenon DEF DesiredUp
<1>3. c \in Nat \ {0} /\ c * T >= L /\ (c - 1) * T <= L
  BY Zenon, <1>0, <1>2, CeilsBounds
<1> HIDE DEF L, T
<1>4. c > n
  <2> SUFFICES ASSUME c <= n PROVE FALSE
    BY <1>3
  <2>1. c * T <= n * T
    BY Zenon, <1>1, <1>3, TimesMonotone
  <2>2. c * T \in Nat
    BY <1>1, <1>3
  <2> QED BY <1>2, <1>3, <2>1, <2>2
<1>5. to = Lower(c, Ceiling(p))
  <2>1. Upper(c, n + 1) = c
    BY <1>3, <1>4 DEF Upper
  <2> QED BY Zenon, <2>1, <1>0
<1>6. Ceiling(p) \in Nat \ {0}
  BY Zenon, BoundTypes
<1>7. to = Ceiling(p) \/ (to = c /\ c < Ceiling(p))
  BY <1>3, <1>5, <1>6 DEF Lower
<1> QED BY Zenon, <1>3, <1>6, <1>7 DEF T, L

LEMMA DownSound ==
    ASSUME NEW n \in Nat \ {0}, NEW m \in Nat, NEW p \in PolicyRecords, m < TargetValue,
           NEW to \in DesiredDown(n, m, p)
    PROVE  /\ to \in Nat \ {0}
           /\ \/ to = Floor(p)
              \/ to > Floor(p) /\ to * TargetValue <= n * m /\ (to + 1) * TargetValue >= n * m
<1> DEFINE T == TargetValue
<1> DEFINE L == n * m
<1>1. T \in Nat \ {0}
  BY Zenon, AutoscalerAssumption
<1>2. L \in Nat /\ L < n * T /\ n * T \in Nat
  <2>1. n * (m + 1) <= n * T
    BY <1>1, TimesMonotone
  <2>2. n * (m + 1) = n * m + n
    OBVIOUS
  <2>3. n * T \in Nat /\ n * m \in Nat
    BY <1>1
  <2> QED BY <1>1, <2>1, <2>2, <2>3
<1>0. PICK c \in Floors(n, m) : to = Upper(Lower(c, n - 1), Floor(p))
  BY Zenon DEF DesiredDown
<1>3. c \in Int /\ c * T <= L /\ (c + 1) * T >= L
  BY Zenon, <1>0, <1>2, FloorsBounds
<1> HIDE DEF L, T
<1>4. c < n
  <2> SUFFICES ASSUME n <= c PROVE FALSE
    BY <1>3
  <2>0. c \in Nat
    BY <1>3
  <2>1. n * T <= c * T
    BY Zenon, <1>1, <2>0, TimesMonotone
  <2>2. c * T \in Nat
    BY <1>1, <2>0
  <2> QED BY <1>2, <1>3, <2>1, <2>2
<1>5. to = Upper(c, Floor(p))
  <2>1. Lower(c, n - 1) = c
    BY <1>3, <1>4 DEF Lower
  <2> QED BY Zenon, <2>1, <1>0
<1>6. Floor(p) \in Nat \ {0}
  BY Zenon, BoundTypes
<1>7. to = Floor(p) \/ (to = c /\ c > Floor(p))
  BY <1>3, <1>5, <1>6 DEF Upper
<1>8. to \in Nat \ {0}
  BY <1>3, <1>6, <1>7
<1> QED BY Zenon, <1>3, <1>7, <1>8 DEF T, L

\* A change is asked for only outside the deadband, in the direction of the metric.
LEMMA DesiredMoves ==
    ASSUME NEW n \in Nat \ {0}, NEW m \in Nat, NEW p \in PolicyRecords,
           NEW to \in Desired(n, m, p), to # n
    PROVE  \/ m > TargetValue /\ to \in DesiredUp(n, m, p)
           \/ m < TargetValue /\ to \in DesiredDown(n, m, p)
<1>1. TargetValue \in Nat \ {0} /\ Tolerance(p) \in Nat \ {0}
  BY AutoscalerAssumption DEF Tolerance, PolicyRecords
<1>2. FALSE \in InDeadband(m, p) /\ to \in IF m > TargetValue THEN DesiredUp(n, m, p) ELSE DesiredDown(n, m, p)
  BY Zenon DEF Desired
<1>3. m # TargetValue
  <2> SUFFICES ASSUME m = TargetValue PROVE FALSE
    OBVIOUS
  <2>0. PICK w \in Nat \ {0} : w = Tolerance(p)
    BY Zenon, <1>1
  <2>1. w * TargetValue > 0
    <3>1. 1 * TargetValue <= w * TargetValue
      BY <1>1, TimesMonotone
    <3> QED BY <1>1, <3>1
  <2>2. InDeadband(m, p) = {TRUE}
    <3> DEFINE width == w * TargetValue
    <3>1. width \in Nat /\ width > 0
      BY <1>1, <2>1
    <3> HIDE DEF width
    <3>2. 100 * (TargetValue - m) = 0 /\ 0 # width /\ 0 < width /\ ~(m > TargetValue)
      BY <1>1, <3>1
    <3> QED BY ZenonT(60), <2>0, <3>2 DEF InDeadband, width
  <2> QED BY Zenon, <1>2, <2>2
<1>4. m > TargetValue \/ (m < TargetValue /\ ~(m > TargetValue))
  BY <1>1, <1>3
<1> QED BY Zenon, <1>2, <1>4

-----------------------------------------------------------------------------
(* The invariant                                                            *)

\* DecisionSound, for one request.
SoundFor(x) ==
    x.at = "scale" =>
      /\ x.to # x.from
      /\ IF x.action = "SCALE_UP"
           THEN \/ x.to = Ceiling(x.policy)
                \/ /\ x.to < Ceiling(x.policy)
                   /\ x.to * TargetValue >= x.from * x.metric
                   /\ (x.to - 1) * TargetValue <= x.from * x.metric
           ELSE \/ x.to = Floor(x.policy)
                \/ /\ x.to > Floor(x.policy)
                   /\ x.to * TargetValue <= x.from * x.metric
                   /\ (x.to + 1) * TargetValue >= x.from * x.metric

LEMMA SoundForAll == DecisionSound <=> \A e \in Evals : SoundFor(eval[e])
BY Zenon DEF DecisionSound, SoundFor

LEMMA NoEvalType ==
    /\ NoEval \in EvalRecords /\ NoEval.at = "idle"
    /\ Policies \subseteq PolicyRecords
<1>1. Policies \subseteq PolicyRecords /\ Policies # {}
  BY Zenon, AutoscalerAssumption DEF PolicyRecords
<1>2. (CHOOSE p \in Policies : TRUE) \in PolicyRecords
  BY Zenon, <1>1
<1> QED BY Zenon, <1>1, <1>2, OldIsLongest DEF NoEval, EvalRecords, EvalStates

LEMMA InitScaler == AutoscalerInit => ScalerInv
<1> SUFFICES ASSUME AutoscalerInit PROVE ScalerInv
  OBVIOUS
<1>1. ScalerTypes
  BY NoEvalType, OldIsLongest DEF AutoscalerInit, ScalerTypes
<1>2. \A e \in Evals : eval[e].at = "idle"
  BY Zenon, NoEvalType DEF AutoscalerInit
<1>3. StampsOK
  BY OldIsLongest DEF AutoscalerInit, StampsOK
<1>4. AloneOK /\ CooldownsOK /\ ScalesOK
  BY Zenon, <1>2 DEF AloneOK, CooldownsOK, ScalesOK
<1>5. DecisionSound
  BY Zenon, <1>2, SoundForAll DEF SoundFor
<1> QED BY Zenon, <1>1, <1>3, <1>4, <1>5 DEF ScalerInv

\* A request that takes a step to x, with everything else of the requests as it was.
EvalMoves(e, x) ==
    /\ x \in EvalRecords /\ SoundFor(x)
    /\ x.at = "scale" => x.to # 0 /\ x.action # "NONE"
    /\ eval' = [eval EXCEPT ![e] = x]

LEMMA MovesKeep ==
    ASSUME ScalerInv, NEW e \in Evals, NEW x, EvalMoves(e, x)
    PROVE  /\ eval' \in [Evals -> EvalRecords] /\ ScalesOK' /\ DecisionSound'
           /\ eval'[e] = x /\ \A f \in Evals \ {e} : eval'[f] = eval[f]
<1>1. /\ eval' \in [Evals -> EvalRecords]
      /\ eval'[e] = x /\ \A f \in Evals \ {e} : eval'[f] = eval[f]
  BY Zenon DEF ScalerInv, ScalerTypes, EvalMoves
<1>2. ScalesOK'
  BY Zenon, <1>1 DEF ScalerInv, ScalesOK, EvalMoves
<1>3. \A f \in Evals : SoundFor(eval[f])
  BY Zenon, SoundForAll DEF ScalerInv
<1>4. \A f \in Evals : SoundFor(eval'[f])
  BY Zenon, <1>1, <1>3 DEF EvalMoves
<1>5. DecisionSound'
  BY <1>4 DEF DecisionSound, SoundFor
<1> QED BY Zenon, <1>1, <1>2, <1>5

LEMMA ReadKeeps == ASSUME ScalerInv, NEW e \in Evals, ReadPolicy(e) PROVE ScalerInv'
<1> USE DEF ScalerInv
<1>1. PICK p \in policy :
        eval' = [eval EXCEPT ![e] = [NoEval EXCEPT !.at = "decide", !.policy = p,
                                                   !.up = lastScaleUp, !.down = lastScaleDown]]
  BY Zenon DEF ReadPolicy
<1> DEFINE x == [NoEval EXCEPT !.at = "decide", !.policy = p, !.up = lastScaleUp, !.down = lastScaleDown]
<1> DEFINE active == {f \in Evals \ {e} : eval[f].at # "idle"}
<1>2. x \in EvalRecords /\ x.at = "decide" /\ x.up = lastScaleUp /\ x.down = lastScaleDown
  BY Zenon, NoEvalType DEF EvalRecords, EvalStates, ScalerTypes
<1>3. eval[e].at = "idle" /\ UNCHANGED <<replicas, policy, lastScaleUp, lastScaleDown, scaledUp, scaledDown>>
  BY Zenon DEF ReadPolicy, stamps, scaled
<1>4. overlap' = [f \in Evals |-> IF f = e THEN active
                                  ELSE IF f \in active THEN overlap[f] \cup {e} ELSE overlap[f]]
  BY Zenon DEF ReadPolicy
<1>5. EvalMoves(e, x)
  BY Zenon, <1>1, <1>2 DEF EvalMoves, SoundFor
<1> HIDE DEF x
<1>6. /\ eval' \in [Evals -> EvalRecords] /\ ScalesOK' /\ DecisionSound'
      /\ eval'[e] = x /\ \A f \in Evals \ {e} : eval'[f] = eval[f]
  BY Zenon, <1>5, MovesKeep
<1>7. ScalerTypes'
  BY Zenon, <1>3, <1>4, <1>6 DEF ScalerTypes
<1>8. StampsOK'
  <2>1. \A f \in Evals : eval[f].at = "stamp" => eval'[f] = eval[f]
    BY Zenon, <1>3, <1>6
  <2> QED BY Zenon, <1>3, <2>1 DEF StampsOK
<1>9. AloneOK'
  <2> SUFFICES ASSUME NEW f \in Evals, NEW g \in Evals, f # g, eval'[f].at # "idle", eval'[g].at # "idle"
               PROVE overlap'[f] # {}
    BY Zenon DEF AloneOK
  <2>1. CASE f = e
    <3>1. g \in active
      BY Zenon, <1>6, <2>1
    <3> QED BY Zenon, <1>4, <2>1, <3>1
  <2>2. CASE f # e
    <3>1. f \in active
      BY Zenon, <1>6, <2>2
    <3> QED BY Zenon, <1>4, <2>2, <3>1
  <2> QED BY Zenon, <2>1, <2>2
<1>10. CooldownsOK'
  <2> SUFFICES ASSUME NEW f \in Evals, overlap'[f] = {}
               PROVE /\ eval'[f].at = "decide" => eval'[f].up <= scaledUp /\ eval'[f].down <= scaledDown
                     /\ eval'[f].at = "scale" =>
                          IF eval'[f].action = "SCALE_UP" THEN scaledUp >= ScaleUpCooldown
                          ELSE scaledUp >= ScaleDownCooldown /\ scaledDown >= ScaleDownCooldown
    BY Zenon, <1>3 DEF CooldownsOK
  <2>1. CASE f = e
    <3>1. active = {}
      BY Zenon, <1>4, <2>1
    <3>2. \A g \in Evals : eval[g].at # "stamp"
      BY Zenon, <1>3, <3>1
    <3>3. lastScaleUp <= scaledUp /\ lastScaleDown <= scaledDown
      BY Zenon, <3>2 DEF StampsOK
    <3> QED BY Zenon, <1>2, <1>6, <2>1, <3>3
  <2>2. CASE f # e
    <3>1. overlap[f] = {} /\ eval'[f] = eval[f]
      BY Zenon, <1>4, <1>6, <2>2
    <3> QED BY Zenon, <3>1 DEF CooldownsOK
  <2> QED BY Zenon, <2>1, <2>2
<1> QED BY ZenonT(60), <1>6, <1>7, <1>8, <1>9, <1>10

\* No request starts: those alone stay alone.
LEMMA AloneKept ==
    ASSUME AloneOK, overlap' = overlap,
           \A f \in Evals : eval'[f].at # "idle" => eval[f].at # "idle"
    PROVE  AloneOK'
BY Zenon DEF AloneOK

LEMMA DropType == SoundFor(NoEval) /\ NoEval \in EvalRecords /\ NoEval.at = "idle"
BY Zenon, NoEvalType DEF SoundFor

LEMMA DecideKeeps == ASSUME ScalerInv, NEW e \in Evals, Decide(e) PROVE ScalerInv'
<1> USE DEF ScalerInv
<1>1. /\ eval[e].at = "decide"
      /\ UNCHANGED <<replicas, policy, lastScaleUp, lastScaleDown, overlap, scaledUp, scaledDown>>
  BY ZenonT(60) DEF Decide, stamps, scaled
\* The decision, when one is taken.
<1> DEFINE Decided(metric, desired) ==
      [NoEval EXCEPT !.at = "scale", !.policy = eval[e].policy,
         !.action = Action(replicas, metric, desired), !.metric = metric, !.from = replicas,
         !.to = desired]
<1> DEFINE Outside(action) ==
      overlap[e] = {} => IF action = "SCALE_UP" THEN scaledUp >= ScaleUpCooldown
                         ELSE scaledUp >= ScaleDownCooldown /\ scaledDown >= ScaleDownCooldown
<1>2. \E x : EvalMoves(e, x) /\ (x.at = "idle" \/ (x.at = "scale" /\ Outside(x.action)))
  <2>1. CASE eval' = [eval EXCEPT ![e] = NoEval]
    BY <2>1, DropType, ZenonT(60) DEF EvalMoves
  <2>2. CASE \E metric \in Metrics : \E to \in Desired(replicas, metric, eval[e].policy) :
               eval' = [eval EXCEPT ![e] =
                 IF Action(replicas, metric, to) = "NONE" \/ Suppressed(e, Action(replicas, metric, to))
                 THEN NoEval ELSE Decided(metric, to)]
    <3>1. PICK metric \in Metrics : \E to \in Desired(replicas, metric, eval[e].policy) :
               eval' = [eval EXCEPT ![e] =
                 IF Action(replicas, metric, to) = "NONE" \/ Suppressed(e, Action(replicas, metric, to))
                 THEN NoEval ELSE Decided(metric, to)]
      BY Zenon, <2>2
    <3>0. PICK to \in Desired(replicas, metric, eval[e].policy) :
               eval' = [eval EXCEPT ![e] =
                 IF Action(replicas, metric, to) = "NONE" \/ Suppressed(e, Action(replicas, metric, to))
                 THEN NoEval ELSE Decided(metric, to)]
      BY Zenon, <3>1
    <3> DEFINE action == Action(replicas, metric, to)
    <3>2. CASE action = "NONE" \/ Suppressed(e, action)
      <4>1. eval' = [eval EXCEPT ![e] = NoEval]
        BY Zenon, <3>0, <3>2
      <4> QED BY <4>1, DropType, Zenon DEF EvalMoves
    <3>3. CASE action # "NONE" /\ ~Suppressed(e, action)
      <4>1. /\ metric \in Nat /\ TargetValue \in Nat \ {0} /\ replicas \in Nat \ {0}
            /\ eval[e].policy \in PolicyRecords
            /\ eval[e].up \in ScaleAges /\ eval[e].down \in ScaleAges
        BY Zenon, AutoscalerAssumption DEF ScalerTypes, EvalRecords
      <4>2. /\ to # replicas
            /\ action = IF metric > TargetValue THEN "SCALE_UP" ELSE "SCALE_DOWN"
        BY Zenon, <3>3 DEF Action
      <4>3. \/ metric > TargetValue /\ to \in DesiredUp(replicas, metric, eval[e].policy)
            \/ metric < TargetValue /\ to \in DesiredDown(replicas, metric, eval[e].policy)
        BY Zenon, <3>0, <4>1, <4>2, DesiredMoves
      <4>4. /\ to \in Nat \ {0}
            /\ action \in {"SCALE_UP", "SCALE_DOWN"}
            /\ IF action = "SCALE_UP"
                 THEN \/ to = Ceiling(eval[e].policy)
                      \/ /\ to < Ceiling(eval[e].policy)
                         /\ to * TargetValue >= replicas * metric
                         /\ (to - 1) * TargetValue <= replicas * metric
                 ELSE \/ to = Floor(eval[e].policy)
                      \/ /\ to > Floor(eval[e].policy)
                         /\ to * TargetValue <= replicas * metric
                         /\ (to + 1) * TargetValue >= replicas * metric
        <5> HIDE DEF action
        <5>1. CASE metric > TargetValue /\ to \in DesiredUp(replicas, metric, eval[e].policy)
          BY Zenon, <4>1, <4>2, <5>1, UpSound
        <5>2. CASE metric < TargetValue /\ to \in DesiredDown(replicas, metric, eval[e].policy)
          <6>1. ~(metric > TargetValue)
            BY <4>1, <5>2
          <6> QED BY Zenon, <4>1, <4>2, <5>2, <6>1, DownSound
        <5> QED BY Zenon, <4>3, <5>1, <5>2
      <4>5. Outside(action)
        <5>1. overlap[e] = {} => eval[e].up <= scaledUp /\ eval[e].down <= scaledDown
          BY <1>1 DEF CooldownsOK
        <5>2. scaledUp \in Nat /\ scaledDown \in Nat /\ eval[e].up \in Nat /\ eval[e].down \in Nat
          BY <4>1, OldIsLongest DEF ScalerTypes, ScaleAges
        <5> HIDE DEF action
        <5>3. action \in {"SCALE_UP", "SCALE_DOWN"}
          BY Zenon, <4>4
        <5> QED BY <3>3, <5>1, <5>2, <5>3, AutoscalerAssumption DEF Suppressed
      <4> HIDE DEF action
      <4> DEFINE x == [NoEval EXCEPT !.at = "scale", !.policy = eval[e].policy, !.action = action,
                                     !.metric = metric, !.from = replicas, !.to = to]
      <4>6. eval' = [eval EXCEPT ![e] = x]
        BY Zenon, <3>0, <3>3 DEF action
      <4>7. /\ x \in EvalRecords
            /\ x.at = "scale" /\ x.policy = eval[e].policy /\ x.action = action
            /\ x.metric = metric /\ x.from = replicas /\ x.to = to
        BY ZenonT(60), <4>1, <4>4, NoEvalType DEF EvalRecords, EvalStates
      <4> HIDE DEF x
      <4>8. SoundFor(x)
        BY Zenon, <4>2, <4>4, <4>7 DEF SoundFor
      <4>9. EvalMoves(e, x) /\ x.at = "scale" /\ Outside(x.action)
        BY ZenonT(60), <4>4, <4>5, <4>6, <4>7, <4>8 DEF EvalMoves
      <4> HIDE DEF Outside
      <4> QED BY Zenon, <4>9
    <3> QED BY <3>2, <3>3
  <2> QED BY Zenon, <2>1, <2>2 DEF Decide
<1>3. PICK x : EvalMoves(e, x) /\ (x.at = "idle" \/ (x.at = "scale" /\ Outside(x.action)))
  BY ZenonT(60), <1>2
<1>4. /\ eval' \in [Evals -> EvalRecords] /\ ScalesOK' /\ DecisionSound'
      /\ eval'[e] = x /\ \A f \in Evals \ {e} : eval'[f] = eval[f]
  BY <1>3, MovesKeep
<1>5. ScalerTypes'
  BY Zenon, <1>1, <1>4 DEF ScalerTypes
<1>6. StampsOK'
  <2>1. \A f \in Evals : eval[f].at = "stamp" => eval'[f] = eval[f]
    BY Zenon, <1>1, <1>4
  <2> QED BY Zenon, <1>1, <2>1 DEF StampsOK
<1>7. AloneOK'
  <2>1. \A f \in Evals : eval'[f].at # "idle" => eval[f].at # "idle"
    BY ZenonT(60), <1>1, <1>4
  <2> QED BY Zenon, <1>1, <2>1, AloneKept
<1>8. CooldownsOK'
  BY Zenon, <1>1, <1>3, <1>4 DEF CooldownsOK
<1> QED BY <1>4, <1>5, <1>6, <1>7, <1>8

LEMMA ScaleKeeps == ASSUME ScalerInv, NEW e \in Evals, Scale(e) PROVE ScalerInv'
<1> USE DEF ScalerInv
<1>1. /\ eval[e].at = "scale" /\ eval[e].to \in Nat \ {0} /\ eval[e].action \in {"SCALE_UP", "SCALE_DOWN"}
      /\ UNCHANGED <<policy, lastScaleUp, lastScaleDown, overlap>>
  BY Zenon DEF Scale, stamps, ScalesOK, ScalerTypes, EvalRecords
<1>2. \E x : EvalMoves(e, x) /\ (\/ /\ x.at = "idle" /\ UNCHANGED <<replicas, scaledUp, scaledDown>>
                                 \/ /\ x.at = "stamp" /\ x.action = eval[e].action
                                    /\ replicas' = eval[e].to
                                    /\ scaledUp' = IF eval[e].action = "SCALE_UP" THEN 0 ELSE scaledUp
                                    /\ scaledDown' = IF eval[e].action = "SCALE_DOWN" THEN 0 ELSE scaledDown)
  <2>1. CASE eval' = [eval EXCEPT ![e] = NoEval] /\ UNCHANGED <<replicas, scaled>>
    <3>1. UNCHANGED <<replicas, scaledUp, scaledDown>>
      BY Zenon, <2>1 DEF scaled
    <3>2. EvalMoves(e, NoEval)
      BY Zenon, <2>1, DropType DEF EvalMoves
    <3> QED BY Zenon, <3>1, <3>2, DropType
  <2>2. CASE /\ replicas' = eval[e].to
             /\ eval' = [eval EXCEPT ![e] = [NoEval EXCEPT !.at = "stamp", !.action = eval[e].action]]
             /\ scaledUp' = IF eval[e].action = "SCALE_UP" THEN 0 ELSE scaledUp
             /\ scaledDown' = IF eval[e].action = "SCALE_DOWN" THEN 0 ELSE scaledDown
    <3> DEFINE x == [NoEval EXCEPT !.at = "stamp", !.action = eval[e].action]
    <3>1. x \in EvalRecords /\ x.at = "stamp" /\ x.action = eval[e].action
      BY ZenonT(60), <1>1, NoEvalType DEF EvalRecords, EvalStates
    <3>2. eval' = [eval EXCEPT ![e] = x]
      BY Zenon, <2>2
    <3> HIDE DEF x
    <3>3. EvalMoves(e, x)
      BY Zenon, <3>1, <3>2 DEF EvalMoves, SoundFor
    <3> QED BY Zenon, <2>2, <3>1, <3>3
  <2> QED BY Zenon, <2>1, <2>2 DEF Scale
<1>3. PICK x : EvalMoves(e, x) /\ (\/ /\ x.at = "idle" /\ UNCHANGED <<replicas, scaledUp, scaledDown>>
                                 \/ /\ x.at = "stamp" /\ x.action = eval[e].action
                                    /\ replicas' = eval[e].to
                                    /\ scaledUp' = IF eval[e].action = "SCALE_UP" THEN 0 ELSE scaledUp
                                    /\ scaledDown' = IF eval[e].action = "SCALE_DOWN" THEN 0 ELSE scaledDown)
  BY Zenon, <1>2
<1>4. /\ eval' \in [Evals -> EvalRecords] /\ ScalesOK' /\ DecisionSound'
      /\ eval'[e] = x /\ \A f \in Evals \ {e} : eval'[f] = eval[f]
  BY Zenon, <1>3, MovesKeep
<1>5. ScalerTypes'
  BY Zenon, <1>1, <1>3, <1>4, OldIsLongest DEF ScalerTypes
<1>6. StampsOK'
  <2>1. \A f \in Evals : eval[f].at = "stamp" => eval'[f] = eval[f]
    BY Zenon, <1>1, <1>4
  <2>2. CASE UNCHANGED <<scaledUp, scaledDown>>
    BY Zenon, <1>1, <2>1, <2>2 DEF StampsOK
  <2>3. CASE x.at = "stamp" /\ x.action = "SCALE_UP" /\ scaledDown' = scaledDown
    BY Zenon, <1>1, <1>4, <2>1, <2>3 DEF StampsOK
  <2>4. CASE x.at = "stamp" /\ x.action = "SCALE_DOWN" /\ scaledUp' = scaledUp
    BY Zenon, <1>1, <1>4, <2>1, <2>4 DEF StampsOK
  <2> QED BY Zenon, <1>1, <1>3, <2>2, <2>3, <2>4
<1>7. AloneOK'
  <2>1. \A f \in Evals : eval'[f].at # "idle" => eval[f].at # "idle"
    BY Zenon, <1>1, <1>4
  <2> QED BY Zenon, <1>1, <2>1, AloneKept
<1>8. CooldownsOK'
  <2>1. \A f \in Evals \ {e} : overlap[f] = {} => eval[f].at = "idle"
    BY Zenon, <1>1 DEF AloneOK
  <2>2. \A f \in Evals : overlap'[f] = {} => eval'[f].at \in {"idle", "stamp"}
    BY <1>1, <1>3, <1>4, <2>1
  <2> QED BY Zenon, <2>2 DEF CooldownsOK
<1> QED BY <1>4, <1>5, <1>6, <1>7, <1>8

LEMMA StampKeeps == ASSUME ScalerInv, NEW e \in Evals, Stamp(e) PROVE ScalerInv'
<1> USE DEF ScalerInv
<1>1. /\ eval[e].at = "stamp" /\ UNCHANGED <<replicas, policy, overlap, scaledUp, scaledDown>>
      /\ lastScaleUp' = IF eval[e].action = "SCALE_UP" THEN 0 ELSE lastScaleUp
      /\ lastScaleDown' = IF eval[e].action = "SCALE_DOWN" THEN 0 ELSE lastScaleDown
  BY Zenon DEF Stamp, scaled
<1>2. EvalMoves(e, NoEval)
  BY Zenon, DropType DEF EvalMoves, Stamp
<1>3. /\ eval' \in [Evals -> EvalRecords] /\ ScalesOK' /\ DecisionSound'
      /\ eval'[e] = NoEval /\ \A f \in Evals \ {e} : eval'[f] = eval[f]
  BY Zenon, <1>2, MovesKeep
<1>4. ScalerTypes'
  BY Zenon, <1>1, <1>3, OldIsLongest DEF ScalerTypes
<1>5. StampsOK'
  <2>1. 0 <= scaledUp /\ 0 <= scaledDown
    BY OldIsLongest DEF ScalerTypes, ScaleAges
  <2>2. lastScaleUp' <= scaledUp' \/ \E f \in Evals : eval'[f].at = "stamp" /\ eval'[f].action = "SCALE_UP"
    BY <1>1, <1>3, <2>1 DEF StampsOK
  <2>3. lastScaleDown' <= scaledDown' \/ \E f \in Evals : eval'[f].at = "stamp" /\ eval'[f].action = "SCALE_DOWN"
    BY Zenon, <1>1, <1>3, <2>1 DEF StampsOK
  <2> QED BY Zenon, <2>2, <2>3 DEF StampsOK
<1>6. \A f \in Evals : eval'[f].at # "idle" => eval[f].at # "idle" /\ eval'[f] = eval[f]
  BY Zenon, <1>3, DropType
<1>7. AloneOK'
  BY Zenon, <1>1, <1>6, AloneKept
<1>8. CooldownsOK'
  BY Zenon, <1>1, <1>6 DEF CooldownsOK
<1> QED BY Zenon, <1>3, <1>4, <1>5, <1>7, <1>8

LEMMA ScaleTickKeeps == ASSUME ScalerInv, ScaleTick PROVE ScalerInv'
<1> USE DEF ScalerInv
<1>1. /\ lastScaleUp \in ScaleAges /\ lastScaleDown \in ScaleAges
      /\ scaledUp \in ScaleAges /\ scaledDown \in ScaleAges
      /\ \A e \in Evals : eval[e] \in EvalRecords /\ eval[e].up \in ScaleAges /\ eval[e].down \in ScaleAges
  BY ZenonT(60) DEF ScalerTypes, EvalRecords
<1>2. /\ lastScaleUp' = Age(lastScaleUp) /\ lastScaleDown' = Age(lastScaleDown)
      /\ scaledUp' = Age(scaledUp) /\ scaledDown' = Age(scaledDown)
      /\ UNCHANGED <<replicas, policy, overlap>>
  BY Zenon DEF ScaleTick
<1>3. \A e \in Evals :
        /\ eval'[e] \in EvalRecords
        /\ eval'[e].up = Age(eval[e].up) /\ eval'[e].down = Age(eval[e].down)
        /\ eval'[e].at = eval[e].at /\ eval'[e].action = eval[e].action
        /\ eval'[e].policy = eval[e].policy /\ eval'[e].metric = eval[e].metric
        /\ eval'[e].from = eval[e].from /\ eval'[e].to = eval[e].to
  <2> SUFFICES ASSUME NEW e \in Evals
               PROVE /\ eval'[e] \in EvalRecords
                     /\ eval'[e].up = Age(eval[e].up) /\ eval'[e].down = Age(eval[e].down)
                     /\ eval'[e].at = eval[e].at /\ eval'[e].action = eval[e].action
                     /\ eval'[e].policy = eval[e].policy /\ eval'[e].metric = eval[e].metric
                     /\ eval'[e].from = eval[e].from /\ eval'[e].to = eval[e].to
    BY Zenon
  <2>1. eval'[e] = [eval[e] EXCEPT !.up = Age(eval[e].up), !.down = Age(eval[e].down)]
    BY Zenon DEF ScaleTick
  <2>2. PICK y \in EvalRecords : y = eval[e]
    BY Zenon, <1>1
  <2>3. PICK u \in ScaleAges : u = Age(eval[e].up)
    BY Zenon, <1>1, AgeGrows
  <2>4. PICK d \in ScaleAges : d = Age(eval[e].down)
    BY Zenon, <1>1, AgeGrows
  <2>5. eval'[e] = [y EXCEPT !.up = u, !.down = d]
    BY Zenon, <2>1, <2>2, <2>3, <2>4
  <2> QED BY ZenonT(60), <2>2, <2>3, <2>4, <2>5 DEF EvalRecords
<1>4. eval' \in [Evals -> EvalRecords]
  BY Zenon, <1>3 DEF ScaleTick
<1>5. ScalerTypes'
  BY Zenon, <1>1, <1>2, <1>4, AgeGrows DEF ScalerTypes
<1>6. StampsOK'
  <2>1. lastScaleUp <= scaledUp => lastScaleUp' <= scaledUp'
    BY Zenon, <1>1, <1>2, AgeMonotone
  <2>2. lastScaleDown <= scaledDown => lastScaleDown' <= scaledDown'
    BY Zenon, <1>1, <1>2, AgeMonotone
  <2> QED BY <1>3, <2>1, <2>2 DEF StampsOK
<1>7. AloneOK'
  BY Zenon, <1>2, <1>3, AloneKept
<1>8. CooldownsOK'
  <2>1. /\ scaledUp <= scaledUp' /\ scaledDown <= scaledDown'
        /\ scaledUp \in Nat /\ scaledDown \in Nat /\ scaledUp' \in Nat /\ scaledDown' \in Nat
    BY <1>1, <1>2, AgeGrows, OldIsLongest DEF ScaleAges
  <2>2. \A n \in Nat : (scaledUp >= n => scaledUp' >= n) /\ (scaledDown >= n => scaledDown' >= n)
    BY <2>1
  <2>3. \A e \in Evals : (eval[e].up <= scaledUp => eval'[e].up <= scaledUp')
                         /\ (eval[e].down <= scaledDown => eval'[e].down <= scaledDown')
    BY <1>1, <1>2, <1>3, AgeMonotone
  <2> QED BY <1>2, <1>3, <2>2, <2>3, AutoscalerAssumption DEF CooldownsOK
<1>9. ScalesOK'
  BY <1>3 DEF ScalesOK
<1>10. DecisionSound'
  <2>1. \A e \in Evals : SoundFor(eval[e])
    BY SoundForAll
  <2>2. \A e \in Evals : SoundFor(eval'[e])
    BY ZenonT(60), <1>3, <2>1 DEF SoundFor
  <2> QED BY <2>2 DEF DecisionSound, SoundFor
<1> QED BY Zenon, <1>5, <1>6, <1>7, <1>8, <1>9, <1>10

\* Users touch neither the requests nor the stamps.
LEMMA UserKeeps ==
    ASSUME ScalerInv, UNCHANGED <<lastScaleUp, lastScaleDown, eval, overlap, scaledUp, scaledDown>>,
           replicas' \in Nat \ {0}, policy' \subseteq Policies
    PROVE  ScalerInv'
BY Zenon DEF ScalerInv, ScalerTypes, StampsOK, AloneOK, CooldownsOK, ScalesOK, DecisionSound

LEMMA ScalerStep == ScalerInv /\ [AutoscalerNext]_autoscaler => ScalerInv'
<1> SUFFICES ASSUME ScalerInv, [AutoscalerNext]_autoscaler PROVE ScalerInv'
  OBVIOUS
<1>0. replicas \in Nat \ {0} /\ policy \subseteq Policies
  BY Zenon DEF ScalerInv, ScalerTypes
<1>1. ASSUME NEW e \in Evals, EvaluateAutoscaler(e) PROVE ScalerInv'
  BY Zenon, <1>1, ReadKeeps, DecideKeeps, ScaleKeeps, StampKeeps DEF EvaluateAutoscaler
<1>2. ASSUME NEW p \in Policies, SetPolicy(p) PROVE ScalerInv'
  BY Zenon, <1>0, <1>2, UserKeeps DEF SetPolicy, stamps, scaled
<1>3. ASSUME NEW n \in 1..MaxReplicas, ScaleProject(n) PROVE ScalerInv'
  BY <1>0, <1>3, UserKeeps, AutoscalerAssumption DEF ScaleProject, stamps, scaled
<1>4. CASE ScaleTick
  BY <1>4, ScaleTickKeeps
<1>5. CASE UNCHANGED autoscaler
  BY Zenon, <1>0, <1>5, UserKeeps DEF autoscaler
<1> QED BY Zenon, <1>1, <1>2, <1>3, <1>4, <1>5 DEF AutoscalerNext

-----------------------------------------------------------------------------

\* Whatever the policies (bounds of zero and swapped ones included), the metrics
\* and the target: CalculateDesiredReplicas gives the fewest replicas that carry
\* the load, cut off at the ceiling, or the most that are used, cut off at the floor.
THEOREM DecisionsSound == AutoscalerSpec => []DecisionSound
<1>1. ScalerInv => DecisionSound
  BY Zenon DEF ScalerInv
<1> QED BY <1>1, InitScaler, ScalerStep, PTL DEF AutoscalerSpec

\* For any windows and any number of requests: an evaluation no other overlapped
\* scales only outside the cooldown windows of what Evaluate scaled before.
THEOREM CooldownsKept == AutoscalerSpec => CooldownKept
<1> DEFINE Kept ==
      \A e \in Evals :
         eval[e].at = "scale" /\ eval'[e].at = "stamp" /\ overlap[e] = {} =>
           IF eval[e].action = "SCALE_UP"
             THEN scaledUp >= ScaleUpCooldown
             ELSE scaledUp >= ScaleDownCooldown /\ scaledDown >= ScaleDownCooldown
<1>1. ScalerInv /\ [AutoscalerNext]_autoscaler => [Kept]_autoscaler
  BY Zenon DEF ScalerInv, CooldownsOK
<1>2. AutoscalerSpec => [][Kept]_autoscaler
  <2> HIDE DEF Kept
  <2> QED BY <1>1, InitScaler, ScalerStep, PTL DEF AutoscalerSpec
<1> QED BY Zenon, <1>2 DEF CooldownKept

=============================================================================
