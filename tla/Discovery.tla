------------------------------ MODULE Discovery ------------------------------
(***************************************************************************)
(* Service discovery (internal/discovery) and the load balancer's routing  *)
(* table (internal/loadbalancer).  Discovery writes the routes of its      *)
(* endpoints; the deployment service and the loop write the same table     *)
(* without it, through RegisterTarget and UnregisterTarget.                *)
(*                                                                         *)
(* An address is told apart by its worker only, not by its port.           *)
(* An instance has one project for life, so byProject follows endpoints.   *)
(* byWorker does not: registering an instance on another worker leaves the *)
(* old worker's entry behind, an object that is no longer the endpoint.    *)
(***************************************************************************)
EXTENDS WorkerRegistry

CONSTANTS Insts, NoWorker

ASSUME DiscoveryAssumption == NoWorker \notin Workers

VARIABLES
    endpoints,    \* the endpoint of each instance, and the worker it is on
    byWorker,     \* the index by worker
    targets       \* the router: the worker whose address an instance is routed to

discovery == <<endpoints, byWorker, targets>>

NoEndpoint == [worker |-> NoWorker, status |-> "none"]

DiscoveryTypeOK ==
    /\ endpoints \in [Insts -> [worker : Workers \cup {NoWorker},
                                status : {"none", "HEALTHY", "UNHEALTHY"}]]
    /\ byWorker \subseteq Workers \X Insts
    /\ targets \in [Insts -> Workers \cup {NoWorker}]

DiscoveryInit ==
    /\ endpoints = [i \in Insts |-> NoEndpoint]
    /\ byWorker = {}
    /\ targets = [i \in Insts |-> NoWorker]

RegisterTarget(i, w) == targets' = [targets EXCEPT ![i] = w]
UnregisterTarget(i) == targets' = [targets EXCEPT ![i] = NoWorker]

RegisterEndpoint(i, w) ==
    /\ endpoints' = [endpoints EXCEPT ![i] = [worker |-> w, status |-> "HEALTHY"]]
    /\ byWorker' = byWorker \cup {<<w, i>>}
    /\ RegisterTarget(i, w)

UnregisterEndpoint(i) ==
    /\ endpoints[i] # NoEndpoint
    /\ endpoints' = [endpoints EXCEPT ![i] = NoEndpoint]
    /\ byWorker' = byWorker \ {<<endpoints[i].worker, i>>}
    /\ UnregisterTarget(i)

\* Mutant: an endpoint that fails its check keeps its route.
SetEndpointHealth_Routed(i, healthy) ==
    /\ endpoints[i] # NoEndpoint
    /\ endpoints' = [endpoints EXCEPT ![i].status = IF healthy THEN "HEALTHY" ELSE "UNHEALTHY"]
    /\ UNCHANGED <<targets, byWorker>>

SetEndpointHealth(i, healthy) ==
    /\ endpoints[i] # NoEndpoint
    /\ endpoints' = [endpoints EXCEPT ![i].status = IF healthy THEN "HEALTHY" ELSE "UNHEALTHY"]
    /\ IF ~healthy THEN UnregisterTarget(i)
       ELSE IF endpoints[i].status # "HEALTHY" THEN RegisterTarget(i, endpoints[i].worker)
       ELSE UNCHANGED targets
    /\ UNCHANGED byWorker

Listed(w) == {i \in Insts : <<w, i>> \in byWorker}

\* Mutant: only the endpoints' status is changed.
EvictWorkerEndpoints_Status(w) ==
    /\ endpoints' = [i \in Insts |->
         IF i \in Listed(w) /\ endpoints[i].worker = w
           THEN [endpoints[i] EXCEPT !.status = "UNHEALTHY"] ELSE endpoints[i]]
    /\ UNCHANGED <<targets, byWorker>>

\* Whatever the index lists under the worker is taken off the routing table; the
\* status changes on the object listed, which need not be the endpoint any more.
EvictWorkerEndpoints(w) ==
    /\ endpoints' = [i \in Insts |->
         IF i \in Listed(w) /\ endpoints[i].worker = w
           THEN [endpoints[i] EXCEPT !.status = "UNHEALTHY"] ELSE endpoints[i]]
    /\ targets' = [i \in Insts |-> IF i \in Listed(w) THEN NoWorker ELSE targets[i]]
    /\ UNCHANGED byWorker

\* A new process starts with empty tables.
NewServiceRegistry ==
    /\ endpoints' = [i \in Insts |-> NoEndpoint]
    /\ byWorker' = {}
    /\ targets' = [i \in Insts |-> NoWorker]

-----------------------------------------------------------------------------
(* Properties                                                               *)

\* G-10: what the router and discovery both have, they agree on: traffic goes to
\* an announced instance only on the worker where discovery has it, and only while
\* discovery has it healthy.
RoutesAgree ==
    \A i \in Insts :
      targets[i] # NoWorker =>
        endpoints[i] \in {NoEndpoint, [worker |-> targets[i], status |-> "HEALTHY"]}

=============================================================================
