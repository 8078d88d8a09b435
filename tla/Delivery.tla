------------------------------ MODULE Delivery ------------------------------
(***************************************************************************)
(* From an HTTP request to a running deployment: createDeployment          *)
(* (internal/api) with its idempotency keys, and CreateAndDeploy           *)
(* (internal/deployments) as far as builds, images and the project's lock  *)
(* are concerned.  Scheduling instances is one step with an outcome.       *)
(*                                                                         *)
(* When its client disconnects, a request's context is cancelled and its   *)
(* writes to the database fail.                                            *)
(***************************************************************************)
EXTENDS Images

CONSTANTS
    Keys, NoKey,
    ProjectOf,      \* the project of each request
    Calls,          \* the requests that may arrive, each with its key and source
    MaxUpsets       \* bound on kills, outages, collections and disconnects

ASSUME DeliveryAssumption ==
    /\ NoKey \notin Keys /\ NoKey \notin Reqs
    /\ Calls \subseteq Reqs \X (Keys \cup {NoKey}) \X Reqs
    /\ MaxUpsets \in Nat

VARIABLES
    pc,          \* where each handler is
    key, source, \* the request's key, and what it deploys: itself built, or an image
    entries,     \* the idempotency store: who reserved a key
    answer,      \* the response of each request
    record,      \* the deployment's status in the database
    lock,        \* projects whose lock is held
    cancelled,
    upsets

delivery == <<pc, key, source, entries, answer, record, lock, cancelled, upsets, builds, images>>
request == <<key, source>>

None == [code |-> 0, by |-> NoKey]
Answers == {None} \cup [code : {400, 202, 502}, by : Reqs]
Projects == {ProjectOf[r] : r \in Reqs}

DeliveryTypeOK ==
    /\ BuildsTypeOK /\ ImagesTypeOK
    /\ pc \in [Reqs -> {"idle", "arrived", "wait", "handle", "queued", "build", "execute", "building",
                        "push", "store", "recordImage", "resolve", "start", "ok", "failed", "done"}]
    /\ key \in [Reqs -> Keys \cup {NoKey}] /\ source \in [Reqs -> Reqs]
    /\ entries \in [Keys -> Reqs \cup {NoKey}]
    /\ answer \in [Reqs -> Answers]
    /\ record \in [Reqs -> {"none", "in flight", "RUNNING", "FAILED"}]
    /\ lock \subseteq Projects /\ cancelled \subseteq Reqs
    /\ upsets \in 0..MaxUpsets

DeliveryInit ==
    /\ BuildsInit /\ ImagesInit
    /\ pc = [r \in Reqs |-> "idle"]
    /\ key = [r \in Reqs |-> NoKey] /\ source = [r \in Reqs |-> r]
    /\ entries = [k \in Keys |-> NoKey]
    /\ answer = [r \in Reqs |-> None]
    /\ record = [r \in Reqs |-> "none"]
    /\ lock = {} /\ cancelled = {}
    /\ upsets = 0

Goto(r, p) == pc' = [pc EXCEPT ![r] = p]

-----------------------------------------------------------------------------
(* The API: idempotency.go and the handler's own part                       *)

\* createDeployment: with a key, the key is reserved first.
Arrive(r, k, s) ==
    /\ pc[r] = "idle"
    /\ key' = [key EXCEPT ![r] = k] /\ source' = [source EXCEPT ![r] = s]
    /\ Goto(r, IF k = NoKey THEN "handle" ELSE "arrived")
    /\ UNCHANGED <<entries, answer, record, lock, cancelled, upsets, builds, images>>

\* A webhook deploys without a key, as createDeployment does when it is given none.
HandleProjectWebhook(r, s) == Arrive(r, NoKey, s)

\* Mutant: an entry is found only once it is completed.
GetOrReserve_Again(r) ==
    /\ pc[r] = "arrived"
    /\ LET first == entries[key[r]] IN
         IF first = NoKey \/ (first # NoKey /\ answer[first] = None)
           THEN entries' = [entries EXCEPT ![key[r]] = r] /\ Goto(r, "handle")
           ELSE UNCHANGED entries /\ Goto(r, "wait")
    /\ UNCHANGED <<request, answer, record, lock, cancelled, upsets, builds, images>>

GetOrReserve(r) ==
    /\ pc[r] = "arrived"
    /\ IF entries[key[r]] = NoKey
         THEN entries' = [entries EXCEPT ![key[r]] = r] /\ Goto(r, "handle")
         ELSE UNCHANGED entries /\ Goto(r, "wait")
    /\ UNCHANGED <<request, answer, record, lock, cancelled, upsets, builds, images>>

\* WaitAndGet: until the first request's Complete closes the entry's channel.
WaitAndGet(r) ==
    /\ pc[r] = "wait"
    /\ answer[entries[key[r]]] # None
    /\ answer' = [answer EXCEPT ![r] = answer[entries[key[r]]]]
    /\ Goto(r, "done")
    /\ UNCHANGED <<request, entries, record, lock, cancelled, upsets, builds, images>>

\* The response, which the entry of the request's key keeps for its duplicates.
Complete(r, code) == answer' = [answer EXCEPT ![r] = [code |-> code, by |-> r]]

\* Mutant: the early returns answer without completing the entry.
Reject_Silent(r) ==
    /\ pc[r] = "handle"
    /\ Goto(r, "done")
    /\ UNCHANGED <<request, entries, answer, record, lock, cancelled, upsets, builds, images>>

\* Access denied, no such project, an invalid body, neither image nor source, a
\* webhook without a valid signature.
Reject(r) ==
    /\ pc[r] = "handle"
    /\ Complete(r, 400)
    /\ Goto(r, "done")
    /\ UNCHANGED <<request, entries, record, lock, cancelled, upsets, builds, images>>

Respond(r) ==
    /\ pc[r] \in {"ok", "failed"}
    /\ Complete(r, IF pc[r] = "ok" THEN 202 ELSE 502)
    /\ Goto(r, "done")
    /\ UNCHANGED <<request, entries, record, lock, cancelled, upsets, builds, images>>

-----------------------------------------------------------------------------
(* CreateAndDeploy                                                          *)

\* A status written with the request's context.  A failing write is logged only.
UpdateStatus(r, status) ==
    record' = [record EXCEPT ![r] = IF r \in cancelled THEN @ ELSE status]

\* Every return unlocks the project, before the response.
Return(r, p) == Goto(r, p) /\ lock' = lock \ {ProjectOf[r]}

\* Mutant: the status is left as it is.
Fail_Silent(r) == Return(r, "failed") /\ UNCHANGED record

Fail(r) == Return(r, "failed") /\ UpdateStatus(r, "FAILED")

\* A node that does not lead refuses before it takes the lock.
Standby(r) ==
    /\ pc[r] = "handle"
    /\ Goto(r, "failed")
    /\ UNCHANGED <<request, entries, answer, record, lock, cancelled, upsets, builds, images>>

Lock(r) ==
    /\ pc[r] = "handle" /\ ProjectOf[r] \notin lock
    /\ lock' = lock \cup {ProjectOf[r]}
    /\ Goto(r, "queued")
    /\ UNCHANGED <<request, entries, answer, record, cancelled, upsets, builds, images>>

\* The record is created QUEUED, or the request fails without one.
Create(r) ==
    /\ pc[r] = "queued"
    /\ IF r \in cancelled
         THEN Return(r, "failed") /\ UNCHANGED record
         ELSE /\ record' = [record EXCEPT ![r] = "in flight"]
              /\ Goto(r, IF source[r] = r THEN "build" ELSE "resolve")
              /\ UNCHANGED lock
    /\ UNCHANGED <<request, entries, answer, cancelled, upsets, builds, images>>

\* No build plan may be detected, or there may be no feasible worker.
BuildFromSource(r) ==
    /\ pc[r] = "build"
    /\ \/ SelectWorker(r) /\ Goto(r, "execute") /\ UNCHANGED <<record, lock>>
       \/ Fail(r) /\ UNCHANGED builds
    /\ UNCHANGED <<request, entries, answer, cancelled, upsets, images>>

\* Mutant: the build that cannot begin keeps its charge.
Execute_Leak(r) ==
    /\ pc[r] = "execute"
    /\ IF CanExecute(r) THEN Goto(r, "building") /\ UNCHANGED <<record, lock>> ELSE Fail(r)
    /\ UNCHANGED <<request, entries, answer, cancelled, upsets, builds, images>>

Execute(r) ==
    /\ pc[r] = "execute"
    /\ IF CanExecute(r) THEN Goto(r, "building") /\ UNCHANGED <<record, lock, builds>>
                        ELSE Fail(r) /\ ReleaseWorker(r)
    /\ UNCHANGED <<request, entries, answer, cancelled, upsets, images>>

\* The source may be broken, the node killed meanwhile, the context cancelled.
Built(r) ==
    /\ pc[r] = "building"
    /\ \/ site[r] \notin killed /\ r \notin cancelled
          /\ Goto(r, "push") /\ UNCHANGED <<record, lock>>
       \/ Fail(r)
    /\ ReleaseWorker(r)
    /\ UNCHANGED <<request, entries, answer, cancelled, upsets, images>>

Push(r) ==
    /\ pc[r] = "push"
    /\ IF up THEN Goto(r, "store") /\ UNCHANGED <<record, lock>> ELSE Fail(r)
    /\ UNCHANGED <<request, entries, answer, cancelled, upsets, builds, images>>

Store(r) ==
    /\ pc[r] = "store"
    /\ StoreImage(r) /\ Goto(r, "recordImage")
    /\ UNCHANGED <<request, entries, answer, record, lock, cancelled, upsets, builds>>

\* A tag the registry does not have is deployed without a digest.
GetDigest(r) ==
    /\ pc[r] = "resolve"
    /\ IF up THEN /\ Goto(r, IF source[r] \in stored THEN "recordImage" ELSE "start")
                  /\ UNCHANGED <<record, lock>>
             ELSE Fail(r)
    /\ UNCHANGED <<request, entries, answer, cancelled, upsets, builds, images>>

UpdateImage(r) ==
    /\ pc[r] = "recordImage"
    /\ IF r \in cancelled THEN UNCHANGED images ELSE RecordImage(r, source[r])
    /\ Goto(r, "start")
    /\ UNCHANGED <<request, entries, answer, record, lock, cancelled, upsets, builds>>

\* scheduleAndDispatchInstances.  Workers that verify signatures refuse an image
\* without a digest, and calls with a cancelled context fail; one cancelled
\* between the last call and the last write has started its instances.
Start(r) ==
    /\ pc[r] = "start"
    /\ \/ Return(r, "ok") /\ UpdateStatus(r, "RUNNING")
       \/ Fail(r)
    /\ UNCHANGED <<request, entries, answer, cancelled, upsets, builds, images>>

Step(r) ==
    \/ GetOrReserve(r) \/ WaitAndGet(r) \/ Respond(r) \/ Lock(r) \/ Create(r)
    \/ BuildFromSource(r) \/ Execute(r) \/ Built(r) \/ Push(r) \/ Store(r)
    \/ UpdateImage(r) \/ GetDigest(r) \/ Start(r)

-----------------------------------------------------------------------------
(* Upsets                                                                   *)

Upset == upsets < MaxUpsets /\ upsets' = upsets + 1
handlers == <<pc, request, entries, answer, record, lock>>

Disconnect(r) ==
    /\ Upset /\ pc[r] \notin {"idle", "done"} /\ r \notin cancelled
    /\ cancelled' = cancelled \cup {r}
    /\ UNCHANGED <<handlers, builds, images>>

UpsetBuilder(w) ==
    /\ Upset /\ (Kill(w) \/ UnregisterWorker(w))
    /\ UNCHANGED <<handlers, cancelled, images>>

DrainBuilder(w) ==
    /\ DrainKilled(w)
    /\ UNCHANGED <<handlers, cancelled, upsets, images>>

UpsetRegistry ==
    /\ Upset /\ (GarbageCollect \/ \E available \in BOOLEAN : SetAvailable(available))
    /\ UNCHANGED <<handlers, cancelled, builds>>

DeliveryNext ==
    \/ \E call \in Calls : IF call[2] = NoKey THEN HandleProjectWebhook(call[1], call[3])
                                             ELSE Arrive(call[1], call[2], call[3])
    \/ \E r \in Reqs : Step(r) \/ Reject(r) \/ Standby(r) \/ Disconnect(r)
    \/ \E w \in BuildWorkers : UpsetBuilder(w) \/ DrainBuilder(w)
    \/ UpsetRegistry

DeliverySpec == DeliveryInit /\ [][DeliveryNext]_delivery

\* Handlers run, and a free project lock is given to one that waits for it.
DeliveryFairness ==
    \A r \in Reqs : WF_delivery(Step(r)) /\ SF_delivery(Lock(r))

-----------------------------------------------------------------------------
(* Properties                                                               *)

\* RACE-02 and G-22: whatever duplicates of a request arrive, and when, at most
\* one of them deploys, and all of them get the answer of that one.
OncePerKey ==
    \A r, q \in Reqs :
      r # q /\ key[r] = key[q] /\ key[r] # NoKey =>
        /\ record[r] = "none" \/ record[q] = "none"
        /\ answer[r] # None /\ answer[q] # None => answer[r] = answer[q]

\* A build worker is charged for exactly the builds it has in progress, which
\* never exceed its capacity, however the builds before them ended.
LoadExact ==
    \A w \in BuildWorkers :
      /\ load[w] = Cardinality({r \in Reqs : pc[r] \in {"execute", "building"} /\ site[r] = w})
      /\ load[w] <= Capacity

\* A handler that has returned leaves its deployment RUNNING or FAILED, never in
\* flight, unless its client disconnected (after which nothing but recovery at the
\* next start resolves it).
NoneLeftInFlight ==
    \A r \in Reqs \ cancelled :
      pc[r] \in {"ok", "failed", "done"} => record[r] # "in flight"

\* Every request is answered: the first by its handler, duplicates by the first's
\* answer, also when it was rejected, failed, or disconnected.  (A request arrives
\* and is answered once, so that this is what holds from some time on.)
RequestsAnswered == <>[](\A r \in Reqs : pc[r] # "idle" => answer[r] # None)

=============================================================================
