------------------------- MODULE Reconciler_proofs --------------------------
(***************************************************************************)
(* Proofs about Reconciler, for any cluster and any number of passes: what a *)
(* pass has in hand, how many containers it counts, and that it starts none *)
(* too many.  The lemmas about single steps do not say who else is at work, *)
(* and ControlPlane_proofs uses them for passes that overlap handlers.     *)
(***************************************************************************)
EXTENDS Reconciler, FiniteSetTheorems, TLAPS

Passes == [active: SUBSET Deps, want: [Deps -> 0..MaxInst], desired: SUBSET Placed,
           poll: SUBSET Workers, seen: SUBSET (Workers \X Insts \X BOOLEAN),
           match: SUBSET (Workers \X Insts), extra: SUBSET (Workers \X Insts),
           missing: SUBSET Placed, ran: SUBSET Insts, todo: SUBSET Placed,
           cur: SUBSET Placed, to: Workers \cup {NoWorker}, ok: BOOLEAN]

\* The instance has a record.
Known(i) == inst[i].status # "NONE"

\* A pass acts on instances that exist; those it repairs or prunes, but not
\* those it migrates, are of deployments at rest.
AtRest(i) == IsTerminal(status[DepOf(i)])

PassOK(p, r) ==
    /\ \A d \in r.active : IsTerminal(status[d])
    /\ \A x \in r.desired : Known(x[1]) /\ AtRest(x[1])
    /\ \A x \in r.missing : Known(x[1]) /\ AtRest(x[1])
    /\ \A x \in r.match : Known(x[2]) /\ AtRest(x[2])
    /\ \A x \in r.todo : Known(x[1])
    /\ \A x \in r.cur : Known(x[1]) /\ (p \in {"repaired", "pruned"} => AtRest(x[1]))
    /\ p \in {"repaired", "migrated", "vacate"} => r.to \in Workers

PassInv == PassOK(rpc, rec)

\* What a pass may do to the records: rewrite one that exists, of a deployment
\* at rest, or as RUNNING on another worker.
Rewrites ==
    \/ inst' = inst
    \/ \E i \in Insts, s \in InstStatuses \ {"NONE"}, w \in Workers \cup {NoWorker} :
         /\ SetInst(i, s, w) /\ Known(i)
         /\ AtRest(i) \/ (s = "RUNNING" /\ w \in Workers)

-----------------------------------------------------------------------------
\* A worker's record stays one.
LEMMA NodeSteps ==
    ASSUME NEW n \in Nodes
    PROVE  /\ Ran(n) \in Nodes /\ Refused(n) \in Nodes /\ Unstarted(n) \in Nodes /\ Stopped(n) \in Nodes
           /\ [n EXCEPT !.cur = "exited"] \in Nodes /\ [n EXCEPT !.cur = "none"] \in Nodes
<1>1. Listed(n) \in BOOLEAN
  BY Zenon DEF Nodes, Listed
<1>2. Ran(n) \in Nodes /\ Refused(n) \in Nodes /\ Unstarted(n) \in Nodes
  BY Zenon, <1>1 DEF Ran, Refused, Unstarted, Nodes
<1>3. Stopped(n) \in Nodes /\ [n EXCEPT !.cur = "exited"] \in Nodes /\ [n EXCEPT !.cur = "none"] \in Nodes
  BY Zenon DEF Stopped, Nodes
<1> QED
  BY Zenon, <1>2, <1>3

\* RunContainer and StopContainer change one worker's record of one instance.
LEMMA Applied ==
    ASSUME ClusterTypeOK, NEW w \in Workers, NEW i \in Insts, NEW n \in Nodes, Apply(w, i, n)
    PROVE  /\ node' \in [Workers -> [Insts -> Nodes]] /\ node'[w][i] = n
           /\ \A v \in Workers, j \in Insts : <<v, j>> # <<w, i>> => node'[v][j] = node[v][j]
BY Zenon DEF ClusterTypeOK, Apply

LEMMA RunTypes ==
    ASSUME ClusterTypeOK, NEW w \in Workers, NEW i \in Insts, NEW ok, CallRun(w, i, ok)
    PROVE  /\ node' \in [Workers -> [Insts -> Nodes]] /\ late' \subseteq Workers \X Insts
           /\ events' \in 0..MaxEvents
<1>1. node[w][i] \in Nodes
  BY DEF ClusterTypeOK
<1>2. Ran(node[w][i]) \in Nodes /\ Refused(node[w][i]) \in Nodes /\ Unstarted(node[w][i]) \in Nodes
  BY Zenon, <1>1, NodeSteps
<1>3. node' \in [Workers -> [Insts -> Nodes]]
  <2>1. CASE \/ Apply(w, i, Ran(node[w][i])) \/ Apply(w, i, Refused(node[w][i]))
            \/ Apply(w, i, Unstarted(node[w][i]))
    BY Zenon, <1>2, <2>1, Applied
  <2>2. CASE node' = node
    BY Zenon, <2>2 DEF ClusterTypeOK
  <2> QED
    BY Zenon, <2>1, <2>2 DEF CallRun
<1>4. late' \subseteq Workers \X Insts /\ events' \in 0..MaxEvents
  BY ClusterAssumption DEF CallRun, ClusterTypeOK, Happens, Count
<1> QED
  BY Zenon, <1>3, <1>4

LEMMA StopTypes ==
    ASSUME ClusterTypeOK, NEW w \in Workers, NEW i \in Insts, CallStop(w, i)
    PROVE  node' \in [Workers -> [Insts -> Nodes]] /\ events' \in 0..MaxEvents
<1>1. node[w][i] \in Nodes
  BY DEF ClusterTypeOK
<1>2. Stopped(node[w][i]) \in Nodes
  BY Zenon, <1>1, NodeSteps
<1>3. CASE Apply(w, i, Stopped(node[w][i])) /\ UNCHANGED events
  BY Zenon, <1>2, <1>3, Applied DEF ClusterTypeOK
<1>4. CASE Happens("lost") /\ Count /\ UNCHANGED node
  BY <1>4, ClusterAssumption DEF ClusterTypeOK, Happens, Count
<1> QED
  BY Zenon, <1>3, <1>4 DEF CallStop

\* The fields of a pass.
LEMMA PassFields ==
    ASSUME ReconcilerTypeOK
    PROVE  /\ rec \in Passes
           /\ rec.active \subseteq Deps /\ rec.want \in [Deps -> 0..MaxInst]
           /\ rec.desired \subseteq Placed /\ rec.missing \subseteq Placed
           /\ rec.todo \subseteq Placed /\ rec.cur \subseteq Placed
           /\ rec.poll \subseteq Workers /\ rec.seen \subseteq Workers \X Insts \X BOOLEAN
           /\ rec.match \subseteq Workers \X Insts /\ rec.extra \subseteq Workers \X Insts
           /\ rec.ran \subseteq Insts /\ rec.to \in Workers \cup {NoWorker} /\ rec.ok \in BOOLEAN
<1>1. rec \in Passes
  BY Zenon DEF ReconcilerTypeOK, Passes
<1> QED
  BY Zenon, <1>1 DEF Passes

\* One or more fields replaced.
LEMMA PassUpdates ==
    ASSUME NEW r \in Passes
    PROVE  /\ \A a \in SUBSET Deps, m \in [Deps -> 0..MaxInst] :
                [r EXCEPT !.active = a, !.want = m] \in Passes
           /\ \A a \in SUBSET Placed, p \in SUBSET Workers :
                [r EXCEPT !.desired = a, !.poll = p] \in Passes
           /\ \A p \in SUBSET Workers, s \in SUBSET (Workers \X Insts \X BOOLEAN) :
                [r EXCEPT !.poll = p, !.seen = s] \in Passes
           /\ \A p \in SUBSET Workers : [r EXCEPT !.poll = p] \in Passes
           /\ \A m, e \in SUBSET (Workers \X Insts), a \in SUBSET Placed :
                [r EXCEPT !.match = m, !.extra = e, !.missing = a, !.desired = {}, !.seen = {}] \in Passes
           /\ \A e \in SUBSET (Workers \X Insts) : [r EXCEPT !.extra = e] \in Passes
           /\ \A a \in SUBSET Placed : [r EXCEPT !.missing = a] \in Passes
           /\ \A a, c \in SUBSET Placed, w \in Workers, b \in BOOLEAN :
                [r EXCEPT !.missing = a, !.cur = c, !.to = w, !.ok = b] \in Passes
           /\ \A a \in SUBSET Insts :
                [r EXCEPT !.ran = a, !.cur = {}, !.to = NoWorker, !.ok = FALSE] \in Passes
           /\ \A m \in SUBSET (Workers \X Insts), c \in SUBSET Placed :
                [r EXCEPT !.match = m, !.cur = c] \in Passes
           /\ [r EXCEPT !.cur = {}] \in Passes
           /\ \A p \in SUBSET Workers, a \in SUBSET Placed : [r EXCEPT !.poll = p, !.todo = a] \in Passes
           /\ \A a \in SUBSET Placed : [r EXCEPT !.todo = a] \in Passes
           /\ \A a, c \in SUBSET Placed, w \in Workers :
                [r EXCEPT !.todo = a, !.cur = c, !.to = w] \in Passes
           /\ [r EXCEPT !.cur = {}, !.to = NoWorker] \in Passes
<1> USE DEF Passes
<1>0. {} \in SUBSET Placed /\ {} \in SUBSET (Workers \X Insts \X BOOLEAN)
  BY Zenon
<1>1. \A a \in SUBSET Deps, m \in [Deps -> 0..MaxInst] : [r EXCEPT !.active = a, !.want = m] \in Passes
  BY Zenon, <1>0
<1>2. \A a \in SUBSET Placed, p \in SUBSET Workers : [r EXCEPT !.desired = a, !.poll = p] \in Passes
  BY Zenon, <1>0
<1>3. \A p \in SUBSET Workers, s \in SUBSET (Workers \X Insts \X BOOLEAN) :
        [r EXCEPT !.poll = p, !.seen = s] \in Passes
  BY Zenon, <1>0
<1>4. \A p \in SUBSET Workers : [r EXCEPT !.poll = p] \in Passes
  BY Zenon, <1>0
<1>5. \A m, e \in SUBSET (Workers \X Insts), a \in SUBSET Placed :
        [r EXCEPT !.match = m, !.extra = e, !.missing = a, !.desired = {}, !.seen = {}] \in Passes
  BY ZenonT(180), <1>0
<1>6. \A e \in SUBSET (Workers \X Insts) : [r EXCEPT !.extra = e] \in Passes
  BY ZenonT(60), <1>0
<1>7. \A a \in SUBSET Placed : [r EXCEPT !.missing = a] \in Passes
  BY Zenon, <1>0
<1>8. \A a, c \in SUBSET Placed, w \in Workers, b \in BOOLEAN :
        [r EXCEPT !.missing = a, !.cur = c, !.to = w, !.ok = b] \in Passes
  BY ZenonT(120), <1>0
<1>9. \A a \in SUBSET Insts : [r EXCEPT !.ran = a, !.cur = {}, !.to = NoWorker, !.ok = FALSE] \in Passes
  BY ZenonT(60), <1>0
<1>10. \A m \in SUBSET (Workers \X Insts), c \in SUBSET Placed : [r EXCEPT !.match = m, !.cur = c] \in Passes
  BY ZenonT(60), <1>0
<1>11. [r EXCEPT !.cur = {}] \in Passes /\ [r EXCEPT !.cur = {}, !.to = NoWorker] \in Passes
  BY ZenonT(60), <1>0
<1>12. /\ \A p \in SUBSET Workers, a \in SUBSET Placed : [r EXCEPT !.poll = p, !.todo = a] \in Passes
       /\ \A a \in SUBSET Placed : [r EXCEPT !.todo = a] \in Passes
  BY ZenonT(60), <1>0
<1>13. \A a, c \in SUBSET Placed, w \in Workers : [r EXCEPT !.todo = a, !.cur = c, !.to = w] \in Passes
  BY ZenonT(60), <1>0
<1> HIDE DEF Passes
<1> QED
  BY Zenon, <1>1, <1>2, <1>3, <1>4, <1>5, <1>6, <1>7, <1>8, <1>9, <1>10, <1>11, <1>12, <1>13

LEMMA NoPassType ==
    NoPass \in Passes /\ \A p \in SUBSET Workers : [NoPass EXCEPT !.poll = p] \in Passes
<1>1. 0 \in 0..MaxInst
  BY ClusterAssumption
<1>2. [d \in Deps |-> 0] \in [Deps -> 0..MaxInst]
  BY Zenon, <1>1
<1>3. NoPass \in Passes
  BY Zenon, <1>2 DEF Passes, NoPass
<1> QED
  BY Zenon, <1>3, PassUpdates

-----------------------------------------------------------------------------
\* A pass moves to another position with well-formed locals.
LEMMA Stepped ==
    ASSUME NEW p \in {"idle", "insts", "observe", "orphans", "repair", "repaired",
                      "prune", "pruned", "drain", "migrated", "vacate"},
           NEW r \in Passes, rpc' = p, rec' = r
    PROVE  ReconcilerTypeOK'
BY Zenon DEF ReconcilerTypeOK, Passes

LEMMA Untouched == ClusterTypeOK /\ UNCHANGED clusterVars => ClusterTypeOK'
BY Zenon DEF ClusterTypeOK, clusterVars

\* What a pass reads has its type.
LEMMA ReadTypes ==
    ASSUME ClusterTypeOK, ReconcilerTypeOK
    PROVE  /\ \A is \in SUBSET Insts : {<<i, inst[i].worker>> : i \in is} \subseteq Placed
           /\ \A is \in SUBSET Insts, w \in Workers : {<<i, w>> : i \in is} \subseteq Placed
           /\ \A w \in Workers : Containers(w) \subseteq Workers \X Insts \X BOOLEAN
           /\ \A m : /\ Extra(rec, m) \subseteq Workers \X Insts
                     /\ Missing(rec, m) \subseteq rec.desired
           /\ \A m \in Matchings(rec) :
                m \subseteq Workers \X Insts /\ \A x \in m : \E y \in rec.desired : y[1] = x[2]
<1>1. \A i \in Insts : inst[i].worker \in Workers \cup {NoWorker}
  BY Zenon DEF ClusterTypeOK
<1>2. rec.seen \subseteq Workers \X Insts \X BOOLEAN
  BY Zenon, PassFields
<1>3. /\ \A is \in SUBSET Insts : {<<i, inst[i].worker>> : i \in is} \subseteq Placed
      /\ \A is \in SUBSET Insts, w \in Workers : {<<i, w>> : i \in is} \subseteq Placed
  BY <1>1 DEF Placed
<1>4. \A w \in Workers : Containers(w) \subseteq Workers \X Insts \X BOOLEAN
  <2> SUFFICES ASSUME NEW w \in Workers, NEW c \in Containers(w) PROVE c \in Workers \X Insts \X BOOLEAN
    BY Zenon
  <2>1. PICK i \in Insts, b \in BOOLEAN : c = <<w, i, b>>
    BY Zenon DEF Containers
  <2> QED
    BY Zenon, <2>1
<1>5. \A m : Extra(rec, m) \subseteq Workers \X Insts /\ Missing(rec, m) \subseteq rec.desired
  <2> TAKE m
  <2>1. ASSUME NEW x \in Extra(rec, m) PROVE x \in Workers \X Insts
    <3>1. PICK y \in rec.seen : x = <<y[1], y[2]>>
      BY Zenon, <2>1 DEF Extra
    <3> QED
      BY Zenon, <1>2, <3>1
  <2>2. Missing(rec, m) \subseteq rec.desired
    BY Zenon DEF Missing
  <2> QED
    BY Zenon, <2>1, <2>2
<1>6. \A m \in Matchings(rec) :
        m \subseteq Workers \X Insts /\ \A x \in m : \E y \in rec.desired : y[1] = x[2]
  <2> TAKE m \in Matchings(rec)
  <2>1. m \subseteq {<<x[1], x[2]>> : x \in {y \in rec.seen : y[3] /\ y[2] \in Wanted(rec)}}
    BY Zenon DEF Matchings
  <2> QED
    BY <1>2, <2>1 DEF Wanted
<1> QED
  BY <1>3, <1>4, <1>5, <1>6

LEMMA PassTypes ==
    ASSUME ClusterTypeOK, ReconcilerTypeOK, PassInv, Reconcile
    PROVE  ClusterTypeOK' /\ ReconcilerTypeOK'
<1>f. /\ rec \in Passes
      /\ rec.active \subseteq Deps /\ rec.want \in [Deps -> 0..MaxInst]
      /\ rec.desired \subseteq Placed /\ rec.missing \subseteq Placed
      /\ rec.todo \subseteq Placed /\ rec.cur \subseteq Placed
      /\ rec.poll \subseteq Workers /\ rec.seen \subseteq Workers \X Insts \X BOOLEAN
      /\ rec.match \subseteq Workers \X Insts /\ rec.extra \subseteq Workers \X Insts
      /\ rec.ran \subseteq Insts
  BY Zenon, PassFields
<1>p. /\ \A x \in Placed : x[1] \in Insts /\ x[2] \in Workers \cup {NoWorker}
      /\ \A x \in Workers \X Insts : x[1] \in Workers /\ x[2] \in Insts /\ <<x[2], x[1]>> \in Placed
  BY Zenon DEF Placed
<1>c. ASSUME UNCHANGED <<status, count, releases, inst, health, draining, load, routes, phase>>,
             node' \in [Workers -> [Insts -> Nodes]], late' \subseteq Workers \X Insts,
             events' \in 0..MaxEvents
      PROVE  ClusterTypeOK'
  BY Zenon, <1>c DEF ClusterTypeOK
<1>s. ASSUME NEW i \in Insts, NEW s \in InstStatuses, NEW w \in Workers \cup {NoWorker}, SetInst(i, s, w),
             UNCHANGED <<status, count, releases, health, draining, node, late, phase, events>>,
             load' \in [Workers -> Nat], routes' \subseteq Insts
      PROVE  ClusterTypeOK'
  <2>1. inst' \in [Insts -> [status: InstStatuses, worker: Workers \cup {NoWorker}]]
    BY Zenon, <1>s DEF ClusterTypeOK, SetInst
  <2> QED
    BY Zenon, <1>s, <2>1 DEF ClusterTypeOK
<1> USE DEF Step
<1>1. CASE ReadDeployments
  <2>1. PICK a \in SUBSET Deps, m \in [Deps -> 0..MaxInst] :
          rec' = [rec EXCEPT !.active = a, !.want = m] /\ rpc' = "insts"
    <3> DEFINE a == {d \in Deps : status[d] = "RUNNING"}
               m == [d \in Deps |-> IF d \in a THEN count[d] ELSE 0]
    <3>1. a \in SUBSET Deps /\ m \in [Deps -> 0..MaxInst]
      BY ClusterAssumption DEF ClusterTypeOK
    <3>2. rec' = [rec EXCEPT !.active = a, !.want = m] /\ rpc' = "insts"
      BY Zenon, <1>1 DEF ReadDeployments
    <3> HIDE DEF a, m
    <3> QED
      BY Zenon, <3>1, <3>2
  <2> QED
    BY Zenon, <1>1, <1>f, <2>1, PassUpdates, Stepped, Untouched DEF ReadDeployments
<1>2. CASE ReadInstances
  <2>1. PICK a \in SUBSET Placed, p \in SUBSET Workers :
          rec' = [rec EXCEPT !.desired = a, !.poll = p] /\ rpc' = "observe"
    <3> DEFINE is == {j \in Insts : /\ DepOf(j) \in rec.active
                                    /\ inst[j].status \in {"RUNNING", "REPAIR_FAILED"}}
               a == {<<i, inst[i].worker>> : i \in is}
               p == {w \in Workers : health[w] # "UNHEALTHY"}
    <3>1. is \in SUBSET Insts /\ p \in SUBSET Workers
      BY Zenon
    <3>2. rec' = [rec EXCEPT !.desired = a, !.poll = p] /\ rpc' = "observe"
      BY Zenon, <1>2 DEF ReadInstances
    <3> HIDE DEF is, p
    <3>3. a \in SUBSET Placed
      BY Zenon, <3>1, ReadTypes
    <3> QED
      BY Zenon, <3>1, <3>2, <3>3
  <2> QED
    BY Zenon, <1>2, <1>f, <2>1, PassUpdates, Stepped, Untouched DEF ReadInstances
<1>3. CASE Diff
  <2>1. PICK m \in Matchings(rec) :
          /\ rpc' = "orphans"
          /\ rec' = [rec EXCEPT !.match = m, !.extra = Extra(rec, m), !.missing = Missing(rec, m),
                                !.desired = {}, !.seen = {}]
    BY Zenon, <1>3 DEF Diff
  <2>2. /\ m \in SUBSET (Workers \X Insts) /\ Extra(rec, m) \in SUBSET (Workers \X Insts)
        /\ Missing(rec, m) \in SUBSET Placed
    BY Zenon, <1>f, ReadTypes
  <2> QED
    BY Zenon, <1>3, <1>f, <2>1, <2>2, PassUpdates, Stepped, Untouched DEF Diff
<1>4. ASSUME NEW w \in rec.poll, Observe(w) \/ ObserveFails(w) \/ ListDraining(w)
      PROVE  ClusterTypeOK' /\ ReconcilerTypeOK'
  <2>1. w \in Workers /\ rec.poll \ {w} \in SUBSET Workers
    BY Zenon, <1>f
  <2>2. CASE Observe(w)
    <3>1. rec.seen \cup Containers(w) \in SUBSET (Workers \X Insts \X BOOLEAN)
      BY Zenon, <1>f, <2>1, ReadTypes
    <3>2. /\ rec' = [rec EXCEPT !.poll = rec.poll \ {w}, !.seen = rec.seen \cup Containers(w)]
          /\ rpc' = "observe" /\ UNCHANGED clusterVars
      BY <2>2 DEF Observe
    <3> QED
      BY Zenon, <1>f, <2>1, <3>1, <3>2, PassUpdates, Stepped, Untouched
  <2>3. CASE ObserveFails(w)
    <3>1. rec' = [rec EXCEPT !.poll = rec.poll \ {w}] /\ rpc' = "observe"
      BY Zenon, <2>3 DEF ObserveFails
    <3>2. events' \in 0..MaxEvents /\ node' \in [Workers -> [Insts -> Nodes]] /\ late' \subseteq Workers \X Insts
      BY <2>3, ClusterAssumption DEF ObserveFails, ClusterTypeOK, Happens, Count, nodeVars
    <3> QED
      BY Zenon, <1>f, <1>c, <2>1, <2>3, <3>1, <3>2, PassUpdates, Stepped
         DEF ObserveFails, repoVars, fleetVars
  <2>4. CASE ListDraining(w)
    <3>1. PICK is \in SUBSET Insts : rec' = [rec EXCEPT !.poll = rec.poll \ {w}, !.todo = {<<i, w>> : i \in is}]
                                     /\ rpc' = "drain"
      <4> DEFINE is == {j \in Insts : inst[j].status = "RUNNING" /\ inst[j].worker = w}
      <4>1. rec' = [rec EXCEPT !.poll = rec.poll \ {w}, !.todo = {<<i, w>> : i \in is}] /\ rpc' = "drain"
        BY Zenon, <2>4 DEF ListDraining
      <4> QED
        BY Zenon, <4>1
    <3>2. {<<i, w>> : i \in is} \in SUBSET Placed
      BY Zenon, <2>1, ReadTypes
    <3> QED
      BY ZenonT(60), <1>f, <2>1, <2>4, <3>1, <3>2, PassUpdates, Stepped, Untouched DEF ListDraining
  <2> QED
    BY Zenon, <1>4, <2>2, <2>3, <2>4
<1>5. ASSUME NEW x \in rec.extra, StopExtra(x) PROVE ClusterTypeOK' /\ ReconcilerTypeOK'
  <2>1. /\ x[1] \in Workers /\ x[2] \in Insts /\ CallStop(x[1], x[2])
        /\ rec.extra \ {x} \in SUBSET (Workers \X Insts)
    BY <1>5, <1>f, <1>p DEF StopExtra
  <2>2. node' \in [Workers -> [Insts -> Nodes]] /\ events' \in 0..MaxEvents
    BY Zenon, <2>1, StopTypes
  <2>3. rec' = [rec EXCEPT !.extra = rec.extra \ {x}] /\ rpc' = "orphans" /\ late' = late
        /\ late \subseteq Workers \X Insts
    BY <1>5 DEF StopExtra, ClusterTypeOK
  <2> QED
    BY Zenon, <1>f, <1>c, <1>5, <2>1, <2>2, <2>3, PassUpdates, Stepped DEF StopExtra, repoVars, fleetVars
<1>6. CASE OrphansDone \/ RepairDone
  BY Zenon, <1>6, <1>f, Stepped, Untouched DEF OrphansDone, RepairDone
<1>7. ASSUME NEW x \in rec.missing, RepairSkipped(x) \/ RepairUnplaced(x) \/ RepairRun(x)
      PROVE  ClusterTypeOK' /\ ReconcilerTypeOK'
  <2>1. /\ x \in Placed /\ x[1] \in Insts /\ x[2] \in Workers \cup {NoWorker}
        /\ rec.missing \ {x} \in SUBSET Placed /\ {x} \in SUBSET Placed
    BY <1>f, <1>p
  <2>2. CASE RepairSkipped(x) \/ RepairUnplaced(x)
    <3>1. rec' = [rec EXCEPT !.missing = rec.missing \ {x}] /\ rpc' = "repair" /\ UNCHANGED clusterVars
      BY <2>2 DEF RepairSkipped, RepairUnplaced
    <3> QED
      BY Zenon, <1>f, <2>1, <3>1, PassUpdates, Stepped, Untouched
  <2>3. CASE RepairRun(x)
    <3>1. PICK w \in RepairWorkers(x[2]), ok \in BOOLEAN :
            /\ CallRun(w, x[1], ok) /\ rpc' = "repaired"
            /\ rec' = [rec EXCEPT !.missing = rec.missing \ {x}, !.cur = {x}, !.to = w, !.ok = ok]
      BY Zenon, <2>3 DEF RepairRun
    <3>2. w \in Workers
      BY <2>1 DEF RepairWorkers, Feasible
    <3>3. /\ node' \in [Workers -> [Insts -> Nodes]] /\ late' \subseteq Workers \X Insts
          /\ events' \in 0..MaxEvents
      BY Zenon, <2>1, <3>1, <3>2, RunTypes
    <3> QED
      BY ZenonT(60), <1>f, <1>c, <2>1, <2>3, <3>1, <3>2, <3>3, PassUpdates, Stepped DEF RepairRun, repoVars, fleetVars
  <2> QED
    BY Zenon, <1>7, <2>2, <2>3
<1>8. CASE RepairRecord
  <2>1. PICK x \in rec.cur :
          /\ IF rec.ok THEN SetInst(x[1], "RUNNING", rec.to)
                       ELSE SetInst(x[1], "REPAIR_FAILED", inst[x[1]].worker)
          /\ rpc' = "repair"
          /\ rec' = [rec EXCEPT !.ran = IF rec.ok THEN rec.ran \cup {x[1]} ELSE rec.ran,
                                !.cur = {}, !.to = NoWorker, !.ok = FALSE]
    BY Zenon, <1>8 DEF RepairRecord
  <2>2. x[1] \in Insts /\ inst[x[1]].worker \in Workers \cup {NoWorker} /\ rec.to \in Workers
    BY <1>8, <1>f, <1>p DEF ClusterTypeOK, PassInv, PassOK, RepairRecord
  <2>3. (IF rec.ok THEN rec.ran \cup {x[1]} ELSE rec.ran) \in SUBSET Insts
    BY Zenon, <1>f, <2>2
  <2>4. \E s \in InstStatuses, w \in Workers \cup {NoWorker} : SetInst(x[1], s, w)
    BY <2>1, <2>2 DEF InstStatuses
  <2>5. load' \in [Workers -> Nat] /\ routes' \subseteq Insts
    BY Zenon, <1>8 DEF RepairRecord, ClusterTypeOK, fleetVars
  <2> QED
    BY ZenonT(60), <1>f, <1>s, <1>8, <2>1, <2>2, <2>3, <2>4, <2>5, PassUpdates, Stepped
       DEF RepairRecord, fleetVars, nodeVars
<1>9. ASSUME NEW x \in rec.match, PruneStop(x) PROVE ClusterTypeOK' /\ ReconcilerTypeOK'
  <2>1. /\ x[1] \in Workers /\ x[2] \in Insts /\ CallStop(x[1], x[2])
        /\ rec.match \ {x} \in SUBSET (Workers \X Insts) /\ {<<x[2], x[1]>>} \in SUBSET Placed
    BY Zenon, <1>9, <1>f, <1>p DEF PruneStop
  <2>2. node' \in [Workers -> [Insts -> Nodes]] /\ events' \in 0..MaxEvents
    BY Zenon, <2>1, StopTypes
  <2>3. rec' = [rec EXCEPT !.match = rec.match \ {x}, !.cur = {<<x[2], x[1]>>}] /\ rpc' = "pruned"
        /\ late' = late /\ late \subseteq Workers \X Insts
    BY Zenon, <1>9 DEF PruneStop, ClusterTypeOK
  <2> QED
    BY Zenon, <1>f, <1>c, <1>9, <2>1, <2>2, <2>3, PassUpdates, Stepped DEF PruneStop, repoVars, fleetVars
<1>10. CASE PruneRecord
  <2>1. PICK x \in rec.cur : SetInst(x[1], "STOPPED", inst[x[1]].worker) /\ routes' = routes \ {x[1]}
    BY Zenon, <1>10 DEF PruneRecord
  <2>2. x[1] \in Insts /\ inst[x[1]].worker \in Workers \cup {NoWorker} /\ "STOPPED" \in InstStatuses
    BY Zenon, <1>f, <1>p DEF ClusterTypeOK, InstStatuses
  <2>3. load' \in [Workers -> Nat] /\ routes' \subseteq Insts
    BY <1>10, <2>1 DEF PruneRecord, ClusterTypeOK, fleetVars
  <2> QED
    BY Zenon, <1>f, <1>s, <1>10, <2>1, <2>2, <2>3, PassUpdates, Stepped
       DEF PruneRecord, fleetVars, nodeVars
<1>11. CASE PruneDone
  <2>1. draining \in SUBSET Workers
    BY Zenon DEF ClusterTypeOK
  <2> QED
    BY Zenon, <1>11, <2>1, NoPassType, Stepped, Untouched DEF PruneDone
<1>12. ASSUME NEW x \in rec.todo, MigrateDeferred(x) \/ MigrateRun(x)
       PROVE  ClusterTypeOK' /\ ReconcilerTypeOK'
  <2>1. /\ x \in Placed /\ x[1] \in Insts
        /\ rec.todo \ {x} \in SUBSET Placed /\ {x} \in SUBSET Placed
    BY Zenon, <1>f, <1>p
  <2>2. CASE MigrateDeferred(x)
    <3>1. rec' = [rec EXCEPT !.todo = rec.todo \ {x}] /\ rpc' = "drain" /\ UNCHANGED clusterVars
      BY Zenon, <2>2 DEF MigrateDeferred
    <3> QED
      BY Zenon, <1>f, <2>1, <3>1, PassUpdates, Stepped, Untouched
  <2>3. CASE MigrateRun(x)
    <3>1. PICK w \in Feasible, ok \in BOOLEAN :
            /\ CallRun(w, x[1], ok)
            /\ IF ok THEN /\ rpc' = "migrated"
                          /\ rec' = [rec EXCEPT !.todo = rec.todo \ {x}, !.cur = {x}, !.to = w]
                     ELSE rpc' = "drain" /\ rec' = [rec EXCEPT !.todo = rec.todo \ {x}]
      BY Zenon, <2>3 DEF MigrateRun
    <3>2. w \in Workers
      BY Zenon DEF Feasible
    <3>3. /\ node' \in [Workers -> [Insts -> Nodes]] /\ late' \subseteq Workers \X Insts
          /\ events' \in 0..MaxEvents
      BY Zenon, <2>1, <3>1, <3>2, RunTypes
    <3>4. ReconcilerTypeOK'
      BY Zenon, <1>f, <2>1, <3>1, <3>2, PassUpdates, Stepped
    <3> QED
      BY ZenonT(60), <1>c, <2>3, <3>3, <3>4 DEF MigrateRun, repoVars, fleetVars
  <2> QED
    BY Zenon, <1>12, <2>2, <2>3
<1>13. CASE MigrateRecord
  <2>1. PICK x \in rec.cur :
          /\ SetInst(x[1], "RUNNING", rec.to)
          /\ load' = [load EXCEPT ![rec.to] = @ + 1, ![x[2]] = IF @ = 0 THEN 0 ELSE @ - 1]
    BY Zenon, <1>13 DEF MigrateRecord
  <2>2. x[1] \in Insts /\ rec.to \in Workers /\ "RUNNING" \in InstStatuses
    BY <1>13, <1>f, <1>p DEF PassInv, PassOK, MigrateRecord, InstStatuses
  <2>3. load' \in [Workers -> Nat] /\ routes' \subseteq Insts
    <3>1. load \in [Workers -> Nat] /\ routes \subseteq Insts /\ routes' = routes
      BY Zenon, <1>13 DEF MigrateRecord, ClusterTypeOK
    <3>2. \A f \in [Workers -> Nat], a \in Workers, b \in Workers :
            [f EXCEPT ![a] = @ + 1, ![b] = IF @ = 0 THEN 0 ELSE @ - 1] \in [Workers -> Nat]
      OBVIOUS
    <3>3. \A f \in [Workers -> Nat], a \in Workers, k \in Nat : \A b, v : b \notin Workers =>
            [f EXCEPT ![a] = k, ![b] = v] \in [Workers -> Nat]
      BY Zenon
    <3>4. load' \in [Workers -> Nat]
      <4>1. load[rec.to] + 1 \in Nat
        BY <2>2, <3>1
      <4> QED
        BY Zenon, <2>1, <2>2, <3>1, <3>2, <3>3, <4>1
    <3> QED
      BY <3>1, <3>4
  <2> QED
    BY Zenon, <1>f, <1>s, <1>13, <2>1, <2>2, <2>3, Stepped DEF MigrateRecord, nodeVars
<1>14. CASE MigrateStop
  <2>1. PICK x \in rec.cur : CallStop(x[2], x[1])
    BY Zenon, <1>14 DEF MigrateStop
  <2>2. x[1] \in Insts /\ x[2] \in Workers \cup {NoWorker}
    BY <1>f, <1>p
  <2>3. node' \in [Workers -> [Insts -> Nodes]] /\ events' \in 0..MaxEvents
    <3>1. CASE x[2] \in Workers
      BY Zenon, <2>1, <2>2, <3>1, StopTypes
    <3>2. CASE x[2] = NoWorker
      BY <2>1, <3>2, ClusterAssumption DEF CallStop, Apply, ClusterTypeOK, Happens, Count
    <3> QED
      BY <2>2, <3>1, <3>2
  <2>4. late' \subseteq Workers \X Insts
    BY <1>14 DEF MigrateStop, ClusterTypeOK
  <2> QED
    BY Zenon, <1>f, <1>c, <1>14, <2>3, <2>4, PassUpdates, Stepped DEF MigrateStop, repoVars, fleetVars
<1>15. CASE EndPass
  <2>1. ReconcilerTypeOK'
    BY Zenon, <1>15, NoPassType, Stepped DEF EndPass
  <2>2. ClusterTypeOK'
    BY Zenon, <1>15 DEF EndPass, ClusterTypeOK, repoVars, fleetVars, nodeVars
  <2> QED
    BY <2>1, <2>2
<1> QED
  BY Zenon, <1>1, <1>2, <1>3, <1>4, <1>5, <1>6, <1>7, <1>8, <1>9, <1>10, <1>11, <1>12, <1>13, <1>14, <1>15
     DEF Reconcile

-----------------------------------------------------------------------------
\* Who keeps deployments at rest at rest and records in place keeps what a pass
\* relies on.
LEMMA PassKept ==
    ASSUME NEW p, NEW r \in Passes, PassOK(p, r), rpc' = p, rec' = r,
           \A d \in Deps : IsTerminal(status[d]) => IsTerminal(status'[d]),
           \A i \in Insts : Known(i) => Known(i)'
    PROVE  PassInv'
<1>1. /\ r.active \subseteq Deps
      /\ \A x \in r.desired \cup r.missing \cup r.todo \cup r.cur : x[1] \in Insts
      /\ \A x \in r.match : x[2] \in Insts
  BY DEF Passes, Placed
<1>2. \A i \in Insts : AtRest(i) => AtRest(i)'
  BY Zenon DEF AtRest, Insts, DepOf
<1>3. \A i \in Insts : Known(i) => Known(i)'
  BY Zenon
<1> QED
  BY Zenon, <1>1, <1>2, <1>3 DEF PassInv, PassOK

\* The position and locals a step of a pass moves to are in order.
LEMMA PassNext ==
    ASSUME ClusterTypeOK, ReconcilerTypeOK, PassInv, Reconcile
    PROVE  \E p, r : rpc' = p /\ rec' = r /\ PassOK(p, r)
<1>f. /\ rec \in Passes /\ PassOK(rpc, rec)
      /\ rec.poll \subseteq Workers /\ rec.missing \subseteq Placed /\ rec.todo \subseteq Placed
  BY Zenon, PassFields DEF PassInv
<1>n. \A p : p \notin {"repaired", "migrated", "vacate"} =>
        PassOK(p, NoPass) /\ \A q : PassOK(p, [NoPass EXCEPT !.poll = q])
  BY DEF PassOK, NoPass
<1> USE DEF Step
<1>1. CASE ReadDeployments
  <2>1. PICK a, m : rec' = [rec EXCEPT !.active = a, !.want = m] /\ rpc' = "insts"
                    /\ \A d \in a : IsTerminal(status[d])
    <3> DEFINE a == {d \in Deps : status[d] = "RUNNING"}
    <3>1. \A d \in a : IsTerminal(status[d])
      BY DEF IsTerminal
    <3> QED
      BY Zenon, <1>1, <3>1 DEF ReadDeployments
  <2>2. PassOK("insts", [rec EXCEPT !.active = a, !.want = m])
    BY <1>f, <2>1 DEF PassOK, Passes
  <2> QED
    BY Zenon, <2>1, <2>2
<1>2. CASE ReadInstances
  <2>1. PICK a, p : rec' = [rec EXCEPT !.desired = a, !.poll = p] /\ rpc' = "observe"
                    /\ \A x \in a : Known(x[1]) /\ AtRest(x[1])
    <3> DEFINE is == {j \in Insts : /\ DepOf(j) \in rec.active
                                    /\ inst[j].status \in {"RUNNING", "REPAIR_FAILED"}}
               a == {<<i, inst[i].worker>> : i \in is}
    <3>1. \A i \in is : Known(i) /\ AtRest(i)
      BY Zenon, <1>f DEF Known, AtRest, PassOK
    <3>2. \A x \in a : Known(x[1]) /\ AtRest(x[1])
      <4> SUFFICES ASSUME NEW i \in is PROVE Known(<<i, inst[i].worker>>[1]) /\ AtRest(<<i, inst[i].worker>>[1])
        BY Zenon
      <4> QED
        BY Zenon, <3>1
    <3> QED
      BY Zenon, <1>2, <3>2 DEF ReadInstances
  <2>2. PassOK("observe", [rec EXCEPT !.desired = a, !.poll = p])
    BY <1>f, <2>1 DEF PassOK, Passes
  <2> QED
    BY Zenon, <2>1, <2>2
<1>3. CASE Diff
  <2>1. PICK m \in Matchings(rec) :
          /\ rpc' = "orphans"
          /\ rec' = [rec EXCEPT !.match = m, !.extra = Extra(rec, m), !.missing = Missing(rec, m),
                                !.desired = {}, !.seen = {}]
    BY Zenon, <1>3 DEF Diff
  <2>2. PICK e, a : e = Extra(rec, m) /\ a = Missing(rec, m)
    BY Zenon
  <2>3. \A x \in m : Known(x[2]) /\ AtRest(x[2])
    BY Zenon, <1>f, ReadTypes DEF PassOK
  <2>4. \A x \in a : Known(x[1]) /\ AtRest(x[1])
    BY Zenon, <1>f, <2>2, ReadTypes DEF PassOK
  <2>5. PassOK("orphans", [rec EXCEPT !.match = m, !.extra = e, !.missing = a, !.desired = {}, !.seen = {}])
    BY Zenon, <1>f, <2>3, <2>4 DEF PassOK, Passes
  <2> QED
    BY Zenon, <2>1, <2>2, <2>5
<1>4. ASSUME NEW w \in rec.poll, Observe(w) \/ ObserveFails(w) \/ ListDraining(w)
      PROVE  \E p, r : rpc' = p /\ rec' = r /\ PassOK(p, r)
  <2>1. CASE Observe(w)
    <3>1. PICK s, q : rec' = [rec EXCEPT !.poll = q, !.seen = s] /\ rpc' = "observe"
      BY Zenon, <2>1 DEF Observe
    <3>2. PassOK("observe", [rec EXCEPT !.poll = q, !.seen = s])
      BY Zenon, <1>f DEF PassOK, Passes
    <3> QED
      BY Zenon, <3>1, <3>2
  <2>2. CASE ObserveFails(w)
    <3>1. PICK q : rec' = [rec EXCEPT !.poll = q] /\ rpc' = "observe"
      BY Zenon, <2>2 DEF ObserveFails
    <3>2. PassOK("observe", [rec EXCEPT !.poll = q])
      BY Zenon, <1>f DEF PassOK, Passes
    <3> QED
      BY Zenon, <3>1, <3>2
  <2>3. CASE ListDraining(w)
    <3>1. PICK q, a : rec' = [rec EXCEPT !.poll = q, !.todo = a] /\ rpc' = "drain" /\ \A x \in a : Known(x[1])
      <4> DEFINE is == {j \in Insts : inst[j].status = "RUNNING" /\ inst[j].worker = w}
                 a == {<<i, w>> : i \in is}
      <4>1. \A i \in is : Known(i)
        BY Zenon DEF Known
      <4>2. \A x \in a : Known(x[1])
        <5> SUFFICES ASSUME NEW i \in is PROVE Known(<<i, w>>[1])
          BY Zenon
        <5> QED
          BY Zenon, <4>1
      <4> QED
        BY Zenon, <2>3, <4>2 DEF ListDraining
    <3>2. PassOK("drain", [rec EXCEPT !.poll = q, !.todo = a])
      BY <1>f, <3>1 DEF PassOK, Passes
    <3> QED
      BY Zenon, <3>1, <3>2
  <2> QED
    BY Zenon, <1>4, <2>1, <2>2, <2>3
<1>5. ASSUME NEW x \in rec.extra, StopExtra(x)
      PROVE  \E p, r : rpc' = p /\ rec' = r /\ PassOK(p, r)
  <2>1. PICK e : rec' = [rec EXCEPT !.extra = e] /\ rpc' = "orphans"
    BY Zenon, <1>5 DEF StopExtra
  <2>2. PassOK("orphans", [rec EXCEPT !.extra = e])
    BY Zenon, <1>f DEF PassOK, Passes
  <2> QED
    BY Zenon, <2>1, <2>2
<1>6. CASE OrphansDone \/ RepairDone
  BY Zenon, <1>6, <1>f DEF OrphansDone, RepairDone, PassOK
<1>7. ASSUME NEW x \in rec.missing, RepairSkipped(x) \/ RepairUnplaced(x) \/ RepairRun(x)
      PROVE  \E p, r : rpc' = p /\ rec' = r /\ PassOK(p, r)
  <2>1. CASE RepairSkipped(x) \/ RepairUnplaced(x)
    <3>1. rec' = [rec EXCEPT !.missing = rec.missing \ {x}] /\ rpc' = "repair"
      BY Zenon, <2>1 DEF RepairSkipped, RepairUnplaced
    <3>2. PassOK("repair", [rec EXCEPT !.missing = rec.missing \ {x}])
      BY Zenon, <1>f DEF PassOK, Passes
    <3> QED
      BY Zenon, <3>1, <3>2
  <2>2. CASE RepairRun(x)
    <3>1. PICK w \in RepairWorkers(x[2]), ok \in BOOLEAN :
            /\ rpc' = "repaired"
            /\ rec' = [rec EXCEPT !.missing = rec.missing \ {x}, !.cur = {x}, !.to = w, !.ok = ok]
      BY Zenon, <2>2 DEF RepairRun
    <3>2. w \in Workers /\ Known(x[1]) /\ AtRest(x[1])
      <4>1. x[2] \in Workers \cup {NoWorker}
        BY Zenon, <1>f DEF Placed
      <4> QED
        BY Zenon, <1>f, <4>1 DEF RepairWorkers, Feasible, PassOK
    <3>3. PassOK("repaired", [rec EXCEPT !.missing = rec.missing \ {x}, !.cur = {x}, !.to = w, !.ok = ok])
      BY Zenon, <1>f, <3>2 DEF PassOK, Passes
    <3> QED
      BY ZenonT(60), <3>1, <3>3
  <2> QED
    BY Zenon, <1>7, <2>1, <2>2
<1>8. CASE RepairRecord
  <2>1. PICK a : rec' = [rec EXCEPT !.ran = a, !.cur = {}, !.to = NoWorker, !.ok = FALSE] /\ rpc' = "repair"
    BY Zenon, <1>8 DEF RepairRecord
  <2>2. PassOK("repair", [rec EXCEPT !.ran = a, !.cur = {}, !.to = NoWorker, !.ok = FALSE])
    BY Zenon, <1>f DEF PassOK, Passes
  <2> QED
    BY Zenon, <2>1, <2>2
<1>9. ASSUME NEW x \in rec.match, PruneStop(x)
      PROVE  \E p, r : rpc' = p /\ rec' = r /\ PassOK(p, r)
  <2>1. rec' = [rec EXCEPT !.match = rec.match \ {x}, !.cur = {<<x[2], x[1]>>}] /\ rpc' = "pruned"
    BY Zenon, <1>9 DEF PruneStop
  <2>2. PICK m, c : m = rec.match \ {x} /\ c = {<<x[2], x[1]>>}
    BY Zenon
  <2>3. m \subseteq rec.match /\ \A y \in c : Known(y[1]) /\ AtRest(y[1])
    BY <1>f, <2>2 DEF PassOK
  <2>4. PassOK("pruned", [rec EXCEPT !.match = m, !.cur = c])
    BY Zenon, <1>f, <2>3 DEF PassOK, Passes
  <2> QED
    BY Zenon, <2>1, <2>2, <2>4
<1>10. CASE PruneRecord
  <2>1. rec' = [rec EXCEPT !.cur = {}] /\ rpc' = "prune"
    BY Zenon, <1>10 DEF PruneRecord
  <2>2. PassOK("prune", [rec EXCEPT !.cur = {}])
    BY <1>f DEF PassOK, Passes
  <2> QED
    BY Zenon, <2>1, <2>2
<1>11. CASE PruneDone \/ EndPass
  BY Zenon, <1>11, <1>n DEF PruneDone, EndPass
<1>12. ASSUME NEW x \in rec.todo, MigrateDeferred(x) \/ MigrateRun(x)
       PROVE  \E p, r : rpc' = p /\ rec' = r /\ PassOK(p, r)
  <2>1. \/ rec' = [rec EXCEPT !.todo = rec.todo \ {x}] /\ rpc' = "drain"
        \/ \E w \in Feasible : /\ rec' = [rec EXCEPT !.todo = rec.todo \ {x}, !.cur = {x}, !.to = w]
                               /\ rpc' = "migrated"
    BY Zenon, <1>12 DEF MigrateDeferred, MigrateRun
  <2>2. PassOK("drain", [rec EXCEPT !.todo = rec.todo \ {x}])
    BY Zenon, <1>f DEF PassOK, Passes
  <2>3. \A w \in Feasible : PassOK("migrated", [rec EXCEPT !.todo = rec.todo \ {x}, !.cur = {x}, !.to = w])
    BY Zenon, <1>f DEF PassOK, Passes, Feasible
  <2> QED
    BY Zenon, <2>1, <2>2, <2>3
<1>13. CASE MigrateRecord
  BY Zenon, <1>13, <1>f DEF MigrateRecord, PassOK
<1>14. CASE MigrateStop
  <2>1. rec' = [rec EXCEPT !.cur = {}, !.to = NoWorker] /\ rpc' = "drain"
    BY Zenon, <1>14 DEF MigrateStop
  <2>2. PassOK("drain", [rec EXCEPT !.cur = {}, !.to = NoWorker])
    BY Zenon, <1>f DEF PassOK, Passes
  <2> QED
    BY Zenon, <2>1, <2>2
<1> QED
  BY Zenon, <1>1, <1>2, <1>3, <1>4, <1>5, <1>6, <1>7, <1>8, <1>9, <1>10, <1>11, <1>12, <1>13, <1>14
     DEF Reconcile

-----------------------------------------------------------------------------
\* A pass changes no deployment, runs only once recovery is over, and rewrites
\* records as it may.
LEMMA PassRecords ==
    ASSUME ClusterTypeOK, ReconcilerTypeOK, PassInv, Reconcile
    PROVE  /\ UNCHANGED <<status, count, releases>> /\ phase' \in {phase, "serving"}
           /\ rpc # "idle" \/ phase # "recovering"
           /\ Rewrites
<1>c. /\ \A x \in rec.cur : /\ x[1] \in Insts /\ Known(x[1]) /\ inst[x[1]].worker \in Workers \cup {NoWorker}
                            /\ rpc \in {"repaired", "pruned"} => AtRest(x[1])
      /\ rpc \in {"repaired", "migrated", "vacate"} => rec.to \in Workers
  <2>1. rec.cur \subseteq Placed
    BY Zenon, PassFields
  <2>2. \A x \in Placed : x[1] \in Insts
    BY Zenon DEF Placed
  <2>3. \A j \in Insts : inst[j].worker \in Workers \cup {NoWorker}
    BY Zenon DEF ClusterTypeOK
  <2> QED
    BY Zenon, <2>1, <2>2, <2>3 DEF PassInv, PassOK
<1>t. \A s \in {"RUNNING", "REPAIR_FAILED", "STOPPED"} : s \in InstStatuses \ {"NONE"}
  BY Zenon DEF InstStatuses
<1> DEFINE Still == /\ UNCHANGED <<status, count, releases, inst>> /\ phase' \in {phase, "serving"}
                    /\ rpc # "idle" \/ phase # "recovering"
<1> USE DEF clusterVars, repoVars, Step
<1>1. CASE ReadDeployments
  BY Zenon, <1>1 DEF ReadDeployments, Rewrites
<1>2. CASE ReadInstances \/ Diff \/ OrphansDone \/ RepairDone \/ PruneDone \/ MigrateStop \/ EndPass
  BY Zenon, <1>2 DEF ReadInstances, Diff, OrphansDone, RepairDone, PruneDone, MigrateStop, EndPass, Rewrites
<1>3. CASE \E w \in rec.poll : Observe(w) \/ ObserveFails(w) \/ ListDraining(w)
  BY Zenon, <1>3 DEF Observe, ObserveFails, ListDraining, Rewrites
<1>4. CASE \/ \E x \in rec.extra : StopExtra(x)
           \/ \E x \in rec.match : PruneStop(x)
  BY Zenon, <1>4 DEF StopExtra, PruneStop, Rewrites
<1>5. CASE \E x \in rec.missing : RepairSkipped(x) \/ RepairUnplaced(x) \/ RepairRun(x)
  BY Zenon, <1>5 DEF RepairSkipped, RepairUnplaced, RepairRun, Rewrites
<1>6. CASE \E x \in rec.todo : MigrateDeferred(x) \/ MigrateRun(x)
  BY Zenon, <1>6 DEF MigrateDeferred, MigrateRun, Rewrites
<1>7. CASE RepairRecord
  <2>1. Rewrites
    BY Zenon, <1>7, <1>c, <1>t DEF RepairRecord, Rewrites
  <2> QED
    BY Zenon, <1>7, <2>1 DEF RepairRecord
<1>8. CASE PruneRecord
  <2>1. Rewrites
    BY Zenon, <1>8, <1>c, <1>t DEF PruneRecord, Rewrites
  <2> QED
    BY Zenon, <1>8, <2>1 DEF PruneRecord
<1>9. CASE MigrateRecord
  <2>1. Rewrites
    BY Zenon, <1>9, <1>c, <1>t DEF MigrateRecord, Rewrites
  <2> QED
    BY Zenon, <1>9, <2>1 DEF MigrateRecord
<1> QED
  BY Zenon, <1>1, <1>2, <1>3, <1>4, <1>5, <1>6, <1>7, <1>8, <1>9 DEF Reconcile

\* So no record is lost.
LEMMA RewritesKnown ==
    ASSUME ClusterTypeOK, Rewrites
    PROVE  \A i \in Insts : Known(i)' <=> Known(i)
<1>1. CASE inst' = inst
  BY Zenon, <1>1 DEF Known
<1>2. ASSUME NEW i \in Insts, NEW s \in InstStatuses \ {"NONE"}, NEW w \in Workers \cup {NoWorker},
             SetInst(i, s, w), Known(i)
      PROVE  \A j \in Insts : Known(j)' <=> Known(j)
  BY Zenon, <1>2 DEF Known, SetInst, ClusterTypeOK
<1> QED
  BY Zenon, <1>1, <1>2 DEF Rewrites

\* A pass keeps what it relies on.
LEMMA PassStep ==
    ASSUME ClusterTypeOK, ReconcilerTypeOK, PassInv, Reconcile
    PROVE  ClusterTypeOK' /\ ReconcilerTypeOK' /\ PassInv'
<1>1. ClusterTypeOK' /\ ReconcilerTypeOK'
  BY Zenon, PassTypes
<1>2. status' = status /\ Rewrites
  BY Zenon, PassRecords
<1>3. PICK p, r : rpc' = p /\ rec' = r /\ PassOK(p, r)
  BY Zenon, PassNext
<1>4. r \in Passes
  BY Zenon, <1>1, <1>3 DEF ReconcilerTypeOK, Passes
<1> QED
  BY Zenon, <1>1, <1>2, <1>3, <1>4, PassKept, RewritesKnown

\* The environment keeps the cluster's types, and touches no record; a worker
\* that says RUNNING of an instance goes on saying it.
LEMMA OutsideStep ==
    ASSUME ClusterTypeOK, Environment
    PROVE  /\ ClusterTypeOK' /\ UNCHANGED <<status, count, inst, releases, routes, phase>>
           /\ \A w \in Workers, i \in Insts :
                node[w][i].tracker = "RUNNING" => node'[w][i].tracker = "RUNNING"
<1> DEFINE Kept == \A v \in Workers, j \in Insts :
                     node[v][j].tracker = "RUNNING" => node'[v][j].tracker = "RUNNING"
<1>1. PICK w \in Workers :
        \/ \E i \in Insts : \/ DeliverLate(w, i) \/ DropLate(w, i)
                            \/ ContainerExits(w, i) \/ ContainerRemoved(w, i)
        \/ \E h \in Healths : HealthChanges(w, h)
        \/ Drain(w) \/ Undrain(w)
  BY Zenon DEF Environment
<1>2. UNCHANGED <<status, count, inst, releases, routes, phase>>
  BY Zenon, <1>1 DEF DeliverLate, DropLate, ContainerExits, ContainerRemoved, HealthChanges, Drain, Undrain,
     repoVars
<1>3. ASSUME NEW i \in Insts,
             DeliverLate(w, i) \/ DropLate(w, i) \/ ContainerExits(w, i) \/ ContainerRemoved(w, i)
      PROVE  ClusterTypeOK' /\ Kept
  <2>1. PICK n \in Nodes : n = node[w][i]
    BY DEF ClusterTypeOK
  <2>2. /\ Ran(n) \in Nodes /\ [n EXCEPT !.cur = "exited"] \in Nodes /\ [n EXCEPT !.cur = "none"] \in Nodes
        /\ n.tracker = "RUNNING" => /\ Ran(n).tracker = "RUNNING"
                                    /\ [n EXCEPT !.cur = "exited"].tracker = "RUNNING"
                                    /\ [n EXCEPT !.cur = "none"].tracker = "RUNNING"
    BY NodeSteps DEF Ran, Nodes
  <2>3. \/ node' = node
        \/ \E m \in Nodes : Apply(w, i, m) /\ (n.tracker = "RUNNING" => m.tracker = "RUNNING")
    BY Zenon, <1>3, <2>1, <2>2 DEF DeliverLate, DropLate, ContainerExits, ContainerRemoved
  <2>4. node' \in [Workers -> [Insts -> Nodes]] /\ Kept
    <3>1. CASE node' = node
      BY Zenon, <3>1 DEF ClusterTypeOK
    <3>2. ASSUME NEW m \in Nodes, Apply(w, i, m), n.tracker = "RUNNING" => m.tracker = "RUNNING"
          PROVE  node' \in [Workers -> [Insts -> Nodes]] /\ Kept
      <4>1. /\ node' \in [Workers -> [Insts -> Nodes]] /\ node'[w][i] = m
            /\ \A v \in Workers, j \in Insts : <<v, j>> # <<w, i>> => node'[v][j] = node[v][j]
        BY ZenonT(60), <3>2, Applied
      <4> QED
        BY Zenon, <2>1, <3>2, <4>1
    <3> QED
      BY Zenon, <2>3, <3>1, <3>2
  <2>5. late' \subseteq Workers \X Insts /\ events' \in 0..MaxEvents
    BY <1>3, ClusterAssumption DEF ClusterTypeOK, DeliverLate, DropLate, ContainerExits, ContainerRemoved,
       Happens, Count
  <2>6. UNCHANGED <<health, draining, load>>
    BY Zenon, <1>3 DEF DeliverLate, DropLate, ContainerExits, ContainerRemoved, fleetVars
  <2>7. ClusterTypeOK'
    BY Zenon, <1>2, <2>4, <2>5, <2>6 DEF ClusterTypeOK
  <2> QED
    BY Zenon, <2>4, <2>7
<1>4. ASSUME NEW h \in Healths, HealthChanges(w, h) PROVE ClusterTypeOK' /\ Kept
  BY <1>4, <1>2, ClusterAssumption DEF ClusterTypeOK, HealthChanges, Happens, Count, nodeVars
<1>5. CASE Drain(w) \/ Undrain(w)
  BY <1>5, <1>2, ClusterAssumption DEF ClusterTypeOK, Drain, Undrain, Happens, Count, nodeVars
<1> QED
  BY Zenon, <1>1, <1>2, <1>3, <1>4, <1>5

-----------------------------------------------------------------------------
(* The loop alone                                                           *)

\* Between its two calls for an instance on a draining worker, a pass has the
\* instance on record at the worker it moves to.
Started == rpc \in {"migrated", "vacate"} => \A x \in rec.cur : node[rec.to][x[1]].tracker = "RUNNING"

LoopInv == ClusterTypeOK /\ ReconcilerTypeOK /\ PassInv /\ Started

LEMMA DriftedTypes == DriftedInit => ClusterTypeOK /\ ReconcilerTypeOK /\ PassInv
<1> SUFFICES ASSUME DriftedInit PROVE ClusterTypeOK /\ ReconcilerTypeOK /\ PassInv
  BY Zenon
<1>1. ReconcilerTypeOK
  BY ZenonT(60), NoPassType DEF DriftedInit, ReconcilerInit, ReconcilerTypeOK, Passes
<1>2. PassInv
  BY DEF DriftedInit, ReconcilerInit, PassInv, PassOK, NoPass
<1>3. node \in [Workers -> [Insts -> Nodes]]
  <2>1. EmptyNode \in Nodes /\ \A k : DriftedNode(k) \in Nodes
    BY Zenon DEF EmptyNode, DriftedNode, Nodes
  <2>2. PICK k \in [Insts -> Drifts] :
          node = [w \in Workers |-> [i \in Insts |->
                    IF w = inst[i].worker THEN DriftedNode(k[i]) ELSE EmptyNode]]
    BY Zenon DEF DriftedInit
  <2> QED
    BY Zenon, <2>1, <2>2
<1>4. /\ status \in [Deps -> Statuses \cup {"NONE"}] /\ count \in [Deps -> 0..MaxInst]
      /\ inst \in [Insts -> [status: InstStatuses, worker: Workers \cup {NoWorker}]]
  <2>1. status \in [Deps -> {"RUNNING", "STOPPED"}] /\ count \in [Deps -> 1..MaxInst]
        /\ inst \in [Insts -> [status: {"RUNNING", "STOPPED"}, worker: Workers]]
    BY Zenon DEF DriftedInit
  <2> QED
    BY <2>1, ClusterAssumption DEF Statuses, InstStatuses
<1>5. /\ releases \subseteq Deps /\ health \in [Workers -> Healths] /\ draining \subseteq Workers
      /\ load \in [Workers -> Nat] /\ routes \subseteq Insts /\ late \subseteq Workers \X Insts
      /\ phase \in {"recovering", "reconciling", "serving"} /\ events \in 0..MaxEvents
  BY ClusterAssumption DEF DriftedInit, Healths
<1> QED
  BY Zenon, <1>1, <1>2, <1>3, <1>4, <1>5 DEF ClusterTypeOK

\* RunContainer that answers ok leaves the instance on record as RUNNING.
LEMMA RunRecords ==
    ASSUME ClusterTypeOK, NEW w \in Workers, NEW i \in Insts, CallRun(w, i, TRUE)
    PROVE  node'[w][i].tracker = "RUNNING"
<1>1. PICK n \in Nodes : n = node[w][i]
  BY DEF ClusterTypeOK
<1>2. Apply(w, i, Ran(n)) /\ RunOk(n)
  BY Zenon, <1>1 DEF CallRun
<1>3. Ran(n) \in Nodes
  BY Zenon, NodeSteps
<1>4. node'[w][i] = Ran(n)
  BY ZenonT(60), <1>2, <1>3, Applied
<1> QED
  BY Zenon, <1>2, <1>4 DEF RunOk

LEMMA StartedStep ==
    ASSUME LoopInv, Reconcile
    PROVE  Started'
<1> SUFFICES ASSUME rpc' \in {"migrated", "vacate"} PROVE \A x \in rec'.cur : node'[rec'.to][x[1]].tracker = "RUNNING"
  BY Zenon DEF Started
<1>1. CASE MigrateRecord
  BY Zenon, <1>1 DEF MigrateRecord, Step, LoopInv, Started, nodeVars
<1>2. ASSUME NEW x \in rec.todo, MigrateRun(x) PROVE \A y \in rec'.cur : node'[rec'.to][y[1]].tracker = "RUNNING"
  <2>1. PICK w \in Feasible :
          CallRun(w, x[1], TRUE) /\ rec' = [rec EXCEPT !.todo = rec.todo \ {x}, !.cur = {x}, !.to = w]
    BY Zenon, <1>2 DEF MigrateRun, Step
  <2>2. rec \in Passes /\ rec.todo \subseteq Placed
    BY Zenon, PassFields DEF LoopInv
  <2>3. w \in Workers /\ x[1] \in Insts /\ rec'.cur = {x} /\ rec'.to = w
    BY Zenon, <2>1, <2>2 DEF Feasible, Placed, Passes
  <2>4. node'[w][x[1]].tracker = "RUNNING"
    BY Zenon, <2>1, <2>3, RunRecords DEF LoopInv
  <2> QED
    BY Zenon, <2>3, <2>4
<1>3. MigrateRecord \/ \E x \in rec.todo : MigrateRun(x)
  <2> USE DEF Step
  <2>1. ~ReadDeployments /\ ~ReadInstances /\ ~Diff /\ ~OrphansDone /\ ~RepairRecord /\ ~RepairDone
        /\ ~PruneRecord /\ ~PruneDone /\ ~MigrateStop /\ ~EndPass
    BY Zenon DEF ReadDeployments, ReadInstances, Diff, OrphansDone, RepairRecord, RepairDone, PruneRecord,
       PruneDone, MigrateStop, EndPass
  <2>2. \A w : ~Observe(w) /\ ~ObserveFails(w) /\ ~ListDraining(w)
    BY Zenon DEF Observe, ObserveFails, ListDraining
  <2>3. \A x : /\ ~StopExtra(x) /\ ~RepairSkipped(x) /\ ~RepairUnplaced(x) /\ ~RepairRun(x) /\ ~PruneStop(x)
               /\ ~MigrateDeferred(x)
    BY Zenon DEF StopExtra, RepairSkipped, RepairUnplaced, RepairRun, PruneStop, MigrateDeferred
  <2> QED
    BY Zenon, <2>1, <2>2, <2>3 DEF Reconcile
<1> QED
  BY Zenon, <1>1, <1>2, <1>3

LEMMA LoopStep == LoopInv /\ [ReconcilerNext]_reconcilerVars => LoopInv'
<1> SUFFICES ASSUME LoopInv, [ReconcilerNext]_reconcilerVars PROVE LoopInv'
  BY Zenon
<1>1. CASE Reconcile
  BY Zenon, <1>1, PassStep, StartedStep DEF LoopInv
<1>2. CASE (Environment /\ UNCHANGED recVars) \/ UNCHANGED reconcilerVars
  <2>1. /\ ClusterTypeOK' /\ status' = status /\ inst' = inst /\ rpc' = rpc /\ rec' = rec
        /\ \A w \in Workers, i \in Insts :
                node[w][i].tracker = "RUNNING" => node'[w][i].tracker = "RUNNING"
    <3>1. CASE Environment /\ UNCHANGED recVars
      BY Zenon, <3>1, OutsideStep DEF LoopInv, recVars
    <3>2. CASE UNCHANGED reconcilerVars
      <4>1. UNCHANGED clusterVars /\ UNCHANGED recVars
        BY Zenon, <3>2 DEF reconcilerVars
      <4> QED
        BY Zenon, <4>1, Untouched DEF LoopInv, clusterVars, recVars
    <3> QED
      BY Zenon, <1>2, <3>1, <3>2
  <2>2. ReconcilerTypeOK'
    BY Zenon, <2>1 DEF LoopInv, ReconcilerTypeOK
  <2>3. PassInv'
    BY Zenon, <2>1 DEF LoopInv, PassInv, PassOK, Known, AtRest
  <2>4. Started'
    <3> SUFFICES ASSUME rpc \in {"migrated", "vacate"}, NEW x \in rec.cur
                 PROVE  node'[rec.to][x[1]].tracker = "RUNNING"
      BY Zenon, <2>1 DEF Started
    <3>1. node[rec.to][x[1]].tracker = "RUNNING" /\ rec.to \in Workers
      BY Zenon DEF LoopInv, Started, PassInv, PassOK
    <3>2. x[1] \in Insts
      BY Zenon, PassFields DEF Placed, LoopInv
    <3> QED
      BY Zenon, <2>1, <3>1, <3>2
  <2> QED
    BY Zenon, <2>1, <2>2, <2>3, <2>4 DEF LoopInv
<1> QED
  BY Zenon, <1>1, <1>2 DEF ReconcilerNext

\* A pass that has just placed a container of a drained worker did so there.
LEMMA MigratedBy ==
    ASSUME ReconcilerNext, rpc = "drain", rpc' = "migrated"
    PROVE  \E x \in rec.todo : MigrateRun(x)
<1>1. CASE Environment /\ UNCHANGED recVars
  BY Zenon, <1>1 DEF recVars
<1>2. CASE Reconcile
  <2> USE DEF Step
  <2>1. ~ReadDeployments /\ ~ReadInstances /\ ~Diff /\ ~OrphansDone /\ ~RepairRecord /\ ~RepairDone
        /\ ~PruneRecord /\ ~PruneDone /\ ~MigrateRecord /\ ~MigrateStop /\ ~EndPass
    BY Zenon DEF ReadDeployments, ReadInstances, Diff, OrphansDone, RepairRecord, RepairDone, PruneRecord,
       PruneDone, MigrateRecord, MigrateStop, EndPass
  <2>2. \A w : ~Observe(w) /\ ~ObserveFails(w) /\ ~ListDraining(w)
    BY Zenon DEF Observe, ObserveFails, ListDraining
  <2>3. \A x : /\ ~StopExtra(x) /\ ~RepairSkipped(x) /\ ~RepairUnplaced(x) /\ ~RepairRun(x) /\ ~PruneStop(x)
               /\ ~MigrateDeferred(x)
    BY Zenon DEF StopExtra, RepairSkipped, RepairUnplaced, RepairRun, PruneStop, MigrateDeferred
  <2> QED
    BY Zenon, <1>2, <2>1, <2>2, <2>3 DEF Reconcile
<1> QED
  BY Zenon, <1>1, <1>2 DEF ReconcilerNext

LEMMA MigratedTo ==
    ASSUME LoopInv, NEW x \in rec.todo, MigrateRun(x), rpc' = "migrated"
    PROVE  rec'.to \in Feasible
<1>1. PICK w \in Feasible :
        CallRun(w, x[1], TRUE) /\ rec' = [rec EXCEPT !.todo = rec.todo \ {x}, !.cur = {x}, !.to = w]
  BY ZenonT(60) DEF MigrateRun, Step
<1>2. rec \in Passes
  BY Zenon, PassFields DEF LoopInv
<1> QED
  BY ZenonT(60), <1>1, <1>2 DEF Passes

\* DRN-02: whatever happens to workers and calls, also when a worker is drained
\* or undrained in the middle of a pass, a container leaves a worker that is
\* being drained for another one, and is stopped there only when the worker
\* that took it over has it on record as RUNNING.
THEOREM StopsAfterStart == ReconcilerSpec => MigratesBeforeStop
<1>1. DriftedInit => LoopInv
  BY Zenon, DriftedTypes DEF LoopInv, Started, DriftedInit, ReconcilerInit
<1>2. LoopInv /\ [ReconcilerNext]_reconcilerVars =>
        [\A x \in Placed :
           /\ rpc = "drain" /\ rpc' = "migrated" /\ x \in rec'.cur /\ x[2] \in draining
                => rec'.to # x[2]
           /\ rpc = "vacate" /\ rpc' = "drain" /\ x \in rec.cur
                => node[rec.to][x[1]].tracker = "RUNNING"]_reconcilerVars
  <2> SUFFICES ASSUME LoopInv, ReconcilerNext, NEW x \in Placed
               PROVE  /\ (rpc = "drain" /\ rpc' = "migrated" /\ x \in rec'.cur /\ x[2] \in draining
                             => rec'.to # x[2])
                      /\ (rpc = "vacate" /\ rpc' = "drain" /\ x \in rec.cur
                             => node[rec.to][x[1]].tracker = "RUNNING")
    BY Zenon
  <2>1. ASSUME rpc = "drain", rpc' = "migrated", x \in rec'.cur, x[2] \in draining
        PROVE  rec'.to # x[2]
    <3>1. rec'.to \in Feasible
      BY Zenon, <2>1, MigratedBy, MigratedTo
    <3> QED
      BY Zenon, <2>1, <3>1 DEF Feasible
  <2>2. ASSUME rpc = "vacate", x \in rec.cur PROVE node[rec.to][x[1]].tracker = "RUNNING"
    BY Zenon, <2>2 DEF LoopInv, Started
  <2> QED
    BY Zenon, <2>1, <2>2
<1> QED
  BY <1>1, <1>2, LoopStep, PTL DEF ReconcilerSpec, MigratesBeforeStop

-----------------------------------------------------------------------------
(* The count a pass goes by *)

\* The workers answer and stay healthy.
Reachable == Events \cap {"health", "lost"} = {}

\* The running containers, and the workers on record.
Ups == {x \in Workers \X Insts : node[x[1]][x[2]].cur = "running"}
Homes == [i \in Insts |-> inst[i].worker]

\* What a worker runs it has on record.
Fleet ==
    /\ late = {} /\ \A w \in Workers : health[w] = "HEALTHY"
    /\ \A x \in Ups : node[x[1]][x[2]].tracker = "RUNNING"

\* Until it prunes, a pass works with the InstanceCount of the deployments it
\* read, and holds every instance at most once among those that match, those it
\* repaired, the one in hand and those still missing.
CountOK(p, r) ==
    /\ p = "idle" => r = NoPass
    /\ p \in {"insts", "observe", "orphans", "repair", "repaired"} =>
         /\ \A d \in r.active : r.want[d] = count[d]
         /\ \A x \in r.desired : DepOf(x[1]) \in r.active
         /\ \A x \in r.missing : /\ DepOf(x[1]) \in r.active /\ x[1] \notin r.ran
                                 /\ \A y \in r.match : y[2] # x[1]
         /\ \A x, y \in r.desired : x[1] = y[1] => x = y
         /\ \A x, y \in r.missing : x[1] = y[1] => x = y
    /\ p \in {"insts", "observe", "orphans"} => r.ran = {}
    /\ p = "repaired" => \E x : /\ r.cur = {x} /\ x[1] \notin r.ran
                                /\ \A y \in r.match : y[2] # x[1]
                                /\ \A y \in r.missing : y[1] # x[1]

\* What a pass knows of the containers that run: it has listed them, then it has
\* matched them or will stop them, then it has matched or started them.
SeenOK(p, r, ups, homes) ==
    /\ p = "observe" => \A x \in ups : x[1] \in r.poll \/ <<x[1], x[2], TRUE>> \in r.seen
    /\ p = "orphans" => ups \subseteq r.match \cup r.extra
    /\ p \in {"repair", "repaired"} =>
         \A x \in ups : \/ x \in r.match
                        \/ x[2] \in r.ran /\ x[1] = homes[x[2]]
                        \/ p = "repaired" /\ r.ok /\ x[1] = r.to /\ \E y \in r.cur : y[1] = x[2]

CountInv == Fleet /\ CountOK(rpc, rec) /\ SeenOK(rpc, rec, Ups, Homes)

-----------------------------------------------------------------------------
LEMMA RunUps ==
    ASSUME Reachable, ClusterTypeOK, Fleet, NEW w \in Workers, NEW i \in Insts, NEW ok, CallRun(w, i, ok)
    PROVE  /\ late' = {} /\ \A x \in Ups' : node'[x[1]][x[2]].tracker = "RUNNING"
           /\ \A x \in Ups' : x \in Ups \/ (x = <<w, i>> /\ ok)
<1>1. PICK n \in Nodes : n = node[w][i]
  BY DEF ClusterTypeOK
<1>2. /\ Ran(n) \in Nodes /\ Refused(n) \in Nodes /\ Unstarted(n) \in Nodes
      /\ n.cur = "running" => n.tracker = "RUNNING"
  <2>1. Ran(n) \in Nodes /\ Refused(n) \in Nodes /\ Unstarted(n) \in Nodes
    BY Zenon, NodeSteps
  <2>2. n.cur = "running" => <<w, i>> \in Ups
    BY Zenon, <1>1 DEF Ups
  <2>3. <<w, i>> \in Ups => n.tracker = "RUNNING"
    BY Zenon, <1>1 DEF Fleet
  <2> QED
    BY Zenon, <2>1, <2>2, <2>3
<1>3. PICK m \in Nodes : /\ Apply(w, i, m) /\ late' = late
                         /\ (m.cur = "running" => m.tracker = "RUNNING" /\ (m = n \/ ok))
  <2>1. CASE Apply(w, i, Ran(n)) /\ ok = RunOk(n) /\ UNCHANGED late
    <3>1. Ran(n).cur = "running" => Ran(n).tracker = "RUNNING" /\ (Ran(n) = n \/ RunOk(n))
      BY Zenon, <1>2 DEF Ran, RunOk
    <3> QED
      BY Zenon, <1>2, <2>1, <3>1
  <2>2. CASE (Apply(w, i, Refused(n)) \/ Apply(w, i, Unstarted(n))) /\ UNCHANGED late
    <3>1. Refused(n).cur # "running" /\ Unstarted(n).cur # "running"
      BY Zenon DEF Refused, Unstarted
    <3> QED
      BY Zenon, <1>2, <2>2, <3>1
  <2>3. ~Happens("lost")
    BY Zenon DEF Reachable, Happens
  <2> QED
    BY Zenon, <1>1, <2>1, <2>2, <2>3 DEF CallRun
<1>4. /\ node'[w][i] = m
      /\ \A v \in Workers, j \in Insts : <<v, j>> # <<w, i>> => node'[v][j] = node[v][j]
  BY ZenonT(60), <1>3, Applied
<1>5. ASSUME NEW x \in Ups'
      PROVE  node'[x[1]][x[2]].tracker = "RUNNING" /\ (x \in Ups \/ (x = <<w, i>> /\ ok))
  <2>1. PICK v \in Workers, j \in Insts : x = <<v, j>> /\ node'[v][j].cur = "running"
    BY <1>5 DEF Ups
  <2>2. CASE x = <<w, i>>
    <3>1. v = w /\ j = i /\ x[1] = w /\ x[2] = i
      BY <2>1, <2>2
    <3>2. node'[w][i].tracker = "RUNNING" /\ (m = n \/ ok)
      BY Zenon, <1>3, <1>4, <2>1, <3>1
    <3>3. m = n => x \in Ups
      BY ZenonT(60), <1>1, <1>4, <2>1, <2>2, <3>1 DEF Ups
    <3> QED
      BY Zenon, <2>2, <3>1, <3>2, <3>3
  <2>3. CASE x # <<w, i>>
    BY ZenonT(60), <1>4, <2>1, <2>3 DEF Ups, Fleet
  <2> QED
    BY Zenon, <2>2, <2>3
<1> QED
  BY Zenon, <1>3, <1>5 DEF Fleet

LEMMA StopUps ==
    ASSUME Reachable, ClusterTypeOK, Fleet, NEW w \in Workers, NEW i \in Insts, CallStop(w, i)
    PROVE  \A x \in Ups' : node'[x[1]][x[2]].tracker = "RUNNING" /\ x \in Ups /\ x # <<w, i>>
<1>1. PICK n \in Nodes : n = node[w][i]
  BY DEF ClusterTypeOK
<1>2. Stopped(n) \in Nodes /\ Stopped(n).cur # "running"
  <2>1. Stopped(n) \in Nodes
    BY Zenon, NodeSteps
  <2>2. n.cur = "running" => <<w, i>> \in Ups
    BY Zenon, <1>1 DEF Ups
  <2>3. <<w, i>> \in Ups => n.tracker = "RUNNING"
    BY Zenon, <1>1 DEF Fleet
  <2>4. Stopped(n).cur # "running"
    BY Zenon, <2>2, <2>3 DEF Stopped, Nodes
  <2> QED
    BY Zenon, <2>1, <2>4
<1>3. Apply(w, i, Stopped(n))
  BY Zenon, <1>1 DEF CallStop, Reachable, Happens
<1>4. /\ node'[w][i] = Stopped(n)
      /\ \A v \in Workers, j \in Insts : <<v, j>> # <<w, i>> => node'[v][j] = node[v][j]
  BY ZenonT(60), <1>2, <1>3, Applied
<1> SUFFICES ASSUME NEW x \in Ups'
             PROVE  node'[x[1]][x[2]].tracker = "RUNNING" /\ x \in Ups /\ x # <<w, i>>
  BY Zenon
<1>5. PICK v \in Workers, j \in Insts : x = <<v, j>> /\ node'[v][j].cur = "running"
  BY DEF Ups
<1>6. x # <<w, i>>
  BY Zenon, <1>2, <1>4, <1>5
<1> QED
  BY <1>4, <1>5, <1>6 DEF Ups, Fleet

\* Nothing starts containers behind the pass's back.
LEMMA OutsideUps ==
    ASSUME Reachable, ClusterTypeOK, Fleet, Environment
    PROVE  Fleet' /\ Ups' \subseteq Ups
<1>1. PICK w \in Workers :
        \/ \E i \in Insts : \/ DeliverLate(w, i) \/ DropLate(w, i)
                            \/ ContainerExits(w, i) \/ ContainerRemoved(w, i)
        \/ \E h \in Healths : HealthChanges(w, h)
        \/ Drain(w) \/ Undrain(w)
  BY Zenon DEF Environment
<1>2. /\ \A i : ~DeliverLate(w, i) /\ ~DropLate(w, i)
      /\ \A h : ~HealthChanges(w, h)
  BY Zenon DEF Fleet, DeliverLate, DropLate, HealthChanges, Happens, Reachable
<1>3. CASE Drain(w) \/ Undrain(w)
  BY Zenon, <1>3 DEF Drain, Undrain, Fleet, Ups, nodeVars
<1>4. ASSUME NEW i \in Insts, ContainerExits(w, i) \/ ContainerRemoved(w, i)
      PROVE  Fleet' /\ Ups' \subseteq Ups
  <2>1. PICK n \in Nodes : n = node[w][i]
    BY DEF ClusterTypeOK
  <2>2. PICK m \in Nodes : Apply(w, i, m) /\ m.cur # "running"
    <3>1. /\ [n EXCEPT !.cur = "exited"] \in Nodes /\ [n EXCEPT !.cur = "exited"].cur # "running"
          /\ [n EXCEPT !.cur = "none"] \in Nodes /\ [n EXCEPT !.cur = "none"].cur # "running"
      BY Zenon DEF Nodes
    <3> QED
      BY Zenon, <1>4, <2>1, <3>1 DEF ContainerExits, ContainerRemoved
  <2>3. /\ node'[w][i] = m
        /\ \A v \in Workers, j \in Insts : <<v, j>> # <<w, i>> => node'[v][j] = node[v][j]
    BY ZenonT(60), <2>2, Applied
  <2>4. ASSUME NEW x \in Ups' PROVE x \in Ups /\ node'[x[1]][x[2]].tracker = "RUNNING"
    <3>1. PICK v \in Workers, j \in Insts : x = <<v, j>> /\ node'[v][j].cur = "running"
      BY <2>4 DEF Ups
    <3>2. x # <<w, i>>
      BY Zenon, <2>2, <2>3, <3>1
    <3> QED
      BY <2>3, <3>1, <3>2 DEF Ups, Fleet
  <2>5. late' = late /\ health' = health
    BY Zenon, <1>4 DEF ContainerExits, ContainerRemoved, fleetVars
  <2> QED
    BY Zenon, <2>4, <2>5 DEF Fleet
<1> QED
  BY Zenon, <1>1, <1>2, <1>3, <1>4

-----------------------------------------------------------------------------
LEMMA LaterOK ==
    ASSUME NEW p \in {"prune", "pruned", "drain", "migrated", "vacate"}, NEW r, NEW ups, NEW homes
    PROVE  CountOK(p, r) /\ SeenOK(p, r, ups, homes)
BY Zenon DEF CountOK, SeenOK

\* The step's outcome in terms of the new values.
LEMMA CountKept ==
    ASSUME NEW p, NEW r, NEW ups, NEW homes, Fleet', count' = count,
           rpc' = p, rec' = r, Ups' = ups, Homes' = homes, CountOK(p, r), SeenOK(p, r, ups, homes)
    PROVE  CountInv'
<1>1. CountOK(p, r)'
  BY Zenon DEF CountOK
<1> QED
  BY Zenon, <1>1 DEF CountInv

LEMMA StillUps == Fleet /\ UNCHANGED <<node, late, health>> => Fleet' /\ Ups' = Ups
BY Zenon DEF Fleet, Ups

\* From the end of the repairs to the next pass.
LEMMA LaterStep ==
    ASSUME Reachable, ClusterTypeOK, ReconcilerTypeOK, PassInv, CountInv,
           \/ RepairDone \/ PruneRecord \/ PruneDone \/ MigrateRecord \/ MigrateStop \/ EndPass
           \/ \E w \in rec.poll : ListDraining(w)
           \/ \E x \in rec.match : PruneStop(x)
           \/ \E x \in rec.todo : MigrateDeferred(x) \/ MigrateRun(x)
    PROVE  CountInv'
<1>f. /\ rec.match \subseteq Workers \X Insts /\ rec.todo \subseteq Placed /\ rec.cur \subseteq Placed
      /\ \A x \in Placed : x[1] \in Insts
  BY Zenon, PassFields DEF Placed
<1> USE DEF Step
<1>1. count' = count
  BY Zenon DEF RepairDone, PruneRecord, PruneDone, MigrateRecord, MigrateStop, EndPass, ListDraining,
     PruneStop, MigrateDeferred, MigrateRun, repoVars, clusterVars
<1>2. health' = health
  BY Zenon DEF RepairDone, PruneRecord, PruneDone, MigrateRecord, MigrateStop, EndPass, ListDraining,
     PruneStop, MigrateDeferred, MigrateRun, fleetVars, clusterVars
<1>3. Fleet'
  <2>0. late = {} /\ Fleet
    BY Zenon DEF CountInv, Fleet
  <2>1. CASE UNCHANGED <<node, late>>
    BY Zenon, <1>2, <2>0, <2>1, StillUps
  <2>2. ASSUME NEW w \in Workers, NEW i \in Insts, CallStop(w, i), late' = late PROVE Fleet'
    <3>1. \A x \in Ups' : node'[x[1]][x[2]].tracker = "RUNNING"
      BY Zenon, <2>0, <2>2, StopUps
    <3> QED
      BY Zenon, <1>2, <2>0, <2>2, <3>1 DEF Fleet
  <2>3. ASSUME NEW w \in Workers, NEW i \in Insts, NEW ok, CallRun(w, i, ok) PROVE Fleet'
    <3>1. late' = {} /\ \A x \in Ups' : node'[x[1]][x[2]].tracker = "RUNNING"
      BY Zenon, <2>0, <2>3, RunUps
    <3> QED
      BY Zenon, <1>2, <2>0, <2>3, <3>1 DEF Fleet
  <2>4. CASE \/ RepairDone \/ PruneRecord \/ PruneDone \/ MigrateRecord \/ EndPass
             \/ \E w \in rec.poll : ListDraining(w)
             \/ \E x \in rec.todo : MigrateDeferred(x)
    BY Zenon, <2>1, <2>4 DEF RepairDone, PruneRecord, PruneDone, MigrateRecord, EndPass, ListDraining,
       MigrateDeferred, clusterVars, nodeVars
  <2>5. ASSUME NEW x \in rec.match, PruneStop(x) PROVE Fleet'
    <3>1. x[1] \in Workers /\ x[2] \in Insts
      BY Zenon, <1>f
    <3> QED
      BY Zenon, <2>2, <2>5, <3>1 DEF PruneStop
  <2>6. CASE MigrateStop
    <3>1. PICK x \in rec.cur : CallStop(x[2], x[1]) /\ late' = late
      BY Zenon, <2>6 DEF MigrateStop
    <3>2. x[1] \in Insts /\ x[2] \in Workers \cup {NoWorker}
      BY Zenon, <1>f DEF Placed
    <3>3. CASE x[2] \in Workers
      BY Zenon, <2>2, <3>1, <3>2, <3>3
    <3>4. CASE x[2] = NoWorker
      <4>1. node' = node
        <5>1. NoWorker \notin DOMAIN node
          BY Zenon, ClusterAssumption DEF ClusterTypeOK
        <5>2. \A v : [node EXCEPT ![NoWorker] = v] = node
          BY <5>1 DEF ClusterTypeOK
        <5> QED
          BY Zenon, <3>1, <3>4, <5>2 DEF CallStop, Apply, Reachable, Happens
      <4> QED
        BY Zenon, <2>1, <3>1, <4>1
    <3> QED
      BY Zenon, <3>2, <3>3, <3>4
  <2>7. ASSUME NEW x \in rec.todo, MigrateRun(x) PROVE Fleet'
    <3>1. PICK w \in Feasible, ok \in BOOLEAN : CallRun(w, x[1], ok)
      BY Zenon, <2>7 DEF MigrateRun
    <3>2. w \in Workers /\ x[1] \in Insts
      BY Zenon, <1>f DEF Feasible
    <3> QED
      BY Zenon, <2>3, <3>1, <3>2
  <2> QED
    BY Zenon, <2>4, <2>5, <2>6, <2>7
<1>4. PICK p, r, ups, homes : rpc' = p /\ rec' = r /\ Ups' = ups /\ Homes' = homes
  BY Zenon
<1>5. CASE EndPass
  <2>1. p = "idle" /\ r = NoPass
    BY Zenon, <1>4, <1>5 DEF EndPass
  <2>2. CountOK(p, r) /\ SeenOK(p, r, ups, homes)
    BY <2>1 DEF CountOK, SeenOK
  <2> QED
    BY Zenon, <1>1, <1>3, <1>4, <2>2, CountKept
<1>6. CASE ~EndPass
  <2>1. p \in {"prune", "pruned", "drain", "migrated", "vacate"}
    <3>1. \A x : MigrateRun(x) => rpc' \in {"drain", "migrated"}
      BY Zenon DEF MigrateRun
    <3> QED
      BY ZenonT(60), <1>4, <1>6, <3>1 DEF RepairDone, PruneRecord, PruneDone, MigrateRecord, MigrateStop, ListDraining,
         PruneStop, MigrateDeferred
  <2>2. CountOK(p, r) /\ SeenOK(p, r, ups, homes)
    BY Zenon, <2>1, LaterOK
  <2> QED
    BY Zenon, <1>1, <1>3, <1>4, <2>2, CountKept
<1> QED
  BY Zenon, <1>5, <1>6

-----------------------------------------------------------------------------
\* Reading and comparing.
LEMMA ReadStep ==
    ASSUME ClusterTypeOK, ReconcilerTypeOK, CountInv, Reachable,
           \/ ReadDeployments \/ ReadInstances \/ Diff \/ OrphansDone
           \/ \E w \in rec.poll : Observe(w) \/ ObserveFails(w)
    PROVE  CountInv'
<1>f. rec \in Passes /\ rec.poll \subseteq Workers
  BY Zenon, PassFields
<1>c. CountOK(rpc, rec) /\ SeenOK(rpc, rec, Ups, Homes)
  BY Zenon DEF CountInv
<1>w. \A w : ~ObserveFails(w)
  BY Zenon DEF ObserveFails, Happens, Reachable
<1>u. UNCHANGED clusterVars
  BY Zenon, <1>w DEF ReadDeployments, ReadInstances, Diff, OrphansDone, Observe
<1>1. Fleet' /\ Ups' = Ups
  BY Zenon, <1>u, StillUps DEF clusterVars, CountInv
<1>2. Homes' = Homes /\ count' = count
  BY Zenon, <1>u DEF clusterVars, Homes
<1> SUFFICES \E p, r : rpc' = p /\ rec' = r /\ CountOK(p, r) /\ SeenOK(p, r, Ups, Homes)
  <2>1. PICK p, r, ups, homes : /\ rpc' = p /\ rec' = r /\ CountOK(p, r) /\ SeenOK(p, r, Ups, Homes)
                                /\ ups = Ups /\ homes = Homes
    BY Zenon
  <2> QED
    BY Zenon, <1>1, <1>2, <2>1, CountKept
<1> USE DEF Step
<1>3. CASE ReadDeployments
  <2>1. PICK a, m : /\ rec' = [NoPass EXCEPT !.active = a, !.want = m] /\ rpc' = "insts"
                    /\ \A d \in a : m[d] = count[d]
    <3> DEFINE a == {d \in Deps : status[d] = "RUNNING"}
               m == [d \in Deps |-> IF d \in a THEN count[d] ELSE 0]
    <3>1. \A d \in a : m[d] = count[d]
      BY Zenon
    <3>2. rec = NoPass
      BY Zenon, <1>3, <1>c DEF ReadDeployments, CountOK
    <3> HIDE DEF m
    <3>3. rec' = [rec EXCEPT !.active = a, !.want = m] /\ rpc' = "insts"
      BY Zenon, <1>3 DEF ReadDeployments, m
    <3> QED
      BY Zenon, <3>1, <3>2, <3>3
  <2>2. CountOK("insts", [NoPass EXCEPT !.active = a, !.want = m])
    BY Zenon, <2>1 DEF CountOK, NoPass
  <2>3. SeenOK("insts", [NoPass EXCEPT !.active = a, !.want = m], Ups, Homes)
    BY Zenon DEF SeenOK
  <2> QED
    BY Zenon, <2>1, <2>2, <2>3
<1>4. CASE ReadInstances
  <2>1. PICK a : /\ rec' = [rec EXCEPT !.desired = a, !.poll = Workers] /\ rpc' = "observe"
                 /\ \A x \in a : DepOf(x[1]) \in rec.active
                 /\ \A x, y \in a : x[1] = y[1] => x = y
    <3> DEFINE is == {j \in Insts : /\ DepOf(j) \in rec.active
                                    /\ inst[j].status \in {"RUNNING", "REPAIR_FAILED"}}
               a == {<<i, inst[i].worker>> : i \in is}
    <3>1. \A x \in a : \E i \in is : x = <<i, inst[i].worker>>
      BY Zenon
    <3>2. \A i \in is : DepOf(i) \in rec.active
      BY Zenon
    <3> HIDE DEF is, a
    <3>3. /\ \A x \in a : DepOf(x[1]) \in rec.active
          /\ \A x, y \in a : x[1] = y[1] => x = y
      BY <3>1, <3>2
    <3>4. {w \in Workers : health[w] # "UNHEALTHY"} = Workers
      BY Zenon DEF CountInv, Fleet
    <3>5. rec' = [rec EXCEPT !.desired = a, !.poll = {w \in Workers : health[w] # "UNHEALTHY"}] /\ rpc' = "observe"
      BY Zenon, <1>4 DEF ReadInstances, is, a
    <3> QED
      BY Zenon, <3>3, <3>4, <3>5
  <2>2. CountOK("observe", [rec EXCEPT !.desired = a, !.poll = Workers])
    <3>1. CountOK("insts", rec)
      BY Zenon, <1>4, <1>c DEF ReadInstances
    <3> QED
      BY <1>f, <2>1, <3>1 DEF CountOK, Passes
  <2>3. SeenOK("observe", [rec EXCEPT !.desired = a, !.poll = Workers], Ups, Homes)
    BY Zenon, <1>f DEF SeenOK, Passes, Ups
  <2> QED
    BY Zenon, <2>1, <2>2, <2>3
<1>5. ASSUME NEW w \in rec.poll, Observe(w)
      PROVE  \E p, r : rpc' = p /\ rec' = r /\ CountOK(p, r) /\ SeenOK(p, r, Ups, Homes)
  <2>1. PICK s, q : /\ rec' = [rec EXCEPT !.poll = q, !.seen = s] /\ rpc' = "observe"
                    /\ q = rec.poll \ {w} /\ s = rec.seen \cup Containers(w)
    BY Zenon, <1>5 DEF Observe
  <2>2. CountOK("observe", rec) /\ SeenOK("observe", rec, Ups, Homes)
    BY Zenon, <1>5, <1>c DEF Observe
  <2>3. CountOK("observe", [rec EXCEPT !.poll = q, !.seen = s])
    BY Zenon, <1>f, <2>2 DEF CountOK, Passes
  <2>4. \A x \in Ups : x[1] \in q \/ <<x[1], x[2], TRUE>> \in s
    <3> SUFFICES ASSUME NEW x \in Ups, x[1] = w PROVE <<x[1], x[2], TRUE>> \in Containers(w)
      BY Zenon, <2>1, <2>2 DEF SeenOK
    <3>1. x[2] \in Insts /\ node[w][x[2]].cur = "running"
      BY Zenon DEF Ups
    <3> QED
      BY Zenon, <3>1 DEF Containers
  <2>5. SeenOK("observe", [rec EXCEPT !.poll = q, !.seen = s], Ups, Homes)
    BY Zenon, <1>f, <2>4 DEF SeenOK, Passes
  <2> QED
    BY Zenon, <2>1, <2>3, <2>5
<1>6. CASE Diff
  <2>1. PICK m \in Matchings(rec) :
          /\ rpc' = "orphans" /\ rec.poll = {}
          /\ rec' = [rec EXCEPT !.match = m, !.extra = Extra(rec, m), !.missing = Missing(rec, m),
                                !.desired = {}, !.seen = {}]
    BY Zenon, <1>6 DEF Diff
  <2>2. PICK e, a : e = Extra(rec, m) /\ a = Missing(rec, m)
    BY Zenon
  <2>3. CountOK("observe", rec) /\ SeenOK("observe", rec, Ups, Homes)
    BY Zenon, <1>6, <1>c DEF Diff
  <2>4. a \subseteq rec.desired /\ \A x \in a : \A y \in m : y[2] # x[1]
    BY Zenon, <2>2 DEF Missing
  <2>5. CountOK("orphans", [rec EXCEPT !.match = m, !.extra = e, !.missing = a, !.desired = {}, !.seen = {}])
    BY ZenonT(60), <1>f, <2>3, <2>4 DEF CountOK, Passes
  <2>6. Ups \subseteq m \cup e
    <3> SUFFICES ASSUME NEW x \in Ups, x \notin m PROVE x \in e
      BY Zenon
    <3>a. \A z \in Ups : z = <<z[1], z[2]>>
      BY DEF Ups
    <3>b. rec.poll = {} /\ (x[1] \in rec.poll \/ <<x[1], x[2], TRUE>> \in rec.seen)
      BY Zenon, <2>1, <2>3 DEF SeenOK
    <3>0. <<x[1], x[2], TRUE>> \in rec.seen /\ x = <<x[1], x[2]>>
      BY Zenon, <3>a, <3>b
    <3>1. PICK y : y = <<x[1], x[2], TRUE>> /\ y \in rec.seen /\ x = <<x[1], x[2]>>
      BY Zenon, <3>0
    <3>2. y[1] = x[1] /\ y[2] = x[2] /\ <<y[1], y[2]>> = x
      BY Zenon, <3>1
    <3>3. y \in {z \in rec.seen : ~z[3] \/ <<z[1], z[2]>> \notin m}
      BY Zenon, <3>1, <3>2
    <3> QED
      BY Zenon, <2>2, <3>2, <3>3 DEF Extra
  <2>7. SeenOK("orphans", [rec EXCEPT !.match = m, !.extra = e, !.missing = a, !.desired = {}, !.seen = {}],
               Ups, Homes)
    BY Zenon, <1>f, <2>6 DEF SeenOK, Passes
  <2> QED
    BY Zenon, <2>1, <2>2, <2>5, <2>7
<1>7. CASE OrphansDone
  <2>1. CountOK("orphans", rec) /\ SeenOK("orphans", rec, Ups, Homes) /\ rec.extra = {}
        /\ rpc' = "repair" /\ rec' = rec
    BY Zenon, <1>7, <1>c DEF OrphansDone
  <2>2. CountOK("repair", rec) /\ SeenOK("repair", rec, Ups, Homes)
    BY Zenon, <2>1 DEF CountOK, SeenOK
  <2> QED
    BY Zenon, <2>1, <2>2
<1> QED
  BY Zenon, <1>w, <1>3, <1>4, <1>5, <1>6, <1>7

\* Stopping what is not wanted.
LEMMA OrphanStep ==
    ASSUME Reachable, ClusterTypeOK, ReconcilerTypeOK, CountInv, NEW x \in rec.extra, StopExtra(x)
    PROVE  CountInv'
<1>f. rec \in Passes /\ rec.extra \subseteq Workers \X Insts
  BY Zenon, PassFields
<1>1. PICK e : /\ rec' = [rec EXCEPT !.extra = e] /\ rpc' = "orphans" /\ e = rec.extra \ {x}
               /\ CountOK("orphans", rec) /\ SeenOK("orphans", rec, Ups, Homes)
  BY Zenon DEF StopExtra, CountInv
<1>2. x = <<x[1], x[2]>> /\ x[1] \in Workers /\ x[2] \in Insts
  BY <1>f
<1>3. UNCHANGED <<count, inst, health, late>> /\ CallStop(x[1], x[2])
  BY Zenon DEF StopExtra, repoVars, fleetVars
<1>4. \A y \in Ups' : node'[y[1]][y[2]].tracker = "RUNNING" /\ y \in Ups /\ y # x
  BY Zenon, <1>2, <1>3, StopUps DEF CountInv
<1>5. Fleet' /\ Homes' = Homes
  BY Zenon, <1>3, <1>4 DEF CountInv, Fleet, Homes
<1>6. PICK ups, homes : Ups' = ups /\ Homes' = homes
  BY Zenon
<1>7. CountOK("orphans", [rec EXCEPT !.extra = e])
  BY Zenon, <1>1, <1>f DEF CountOK, Passes
<1>8. ups \subseteq rec.match \cup e
  BY Zenon, <1>1, <1>4, <1>6 DEF SeenOK
<1>9. SeenOK("orphans", [rec EXCEPT !.extra = e], ups, homes)
  BY Zenon, <1>8, <1>f DEF SeenOK, Passes
<1> QED
  BY Zenon, <1>1, <1>3, <1>5, <1>6, <1>7, <1>9, CountKept

-----------------------------------------------------------------------------
\* Repairs given up.
LEMMA SkipStep ==
    ASSUME ClusterTypeOK, ReconcilerTypeOK, CountInv,
           NEW x \in rec.missing, RepairSkipped(x) \/ RepairUnplaced(x)
    PROVE  CountInv'
<1>f. rec \in Passes
  BY Zenon, PassFields
<1>1. PICK a : /\ rec' = [rec EXCEPT !.missing = a] /\ rpc' = "repair" /\ a = rec.missing \ {x}
               /\ CountOK("repair", rec) /\ SeenOK("repair", rec, Ups, Homes)
  BY Zenon DEF RepairSkipped, RepairUnplaced, CountInv
<1>2. UNCHANGED clusterVars
  BY Zenon DEF RepairSkipped, RepairUnplaced
<1>3. Fleet' /\ Ups' = Ups /\ Homes' = Homes /\ count' = count
  BY Zenon, <1>2, StillUps DEF clusterVars, CountInv, Homes
<1>4. PICK ups, homes : Ups = ups /\ Homes = homes
  BY Zenon
<1>5. CountOK("repair", [rec EXCEPT !.missing = a])
  BY Zenon, <1>1, <1>f DEF CountOK, Passes
<1>6. SeenOK("repair", [rec EXCEPT !.missing = a], ups, homes)
  BY Zenon, <1>1, <1>4, <1>f DEF SeenOK, Passes
<1> QED
  BY Zenon, <1>1, <1>3, <1>4, <1>5, <1>6, CountKept

\* RunContainer for a missing instance.
LEMMA RepairRunUps ==
    ASSUME Reachable, ClusterTypeOK, ReconcilerTypeOK, CountInv, NEW x \in rec.missing, RepairRun(x)
    PROVE  \E w \in Workers, ok \in BOOLEAN :
             /\ rpc' = "repaired"
             /\ rec' = [rec EXCEPT !.missing = rec.missing \ {x}, !.cur = {x}, !.to = w, !.ok = ok]
             /\ UNCHANGED <<count, inst, health>> /\ Fleet'
             /\ \A y \in Ups' : y \in Ups \/ (y = <<w, x[1]>> /\ ok)
<1>1. x \in Placed
  BY Zenon, PassFields
<1>2. x[1] \in Insts /\ x[2] \in Workers \cup {NoWorker}
  BY Zenon, <1>1 DEF Placed
<1>3. PICK w \in RepairWorkers(x[2]), ok \in BOOLEAN :
        /\ CallRun(w, x[1], ok) /\ rpc' = "repaired"
        /\ rec' = [rec EXCEPT !.missing = rec.missing \ {x}, !.cur = {x}, !.to = w, !.ok = ok]
  BY Zenon DEF RepairRun, Step
<1>4. w \in Workers
  BY Zenon, <1>2 DEF RepairWorkers, Feasible
<1>5. UNCHANGED <<count, inst, health>>
  BY Zenon DEF RepairRun, repoVars, fleetVars
<1>6. /\ late' = {} /\ \A y \in Ups' : node'[y[1]][y[2]].tracker = "RUNNING"
      /\ \A y \in Ups' : y \in Ups \/ (y = <<w, x[1]>> /\ ok)
  BY Zenon, <1>2, <1>3, <1>4, RunUps DEF CountInv
<1>7. Fleet'
  BY Zenon, <1>5, <1>6 DEF CountInv, Fleet
<1> QED
  BY Zenon, <1>3, <1>4, <1>5, <1>6, <1>7

LEMMA RepairStep ==
    ASSUME Reachable, ClusterTypeOK, ReconcilerTypeOK, CountInv, NEW x \in rec.missing, RepairRun(x)
    PROVE  CountInv'
<1>f. rec \in Passes
  BY Zenon, PassFields
<1>1. PICK w \in Workers, ok \in BOOLEAN :
        /\ rpc' = "repaired"
        /\ rec' = [rec EXCEPT !.missing = rec.missing \ {x}, !.cur = {x}, !.to = w, !.ok = ok]
        /\ UNCHANGED <<count, inst, health>> /\ Fleet'
        /\ \A y \in Ups' : y \in Ups \/ (y = <<w, x[1]>> /\ ok)
  BY Zenon, RepairRunUps
<1>2. CountOK("repair", rec) /\ SeenOK("repair", rec, Ups, Homes)
  BY Zenon DEF RepairRun, CountInv
<1>3. PICK ups, homes : Ups' = ups /\ Homes' = homes /\ homes = Homes
  BY Zenon, <1>1 DEF Homes
<1>4. CountOK("repaired", [rec EXCEPT !.missing = rec.missing \ {x}, !.cur = {x}, !.to = w, !.ok = ok])
  <2> DEFINE r == [rec EXCEPT !.missing = rec.missing \ {x}, !.cur = {x}, !.to = w, !.ok = ok]
  <2>1. /\ r.active = rec.active /\ r.want = rec.want /\ r.desired = rec.desired /\ r.match = rec.match
        /\ r.ran = rec.ran /\ r.missing = rec.missing \ {x} /\ r.cur = {x}
    BY Zenon, <1>f DEF Passes
  <2>2. /\ \A y \in rec.missing \ {x} : y[1] # x[1]
        /\ x[1] \notin rec.ran /\ \A y \in rec.match : y[2] # x[1]
    BY Zenon, <1>2 DEF CountOK
  <2> HIDE DEF r
  <2>3. \E z : /\ r.cur = {z} /\ z[1] \notin r.ran /\ \A y \in r.match : y[2] # z[1]
               /\ \A y \in r.missing : y[1] # z[1]
    BY Zenon, <2>1, <2>2
  <2>4. CountOK("repaired", r)
    BY ZenonT(60), <1>2, <2>1, <2>3 DEF CountOK
  <2> QED
    BY Zenon, <2>4 DEF r
<1>5. SeenOK("repaired", [rec EXCEPT !.missing = rec.missing \ {x}, !.cur = {x}, !.to = w, !.ok = ok], ups, homes)
  <2>1. \A y \in ups : \/ y \in rec.match \/ (y[2] \in rec.ran /\ y[1] = homes[y[2]])
                       \/ (ok /\ y[1] = w /\ y[2] = x[1])
    BY <1>1, <1>2, <1>3 DEF SeenOK
  <2> QED
    BY Zenon, <1>f, <2>1 DEF SeenOK, Passes
<1> QED
  BY Zenon, <1>1, <1>3, <1>4, <1>5, CountKept

\* ... and its record.
LEMMA RecordStep ==
    ASSUME ClusterTypeOK, ReconcilerTypeOK, CountInv, RepairRecord
    PROVE  CountInv'
<1>f. rec \in Passes /\ rec.cur \subseteq Placed /\ rec.ran \subseteq Insts /\ rec.ok \in BOOLEAN
  BY Zenon, PassFields
<1>1. CountOK("repaired", rec) /\ SeenOK("repaired", rec, Ups, Homes)
  BY Zenon DEF RepairRecord, CountInv
<1>2. PICK x : /\ rec.cur = {x} /\ x[1] \notin rec.ran /\ \A y \in rec.match : y[2] # x[1]
               /\ \A y \in rec.missing : y[1] # x[1]
  BY Zenon, <1>1 DEF CountOK
<1>3. x[1] \in Insts
  BY <1>2, <1>f DEF Placed
<1>4. PICK a : /\ rec' = [rec EXCEPT !.ran = a, !.cur = {}, !.to = NoWorker, !.ok = FALSE] /\ rpc' = "repair"
               /\ a = IF rec.ok THEN rec.ran \cup {x[1]} ELSE rec.ran
  BY Zenon, <1>2 DEF RepairRecord, Step
<1>5. PICK s, w : SetInst(x[1], s, w) /\ (rec.ok => w = rec.to)
  BY Zenon, <1>2 DEF RepairRecord
<1>6. UNCHANGED <<count, node, late, health>>
  BY Zenon DEF RepairRecord, fleetVars, nodeVars
<1>7. Fleet' /\ Ups' = Ups
  BY Zenon, <1>6, StillUps DEF CountInv
<1>8. PICK ups, homes : Ups' = ups /\ Homes' = homes /\ ups = Ups
  BY Zenon, <1>7
<1>9. /\ rec.ok => homes[x[1]] = rec.to
      /\ \A i \in Insts : i # x[1] => homes[i] = Homes[i]
  BY Zenon, <1>3, <1>5, <1>8 DEF SetInst, Homes, ClusterTypeOK
<1>10. CountOK("repair", [rec EXCEPT !.ran = a, !.cur = {}, !.to = NoWorker, !.ok = FALSE])
  BY <1>f, <1>1, <1>2, <1>4 DEF CountOK, Passes
<1>11. \A y \in ups : y \in rec.match \/ (y[2] \in a /\ y[1] = homes[y[2]])
  BY <1>f, <1>1, <1>2, <1>4, <1>8, <1>9 DEF SeenOK
<1>12. SeenOK("repair", [rec EXCEPT !.ran = a, !.cur = {}, !.to = NoWorker, !.ok = FALSE], ups, homes)
  BY Zenon, <1>f, <1>11 DEF SeenOK, Passes
<1> QED
  BY Zenon, <1>4, <1>6, <1>7, <1>8, <1>10, <1>12, CountKept

LEMMA CountStep ==
    ASSUME Reachable, ClusterTypeOK, ReconcilerTypeOK, PassInv, CountInv, Reconcile
    PROVE  CountInv'
BY Zenon, LaterStep, ReadStep, OrphanStep, SkipStep, RepairStep, RecordStep DEF Reconcile

-----------------------------------------------------------------------------
(* No repair overshoots *)

\* A pass that may still repair d sees fewer containers of d than asked for.
LEMMA RoomForOne ==
    ASSUME ClusterTypeOK, ReconcilerTypeOK, CountInv, rpc = "repair", NEW d \in Deps,
           RunningCount(d) < rec.want[d]
    PROVE  /\ IsFiniteSet(Running(d)) /\ Cardinality(Running(d)) \in Nat
           /\ Cardinality(Running(d)) < rec.want[d]
<1> DEFINE M == {x \in rec.match : DepOf(x[2]) = d}
           S == {i \in rec.ran : DepOf(i) = d}
           f == [i \in S |-> <<inst[i].worker, i>>]
           R == {f[i] : i \in S}
<1>1. /\ rec.match \subseteq Workers \X Insts /\ rec.ran \subseteq Insts
      /\ rec.want \in [Deps -> 0..MaxInst]
  BY Zenon, PassFields
<1>2. IsFiniteSet({d} \X (1..MaxInst))
  <2>1. MaxInst \in Int /\ 1 \in Int
    BY ClusterAssumption
  <2>2. IsFiniteSet(1..MaxInst) /\ IsFiniteSet({d})
    BY Zenon, <2>1, FS_Interval, FS_Singleton
  <2> QED
    BY Zenon, <2>2, FS_Product
<1>3. IsFiniteSet(S) /\ Cardinality(S) \in Nat
  <2>1. S \subseteq {d} \X (1..MaxInst)
    BY Zenon, <1>1 DEF Insts, DepOf
  <2> HIDE DEF S
  <2> QED
    BY Zenon, <1>2, <2>1, FS_Subset, FS_CardinalityType
<1>4. IsFiniteSet(M) /\ Cardinality(M) \in Nat
  <2>1. M \subseteq Workers \X ({d} \X (1..MaxInst))
    BY Zenon, <1>1 DEF Insts, DepOf
  <2>2. IsFiniteSet(Workers \X ({d} \X (1..MaxInst)))
    BY Zenon, <1>2, FS_Product, WorkersAssumption
  <2> HIDE DEF M
  <2> QED
    BY Zenon, <2>1, <2>2, FS_Subset, FS_CardinalityType
<1>5. IsFiniteSet(R) /\ Cardinality(R) \in Nat /\ Cardinality(R) <= Cardinality(S)
  <2>1. f \in Surjection(S, R)
    BY Zenon DEF Surjection
  <2> HIDE DEF f, R, S
  <2> QED
    BY Zenon, <1>3, <2>1, FS_Surjection, FS_CardinalityType
<1>6. Running(d) \subseteq M \cup R
  <2> SUFFICES ASSUME NEW x \in Running(d) PROVE x \in M \cup R
    BY Zenon
  <2>1. x \in Ups /\ DepOf(x[2]) = d /\ x = <<x[1], x[2]>> /\ x[2] \in Insts
    BY DEF Running, Ups
  <2>2. x \in rec.match \/ (x[2] \in rec.ran /\ x[1] = inst[x[2]].worker)
    <3>1. Homes[x[2]] = inst[x[2]].worker
      BY Zenon, <2>1 DEF Homes
    <3> QED
      BY Zenon, <2>1, <3>1 DEF CountInv, SeenOK
  <2>3. CASE x \in rec.match
    BY Zenon, <2>1, <2>3
  <2>4. CASE x[2] \in rec.ran /\ x[1] = inst[x[2]].worker
    <3>1. x[2] \in S /\ f[x[2]] = x
      BY Zenon, <2>1, <2>4
    <3> QED
      BY Zenon, <3>1
  <2> QED
    BY Zenon, <2>2, <2>3, <2>4
<1>7. RunningCount(d) = Cardinality(M) + Cardinality(S)
  BY DEF RunningCount
<1> HIDE DEF M, S, R, f
<1>8. /\ IsFiniteSet(M \cup R) /\ Cardinality(M \cup R) \in Nat
      /\ Cardinality(M \cup R) <= Cardinality(M) + Cardinality(R)
  <2>1. IsFiniteSet(M \cup R) /\ IsFiniteSet(M \cap R)
        /\ Cardinality(M \cup R) = Cardinality(M) + Cardinality(R) - Cardinality(M \cap R)
    <3>1. M \cap R \subseteq M
      BY Zenon
    <3> QED
      BY Zenon, <1>4, <1>5, <3>1, FS_Union, FS_Subset
  <2>2. Cardinality(M \cup R) \in Nat /\ Cardinality(M \cap R) \in Nat
    BY Zenon, <2>1, FS_CardinalityType
  <2> QED
    BY <1>4, <1>5, <2>1, <2>2
<1>9. /\ IsFiniteSet(Running(d)) /\ Cardinality(Running(d)) \in Nat
      /\ Cardinality(Running(d)) <= Cardinality(M \cup R)
  BY ZenonT(60), <1>6, <1>8, FS_Subset, FS_CardinalityType
<1>10. rec.want[d] \in Nat
  BY <1>1, ClusterAssumption
<1> QED
  BY <1>3, <1>4, <1>5, <1>7, <1>8, <1>9, <1>10

LEMMA NoneTooMany ==
    ASSUME Reachable, ClusterTypeOK, ReconcilerTypeOK, CountInv, Reconcile,
           rpc = "repair", rpc' = "repaired", NEW z \in rec'.cur
    PROVE  Cardinality(Visible(DepOf(z[1]))') <= count[DepOf(z[1])]
<1>1. PICK x \in rec.missing : RepairRun(x)
  <2> USE DEF Step
  <2>1. ~ReadDeployments /\ ~ReadInstances /\ ~Diff /\ ~OrphansDone /\ ~RepairRecord /\ ~RepairDone
        /\ ~PruneRecord /\ ~PruneDone /\ ~MigrateRecord /\ ~MigrateStop /\ ~EndPass
    BY Zenon DEF ReadDeployments, ReadInstances, Diff, OrphansDone, RepairRecord, RepairDone, PruneRecord,
       PruneDone, MigrateRecord, MigrateStop, EndPass
  <2>2. \A w : ~Observe(w) /\ ~ObserveFails(w) /\ ~ListDraining(w)
    BY Zenon DEF Observe, ObserveFails, ListDraining
  <2>3. \A x : /\ ~StopExtra(x) /\ ~RepairSkipped(x) /\ ~RepairUnplaced(x) /\ ~PruneStop(x)
               /\ ~MigrateDeferred(x) /\ ~MigrateRun(x)
    BY Zenon DEF StopExtra, RepairSkipped, RepairUnplaced, PruneStop, MigrateDeferred, MigrateRun
  <2> QED
    BY Zenon, <2>1, <2>2, <2>3 DEF Reconcile
<1>2. PICK w \in Workers, ok \in BOOLEAN :
        /\ rec' = [rec EXCEPT !.missing = rec.missing \ {x}, !.cur = {x}, !.to = w, !.ok = ok]
        /\ UNCHANGED health /\ \A y \in Ups' : y \in Ups \/ (y = <<w, x[1]>> /\ ok)
  BY Zenon, <1>1, RepairRunUps
<1>3. z = x
  <2>1. rec \in Passes
    BY Zenon, PassFields
  <2> QED
    BY Zenon, <1>2, <2>1 DEF Passes
<1>4. x \in Placed
  BY Zenon, PassFields
<1>5. PICK d \in Deps : d = DepOf(x[1])
  BY Zenon, <1>4 DEF Placed, Insts, DepOf
<1>6. RunningCount(d) < rec.want[d] /\ rec.want[d] = count[d]
  <2>1. RunningCount(d) < rec.want[d]
    BY Zenon, <1>1, <1>5 DEF RepairRun
  <2>2. rec.want[d] = count[d]
    BY Zenon, <1>5 DEF CountInv, CountOK
  <2> QED
    BY Zenon, <2>1, <2>2
<1>7. /\ IsFiniteSet(Running(d)) /\ Cardinality(Running(d)) \in Nat
      /\ Cardinality(Running(d)) < count[d]
  BY Zenon, <1>6, RoomForOne
<1>8. PICK v, e : v = Visible(d)' /\ e = <<w, x[1]>>
  BY Zenon
<1>9. v \subseteq Running(d) \cup {e}
  <2> SUFFICES ASSUME NEW y \in v PROVE y \in Running(d) \/ y = e
    BY Zenon
  <2>1. y \in Ups' /\ DepOf(y[2]) = d
    BY Zenon, <1>8 DEF Visible, Running, Ups
  <2>2. y \in Ups => y \in Running(d)
    BY Zenon, <2>1 DEF Running, Ups
  <2> QED
    BY Zenon, <1>2, <1>8, <2>1, <2>2
<1>10. /\ IsFiniteSet(Running(d) \cup {e})
       /\ Cardinality(Running(d) \cup {e}) \in {Cardinality(Running(d)), Cardinality(Running(d)) + 1}
  <2>1. CASE e \in Running(d)
    <3>1. Running(d) \cup {e} = Running(d)
      BY Zenon, <2>1
    <3> QED
      BY Zenon, <1>7, <3>1
  <2>2. CASE e \notin Running(d)
    BY Zenon, <1>7, <2>2, FS_AddElement
  <2> QED
    BY Zenon, <2>1, <2>2
<1>11. Cardinality(v) \in Nat /\ Cardinality(v) <= Cardinality(Running(d) \cup {e})
  BY ZenonT(60), <1>9, <1>10, FS_Subset, FS_CardinalityType
<1>12. count[d] \in Nat
  BY ClusterAssumption DEF ClusterTypeOK
<1>13. Cardinality(v) <= count[d]
  BY <1>7, <1>10, <1>11, <1>12
<1> QED
  BY Zenon, <1>3, <1>5, <1>8, <1>13

\* G-11: while workers answer and stay healthy, containers may die, be removed or
\* refused and workers be drained, and no repair takes a deployment beyond its
\* InstanceCount, however many passes have run.
THEOREM RepairsDoNotOvershoot == Reachable => (ReconcilerSpec => NoOvershoot)
<1> SUFFICES ASSUME Reachable PROVE ReconcilerSpec => NoOvershoot
  BY Zenon
<1> DEFINE Inv == ClusterTypeOK /\ ReconcilerTypeOK /\ PassInv /\ CountInv
<1>1. DriftedInit => Inv
  <2> SUFFICES ASSUME DriftedInit PROVE CountInv
    BY Zenon, DriftedTypes
  <2>1. rpc = "idle" /\ rec = NoPass /\ late = {}
    BY Zenon DEF DriftedInit, ReconcilerInit
  <2>2. CountOK(rpc, rec) /\ SeenOK(rpc, rec, Ups, Homes)
    BY Zenon, <2>1 DEF CountOK, SeenOK
  <2>3. \A w \in Workers : health[w] = "HEALTHY"
    BY Zenon DEF DriftedInit
  <2>4. \A x \in Ups : node[x[1]][x[2]].tracker = "RUNNING"
    <3>1. PICK k \in [Insts -> Drifts] :
            node = [w \in Workers |-> [i \in Insts |->
                      IF w = inst[i].worker THEN DriftedNode(k[i]) ELSE EmptyNode]]
      BY Zenon DEF DriftedInit
    <3>2. /\ EmptyNode.cur # "running"
          /\ \A c : DriftedNode(c).cur = "running" => DriftedNode(c).tracker = "RUNNING"
      BY Zenon DEF EmptyNode, DriftedNode
    <3> QED
      BY Zenon, <3>1, <3>2 DEF Ups
  <2> QED
    BY Zenon, <2>1, <2>2, <2>3, <2>4 DEF CountInv, Fleet
<1>2. Inv /\ [ReconcilerNext]_reconcilerVars => Inv'
  <2> SUFFICES ASSUME Inv, [ReconcilerNext]_reconcilerVars PROVE Inv'
    BY Zenon
  <2>1. CASE Reconcile
    BY Zenon, <2>1, PassStep, CountStep
  <2>2. CASE (Environment /\ UNCHANGED recVars) \/ UNCHANGED reconcilerVars
    <3>1. /\ ClusterTypeOK' /\ Fleet' /\ Ups' \subseteq Ups
          /\ UNCHANGED <<status, inst, count, rpc, rec>>
      <4>1. CASE Environment /\ UNCHANGED recVars
        BY Zenon, <4>1, OutsideStep, OutsideUps DEF CountInv, recVars
      <4>2. CASE UNCHANGED reconcilerVars
        <5>1. UNCHANGED clusterVars /\ UNCHANGED recVars
          BY Zenon, <4>2 DEF reconcilerVars
        <5>2. Fleet' /\ Ups' = Ups
          BY Zenon, <5>1, StillUps DEF clusterVars, CountInv
        <5> QED
          BY Zenon, <5>1, <5>2, Untouched DEF clusterVars, recVars
      <4> QED
        BY Zenon, <2>2, <4>1, <4>2
    <3>2. ReconcilerTypeOK' /\ PassInv'
      BY Zenon, <3>1 DEF ReconcilerTypeOK, PassInv, PassOK, Known, AtRest
    <3>3. Homes' = Homes
      BY Zenon, <3>1 DEF Homes
    <3>4. PICK p, r, ups, homes : p = rpc /\ r = rec /\ ups = Ups' /\ homes = Homes
      BY Zenon
    <3>5. CountOK(p, r) /\ SeenOK(p, r, Ups, homes)
      BY Zenon, <3>4 DEF CountInv
    <3>6. SeenOK(p, r, ups, homes)
      BY Zenon, <3>1, <3>4, <3>5 DEF SeenOK
    <3>7. CountInv'
      BY Zenon, <3>1, <3>3, <3>4, <3>5, <3>6, CountKept
    <3> QED
      BY Zenon, <3>1, <3>2, <3>7
  <2> QED
    BY Zenon, <2>1, <2>2 DEF ReconcilerNext
<1>3. Inv /\ [ReconcilerNext]_reconcilerVars =>
        [rpc = "repair" /\ rpc' = "repaired" =>
           \A x \in rec'.cur : Cardinality(Visible(DepOf(x[1]))') <= count[DepOf(x[1])]]_reconcilerVars
  <2> SUFFICES ASSUME Inv, ReconcilerNext, rpc = "repair", rpc' = "repaired", NEW x \in rec'.cur
               PROVE  Cardinality(Visible(DepOf(x[1]))') <= count[DepOf(x[1])]
    BY Zenon
  <2>1. Reconcile
    BY Zenon DEF ReconcilerNext, recVars
  <2> QED
    BY Zenon, <2>1, NoneTooMany
<1> QED
  BY <1>1, <1>2, <1>3, PTL DEF ReconcilerSpec, NoOvershoot

=============================================================================
