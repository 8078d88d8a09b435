-------------------------- MODULE Replicas_proofs ---------------------------
(***************************************************************************)
(* Proof that a deployment at rest serves the replicas it asks for, for any *)
(* projects, deployments, workers, handlers and replica counts, while no   *)
(* container dies by itself.                                               *)
(***************************************************************************)
EXTENDS DeploymentService_proofs

-----------------------------------------------------------------------------
(* While no container dies by itself, what is recorded up is up.            *)

\* No container dies by itself.
Undying == Events \cap {"exit", "remove"} = {}

\* The instance is recorded RUNNING on a worker, which runs its container.
Served(i) == Up(i) /\ node[inst[i].worker][i].cur = "running"

\* A worker runs what its tracker says.
Tracks(n) == n.cur = "running" <=> n.tracker = "RUNNING"
Tracked == \A w \in Workers, i \in Insts : Tracks(node[w][i])

\* A deployment serves the replicas it asks for when nobody is at work on it.
Good(d) == (\A i \in Active(d) : Served(i)) /\ Cardinality(Active(d)) >= count[d]

\* A handler stops or scales the deployment.
Touches(t, d) == pc[t] \in LockedPCs /\ ~Deploys(t) /\ Target(t) = d

Steady == \A d \in Deps : status[d] = "RUNNING" /\ (\A t \in Threads : ~Touches(t, d)) => Good(d)

\* A handler of kind k at p, with locals l, knows of its deployment d, of
\* status s: whatever it has started is served; when it scales up, what was
\* served before and what it will have started are as many as asked for; when
\* it scales down, what it does not stop are.
Held(d, p) == IF p \in {"run", "record"} THEN {Newest(d)} ELSE {}
Doomed(l) == {x[1] : x \in l.todo \cup l.hit}

Raises(d, p, l) ==
    /\ \A i \in Active(d) \ Held(d, p) : Served(i)
    /\ Held(d, p) \subseteq Active(d)
    /\ Cardinality(Active(d) \ Held(d, p)) >= count[d]
    /\ Made(d) <= l.last
    /\ Cardinality(Active(d)) + l.last - Made(d) >= l.n

Lowers(d, l) ==
    /\ \A x, y \in l.hit : x = y
    /\ \A i \in Active(d) \ Doomed(l) : Served(i)
    /\ Cardinality(Active(d) \ Doomed(l)) >= l.n

Serves(d, k, p, l, s) ==
    /\ p \in DeployPCs /\ k \in {"create", "rollback"} => \A i \in Instances(d) \ Held(d, p) : Served(i)
    /\ p = "record" => node[l.w][Newest(d)].cur = "running"
    /\ k = "scale" /\ s = "RUNNING" /\ p \in {"place", "run", "record", "route"} => Raises(d, p, l)
    /\ k = "scale" /\ s = "RUNNING" /\ p \in {"stop", "stopped"} => Lowers(d, l)

Serving(t) == Serves(dep[t], kind[t], pc[t], loc[t], status[dep[t]])

SrvInv == Tracked /\ Steady /\ \A t \in Threads : Serving(t)

-----------------------------------------------------------------------------
LEMMA Counts == \A n \in 0..MaxInst : n \in Nat
  BY ClusterAssumption

LEMMA RecordFields ==
    ASSUME NEW r, NEW x, NEW y, r = [status |-> x, worker |-> y]
    PROVE  r.status = x /\ r.worker = y
  BY Zenon

\* RunContainer and StopContainer keep a worker's containers and tracker in
\* step, and RunContainer stops nothing.
LEMMA TracksOps ==
    ASSUME NEW n \in Nodes, Tracks(n)
    PROVE  /\ Tracks(Ran(n)) /\ Tracks(Refused(n)) /\ Tracks(Unstarted(n)) /\ Tracks(Stopped(n))
           /\ n.cur = "running" => Ran(n).cur = "running" /\ n.tracker = "RUNNING"
           /\ RunOk(n) => Ran(n).cur = "running"
<1>1. /\ Tracks(Ran(n)) /\ (n.cur = "running" => Ran(n).cur = "running")
      /\ RunOk(n) => Ran(n).cur = "running"
  BY Zenon DEF Tracks, Ran, RunOk, Nodes, Listed
<1>2. Tracks(Refused(n)) /\ Tracks(Unstarted(n)) /\ (n.cur = "running" => n.tracker = "RUNNING")
  BY Zenon DEF Tracks, Refused, Unstarted, Nodes, Listed
<1>3. Tracks(Stopped(n))
  BY Zenon DEF Tracks, Stopped, Nodes
<1> QED
  BY Zenon, <1>1, <1>2, <1>3

\* No container stops.
KeepsRunning == \A w \in Workers, i \in Insts : node[w][i].cur = "running" => node'[w][i].cur = "running"

LEMMA ApplyTracked ==
    ASSUME RestTypes, Tracked, NEW w \in Workers, NEW i \in Insts, NEW n \in Nodes, Apply(w, i, n), Tracks(n)
    PROVE  /\ Tracked'
           /\ (node[w][i].cur = "running" => n.cur = "running") => KeepsRunning
<1>1. /\ node'[w][i] = n
      /\ \A v \in Workers, j \in Insts : <<v, j>> # <<w, i>> => node'[v][j] = node[v][j]
  BY ZenonT(60), ApplyType
<1>2. \A v \in Workers, j \in Insts : node'[v][j] = node[v][j] \/ (v = w /\ j = i /\ node'[v][j] = n)
  <2> TAKE v \in Workers, j \in Insts
  <2>1. CASE v = w /\ j = i
    BY Zenon, <1>1, <2>1
  <2>2. CASE v # w \/ j # i
    <3>1. <<v, j>> # <<w, i>>
      BY Zenon, <2>2
    <3> QED
      BY Zenon, <1>1, <3>1
  <2> QED
    BY Zenon, <2>1, <2>2
<1>3. Tracked'
  <2>1. \A v \in Workers, j \in Insts : Tracks(node'[v][j])
    BY Zenon, <1>2 DEF Tracked
  <2> QED
    BY Zenon, <2>1 DEF Tracked, Tracks
<1>4. (node[w][i].cur = "running" => n.cur = "running") => KeepsRunning
  BY Zenon, <1>2 DEF KeepsRunning
<1> QED
  BY Zenon, <1>3, <1>4

LEMMA CallRunTracked ==
    ASSUME RestTypes, Tracked, NEW w \in Workers, NEW i \in Insts, NEW ok, CallRun(w, i, ok)
    PROVE  Tracked' /\ KeepsRunning /\ (ok = TRUE => node'[w][i].cur = "running")
<1>1. PICK n \in Nodes : n = node[w][i]
  BY Zenon DEF RestTypes
<1>2. /\ Ran(n) \in Nodes /\ Refused(n) \in Nodes /\ Unstarted(n) \in Nodes
      /\ Tracks(n) /\ Tracks(Ran(n)) /\ Tracks(Refused(n)) /\ Tracks(Unstarted(n))
      /\ n.cur = "running" => Ran(n).cur = "running" /\ n.tracker = "RUNNING"
      /\ RunOk(n) => Ran(n).cur = "running"
  BY Zenon, <1>1, TracksOps, NodeOps DEF Tracked
<1>3. CASE Apply(w, i, Ran(node[w][i])) /\ ok = RunOk(node[w][i])
  <2>1. Apply(w, i, Ran(n)) /\ ok = RunOk(n)
    BY Zenon, <1>1, <1>3
  <2>2. Tracked' /\ KeepsRunning /\ node'[w][i] = Ran(n)
    BY ZenonT(180), <1>1, <1>2, <2>1, ApplyTracked, ApplyType
  <2> QED
    BY Zenon, <1>2, <2>1, <2>2
<1>4. CASE /\ node[w][i].tracker # "RUNNING" /\ ok = FALSE
           /\ Apply(w, i, Refused(node[w][i])) \/ Apply(w, i, Unstarted(node[w][i]))
  <2>1. PICK m \in Nodes : Apply(w, i, m) /\ Tracks(m)
    BY Zenon, <1>1, <1>2, <1>4
  <2>2. node[w][i].cur # "running"
    BY Zenon, <1>1, <1>2, <1>4
  <2>3. Tracked' /\ KeepsRunning
    BY ZenonT(60), <2>1, <2>2, ApplyTracked
  <2> QED
    BY Zenon, <1>4, <2>3
<1>5. CASE UNCHANGED node /\ ok = FALSE
  BY Zenon, <1>5 DEF Tracked, Tracks, KeepsRunning
<1> QED
  BY Zenon, <1>3, <1>4, <1>5 DEF CallRun

\* StopContainer concerns one instance.
LEMMA CallStopTracked ==
    ASSUME RestTypes, Tracked, NEW w \in Workers, NEW i \in Insts, CallStop(w, i)
    PROVE  Tracked' /\ \A v \in Workers, j \in Insts : j # i => node'[v][j] = node[v][j]
<1>1. PICK n \in Nodes : n = node[w][i]
  BY Zenon DEF RestTypes
<1>2. Stopped(n) \in Nodes /\ Tracks(Stopped(n))
  BY Zenon, <1>1, TracksOps, NodeOps DEF Tracked
<1>3. CASE Apply(w, i, Stopped(node[w][i]))
  <2>1. Apply(w, i, Stopped(n))
    BY Zenon, <1>1, <1>3
  <2>2. Tracked' /\ \A v \in Workers, j \in Insts : <<v, j>> # <<w, i>> => node'[v][j] = node[v][j]
    BY ZenonT(60), <1>2, <2>1, ApplyTracked, ApplyType
  <2> QED
    BY Zenon, <2>2
<1>4. CASE UNCHANGED node
  BY Zenon, <1>4 DEF Tracked, Tracks
<1> QED
  BY Zenon, <1>3, <1>4 DEF CallStop

-----------------------------------------------------------------------------
\* The records of a deployment stay as they are, and its containers run on.
KeptUp(d) == KeptDep(d) /\ \A w \in Workers, i \in Instances(d) :
                              node[w][i].cur = "running" => node'[w][i].cur = "running"

LEMMA KeptFacts ==
    ASSUME NEW d, KeptUp(d)
    PROVE  /\ count'[d] = count[d] /\ Instances(d)' = Instances(d) /\ Active(d)' = Active(d)
           /\ Newest(d)' = Newest(d) /\ Made(d)' = Made(d)
           /\ \A i \in Instances(d) : Served(i) => Served(i)'
<1>1. /\ count'[d] = count[d] /\ Instances(d)' = Instances(d)
      /\ \A i \in Instances(d) : inst'[i] = inst[i]
  BY Zenon DEF KeptUp, KeptDep
<1>2. Active(d)' = Active(d)
  BY Zenon, <1>1 DEF Active
<1>3. Newest(d)' = Newest(d) /\ Made(d)' = Made(d)
  BY Zenon, <1>1 DEF Newest, Made
<1>4. \A i \in Instances(d) : Served(i) => Served(i)'
  BY Zenon, <1>1 DEF Served, Up, KeptUp
<1> QED
  BY Zenon, <1>1, <1>2, <1>3, <1>4

LEMMA GoodKept ==
    ASSUME NEW d, KeptUp(d), Good(d)
    PROVE  Good(d)'
<1>1. /\ count'[d] = count[d] /\ Active(d)' = Active(d) /\ Active(d) \subseteq Instances(d)
      /\ \A i \in Instances(d) : Served(i) => Served(i)'
  BY Zenon, KeptFacts DEF Active
<1> QED
  BY Zenon, <1>1 DEF Good

LEMMA ServesKept ==
    ASSUME NEW d, KeptUp(d), NEW k, NEW p, NEW l, NEW s, Serves(d, k, p, l, s),
           p = "record" => l.w \in Workers /\ Newest(d) \in Instances(d)
    PROVE  Serves(d, k, p, l, s)'
<1>1. /\ count'[d] = count[d] /\ Instances(d)' = Instances(d) /\ Active(d)' = Active(d)
      /\ Newest(d)' = Newest(d) /\ Made(d)' = Made(d)
      /\ \A i \in Instances(d) : Served(i) => Served(i)'
      /\ Active(d) \subseteq Instances(d)
  BY Zenon, KeptFacts DEF Active
<1>2. Held(d, p)' = Held(d, p)
  BY Zenon, <1>1 DEF Held
<1>3. Raises(d, p, l) => Raises(d, p, l)'
  BY Zenon, <1>1, <1>2 DEF Raises
<1>4. Lowers(d, l) => Lowers(d, l)'
  BY Zenon, <1>1 DEF Lowers
<1>5. p = "record" => node'[l.w][Newest(d)].cur = "running"
  BY Zenon, <1>1 DEF Serves, KeptUp
<1> QED
  BY Zenon, <1>1, <1>2, <1>3, <1>4, <1>5 DEF Serves

\* What Serving says of handler t, and how to say it of the next state.
LEMMA ServingElim ==
    ASSUME NEW t \in Threads, Serving(t), NEW d, dep[t] = d, NEW k, kind[t] = k, NEW p, pc[t] = p,
           NEW l, loc[t] = l, NEW s, status[d] = s
    PROVE  Serves(d, k, p, l, s)
BY Zenon DEF Serving

LEMMA ServingIntro ==
    ASSUME NEW t \in Threads, NEW d, dep'[t] = d, NEW k, kind'[t] = k, NEW p, pc'[t] = p,
           NEW l, loc'[t] = l, NEW s, status'[d] = s, Serves(d, k, p, l, s)'
    PROVE  Serving(t)'
<1>1. /\ Instances(dep[t])' = Instances(d)' /\ Newest(dep[t])' = Newest(d)'
      /\ Active(dep[t])' = Active(d)' /\ Made(dep[t])' = Made(d)'
  <2>1. Instances(dep[t])' = Instances(d)'
    BY Zenon DEF Instances
  <2> QED
    BY Zenon, <2>1 DEF Newest, Active, Made
<1>2. Held(dep[t], pc[t])' = Held(d, p)'
  BY Zenon, <1>1 DEF Held
<1>3. Raises(dep[t], pc[t], loc[t])' <=> Raises(d, p, l)'
  BY Zenon, <1>1, <1>2 DEF Raises
<1>4. Lowers(dep[t], loc[t])' <=> Lowers(d, l)'
  BY Zenon, <1>1 DEF Lowers, Doomed
<1> QED
  BY Zenon, <1>1, <1>2, <1>3, <1>4 DEF Serving, Serves

\* A handler that waits or is gone has nothing to serve.
LEMMA RestServing ==
    ASSUME NEW t \in Threads, pc'[t] \in {"idle", "lock"}
    PROVE  Serving(t)'
BY Zenon DEF Serving, Serves, DeployPCs

\* A handler that does not move, of a deployment that is left alone.
LEMMA ServingKept ==
    ASSUME SvcInv, BackInv, NEW u \in Threads, Serving(u),
           pc'[u] = pc[u], kind'[u] = kind[u], dep'[u] = dep[u], loc'[u] = loc[u],
           NEW d, dep[u] = d, pc[u] \in LockedPCs => KeptUp(d) /\ status'[d] = status[d]
    PROVE  Serving(u)'
<1>1. CASE pc[u] \notin LockedPCs
  <2>1. pc'[u] \in {"idle", "lock"}
    BY Zenon, <1>1 DEF SvcInv, Types
  <2> QED
    BY Zenon, <2>1, RestServing
<1>2. CASE pc[u] \in LockedPCs
  <2>1. PICK k, p, l, s : k = kind[u] /\ p = pc[u] /\ l = loc[u] /\ s = status[d]
    BY Zenon
  <2>2. Serves(d, k, p, l, s)
    BY Zenon, <2>1, ServingElim
  <2>3. p = "record" => l.w \in Workers /\ Newest(d) \in Instances(d)
    BY Zenon, <2>1, BringingElim DEF BackInv
  <2>4. Serves(d, k, p, l, s)'
    BY Zenon, <1>2, <2>2, <2>3, ServesKept
  <2> QED
    BY Zenon, <1>2, <2>1, <2>4, ServingIntro
<1> QED
  BY Zenon, <1>1, <1>2

\* A step of handler t that concerns the deployments D of its project.
LEMMA SrvFrame ==
    ASSUME SvcInv, BackInv, SrvInv, NEW t \in Threads, Handle(t), Tracked', Serving(t)',
           NEW D \in SUBSET Deps, \A d \in D : ProjectOf[d] = ProjectOf[dep[t]],
           \A d \in Deps \ D : KeptUp(d) /\ status'[d] = status[d] /\ ~Touches(t, d),
           \A d \in D : status'[d] = "RUNNING" /\ ~Touches(t, d)' => Good(d)'
    PROVE  SrvInv'
<1>1. /\ dep[t] \in Deps /\ lock[ProjectOf[dep[t]]] \in {t, NoThread}
      /\ \A u \in Threads \ {t} : /\ pc'[u] = pc[u] /\ kind'[u] = kind[u]
                                  /\ dep'[u] = dep[u] /\ old'[u] = old[u] /\ loc'[u] = loc[u]
  BY Zenon, HandleOwn, RestTypesOK DEF SvcInv, BackInv
<1>2. ASSUME NEW u \in Threads \ {t} PROVE Serving(u)'
  <2>1. PICK d : d = dep[u]
    BY Zenon
  <2>2. ASSUME pc[u] \in LockedPCs PROVE d \in Deps \ D
    <3>1. d \in Deps /\ lock[ProjectOf[d]] = u /\ u # NoThread
      BY Zenon, <2>1, <2>2, HandlerFacts DEF LockedPCs, DeployPCs
    <3> QED
      BY Zenon, <1>1, <3>1
  <2>3. u \in Threads /\ Serving(u)
    BY Zenon DEF SrvInv
  <2> QED
    BY Zenon, <1>1, <2>1, <2>2, <2>3, ServingKept
<1>3. Steady'
  <2> SUFFICES ASSUME NEW d \in Deps, status'[d] = "RUNNING", \A u \in Threads : ~Touches(u, d)'
               PROVE  Good(d)'
    BY Zenon DEF Steady
  <2>1. CASE d \in D
    BY Zenon, <2>1
  <2>2. CASE d \notin D
    <3>1. ASSUME NEW u \in Threads, Touches(u, d) PROVE FALSE
      <4>1. u # t
        BY Zenon, <2>2, <3>1
      <4>2. Touches(u, d)'
        BY Zenon, <1>1, <3>1, <4>1 DEF Touches, Deploys, Target
      <4> QED
        BY Zenon, <4>2
    <3>2. Good(d)
      BY Zenon, <2>2, <3>1 DEF SrvInv, Steady
    <3> QED
      BY Zenon, <2>2, <3>2, GoodKept
  <2> QED
    BY Zenon, <2>1, <2>2
<1> QED
  BY Zenon, <1>2, <1>3 DEF SrvInv

\* ... in the common case that it works on one deployment.
LEMMA SrvOne ==
    ASSUME SvcInv, BackInv, SrvInv, NEW t \in Threads, Handle(t), Tracked', Serving(t)',
           NEW f \in Deps, ProjectOf[f] = ProjectOf[dep[t]],
           \A d \in Deps : d # f => KeptUp(d) /\ status'[d] = status[d] /\ ~Touches(t, d),
           status'[f] = "RUNNING" /\ ~Touches(t, f)' => Good(f)'
    PROVE  SrvInv'
<1>1. PICK D \in SUBSET Deps : D = {f}
  BY Zenon
<1>2. \A d : (d \in D <=> d = f) /\ (d \in Deps \ D => d \in Deps /\ d # f)
  BY Zenon, <1>1
<1>3. \A d \in D : ProjectOf[d] = ProjectOf[dep[t]]
  BY Zenon, <1>2
<1>4. \A d \in Deps \ D : KeptUp(d) /\ status'[d] = status[d] /\ ~Touches(t, d)
  BY Zenon, <1>2
<1>5. \A d \in D : status'[d] = "RUNNING" /\ ~Touches(t, d)' => Good(d)'
  <2> SUFFICES ASSUME NEW d \in D, status'[d] = "RUNNING" /\ ~Touches(t, d)' PROVE Good(d)'
    BY Zenon
  <2>1. d = f
    BY Zenon, <1>2
  <2> QED
    BY Zenon, <2>1
<1> QED
  BY Zenon, <1>3, <1>4, <1>5, SrvFrame

-----------------------------------------------------------------------------
\* Who writes no record, one record, or stops one instance, leaves the others'.
LEMMA KeptQuiet ==
    ASSUME inst' = inst, KeepsRunning, NEW d, count'[d] = count[d]
    PROVE  KeptUp(d)
<1>1. Instances(d)' = Instances(d) /\ Instances(d) \subseteq Insts
  BY Zenon DEF Instances
<1> QED
  BY Zenon, <1>1 DEF KeptUp, KeptDep, KeepsRunning

LEMMA KeptRewrite ==
    ASSUME ClusterTypeOK, KeepsRunning, count' = count, NEW i \in Insts,
           NEW s \in InstStatuses \ {"NONE"}, NEW w, SetInst(i, s, w)
    PROVE  \A d \in Deps : d # DepOf(i) => KeptUp(d)
<1> SUFFICES ASSUME NEW d \in Deps, d # DepOf(i) PROVE KeptUp(d)
  BY Zenon
<1>1. \A j \in Insts : j # i => inst'[j] = inst[j]
  BY Zenon DEF ClusterTypeOK, SetInst
<1>2. \A j \in Insts : DepOf(j) = d => inst'[j] = inst[j]
  BY Zenon, <1>1
<1>3. Instances(d)' = Instances(d) /\ \A j \in Instances(d) : j \in Insts /\ inst'[j] = inst[j]
  BY Zenon, <1>2 DEF Instances
<1> QED
  BY Zenon, <1>3 DEF KeptUp, KeptDep, KeepsRunning

LEMMA KeptStop ==
    ASSUME inst' = inst, count' = count, NEW i \in Insts,
           \A v \in Workers, j \in Insts : j # i => node'[v][j] = node[v][j]
    PROVE  \A d : d # DepOf(i) => KeptUp(d)
<1> SUFFICES ASSUME NEW d, d # DepOf(i) PROVE KeptUp(d)
  BY Zenon
<1>1. Instances(d)' = Instances(d) /\ \A j \in Instances(d) : j \in Insts /\ j # i
  BY Zenon DEF Instances
<1> QED
  BY Zenon, <1>1 DEF KeptUp, KeptDep

LEMMA KeptNodes == node' = node => KeepsRunning /\ (Tracked => Tracked')
BY Zenon DEF KeepsRunning, Tracked, Tracks

\* Handler t, its deployment d with status s, its target e, kind, position and
\* locals.
Knows(t, d, e, k, p, l, s) ==
    /\ Facts(t, d, e) /\ l \in Locals
    /\ kind[t] = k /\ pc[t] = p /\ loc[t] = l /\ status[d] = s
    /\ p \in LockedPCs => ProjectOf[e] = ProjectOf[d] /\ e \in Deps
    /\ Serves(d, k, p, l, s) /\ Tracked

LEMMA ServingFacts ==
    ASSUME SvcInv, BackInv, SrvInv, NEW t \in Threads, Handle(t)
    PROVE  \E d, e, k, p, l, s : Knows(t, d, e, k, p, l, s)
<1>1. PICK d, e : Facts(t, d, e)
  BY Zenon, BackFacts
<1>2. PICK k, p, l, s : k = kind[t] /\ p = pc[t] /\ l = loc[t] /\ s = status[d]
  BY Zenon
<1>3. Serves(d, k, p, l, s)
  BY Zenon, <1>1, <1>2, ServingElim DEF SrvInv, Facts, Typed
<1>4. l \in Locals
  BY Zenon, <1>1, <1>2 DEF Facts, Typed
<1>5. p \in LockedPCs => ProjectOf[e] = ProjectOf[d] /\ e \in Deps
  BY Zenon, <1>1, <1>2 DEF Facts, Typed, Target, SvcInv, Superseded
<1> QED
  BY Zenon, <1>1, <1>2, <1>3, <1>4, <1>5 DEF Knows, SrvInv

\* A handler that returns, and leaves nothing RUNNING behind it.
LEMMA SrvEnd ==
    ASSUME SvcInv, BackInv, SrvInv, NEW t \in Threads, Handle(t), Return(t),
           UNCHANGED <<count, inst, node>>,
           NEW f \in Deps, ProjectOf[f] = ProjectOf[dep[t]],
           NEW s, s # "RUNNING", status' = [status EXCEPT ![f] = s],
           pc[t] = "lock" \/ Deploys(t) \/ Target(t) = f
    PROVE  SrvInv'
<1>1. pc'[t] = "idle"
  BY Zenon DEF Return, Goto, SvcInv, Types
<1>2. KeepsRunning /\ Tracked'
  BY Zenon, KeptNodes DEF SrvInv
<1>3. \A g \in Deps : KeptUp(g)
  BY Zenon, <1>2, KeptQuiet
<1>4. status'[f] = s /\ \A g \in Deps : g # f => status'[g] = status[g]
  BY Zenon DEF SvcInv, Types
<1>5. \A g \in Deps : g # f => ~Touches(t, g)
  BY Zenon DEF Touches, LockedPCs, DeployPCs
<1>6. Serving(t)'
  BY Zenon, <1>1, RestServing
<1> QED
  BY ZenonT(60), <1>2, <1>3, <1>4, <1>5, <1>6, SrvOne

\* A handler on its way to the first instance.
LEMMA SrvAdvance ==
    ASSUME SvcInv, BackInv, SrvInv, NEW t \in Threads, Handle(t), kind[t] \in {"create", "rollback"},
           UNCHANGED <<inst, node>>, NEW f \in Deps, ProjectOf[f] = ProjectOf[dep[t]], dep'[t] = f,
           \A g \in Deps : g # f => count'[g] = count[g],
           NEW s, s # "RUNNING", status' = [status EXCEPT ![f] = s], Instances(f) = {},
           NEW p, p \in {"queued", "building", "built", "scheduling", "place"}, pc' = [pc EXCEPT ![t] = p],
           pc[t] = "lock" \/ Deploys(t)
    PROVE  SrvInv'
<1>1. pc'[t] = p
  BY Zenon DEF SvcInv, Types
<1>2. KeepsRunning /\ Tracked'
  BY Zenon, KeptNodes DEF SrvInv
<1>3. \A g \in Deps : g # f => KeptUp(g)
  BY Zenon, <1>2, KeptQuiet
<1>4. status'[f] = s /\ \A g \in Deps : g # f => status'[g] = status[g]
  BY Zenon DEF SvcInv, Types
<1>5. \A g \in Deps : ~Touches(t, g)
  BY Zenon DEF Touches, LockedPCs, DeployPCs
<1>6. Serving(t)'
  <2>1. PICK k \in {"create", "rollback"} : k = kind[t]
    BY Zenon
  <2>2. kind'[t] = k
    BY ZenonT(60), <2>1, HandleOwn, RestTypesOK DEF SvcInv, BackInv
  <2>3. PICK l : l = loc'[t]
    BY Zenon
  <2>4. Instances(f)' = {}
    BY Zenon DEF Instances
  <2>5. p # "record" /\ k # "scale"
    BY Zenon, <2>1
  <2>6. Serves(f, k, p, l, s)'
    BY Zenon, <2>4, <2>5 DEF Serves
  <2> QED
    BY ZenonT(60), <1>1, <1>4, <2>2, <2>3, <2>6, ServingIntro
<1> QED
  BY ZenonT(60), <1>2, <1>3, <1>4, <1>5, <1>6, SrvOne

LEMMA SrvQuietSteps ==
    ASSUME SvcInv, BackInv, SrvInv, NEW t \in Threads, Handle(t),
           \/ CreateQueued(t) \/ BuildStart(t) \/ BuildFails(t) \/ BuildDone(t) \/ ToScheduling(t)
           \/ ToStarting(t) \/ FinishStop(t) \/ RollbackRefused(t) \/ RollbackQueued(t)
           \/ FinishRollback(t)
    PROVE  SrvInv'
<1>1. PICK d, e, k, p, l, s : Knows(t, d, e, k, p, l, s)
  BY Zenon, ServingFacts
<1>2. dep[t] = d /\ d \in Deps /\ Target(t) = e /\ (p \in LockedPCs => ProjectOf[e] = ProjectOf[d] /\ e \in Deps)
      /\ p = pc[t] /\ k = kind[t]
  BY Zenon, <1>1 DEF Knows, Facts, Typed
<1>3. CASE CreateQueued(t)
  <2>1. status[d] = "NONE" /\ Instances(d) = {} /\ pc[t] = "lock" /\ kind[t] = "create"
    BY Zenon, <1>2, <1>3 DEF CreateQueued, Lock, SvcInv, Waiting, BackInv, Created
  <2>2. \A g \in Deps : g # d => count'[g] = count[g]
    BY Zenon, <1>2, <1>3 DEF CreateQueued, BackInv, TypeInv, ClusterTypeOK
  <2>3. "QUEUED" # "RUNNING" /\ "queued" \in {"queued", "building", "built", "scheduling", "place"}
    BY Zenon
  <2>4. /\ UNCHANGED <<inst, node>> /\ dep'[t] = d /\ status' = [status EXCEPT ![d] = "QUEUED"]
        /\ pc' = [pc EXCEPT ![t] = "queued"]
    BY Zenon, <1>2, <1>3 DEF CreateQueued, UpdateStatus, Goto, nodeVars
  <2> QED
    BY Zenon, <1>2, <2>1, <2>2, <2>3, <2>4, SrvAdvance
<1>4. CASE RollbackQueued(t)
  <2>1. PICK f \in Deps : /\ Fresh(f) /\ ProjectOf[f] = ProjectOf[dep[t]]
                          /\ dep' = [dep EXCEPT ![t] = f]
                          /\ status' = [status EXCEPT ![f] = "QUEUED"]
                          /\ count' = [count EXCEPT ![f] = loc[t].n]
    BY Zenon, <1>4 DEF RollbackQueued, UpdateStatus
  <2>2. Instances(f) = {} /\ pc[t] = "lock" /\ kind[t] = "rollback"
    BY Zenon, <1>4, <2>1 DEF RollbackQueued, Lock, Fresh, BackInv, Created
  <2>3. (\A g \in Deps : g # f => count'[g] = count[g]) /\ dep'[t] = f
    BY Zenon, <2>1 DEF BackInv, TypeInv, ClusterTypeOK, ServiceTypeOK
  <2>4. "QUEUED" # "RUNNING" /\ "queued" \in {"queued", "building", "built", "scheduling", "place"}
    BY Zenon
  <2>5. UNCHANGED <<inst, node>> /\ pc' = [pc EXCEPT ![t] = "queued"]
    BY Zenon, <1>4 DEF RollbackQueued, Goto, nodeVars
  <2> QED
    BY Zenon, <2>1, <2>2, <2>3, <2>4, <2>5, SrvAdvance
<1>5. CASE BuildStart(t) \/ BuildDone(t) \/ ToScheduling(t) \/ ToStarting(t)
  <2>1. /\ pc[t] \in {"queued", "building", "built", "scheduling"} /\ UNCHANGED <<inst, node, count>>
        /\ dep' = dep
    BY Zenon, <1>5 DEF BuildStart, BuildDone, ToScheduling, ToStarting, nodeVars, Stay
  <2>2. kind[t] \in {"create", "rollback"} /\ Deploys(t) /\ Instances(d) = {}
    BY Zenon, <1>1, <2>1 DEF SvcInv, Types, Deploys, DeployPCs, Knows, Facts, Hand
  <2>3. PICK v, q : /\ v # "RUNNING" /\ status' = [status EXCEPT ![d] = v]
                    /\ q \in {"queued", "building", "built", "scheduling", "place"}
                    /\ pc' = [pc EXCEPT ![t] = q]
    <3>1. \A v \in {"BUILDING", "BUILT", "SCHEDULING", "STARTING"} : v # "RUNNING"
      BY Zenon
    <3> QED
      BY ZenonT(60), <1>2, <1>5, <3>1 DEF BuildStart, BuildDone, ToScheduling, ToStarting, UpdateStatus, Goto
  <2>4. dep'[t] = d /\ \A g \in Deps : g # d => count'[g] = count[g]
    BY Zenon, <1>2, <2>1
  <2>5. UNCHANGED <<inst, node>> /\ ProjectOf[d] = ProjectOf[dep[t]] /\ d \in Deps
    BY Zenon, <1>2, <2>1
  <2> QED
    BY Zenon, <2>2, <2>3, <2>4, <2>5, SrvAdvance
<1>6. CASE BuildFails(t)
  <2>1. pc[t] \in {"queued", "building"} /\ UNCHANGED <<count, inst, node>> /\ Return(t)
        /\ status' = [status EXCEPT ![d] = "FAILED"] /\ "FAILED" # "RUNNING"
    BY Zenon, <1>2, <1>6 DEF BuildFails, nodeVars, UpdateStatus
  <2>2. Deploys(t)
    BY Zenon, <2>1 DEF SvcInv, Types, Deploys, DeployPCs
  <2> QED
    BY Zenon, <1>2, <2>1, <2>2, SrvEnd
<1>7. CASE FinishStop(t)
  <2>1. UNCHANGED <<count, inst, node>> /\ Return(t) /\ Target(t) = d
        /\ status' = [status EXCEPT ![d] = "STOPPED"] /\ "STOPPED" # "RUNNING"
    BY Zenon, <1>2, <1>7 DEF FinishStop, nodeVars, UpdateStatus, Target
  <2> QED
    BY ZenonT(60), <1>2, <2>1, SrvEnd
<1>8. CASE FinishRollback(t)
  <2>1. UNCHANGED <<count, inst, node>> /\ Return(t) /\ pc[t] \in LockedPCs
        /\ status' = [status EXCEPT ![e] = "ROLLED_BACK"] /\ "ROLLED_BACK" # "RUNNING"
    BY Zenon, <1>2, <1>8 DEF FinishRollback, AllStopped, nodeVars, UpdateStatus, Target, LockedPCs
  <2> QED
    BY Zenon, <1>2, <2>1, SrvEnd
<1>9. CASE RollbackRefused(t)
  <2>1. UNCHANGED <<count, inst, node, status>> /\ Return(t) /\ pc[t] = "lock"
    BY Zenon, <1>9 DEF RollbackRefused, clusterVars
  <2>2. pc'[t] = "idle"
    BY Zenon, <2>1 DEF Return, Goto, SvcInv, Types
  <2>3. KeepsRunning /\ Tracked' /\ Serving(t)'
    BY Zenon, <2>1, <2>2, KeptNodes, RestServing DEF SrvInv
  <2>4. \A g \in Deps : KeptUp(g) /\ status'[g] = status[g] /\ ~Touches(t, g)
    BY Zenon, <2>1, <2>3, KeptQuiet DEF Touches, LockedPCs, DeployPCs
  <2>5. PICK D \in SUBSET Deps : D = {}
    BY Zenon
  <2> QED
    BY Zenon, <2>3, <2>4, <2>5, SrvFrame
<1> QED
  BY Zenon, <1>3, <1>4, <1>5, <1>6, <1>7, <1>8, <1>9

-----------------------------------------------------------------------------
\* Dispatching: the positions of the loop, ...
DispatchPCs == {"place", "run", "record", "route"}

\* ... and what a handler there knows, ...
Dispatching(t, d, k, p, l, s) ==
    /\ d \in Deps /\ dep[t] = d /\ ClusterTypeOK /\ Numbered(d) /\ Instances(d) \subseteq Insts
    /\ k \in OpKinds /\ k # "stop" /\ (k # "scale" => Deploys(t) /\ s = "STARTING")
    /\ \A g \in Deps : g # d => ~Touches(t, g)
    /\ k # "scale" => \A i \in Instances(d) \ Held(d, p) : Served(i)
    /\ k = "scale" /\ s = "RUNNING" => Raises(d, p, l)

LEMMA DispatchFacts ==
    ASSUME SvcInv, BackInv, SrvInv, NEW t \in Threads, NEW d, NEW e, NEW k, NEW p, NEW l, NEW s,
           Knows(t, d, e, k, p, l, s), p \in DispatchPCs
    PROVE  Dispatching(t, d, k, p, l, s)
<1>1. /\ d \in Deps /\ dep[t] = d /\ ClusterTypeOK /\ Numbered(d) /\ Instances(d) \subseteq Insts /\ e = Target(t)
      /\ k = kind[t] /\ p = pc[t] /\ s = status[d] /\ Serves(d, k, p, l, s) /\ Types
  BY Zenon DEF Knows, Facts, Typed
<1>2. p \in DeployPCs
  BY Zenon DEF DispatchPCs, DeployPCs
<1>3. k \in OpKinds /\ k # "stop"
  BY Zenon, <1>1, <1>2 DEF Types
<1>4. k # "scale" => k \in {"create", "rollback"}
  BY Zenon, <1>3 DEF OpKinds
<1>5. k # "scale" => Deploys(t) /\ s = "STARTING"
  BY Zenon, <1>1, <1>2, <1>4 DEF Deploys, SvcInv, Stages, Stage, DispatchPCs
<1>6. \A g \in Deps : g # d => ~Touches(t, g)
  <2>1. k = "scale" => Target(t) = d
    BY Zenon, <1>1 DEF Target
  <2> QED
    BY Zenon, <1>5, <2>1 DEF Touches
<1> QED
  BY Zenon, <1>1, <1>2, <1>3, <1>4, <1>5, <1>6 DEF Serves, DispatchPCs, Dispatching

\* ... a step from one to another, ...
Keeping(d, k, q, m, s) ==
    /\ k # "scale" => \A i \in Instances(d) \ Held(d, q) : Served(i)
    /\ q = "record" => node[m.w][Newest(d)].cur = "running"
    /\ k = "scale" /\ s = "RUNNING" => Raises(d, q, m)

LEMMA SrvDispatch ==
    ASSUME SvcInv, BackInv, SrvInv, NEW t \in Threads, Handle(t), NEW d, NEW e, NEW k, NEW p, NEW l, NEW s,
           Knows(t, d, e, k, p, l, s), p \in DispatchPCs, Tracked', status' = status, dep'[t] = d,
           NEW q, q \in DispatchPCs, pc'[t] = q, NEW m, loc'[t] = m,
           \A g \in Deps : g # d => KeptUp(g),
           Keeping(d, k, q, m, s)'
    PROVE  SrvInv'
<1>0. Dispatching(t, d, k, p, l, s)
  BY Zenon, DispatchFacts
<1>1. /\ d \in Deps /\ dep[t] = d /\ k \in OpKinds /\ k # "stop"
      /\ k # "scale" => s = "STARTING"
      /\ \A g \in Deps : g # d => ~Touches(t, g)
  BY Zenon, <1>0 DEF Dispatching
<1>2. kind'[t] = k /\ status'[d] = s
  BY Zenon DEF Knows, Facts, Typed
<1>3. q \notin {"stop", "stopped"} /\ q \in LockedPCs /\ "STARTING" # "RUNNING"
  BY Zenon DEF DispatchPCs, LockedPCs, DeployPCs
<1>4. k = "scale" => k \notin {"create", "rollback"}
  BY Zenon
<1>5. Serves(d, k, q, m, s)'
  BY Zenon, <1>3, <1>4 DEF Serves, Keeping
<1>6. Serving(t)'
  BY Zenon, <1>2, <1>5, ServingIntro
<1>7. status'[d] = "RUNNING" => Touches(t, d)'
  <2>1. k = "scale" => ~Deploys(t)' /\ Target(t)' = d
    BY Zenon, <1>2 DEF Deploys, Target
  <2> QED
    BY Zenon, <1>1, <1>2, <1>3, <2>1 DEF Touches
<1> QED
  BY Zenon, <1>1, <1>6, <1>7, SrvOne

LEMMA ServedSame ==
    ASSUME KeepsRunning, NEW i \in Insts, inst'[i] = inst[i], Served(i)
    PROVE  Served(i)'
BY Zenon DEF Served, Up, KeepsRunning

\* ... and the way out on an error.
LEMMA SrvDispatchFails ==
    ASSUME SvcInv, BackInv, SrvInv, NEW t \in Threads, Handle(t), NEW d, NEW e, NEW k, NEW p, NEW l, NEW s,
           Knows(t, d, e, k, p, l, s), p \in DispatchPCs, Tracked', Return(t), KeepsRunning,
           IF kind[t] = "scale" THEN UNCHANGED status ELSE UpdateStatus(dep[t], "FAILED"),
           count' = count, \A g \in Deps : g # d => KeptUp(g),
           Active(d)' = Active(d) \ Held(d, p), \A i \in Active(d)' : inst'[i] = inst[i]
    PROVE  SrvInv'
<1>1. /\ d \in Deps /\ dep[t] = d /\ k \in OpKinds /\ Instances(d) \subseteq Insts
      /\ \A g \in Deps : g # d => ~Touches(t, g)
      /\ k = "scale" /\ s = "RUNNING" => Raises(d, p, l)
  BY Zenon, DispatchFacts DEF Dispatching
<1>2. kind[t] = k /\ status[d] = s
  BY Zenon DEF Knows
<1>3. Serving(t)'
  <2>1. pc'[t] = "idle"
    BY Zenon DEF Return, Goto, SvcInv, Types
  <2> QED
    BY ZenonT(60), <2>1, RestServing
<1>4. \A g \in Deps : g # d => status'[g] = status[g]
  BY Zenon, <1>1 DEF UpdateStatus, SvcInv, Types
<1>5. status'[d] = "RUNNING" => k = "scale" /\ s = "RUNNING"
  BY ZenonT(60), <1>1, <1>2 DEF UpdateStatus, SvcInv, Types
<1>6. ASSUME Raises(d, p, l) PROVE Good(d)'
  <2>1. \A i \in Active(d)' : Served(i) /\ i \in Insts
    BY Zenon, <1>1, <1>6 DEF Raises, Active
  <2>2. \A i \in Active(d)' : Served(i)'
    BY Zenon, <2>1, ServedSame
  <2>3. Cardinality(Active(d)') >= count'[d]
    BY Zenon, <1>6 DEF Raises
  <2> QED
    BY Zenon, <2>2, <2>3 DEF Good
<1> QED
  BY ZenonT(60), <1>1, <1>3, <1>4, <1>5, <1>6, SrvOne

\* What the loop knows once it has one more instance in hand.
LEMMA RaisesAdd ==
    ASSUME NEW d \in Deps, Numbered(d), count' = count, NEW l \in Locals, NEW m, m.last = l.last, m.n = l.n,
           NEW x, x \notin Instances(d), Active(d)' = Active(d) \cup {x}, Newest(d)' = x, Made(d)' = Made(d) + 1,
           Made(d) < l.last, \A i \in Active(d) : Served(i) => Served(i)', Raises(d, "place", l)
    PROVE  Raises(d, "run", m)'
<1>1. IsFiniteSet(Active(d)) /\ Active(d) \subseteq Instances(d) /\ Cardinality(Active(d)) \in Nat
  BY ZenonT(60), ActiveFacts
<1>2. Held(d, "place") = {} /\ Held(d, "run")' = {x}
  BY Zenon DEF Held
<1>3. x \notin Active(d)
  BY Zenon, <1>1
<1>4. Cardinality(Active(d)') = Cardinality(Active(d)) + 1
  BY ZenonT(180), <1>1, <1>3 DEF Numbered, Counting
<1>5. Active(d)' \ Held(d, "run")' = Active(d) /\ Active(d) \ Held(d, "place") = Active(d)
  BY Zenon, <1>2, <1>3
<1>6. l.last \in Nat /\ l.n \in Nat /\ Made(d) \in Nat
  BY MadeFacts, ClusterAssumption DEF Locals
<1>7. Made(d)' <= m.last /\ Cardinality(Active(d)') + m.last - Made(d)' >= m.n
  <2>1. Cardinality(Active(d)) + l.last - Made(d) >= l.n
    BY Zenon DEF Raises
  <2> QED
    BY <1>1, <1>4, <1>6, <2>1
<1>8. /\ \A i \in Active(d)' \ Held(d, "run")' : Served(i)'
      /\ Cardinality(Active(d)' \ Held(d, "run")') >= count'[d]
  BY Zenon, <1>5 DEF Raises
<1>9. Held(d, "run")' \subseteq Active(d)'
  BY Zenon, <1>2
<1> QED
  BY Zenon, <1>7, <1>8, <1>9 DEF Raises

LEMMA SrvPlace ==
    ASSUME SvcInv, BackInv, SrvInv, NEW t \in Threads, Handle(t), NEW d, NEW e, NEW k, NEW p, NEW l, NEW s,
           Knows(t, d, e, k, p, l, s), Place(t)
    PROVE  SrvInv'
<1>f. Facts(t, d, e) /\ l = loc[t] /\ l \in Locals /\ p = pc[t]
  BY Zenon DEF Knows
<1>1. /\ pc[t] = "place" /\ Made(d) < MaxInst /\ SetInst(<<d, Made(d) + 1>>, "PENDING", NoWorker)
  BY Zenon, <1>f, PlacingFacts DEF Place
<1>2. "PENDING" \in InstStatuses \ {"NONE"} /\ "place" \in DispatchPCs /\ "run" \in DispatchPCs /\ "run" # "record"
  BY Zenon DEF InstStatuses, DispatchPCs
<1>g. p \in DispatchPCs
  BY Zenon, <1>f, <1>1, <1>2
<1>3. /\ d \in Deps /\ dep[t] = d /\ ClusterTypeOK /\ Numbered(d) /\ Instances(d) \subseteq Insts
      /\ k # "scale" => \A i \in Instances(d) \ Held(d, p) : Served(i)
      /\ k = "scale" /\ s = "RUNNING" => Raises(d, p, l)
  BY ZenonT(60), <1>g, DispatchFacts DEF Dispatching
<1>4. PICK x : x = <<d, Made(d) + 1>>
  BY Zenon
<1>b. /\ ClusterTypeOK /\ d \in Deps /\ Numbered(d) /\ Made(d) < MaxInst /\ "PENDING" \in InstStatuses \ {"NONE"}
      /\ SetInst(<<d, Made(d) + 1>>, "PENDING", NoWorker)
  BY Zenon, <1>1, <1>2, <1>3
<1>c. /\ Instances(d)' = Instances(d) \cup {<<d, Made(d) + 1>>} /\ Made(d)' = Made(d) + 1 /\ <<d, Made(d) + 1>> \in Insts \ Instances(d)
      /\ \A j \in Insts : j # <<d, Made(d) + 1>> => inst'[j] = inst[j]
      /\ inst'[<<d, Made(d) + 1>>] = [status |-> "PENDING", worker |-> NoWorker]
  BY ZenonT(60), <1>b, InstCreated
<1>5. /\ Instances(d)' = Instances(d) \cup {x} /\ Made(d)' = Made(d) + 1 /\ x \in Insts \ Instances(d)
      /\ \A j \in Insts : j # x => inst'[j] = inst[j]
      /\ inst'[x] = [status |-> "PENDING", worker |-> NoWorker]
  BY Zenon, <1>c, <1>4
<1>6. Newest(d)' = x
  BY Zenon, <1>4, <1>5 DEF Newest, Made
<1>7. Active(d)' = Active(d) \cup {x}
  BY <1>3, <1>5 DEF Active
<1>8. KeepsRunning /\ Tracked' /\ status' = status /\ count' = count /\ pc'[t] = "run" /\ dep'[t] = d
  <2>1. node' = node /\ status' = status /\ count' = count /\ pc'[t] = "run" /\ dep'[t] = d
    BY Zenon, <1>3 DEF Place, nodeVars, Goto, Stay, SvcInv, Types
  <2> QED
    BY Zenon, <2>1, KeptNodes DEF SrvInv
<1>9. \A i \in Instances(d) : Served(i) => Served(i)'
  BY Zenon, <1>3, <1>5, <1>8, ServedSame
<1>10. \A g \in Deps : g # d => KeptUp(g)
  <2>1. DepOf(x) = d
    BY Zenon, <1>4 DEF DepOf
  <2>2. SetInst(x, "PENDING", NoWorker) /\ x \in Insts
    BY Zenon, <1>1, <1>4, <1>5
  <2> QED
    BY Zenon, <1>2, <1>3, <1>8, <2>1, <2>2, KeptRewrite
<1>11. PICK m : m = loc'[t]
  BY Zenon
<1>12. m.last = l.last /\ m.n = l.n /\ Made(d) < l.last
  BY <1>f, <1>11 DEF Place, Placing, Facts, Typed, Locals, Made
<1>13. Held(d, "run")' = {x} /\ Held(d, p) = {}
  BY Zenon, <1>f, <1>1, <1>6 DEF Held
<1>14. k # "scale" => \A i \in Instances(d)' \ Held(d, "run")' : Served(i)'
  BY Zenon, <1>3, <1>5, <1>9, <1>13
<1>15. k = "scale" /\ s = "RUNNING" => Raises(d, "run", m)'
  <2>1. \A i \in Active(d) : Served(i) => Served(i)'
    BY Zenon, <1>9 DEF Active
  <2>2. x \notin Instances(d)
    BY Zenon, <1>5
  <2> QED
    BY ZenonT(60), <1>f, <1>1, <1>3, <1>5, <1>6, <1>7, <1>8, <1>12, <2>1, <2>2, RaisesAdd
<1>16. "run" = "record" => node'[m.w][Newest(d)'].cur = "running"
  BY Zenon
<1>17. Keeping(d, k, "run", m, s)'
  BY Zenon, <1>14, <1>15, <1>16 DEF Keeping
<1>18. "run" \in DispatchPCs
  BY Zenon, <1>2
<1> QED
  BY Zenon, <1>g, <1>8, <1>10, <1>11, <1>17, <1>18, SrvDispatch

LEMMA SrvPlaceFails ==
    ASSUME SvcInv, BackInv, SrvInv, NEW t \in Threads, Handle(t), NEW d, NEW e, NEW k, NEW p, NEW l, NEW s,
           Knows(t, d, e, k, p, l, s), PlaceFails(t)
    PROVE  SrvInv'
<1>f. Facts(t, d, e) /\ p = pc[t]
  BY Zenon DEF Knows
<1>1. /\ pc[t] = "place" /\ Made(d) < MaxInst /\ SetInst(<<d, Made(d) + 1>>, "FAILED", NoWorker)
      /\ Return(t) /\ IF kind[t] = "scale" THEN UNCHANGED status ELSE UpdateStatus(dep[t], "FAILED")
  BY Zenon, <1>f, PlacingFacts DEF PlaceFails, Fail
<1>2. "FAILED" \in InstStatuses \ {"NONE"} /\ "place" \in DispatchPCs
  BY Zenon DEF InstStatuses, DispatchPCs
<1>g. p \in DispatchPCs
  BY Zenon, <1>f, <1>1, <1>2
<1>3. /\ d \in Deps /\ dep[t] = d /\ ClusterTypeOK /\ Numbered(d) /\ Instances(d) \subseteq Insts
  BY Zenon, <1>g, DispatchFacts DEF Dispatching
<1>4. PICK x : x = <<d, Made(d) + 1>>
  BY Zenon
<1>b. /\ ClusterTypeOK /\ d \in Deps /\ Numbered(d) /\ Made(d) < MaxInst /\ "FAILED" \in InstStatuses \ {"NONE"}
      /\ SetInst(<<d, Made(d) + 1>>, "FAILED", NoWorker)
  BY Zenon, <1>1, <1>2, <1>3
<1>c. /\ Instances(d)' = Instances(d) \cup {<<d, Made(d) + 1>>} /\ <<d, Made(d) + 1>> \in Insts \ Instances(d)
      /\ \A j \in Insts : j # <<d, Made(d) + 1>> => inst'[j] = inst[j]
      /\ inst'[<<d, Made(d) + 1>>] = [status |-> "FAILED", worker |-> NoWorker]
  BY ZenonT(60), <1>b, InstCreated
<1>5. /\ Instances(d)' = Instances(d) \cup {x} /\ x \in Insts \ Instances(d)
      /\ \A j \in Insts : j # x => inst'[j] = inst[j]
      /\ inst'[x] = [status |-> "FAILED", worker |-> NoWorker]
  BY Zenon, <1>c, <1>4
<1>6. Active(d)' = Active(d) /\ \A i \in Active(d)' : inst'[i] = inst[i]
  BY <1>3, <1>5 DEF Active
<1>7. Held(d, p) = {}
  BY <1>f, <1>1 DEF Held
<1>8. KeepsRunning /\ Tracked' /\ count' = count
  <2>1. node' = node /\ count' = count
    BY Zenon DEF PlaceFails, nodeVars
  <2> QED
    BY Zenon, <2>1, KeptNodes DEF SrvInv
<1>9. \A g \in Deps : g # d => KeptUp(g)
  <2>1. DepOf(x) = d
    BY <1>4 DEF DepOf
  <2>2. SetInst(x, "FAILED", NoWorker) /\ x \in Insts
    BY Zenon, <1>1, <1>4, <1>5
  <2> QED
    BY ZenonT(60), <1>2, <1>3, <1>8, <2>1, <2>2, KeptRewrite
<1>10. Active(d)' = Active(d) \ Held(d, p)
  BY <1>6, <1>7
<1> QED
  BY Zenon, <1>g, <1>1, <1>6, <1>8, <1>9, <1>10, SrvDispatchFails

\* RunContainer answers: the instance in hand is up, ...
LEMMA SrvRun ==
    ASSUME SvcInv, BackInv, SrvInv, NEW t \in Threads, Handle(t), NEW d, NEW e, NEW k, NEW p, NEW l, NEW s,
           Knows(t, d, e, k, p, l, s), Run(t)
    PROVE  SrvInv'
<1>f. Facts(t, d, e) /\ l = loc[t] /\ p = pc[t] /\ dep[t] = d /\ Tracked /\ RestTypes
  BY Zenon DEF Knows, Facts, Typed
<1>1. /\ pc[t] = "run" /\ CallRun(l.w, Newest(d), TRUE) /\ inst' = inst /\ status' = status /\ count' = count
      /\ pc'[t] = "record" /\ dep'[t] = d /\ loc'[t] = l
  <2>1. Newest(dep[t]) = Newest(d)
    BY Zenon, <1>f
  <2> QED
    BY Zenon, <1>f, <2>1 DEF Run, repoVars, Goto, Stay, SvcInv, Types
<1>2. "run" \in DispatchPCs /\ "record" \in DispatchPCs
  BY Zenon DEF DispatchPCs
<1>g. p \in DispatchPCs
  BY Zenon, <1>f, <1>1, <1>2
<1>3. Dispatching(t, d, k, p, l, s)
  BY Zenon, <1>g, DispatchFacts
<1>4. l.w \in Workers /\ Newest(d) \in Insts
  BY Zenon, <1>f, <1>1, <1>3 DEF Facts, Hand, Dispatching
<1>5. Tracked' /\ KeepsRunning /\ node'[l.w][Newest(d)].cur = "running"
  BY Zenon, <1>f, <1>1, <1>4, CallRunTracked
<1>6. \A g \in Deps : KeptUp(g)
  BY Zenon, <1>1, <1>5, KeptQuiet
<1>7. /\ Instances(d)' = Instances(d) /\ Active(d)' = Active(d) /\ Newest(d)' = Newest(d) /\ Made(d)' = Made(d)
      /\ \A i \in Instances(d) : Served(i) => Served(i)'
  BY ZenonT(60), <1>3, <1>6, KeptFacts DEF Dispatching
<1>8. Held(d, "record")' = Held(d, p)
  BY Zenon, <1>f, <1>1, <1>7 DEF Held
<1>9. Raises(d, p, l) => Raises(d, "record", l)'
  BY Zenon, <1>1, <1>7, <1>8 DEF Raises, Active
<1>10. Keeping(d, k, "record", l, s)'
  BY Zenon, <1>3, <1>5, <1>7, <1>8, <1>9 DEF Keeping, Dispatching
<1>11. \A g \in Deps : g # d => KeptUp(g)
  BY Zenon, <1>6
<1>12. "record" \in DispatchPCs
  BY Zenon, <1>2
<1> QED
  BY Zenon, <1>g, <1>1, <1>5, <1>10, <1>11, <1>12, SrvDispatch

\* ... or has failed, and is out of the count.
LEMMA SrvRunFails ==
    ASSUME SvcInv, BackInv, SrvInv, NEW t \in Threads, Handle(t), NEW d, NEW e, NEW k, NEW p, NEW l, NEW s,
           Knows(t, d, e, k, p, l, s), RunFails(t)
    PROVE  SrvInv'
<1>f. Facts(t, d, e) /\ l = loc[t] /\ p = pc[t] /\ dep[t] = d /\ Tracked /\ RestTypes
  BY Zenon DEF Knows, Facts, Typed
<1>n. Newest(dep[t]) = Newest(d)
  BY Zenon, <1>f
<1>1. /\ pc[t] = "run" /\ CallRun(l.w, Newest(d), FALSE) /\ count' = count
      /\ SetInst(Newest(d), "FAILED", NoWorker)
      /\ Return(t) /\ IF kind[t] = "scale" THEN UNCHANGED status ELSE UpdateStatus(dep[t], "FAILED")
  BY Zenon, <1>f, <1>n DEF RunFails, Fail
<1>2. "FAILED" \in InstStatuses \ {"NONE"} /\ "run" \in DispatchPCs
  BY Zenon DEF InstStatuses, DispatchPCs
<1>g. p \in DispatchPCs
  BY ZenonT(60), <1>f, <1>1, <1>2
<1>3. Dispatching(t, d, k, p, l, s)
  BY Zenon, <1>g, DispatchFacts
<1>4. PICK x : x = Newest(d)
  BY Zenon
<1>5. l.w \in Workers /\ x \in Insts /\ x \in Instances(d) /\ DepOf(x) = d /\ ClusterTypeOK /\ d \in Deps
  BY Zenon, <1>f, <1>1, <1>3, <1>4 DEF Facts, Hand, Dispatching, Instances
<1>6. Tracked' /\ KeepsRunning
  BY ZenonT(60), <1>f, <1>1, <1>4, <1>5, CallRunTracked
<1>7. SetInst(x, "FAILED", NoWorker) /\ inst[x].status # "NONE" /\ "FAILED" \in InstStatuses \ {"NONE"}
  BY Zenon, <1>1, <1>2, <1>4, <1>5 DEF Instances
<1>8. /\ Instances(d)' = Instances(d) /\ inst'[x] = [status |-> "FAILED", worker |-> NoWorker]
      /\ \A j \in Insts : j # x => inst'[j] = inst[j]
  BY ZenonT(180), <1>5, <1>7, InstRewritten
<1>9. Active(d)' = Active(d) \ {x} /\ \A i \in Active(d)' : inst'[i] = inst[i]
  BY <1>3, <1>5, <1>8 DEF Active, Dispatching
<1>10. Held(d, p) = {x}
  BY Zenon, <1>f, <1>1, <1>4 DEF Held
<1>11. Active(d)' = Active(d) \ Held(d, p)
  BY Zenon, <1>9, <1>10
<1>12. \A g \in Deps : g # d => KeptUp(g)
  BY ZenonT(60), <1>1, <1>5, <1>6, <1>7, KeptRewrite
<1> QED
  BY ZenonT(60), <1>g, <1>1, <1>6, <1>9, <1>11, <1>12, SrvDispatchFails

\* The instance in hand is recorded up, ...
LEMMA SrvRecord ==
    ASSUME SvcInv, BackInv, SrvInv, NEW t \in Threads, Handle(t), NEW d, NEW e, NEW k, NEW p, NEW l, NEW s,
           Knows(t, d, e, k, p, l, s), Record(t)
    PROVE  SrvInv'
<1>f. Facts(t, d, e) /\ l = loc[t] /\ p = pc[t] /\ dep[t] = d /\ Tracked /\ RestTypes /\ Serves(d, k, p, l, s)
  BY Zenon DEF Knows, Facts, Typed
<1>n. Newest(dep[t]) = Newest(d)
  BY ZenonT(60), <1>f
<1>1. /\ pc[t] = "record" /\ count' = count /\ status' = status /\ SetInst(Newest(d), "RUNNING", l.w)
      /\ node' = node /\ pc'[t] = "route" /\ dep'[t] = d /\ loc'[t] = l
  BY <1>f, <1>n DEF Record, nodeVars, Goto, Stay, SvcInv, Types
<1>2. /\ "RUNNING" \in InstStatuses \ {"NONE"} /\ "record" \in DispatchPCs /\ "route" \in DispatchPCs
      /\ "route" # "record"
  BY Zenon DEF InstStatuses, DispatchPCs
<1>g. p \in DispatchPCs /\ p = "record"
  BY Zenon, <1>f, <1>1, <1>2
<1>3. Dispatching(t, d, k, p, l, s)
  BY Zenon, <1>g, DispatchFacts
<1>4. PICK x, w : x = Newest(d) /\ w = l.w
  BY Zenon
<1>5. /\ w \in Workers /\ x \in Insts /\ x \in Instances(d) /\ DepOf(x) = d /\ ClusterTypeOK /\ d \in Deps
      /\ node[w][x].cur = "running"
  BY ZenonT(60), <1>f, <1>1, <1>3, <1>4 DEF Facts, Hand, Dispatching, Instances, Serves
<1>6. Tracked' /\ KeepsRunning
  BY Zenon, <1>f, <1>1, KeptNodes
<1>7. SetInst(x, "RUNNING", w) /\ inst[x].status # "NONE" /\ "RUNNING" \in InstStatuses \ {"NONE"}
  BY ZenonT(60), <1>1, <1>2, <1>4, <1>5 DEF Instances
<1>8. /\ Instances(d)' = Instances(d) /\ inst'[x] = [status |-> "RUNNING", worker |-> w]
      /\ \A j \in Insts : j # x => inst'[j] = inst[j]
  BY ZenonT(60), <1>5, <1>7, InstRewritten
<1>9. Served(x)'
  <2>1. inst'[x].status = "RUNNING" /\ inst'[x].worker = w
    BY ZenonT(60), <1>8, RecordFields
  <2> QED
    BY Zenon, <1>1, <1>5, <2>1 DEF Served, Up
<1>10. \A i \in Instances(d) : i # x => (Served(i) => Served(i)')
  BY ZenonT(60), <1>3, <1>6, <1>8, ServedSame DEF Dispatching
<1>11. Held(d, p) = {x} /\ Held(d, "route")' = {}
  BY Zenon, <1>g, <1>4 DEF Held
<1>12. \A i : (i \notin Held(d, p) <=> i # x) /\ i \notin Held(d, "route")'
  BY Zenon, <1>11
<1>13. k # "scale" => \A i \in Instances(d)' \ Held(d, "route")' : Served(i)'
  BY ZenonT(60), <1>3, <1>8, <1>9, <1>10, <1>12 DEF Dispatching
<1>14. ASSUME Raises(d, p, l) PROVE Raises(d, "route", l)'
  <2>1. Active(d)' = Active(d) /\ x \in Active(d)
    <3>1. x \in Active(d)
      BY <1>11, <1>14 DEF Raises
    <3>2. inst'[x].status \notin {"STOPPED", "FAILED"}
      <4>1. inst'[x].status = "RUNNING"
        BY ZenonT(60), <1>8, RecordFields
      <4> QED BY Zenon, <4>1
    <3>3. \A i \in Instances(d) : i \in Insts
      BY Zenon DEF Instances
    <3>4. \A i : i \in Active(d)' <=> i \in Active(d)
      BY ZenonT(60), <1>8, <3>1, <3>2, <3>3 DEF Active
    <3> QED
      BY Zenon, <3>1, <3>4
  <2>2. \A i \in Active(d)' : Served(i)'
    BY ZenonT(60), <1>9, <1>10, <1>12, <1>14, <2>1 DEF Raises, Active
  <2>3. Active(d)' \ Held(d, "route")' = Active(d) /\ Held(d, "route")' \subseteq Active(d)'
    BY <1>11, <2>1
  <2>4. Cardinality(Active(d)) >= count[d]
    <3>1. PICK A, a : A = Active(d) \ {x} /\ a = Active(d)
      BY Zenon
    <3>2. IsFiniteSet(a) /\ Counting /\ A \subseteq a
      BY ZenonT(60), <1>3, <3>1, ActiveFacts DEF Dispatching, Numbered
    <3>3. Cardinality(A) <= Cardinality(a) /\ Cardinality(A) \in Nat /\ Cardinality(a) \in Nat
      BY Zenon, <3>2, Part
    <3>5. Cardinality(A) >= count[d]
      BY ZenonT(60), <1>11, <1>14, <3>1 DEF Raises
    <3>6. count[d] \in Nat
      BY Zenon, <1>5, <1>f, Counts DEF RestTypes
    <3> QED
      BY <3>1, <3>3, <3>5, <3>6
  <2>5. Made(d)' = Made(d)
    BY Zenon, <1>8 DEF Made
  <2> QED
    BY ZenonT(60), <1>1, <1>14, <2>1, <2>2, <2>3, <2>4, <2>5 DEF Raises
<1>15. "route" = "record" => node'[l.w][Newest(d)'].cur = "running"
  BY Zenon
<1>16. Keeping(d, k, "route", l, s)'
  BY ZenonT(60), <1>3, <1>13, <1>14, <1>15 DEF Keeping, Dispatching
<1>17. \A g \in Deps : g # d => KeptUp(g)
  BY ZenonT(60), <1>1, <1>5, <1>6, <1>7, KeptRewrite
<1>18. "route" \in DispatchPCs
  BY Zenon, <1>2
<1> QED
  BY ZenonT(60), <1>g, <1>1, <1>6, <1>16, <1>17, <1>18, SrvDispatch

\* ... and routed.
LEMMA SrvRoute ==
    ASSUME SvcInv, BackInv, SrvInv, NEW t \in Threads, Handle(t), NEW d, NEW e, NEW k, NEW p, NEW l, NEW s,
           Knows(t, d, e, k, p, l, s), Route(t)
    PROVE  SrvInv'
<1>f. Facts(t, d, e) /\ l = loc[t] /\ l \in Locals /\ p = pc[t] /\ dep[t] = d /\ Tracked /\ RestTypes
  BY Zenon DEF Knows, Facts, Typed
<1>m. PICK m : m = loc'[t]
  OBVIOUS
<1>1. /\ pc[t] = "route" /\ count' = count /\ status' = status /\ inst' = inst
      /\ node' = node /\ pc'[t] = "place" /\ dep'[t] = d
  BY <1>f DEF Route, repoVars, nodeVars, Goto, Stay, SvcInv, Types
<1>l. m.last = l.last /\ m.n = l.n
  BY <1>f, <1>m DEF Route, RestTypes, Locals
<1>2. "place" \in DispatchPCs /\ "route" \in DispatchPCs
  BY Zenon DEF DispatchPCs
<1>g. p \in DispatchPCs
  BY ZenonT(60), <1>f, <1>1, <1>2
<1>3. Dispatching(t, d, k, p, l, s)
  BY Zenon, <1>g, DispatchFacts
<1>5. Tracked' /\ KeepsRunning
  BY Zenon, <1>f, <1>1, KeptNodes
<1>6. \A g \in Deps : KeptUp(g)
  BY Zenon, <1>1, <1>5, KeptQuiet
<1>7. /\ Instances(d)' = Instances(d) /\ Active(d)' = Active(d) /\ Made(d)' = Made(d)
      /\ \A i \in Instances(d) : Served(i) => Served(i)'
  BY ZenonT(60), <1>3, <1>6, KeptFacts DEF Dispatching
<1>8. Held(d, "place")' = Held(d, p)
  BY <1>f, <1>1 DEF Held
<1>9. Raises(d, p, l) => Raises(d, "place", m)'
  BY ZenonT(60), <1>1, <1>l, <1>7, <1>8 DEF Raises, Active
<1>10. "place" = "record" => node'[m.w][Newest(d)'].cur = "running"
  BY Zenon
<1>11. Keeping(d, k, "place", m, s)'
  BY ZenonT(60), <1>3, <1>7, <1>8, <1>9, <1>10 DEF Keeping, Dispatching
<1>12. \A g \in Deps : g # d => KeptUp(g)
  BY Zenon, <1>6
<1>13. "place" \in DispatchPCs
  BY Zenon, <1>2
<1> QED
  BY ZenonT(60), <1>g, <1>m, <1>1, <1>5, <1>11, <1>12, <1>13, SrvDispatch

-----------------------------------------------------------------------------
\* All the instances asked for are placed.
LEMMA AllPlacedGood ==
    ASSUME SvcInv, BackInv, SrvInv, NEW t \in Threads, NEW d, NEW e, NEW k, NEW p, NEW l, NEW s,
           Knows(t, d, e, k, p, l, s), AllPlaced(t), k # "scale"
    PROVE  Good(d)
<1>f. Facts(t, d, e) /\ l = loc[t] /\ l \in Locals /\ p = pc[t] /\ dep[t] = d
  BY Zenon DEF Knows, Facts, Typed
<1>1. p = "place" /\ Made(d) >= l.last
  BY Zenon, <1>f DEF AllPlaced, Made
<1>g. p \in DispatchPCs
  BY Zenon, <1>1 DEF DispatchPCs
<1>2. Dispatching(t, d, k, p, l, s)
  BY Zenon, <1>g, DispatchFacts
<1>3. Held(d, p) = {}
  BY Zenon, <1>1 DEF Held
<1>4. \A i \in Instances(d) : Served(i)
  BY Zenon, <1>2, <1>3 DEF Dispatching
<1>5. "RUNNING" \notin {"STOPPED", "FAILED"}
  BY Zenon
<1>6. Active(d) = Instances(d)
  BY Zenon, <1>4, <1>5 DEF Active, Served, Up
<1>7. count[d] = l.last
  BY Zenon, <1>f, <1>2 DEF Facts, Hand, Dispatching
<1> QED
  BY ZenonT(60), <1>1, <1>4, <1>6, <1>7 DEF Good, Made

LEMMA SrvFinishCreate ==
    ASSUME SvcInv, BackInv, SrvInv, NEW t \in Threads, Handle(t), NEW d, NEW e, NEW k, NEW p, NEW l, NEW s,
           Knows(t, d, e, k, p, l, s), FinishCreate(t)
    PROVE  SrvInv'
<1>f. l = loc[t] /\ p = pc[t] /\ dep[t] = d /\ d \in Deps /\ k = kind[t] /\ Tracked
  BY ZenonT(60) DEF Knows, Facts, Typed
<1>1. /\ AllPlaced(t) /\ k = "create" /\ p = "place" /\ UNCHANGED <<inst, node, count>>
      /\ pc'[t] = "idle" /\ \A g \in Deps : g # d => status'[g] = status[g]
  BY Zenon, <1>f DEF FinishCreate, AllPlaced, UpdateStatus, nodeVars, Return, Goto, SvcInv, Types
<1>2. k # "scale" /\ p \in DispatchPCs
  BY Zenon, <1>1 DEF DispatchPCs
<1>3. Good(d)
  BY ZenonT(60), <1>1, <1>2, AllPlacedGood
<1>4. Tracked' /\ KeepsRunning /\ Serving(t)'
  BY ZenonT(60), <1>f, <1>1, KeptNodes, RestServing
<1>5. \A g \in Deps : KeptUp(g)
  BY Zenon, <1>1, <1>4, KeptQuiet
<1>6. Good(d)'
  BY ZenonT(60), <1>f, <1>3, <1>5, GoodKept
<1>7. \A g \in Deps : g # d => ~Touches(t, g)
  BY Zenon, <1>2, DispatchFacts DEF Dispatching
<1> QED
  BY ZenonT(60), <1>f, <1>1, <1>4, <1>5, <1>6, <1>7, SrvOne

\* A rollback turns from the deployment it has brought up to the superseded one.
LEMMA SrvRestored ==
    ASSUME SvcInv, BackInv, SrvInv, NEW t \in Threads, Handle(t), NEW d, NEW e, NEW k, NEW p, NEW l, NEW s,
           Knows(t, d, e, k, p, l, s), Restored(t)
    PROVE  SrvInv'
<1>f. l = loc[t] /\ p = pc[t] /\ dep[t] = d /\ d \in Deps /\ k = kind[t] /\ Tracked /\ e = Target(t)
  BY Zenon DEF Knows, Facts, Typed
<1>1. /\ AllPlaced(t) /\ k = "rollback" /\ p = "place" /\ UNCHANGED <<inst, node, count>>
      /\ pc'[t] = "stop" /\ (\A g \in Deps : g # d => status'[g] = status[g])
      /\ dep'[t] = d /\ kind'[t] = k /\ old'[t] = old[t]
  BY Zenon, <1>f DEF Restored, AllPlaced, UpdateStatus, nodeVars, Goto, Stay, SvcInv, Types
<1>2. k # "scale" /\ p \in DispatchPCs /\ p \in LockedPCs
  BY Zenon, <1>1 DEF DispatchPCs, LockedPCs, DeployPCs
<1>3. Good(d)
  BY ZenonT(60), <1>1, <1>2, AllPlacedGood
<1>4. Tracked' /\ KeepsRunning
  BY Zenon, <1>f, <1>1, KeptNodes
<1>5. \A g \in Deps : KeptUp(g)
  BY Zenon, <1>1, <1>4, KeptQuiet
<1>6. Good(d)'
  BY ZenonT(60), <1>f, <1>3, <1>5, GoodKept
<1>7. \A g \in Deps : ~Touches(t, g)
  <2>1. Deploys(t)
    BY Zenon, <1>2, DispatchFacts DEF Dispatching
  <2> QED
    BY Zenon, <2>1 DEF Touches
<1>8. Touches(t, e)'
  <2>1. Target(t)' = e /\ pc'[t] \in LockedPCs /\ pc'[t] \notin DeployPCs
    BY Zenon, <1>f, <1>1 DEF Target, LockedPCs, DeployPCs
  <2> QED
    BY Zenon, <2>1 DEF Touches, Deploys
<1>9. Serving(t)'
  <2>1. PICK m, z : m = loc'[t] /\ z = status'[d]
    BY Zenon
  <2>2. "stop" \notin DeployPCs /\ "stop" # "record" /\ "rollback" # "scale"
    BY Zenon DEF DeployPCs
  <2>3. Serves(d, "rollback", "stop", m, z)'
    BY ZenonT(60), <2>2 DEF Serves
  <2> QED
    BY ZenonT(60), <1>1, <2>1, <2>3, ServingIntro
<1>10. PICK D \in SUBSET Deps : D = {d, e}
  BY Zenon, <1>f, <1>2 DEF Knows
<1>11. \A g \in D : ProjectOf[g] = ProjectOf[dep[t]]
  BY Zenon, <1>f, <1>2, <1>10 DEF Knows
<1>12. \A g \in Deps \ D : KeptUp(g) /\ status'[g] = status[g] /\ ~Touches(t, g)
  BY Zenon, <1>1, <1>5, <1>7, <1>10
<1>13. \A g \in D : status'[g] = "RUNNING" /\ ~Touches(t, g)' => Good(g)'
  <2> SUFFICES ASSUME NEW g \in D, ~Touches(t, g)' PROVE Good(g)'
    BY Zenon
  <2>1. g = d \/ g = e
    BY Zenon, <1>10
  <2> QED
    BY Zenon, <1>6, <1>8, <2>1
<1> QED
  BY ZenonT(60), <1>4, <1>9, <1>11, <1>12, <1>13, SrvFrame

-----------------------------------------------------------------------------
\* Stopping: the handler keeps its target e to itself.
LEMMA SrvStopping ==
    ASSUME SvcInv, BackInv, SrvInv, NEW t \in Threads, Handle(t), NEW d, NEW e, NEW k, NEW p, NEW l, NEW s,
           Knows(t, d, e, k, p, l, s), p \in LockedPCs \/ e = d, Tracked', status' = status, dep'[t] = d,
           NEW q, q \in {"stop", "stopped"}, pc'[t] = q, Target(t)' = e, NEW m, loc'[t] = m,
           \A g \in Deps : g # e => KeptUp(g), pc[t] = "lock" \/ Target(t) = e,
           k = "scale" /\ s = "RUNNING" => Lowers(d, m)'
    PROVE  SrvInv'
<1>1. /\ dep[t] = d /\ d \in Deps /\ kind'[t] = k /\ status'[d] = s
      /\ p \in LockedPCs => ProjectOf[e] = ProjectOf[d] /\ e \in Deps
  BY Zenon DEF Knows, Facts, Typed
<1>2. e \in Deps /\ ProjectOf[e] = ProjectOf[dep[t]]
  BY ZenonT(60), <1>1
<1>3. q \notin DeployPCs /\ q # "record" /\ q \in LockedPCs /\ q \notin {"place", "run", "record", "route"}
  BY Zenon DEF DeployPCs, LockedPCs
<1>4. Serves(d, k, q, m, s)'
  BY Zenon, <1>3 DEF Serves
<1>5. Serving(t)'
  BY Zenon, <1>1, <1>4, ServingIntro
<1>6. Touches(t, e)'
  BY Zenon, <1>3 DEF Touches, Deploys
<1>7. \A g \in Deps : g # e => ~Touches(t, g)
  BY Zenon DEF Touches, LockedPCs, DeployPCs
<1>8. \A g \in Deps : g # e => KeptUp(g) /\ status'[g] = status[g] /\ ~Touches(t, g)
  BY Zenon, <1>7
<1> QED
  BY ZenonT(60), <1>2, <1>5, <1>6, <1>8, SrvOne

LEMMA SrvStopLocked ==
    ASSUME SvcInv, BackInv, SrvInv, NEW t \in Threads, Handle(t), NEW d, NEW e, NEW k, NEW p, NEW l, NEW s,
           Knows(t, d, e, k, p, l, s), StopLocked(t)
    PROVE  SrvInv'
<1>f. l = loc[t] /\ p = pc[t] /\ dep[t] = d /\ d \in Deps /\ k = kind[t] /\ Tracked /\ e = Target(t)
  BY Zenon DEF Knows, Facts, Typed
<1>1. /\ k = "stop" /\ p = "lock" /\ UNCHANGED <<inst, node, count, status>>
      /\ pc'[t] = "stop" /\ dep'[t] = d /\ Target(t)' = e /\ e = d
  BY <1>f DEF StopLocked, Lock, clusterVars, Goto, SvcInv, Types, Target
<1>2. Tracked' /\ KeepsRunning
  BY Zenon, <1>f, <1>1, KeptNodes
<1>3. \A g \in Deps : g # e => KeptUp(g)
  BY ZenonT(60), <1>1, <1>2, KeptQuiet
<1>4. PICK m : m = loc'[t]
  OBVIOUS
<1>5. k # "scale" /\ "stop" \in {"stop", "stopped"}
  BY Zenon, <1>1
<1>6. k = "scale" /\ s = "RUNNING" => Lowers(d, m)'
  BY Zenon, <1>5
<1> QED
  BY ZenonT(60), <1>f, <1>1, <1>2, <1>3, <1>4, <1>5, <1>6, SrvStopping

-----------------------------------------------------------------------------
\* A container of the list is stopped, ...
Strikes(l, m, x) == x \in l.todo /\ l.hit = {} /\ m.todo = l.todo \ {x} /\ m.hit = {x} /\ m.n = l.n

LEMMA LowersCall ==
    ASSUME NEW d, NEW l, NEW m, NEW x, Strikes(l, m, x), inst' = inst, Instances(d) \subseteq Insts,
           \A v \in Workers, j \in Insts : j # x[1] => node'[v][j] = node[v][j], Lowers(d, l)
    PROVE  Lowers(d, m)'
<1>0. x \in l.todo /\ m.hit = {x} /\ m.n = l.n
  BY Zenon DEF Strikes
<1>1. m.todo \cup m.hit = l.todo \cup l.hit
  BY Zenon DEF Strikes
<1>2. Doomed(m) = Doomed(l) /\ x[1] \in Doomed(l)
  BY Zenon, <1>0, <1>1 DEF Doomed
<1>3. Active(d)' = Active(d) /\ Active(d) \subseteq Insts
  BY Zenon DEF Active, Instances
<1>4. \A i \in Active(d) \ Doomed(l) : Served(i)'
  BY Zenon, <1>2, <1>3 DEF Lowers, Served, Up
<1>5. \A y, z \in m.hit : y = z
  BY Zenon, <1>0
<1> QED
  BY ZenonT(60), <1>0, <1>2, <1>3, <1>4, <1>5 DEF Lowers

LEMMA SrvStopCall ==
    ASSUME SvcInv, BackInv, SrvInv, NEW t \in Threads, Handle(t), NEW d, NEW e, NEW k, NEW p, NEW l, NEW s,
           Knows(t, d, e, k, p, l, s), NEW x \in loc[t].todo, StopCall(t, x)
    PROVE  SrvInv'
<1>f. /\ l = loc[t] /\ l \in Locals /\ p = pc[t] /\ dep[t] = d /\ d \in Deps /\ k = kind[t] /\ Tracked
      /\ e = Target(t) /\ RestTypes /\ Facts(t, d, e) /\ Serves(d, k, p, l, s) /\ Instances(d) \subseteq Insts
  BY Zenon DEF Knows, Facts, Typed
<1>1. /\ p = "stop" /\ p \in LockedPCs /\ UNCHANGED <<inst, count, status>>
      /\ pc'[t] = "stopped" /\ dep'[t] = d /\ Target(t)' = e
  BY Zenon, <1>f DEF StopCall, repoVars, Goto, Stay, SvcInv, Types, Target, LockedPCs
<1>2. PICK i, w : i = x[1] /\ w = x[2]
  BY Zenon
<1>3. i \in Instances(e) /\ l.hit = {} /\ w \in Workers \cup {NoWorker}
  BY ZenonT(60), <1>f, <1>1, <1>2 DEF Facts, Hand, Locals
<1>4. i \in Insts /\ DepOf(i) = e
  BY ZenonT(60), <1>3 DEF Instances
<1>5. Tracked' /\ \A v \in Workers, j \in Insts : j # i => node'[v][j] = node[v][j]
  <2>1. CASE w = NoWorker
    <3>1. node' = node
      BY Zenon, <1>2, <2>1 DEF StopCall
    <3> QED
      BY ZenonT(60), <1>f, <3>1, KeptNodes
  <2>2. CASE w # NoWorker
    <3>1. w \in Workers /\ CallStop(w, i)
      BY <1>2, <1>3, <2>2 DEF StopCall
    <3> QED
      BY ZenonT(60), <1>f, <1>4, <3>1, CallStopTracked
  <2> QED
    BY <2>1, <2>2
<1>6. \A g \in Deps : g # e => KeptUp(g)
  BY ZenonT(60), <1>1, <1>4, <1>5, KeptStop
<1>7. PICK m : m = loc'[t]
  BY Zenon
<1>8. m.todo = l.todo \ {x} /\ m.hit = {x} /\ m.n = l.n
  BY <1>f, <1>7 DEF StopCall, RestTypes, Locals
<1>9. ASSUME k = "scale", s = "RUNNING" PROVE Lowers(d, m)'
  <2>1. Lowers(d, l)
    BY ZenonT(60), <1>1, <1>9, <1>f DEF Serves
  <2>2. x \in l.todo /\ \A v \in Workers, j \in Insts : j # x[1] => node'[v][j] = node[v][j]
    BY ZenonT(60), <1>2, <1>5, <1>f
  <2>3. inst' = inst /\ Instances(d) \subseteq Insts
    BY Zenon, <1>f, <1>1
  <2>4. Strikes(l, m, x)
    BY ZenonT(60), <1>3, <1>8, <2>2 DEF Strikes
  <2> QED
    BY ZenonT(60), <2>1, <2>2, <2>3, <2>4, LowersCall
<1>10. "stopped" \in {"stop", "stopped"}
  BY Zenon
<1> QED
  BY ZenonT(180), <1>f, <1>1, <1>5, <1>6, <1>7, <1>9, <1>10, SrvStopping

\* ... and recorded so.
LEMMA LowersRecord ==
    ASSUME NEW d \in Deps, Numbered(d), NEW l, NEW m, NEW x, x \in l.hit, m.todo = l.todo, m.hit = {}, m.n = l.n,
           Instances(d) \subseteq Insts, Instances(d)' = Instances(d), inst'[x[1]].status = "STOPPED",
           \A j \in Insts : j # x[1] => inst'[j] = inst[j], KeepsRunning, Lowers(d, l)
    PROVE  Lowers(d, m)'
<1>1. \A y \in l.hit : y = x
  BY Zenon DEF Lowers
<1>2. \A i : i \in Doomed(l) <=> i \in Doomed(m) \/ i = x[1]
  BY Zenon, <1>1 DEF Doomed
<1>3. \A i : i \in Active(d)' <=> i \in Active(d) /\ i # x[1]
  <2>1. "STOPPED" \in {"STOPPED", "FAILED"}
    BY Zenon
  <2> QED
    BY Zenon, <2>1 DEF Active
<1>4. Active(d)' \ Doomed(m) = Active(d) \ Doomed(l)
  BY Zenon, <1>2, <1>3
<1>5. \A i \in Active(d) \ Doomed(l) : Served(i) /\ i \in Insts /\ i # x[1]
  BY Zenon, <1>2 DEF Lowers, Active
<1>6. \A i \in Active(d) \ Doomed(l) : Served(i)'
  BY Zenon, <1>5, ServedSame
<1>7. \A y, z \in m.hit : y = z
  BY Zenon
<1> QED
  BY ZenonT(60), <1>4, <1>6, <1>7 DEF Lowers

LEMMA SrvStopRecord ==
    ASSUME SvcInv, BackInv, SrvInv, NEW t \in Threads, Handle(t), NEW d, NEW e, NEW k, NEW p, NEW l, NEW s,
           Knows(t, d, e, k, p, l, s), StopRecord(t)
    PROVE  SrvInv'
<1>f. /\ l = loc[t] /\ l \in Locals /\ p = pc[t] /\ dep[t] = d /\ d \in Deps /\ k = kind[t] /\ Tracked
      /\ e = Target(t) /\ RestTypes /\ ClusterTypeOK /\ Facts(t, d, e) /\ Serves(d, k, p, l, s)
      /\ Instances(d) \subseteq Insts /\ Numbered(d)
  BY Zenon DEF Knows, Facts, Typed
<1>1. /\ p = "stopped" /\ p \in LockedPCs /\ UNCHANGED <<node, count, status>>
      /\ pc'[t] = "stop" /\ dep'[t] = d /\ Target(t)' = e
  BY <1>f DEF StopRecord, nodeVars, Goto, Stay, SvcInv, Types, Target, LockedPCs
<1>2. PICK x \in loc[t].hit : SetInst(x[1], "STOPPED", x[2])
  BY Zenon DEF StopRecord
<1>3. PICK i, w : i = x[1] /\ w = x[2]
  BY Zenon
<1>4. i \in Instances(e)
  BY Zenon, <1>3 DEF Knows, Facts, Hand
<1>5. i \in Insts /\ DepOf(i) = e /\ inst[i].status # "NONE" /\ SetInst(i, "STOPPED", w)
  BY ZenonT(60), <1>2, <1>3, <1>4 DEF Instances
<1>6. "STOPPED" \in InstStatuses \ {"NONE"}
  BY Zenon DEF InstStatuses
<1>7. Tracked' /\ KeepsRunning
  BY Zenon, <1>f, <1>1, KeptNodes
<1>8. \A g \in Deps : g # e => KeptUp(g)
  BY ZenonT(60), <1>f, <1>1, <1>5, <1>6, <1>7, KeptRewrite
<1>9. /\ Instances(d)' = Instances(d) /\ inst'[i] = [status |-> "STOPPED", worker |-> w]
      /\ \A j \in Insts : j # i => inst'[j] = inst[j]
  BY ZenonT(180), <1>f, <1>5, <1>6, InstRewritten
<1>10. PICK m : m = loc'[t]
  BY Zenon
<1>11. m.todo = l.todo /\ m.hit = {} /\ m.n = l.n
  BY Zenon, <1>f, <1>10 DEF StopRecord, RestTypes, Locals
<1>12. ASSUME k = "scale", s = "RUNNING" PROVE Lowers(d, m)'
  <2>1. Lowers(d, l) /\ x \in l.hit
    BY Zenon, <1>1, <1>2, <1>12, <1>f DEF Serves
  <2>2. inst'[i].status = "STOPPED"
    BY ZenonT(60), <1>9, RecordFields
  <2>3. inst'[x[1]].status = "STOPPED" /\ \A j \in Insts : j # x[1] => inst'[j] = inst[j]
    BY ZenonT(60), <1>3, <1>9, <2>2
  <2> QED
    BY ZenonT(180), <1>f, <1>7, <1>9, <1>11, <2>1, <2>3, LowersRecord
<1>13. "stop" \in {"stop", "stopped"}
  BY Zenon
<1>14. p \in LockedPCs /\ status' = status /\ dep'[t] = d /\ pc'[t] = "stop" /\ Target(t)' = e /\ Target(t) = e
  BY Zenon, <1>f, <1>1
<1> QED
  BY ZenonT(60), <1>7, <1>8, <1>10, <1>12, <1>13, <1>14, SrvStopping

-----------------------------------------------------------------------------
\* Who holds the lock of a project is the only one to touch its deployments.
LEMMA LockFree ==
    ASSUME SvcInv, NEW d \in Deps, lock[ProjectOf[d]] = NoThread, NEW u \in Threads
    PROVE  ~Touches(u, d)
<1> SUFFICES ASSUME Touches(u, d) PROVE FALSE
  BY Zenon
<1>1. pc[u] \in LockedPCs /\ Target(u) = d /\ lock[ProjectOf[dep[u]]] = u
  BY Zenon DEF Touches, SvcInv, Holds
<1>2. ProjectOf[dep[u]] = ProjectOf[d]
  BY Zenon, <1>1 DEF Target, SvcInv, Superseded
<1>3. u # NoThread
  BY ClusterAssumption
<1> QED
  BY ZenonT(60), <1>1, <1>2, <1>3

\* ScaleDeployment starts from a deployment that serves what it asks for: up ...
LEMMA RaisesStart ==
    ASSUME NEW d \in Deps, Numbered(d), Good(d), inst' = inst, node' = node, count' = count,
           NEW l \in Locals, NEW m, l.n >= Cardinality(Active(d)), m.n = l.n,
           m.last = Made(d) + l.n - Cardinality(Active(d))
    PROVE  Raises(d, "place", m)'
<1>1. Active(d)' = Active(d) /\ Made(d)' = Made(d) /\ \A i : Served(i)' <=> Served(i)
  BY Zenon DEF Active, Made, Instances, Served, Up
<1>2. Held(d, "place")' = {}
  BY Zenon DEF Held
<1>3. l.n \in Nat /\ Made(d) \in Nat /\ Cardinality(Active(d)) \in Nat
  BY MadeFacts, ActiveFacts, ClusterAssumption DEF Locals
<1>4. Made(d) <= m.last /\ Cardinality(Active(d)) + m.last - Made(d) >= m.n
  BY <1>3
<1>5. Active(d)' \ Held(d, "place")' = Active(d) /\ Held(d, "place")' \subseteq Active(d)'
  BY Zenon, <1>1, <1>2
<1> QED
  BY Zenon, <1>1, <1>4, <1>5 DEF Raises, Good

LEMMA FirstOf ==
    ASSUME NEW S, NEW T, \A i \in S : \E y \in T : y[1] = i, \A y \in T : y[1] \in S
    PROVE  {y[1] : y \in T} = S
<1>1. {y[1] : y \in T} \subseteq S
  BY Zenon
<1>2. S \subseteq {y[1] : y \in T}
  BY Zenon
<1> QED
  BY Zenon, <1>1, <1>2

\* ... or down.
LEMMA LowersStart ==
    ASSUME NEW d \in Deps, Numbered(d), Good(d), inst' = inst, node' = node,
           NEW l \in Locals, NEW m, NEW is \in SUBSET Active(d), Cardinality(is) = Cardinality(Active(d)) - l.n,
           m.n = l.n, m.todo = AsRead(is), m.hit = {}
    PROVE  Lowers(d, m)'
<1>1. Active(d)' = Active(d) /\ \A i : Served(i)' <=> Served(i)
  BY Zenon DEF Active, Instances, Served, Up
<1>2. Doomed(m) = is
  <2>1. m.todo \cup m.hit = m.todo
    BY Zenon
  <2>2. ASSUME NEW i \in is PROVE \E y \in m.todo : y[1] = i
    <3>1. PICK y : y = <<i, inst[i].worker>>
      BY Zenon
    <3>2. y \in m.todo /\ y[1] = i
      BY Zenon, <3>1 DEF AsRead
    <3> QED
      BY ZenonT(60), <3>2
  <2>3. \A x \in m.todo : x[1] \in is
    BY DEF AsRead
  <2>4. Doomed(m) = {x[1] : x \in m.todo}
    BY Zenon, <2>1 DEF Doomed
  <2>5. PICK T : T = m.todo
    BY Zenon
  <2>6. (\A i \in is : \E y \in T : y[1] = i) /\ (\A y \in T : y[1] \in is)
    BY ZenonT(60), <2>2, <2>3, <2>5
  <2>7. {y[1] : y \in T} = is
    BY Zenon, <2>6, FirstOf
  <2> QED
    BY ZenonT(60), <2>4, <2>5, <2>7
<1>3. PICK A : A = Active(d)
  BY Zenon
<1>4. IsFiniteSet(A) /\ Cardinality(A) \in Nat /\ is \subseteq A /\ Counting
  BY Zenon, <1>3, ActiveFacts DEF Numbered
<1>5. Cardinality(A \ is) = Cardinality(A) - Cardinality(is)
  BY Zenon, <1>4, Part
<1>6. l.n \in Nat
  BY ClusterAssumption DEF Locals
<1>7. Cardinality(A \ is) >= m.n
  BY <1>3, <1>4, <1>5, <1>6
<1>8. \A y, z \in m.hit : y = z
  BY Zenon
<1> QED
  BY ZenonT(60), <1>1, <1>2, <1>3, <1>7, <1>8 DEF Lowers, Good

LEMMA SrvScaleLocked ==
    ASSUME SvcInv, BackInv, SrvInv, NEW t \in Threads, Handle(t), NEW d, NEW e, NEW k, NEW p, NEW l, NEW s,
           Knows(t, d, e, k, p, l, s), ScaleLocked(t)
    PROVE  SrvInv'
<1>f. /\ l = loc[t] /\ l \in Locals /\ p = pc[t] /\ dep[t] = d /\ d \in Deps /\ k = kind[t] /\ Tracked
      /\ e = Target(t) /\ RestTypes /\ Facts(t, d, e) /\ status[d] = s /\ Numbered(d) /\ kind'[t] = k
  BY ZenonT(60) DEF Knows, Facts, Typed
<1>1. /\ k = "scale" /\ p = "lock" /\ UNCHANGED <<inst, node, count, status>> /\ dep'[t] = d
      /\ lock[ProjectOf[d]] = NoThread /\ Target(t)' = d /\ e = d /\ ~Deploys(t)'
  BY <1>f DEF ScaleLocked, Lock, clusterVars, SvcInv, Types, Target, Deploys
<1>2. Tracked' /\ KeepsRunning
  BY Zenon, <1>f, <1>1, KeptNodes
<1>3. \A g \in Deps : g # d => KeptUp(g) /\ status'[g] = status[g]
  BY Zenon, <1>1, <1>2, KeptQuiet
<1>4. s = "RUNNING" => Good(d)
  BY Zenon, <1>f, <1>1, LockFree DEF SrvInv, Steady
<1>5. PICK m : m = loc'[t]
  OBVIOUS
<1>6. \/ /\ l.n >= Cardinality(Active(d)) /\ pc'[t] = "place"
         /\ loc' = [loc EXCEPT ![t].last = Made(d) + l.n - Cardinality(Active(d))]
      \/ /\ pc'[t] = "stop"
         /\ \E is \in SUBSET Active(d) : /\ Cardinality(is) = Cardinality(Active(d)) - l.n
                                         /\ loc' = [loc EXCEPT ![t].todo = AsRead(is)]
  <2>1. \A q : Goto(t, q) => pc'[t] = q
    BY Zenon DEF Goto, SvcInv, Types
  <2> QED
    BY Zenon, <1>f, <2>1 DEF ScaleLocked, Made
<1>7. CASE /\ l.n >= Cardinality(Active(d)) /\ pc'[t] = "place"
           /\ loc' = [loc EXCEPT ![t].last = Made(d) + l.n - Cardinality(Active(d))]
  <2>1. m.n = l.n /\ m.last = Made(d) + l.n - Cardinality(Active(d))
    BY <1>f, <1>5, <1>7 DEF RestTypes, Locals
  <2>2. s = "RUNNING" => Raises(d, "place", m)'
    BY Zenon, <1>f, <1>1, <1>4, <1>7, <2>1, RaisesStart
  <2>3. "place" # "record" /\ "scale" \notin {"create", "rollback"} /\ "place" \notin {"stop", "stopped"}
    BY Zenon
  <2>4. Serves(d, "scale", "place", m, s)'
    BY Zenon, <2>2, <2>3 DEF Serves
  <2>5. status'[d] = s /\ kind'[t] = "scale"
    BY Zenon, <1>f, <1>1
  <2>6. Serving(t)'
    BY Zenon, <1>1, <1>5, <1>7, <2>4, <2>5, ServingIntro
  <2>7. pc'[t] \in LockedPCs
    BY <1>7 DEF LockedPCs, DeployPCs
  <2>8. Touches(t, d)'
    BY Zenon, <1>1, <2>7 DEF Touches
  <2>9. \A g \in Deps : g # d => ~Touches(t, g)
    BY Zenon, <1>f, <1>1 DEF Touches, LockedPCs, DeployPCs
  <2> QED
    BY ZenonT(60), <1>f, <1>2, <1>3, <2>6, <2>8, <2>9, SrvOne
<1>8. CASE /\ pc'[t] = "stop"
           /\ \E is \in SUBSET Active(d) : /\ Cardinality(is) = Cardinality(Active(d)) - l.n
                                           /\ loc' = [loc EXCEPT ![t].todo = AsRead(is)]
  <2>1. PICK is \in SUBSET Active(d) : /\ Cardinality(is) = Cardinality(Active(d)) - l.n
                                       /\ loc' = [loc EXCEPT ![t].todo = AsRead(is)]
    BY ZenonT(60), <1>8
  <2>2. m.n = l.n /\ m.todo = AsRead(is) /\ m.hit = {}
    BY <1>f, <1>1, <1>5, <2>1 DEF RestTypes, Locals, Facts, Hand
  <2>3. k = "scale" /\ s = "RUNNING" => Lowers(d, m)'
    BY ZenonT(60), <1>f, <1>1, <1>4, <2>1, <2>2, LowersStart
  <2>4. "stop" \in {"stop", "stopped"} /\ Target(t)' = e /\ \A g \in Deps : g # e => KeptUp(g)
    BY Zenon, <1>1, <1>3
  <2>5. e = d /\ status' = status /\ dep'[t] = d /\ pc'[t] = "stop" /\ pc[t] = "lock"
    BY Zenon, <1>f, <1>1, <1>8
  <2> QED
    BY ZenonT(60), <1>2, <1>5, <2>3, <2>4, <2>5, SrvStopping
<1> QED
  BY Zenon, <1>6, <1>7, <1>8

LEMMA SrvFinishScale ==
    ASSUME SvcInv, BackInv, SrvInv, NEW t \in Threads, Handle(t), NEW d, NEW e, NEW k, NEW p, NEW l, NEW s,
           Knows(t, d, e, k, p, l, s), FinishScale(t)
    PROVE  SrvInv'
<1>f. /\ l = loc[t] /\ l \in Locals /\ p = pc[t] /\ dep[t] = d /\ d \in Deps /\ k = kind[t] /\ Tracked
      /\ RestTypes /\ Facts(t, d, e) /\ status[d] = s /\ Numbered(d) /\ Serves(d, k, p, l, s)
  BY ZenonT(60) DEF Knows, Facts, Typed
<1>1. /\ k = "scale" /\ UNCHANGED <<inst, node, status>> /\ count' = [count EXCEPT ![d] = l.n]
      /\ pc'[t] = "idle" /\ Target(t) = d /\ (AllPlaced(t) \/ AllStopped(t))
  BY Zenon, <1>f DEF FinishScale, nodeVars, Return, Goto, SvcInv, Types, Target
<1>2. Tracked' /\ KeepsRunning /\ Serving(t)'
  BY ZenonT(60), <1>f, <1>1, KeptNodes, RestServing
<1>3. count'[d] = l.n /\ \A g \in Deps : g # d => count'[g] = count[g]
  BY Zenon, <1>f, <1>1 DEF RestTypes
<1>4. \A g \in Deps : g # d => KeptUp(g) /\ status'[g] = status[g] /\ ~Touches(t, g)
  BY Zenon, <1>1, <1>2, <1>3, KeptQuiet DEF Touches
<1>5. ASSUME s = "RUNNING" PROVE (\A i \in Active(d) : Served(i)) /\ Cardinality(Active(d)) >= l.n
  <2>1. CASE AllPlaced(t)
    <3>1. p = "place" /\ Made(d) >= l.last
      BY Zenon, <1>f, <2>1 DEF AllPlaced, Made
    <3>2. Raises(d, p, l)
      BY Zenon, <1>f, <1>1, <1>5, <3>1 DEF Serves
    <3>3. Held(d, p) = {}
      BY Zenon, <3>1 DEF Held
    <3>4. l.n \in Nat /\ l.last \in Nat /\ Made(d) \in Nat /\ Cardinality(Active(d)) \in Nat
      BY Zenon, <1>f, MadeFacts, ActiveFacts, Counts DEF Locals
    <3>5. Made(d) <= l.last /\ Cardinality(Active(d)) + l.last - Made(d) >= l.n
      BY Zenon, <3>2 DEF Raises
    <3>6. Cardinality(Active(d)) >= l.n
      BY <3>1, <3>4, <3>5
    <3> QED
      BY Zenon, <3>2, <3>3, <3>6 DEF Raises
  <2>2. CASE AllStopped(t)
    <3>1. p = "stop" /\ l.todo = {} /\ l.hit = {}
      BY Zenon, <1>f, <2>2 DEF AllStopped, Facts, Hand
    <3>2. Lowers(d, l)
      BY Zenon, <1>f, <1>1, <1>5, <3>1 DEF Serves
    <3>3. Doomed(l) = {}
      BY Zenon, <3>1 DEF Doomed
    <3>4. Active(d) \ Doomed(l) = Active(d)
      BY Zenon, <3>3
    <3> QED
      BY ZenonT(60), <3>2, <3>4 DEF Lowers
  <2> QED
    BY Zenon, <1>1, <2>1, <2>2
<1>6. status'[d] = "RUNNING" => Good(d)'
  <2>1. Active(d)' = Active(d) /\ \A i : Served(i)' <=> Served(i)
    BY Zenon, <1>1 DEF Active, Instances, Served, Up
  <2> QED
    BY ZenonT(60), <1>f, <1>1, <1>3, <1>5, <2>1 DEF Good
<1> QED
  BY Zenon, <1>f, <1>2, <1>4, <1>6, SrvOne

-----------------------------------------------------------------------------
LEMMA HandleServed ==
    ASSUME SvcInv, BackInv, SrvInv, NEW t \in Threads, Handle(t)
    PROVE  SrvInv'
<1>f. PICK d, e, k, p, l, s : Knows(t, d, e, k, p, l, s)
  BY Zenon, ServingFacts
<1>1. CASE \/ CreateQueued(t) \/ BuildStart(t) \/ BuildFails(t) \/ BuildDone(t) \/ ToScheduling(t)
           \/ ToStarting(t) \/ FinishStop(t) \/ RollbackRefused(t) \/ RollbackQueued(t)
           \/ FinishRollback(t)
  BY Zenon, <1>1, SrvQuietSteps
<1>2. CASE Place(t) \/ PlaceFails(t) \/ Run(t) \/ RunFails(t) \/ Record(t) \/ Route(t)
  BY ZenonT(60), <1>2, <1>f, SrvPlace, SrvPlaceFails, SrvRun, SrvRunFails, SrvRecord, SrvRoute
<1>3. CASE FinishCreate(t) \/ Restored(t) \/ StopLocked(t) \/ StopRecord(t) \/ ScaleLocked(t) \/ FinishScale(t)
  BY ZenonT(60), <1>3, <1>f, SrvFinishCreate, SrvRestored, SrvStopLocked, SrvStopRecord, SrvScaleLocked, SrvFinishScale
<1>4. ASSUME NEW x \in loc[t].todo, StopCall(t, x) PROVE SrvInv'
  BY ZenonT(60), <1>4, <1>f, SrvStopCall
<1> QED
  BY ZenonT(60), <1>1, <1>2, <1>3, <1>4 DEF Handle

\* A step that writes no record, stops nothing and moves no handler, but may
\* start one.
LEMMA SrvOutside ==
    ASSUME SvcInv, BackInv, SrvInv, Tracked', KeepsRunning, UNCHANGED <<status, count, inst>>,
           \A u \in Threads :
              \/ /\ pc'[u] = pc[u] /\ kind'[u] = kind[u] /\ dep'[u] = dep[u] /\ old'[u] = old[u]
                 /\ loc'[u] = loc[u]
              \/ pc[u] = "idle" /\ pc'[u] = "lock"
    PROVE  SrvInv'
<1>1. \A d : KeptUp(d)
  BY Zenon, KeptQuiet
<1>2. ASSUME NEW u \in Threads PROVE Serving(u)'
  <2>1. CASE pc'[u] = "lock"
    BY Zenon, <2>1, RestServing
  <2>2. CASE pc'[u] # "lock"
    <3>1. PICK d : d = dep[u]
      BY Zenon
    <3>2. Serving(u)
      BY Zenon DEF SrvInv
    <3> QED
      BY ZenonT(60), <1>1, <2>2, <3>1, <3>2, ServingKept
  <2> QED
    BY Zenon, <2>1, <2>2
<1>3. ASSUME NEW d, NEW u \in Threads, Touches(u, d) PROVE Touches(u, d)'
  <2>1. pc[u] # "idle"
    BY <1>3 DEF Touches, LockedPCs, DeployPCs
  <2> QED
    BY Zenon, <1>3, <2>1 DEF Touches, Deploys, Target
<1>4. Steady'
  <2> SUFFICES ASSUME NEW d \in Deps, status'[d] = "RUNNING", \A u \in Threads : ~Touches(u, d)'
               PROVE  Good(d)'
    BY Zenon DEF Steady
  <2>1. Good(d)
    BY Zenon, <1>3 DEF SrvInv, Steady
  <2> QED
    BY Zenon, <1>1, <2>1, GoodKept
<1> QED
  BY Zenon, <1>2, <1>4 DEF SrvInv

LEMMA CallServed ==
    ASSUME SvcInv, BackInv, SrvInv, NEW t \in Threads, NEW k \in Ops, NEW d \in Deps, NEW n \in Targets,
           Call(t, k, d, n)
    PROVE  SrvInv'
<1>1. loc \in [Threads -> Locals]
  BY Zenon, RestTypesOK DEF SvcInv, BackInv, RestTypes
<1>2. /\ pc[t] = "idle" /\ pc'[t] = "lock" /\ UNCHANGED <<status, count, inst, node>>
      /\ \A u \in Threads \ {t} : /\ pc'[u] = pc[u] /\ dep'[u] = dep[u] /\ kind'[u] = kind[u]
                                  /\ old'[u] = old[u] /\ loc'[u] = loc[u]
  <2>1. pc[t] = "idle" /\ pc'[t] = "lock" /\ UNCHANGED <<status, count, inst, node>>
    BY Zenon DEF Call, Goto, clusterVars, SvcInv, Types
  <2>2. PICK l : loc' = [loc EXCEPT ![t] = l]
    BY Zenon DEF Call
  <2>3. \A u \in Threads \ {t} : loc'[u] = loc[u]
    BY <1>1, <2>2
  <2>4. \A u \in Threads \ {t} : /\ pc'[u] = pc[u] /\ dep'[u] = dep[u] /\ kind'[u] = kind[u]
                                 /\ old'[u] = old[u]
    BY Zenon DEF Call, Goto, SvcInv, Types
  <2> QED
    BY Zenon, <2>1, <2>3, <2>4
<1>3. Tracked' /\ KeepsRunning
  BY Zenon, <1>2, KeptNodes DEF SrvInv
<1> QED
  BY Zenon, <1>2, <1>3, SrvOutside

LEMMA EnvironmentServed ==
    ASSUME Undying, RestTypes, Tracked, Environment
    PROVE  Tracked' /\ KeepsRunning
<1>1. PICK w \in Workers :
        \/ \E i \in Insts : \/ DeliverLate(w, i) \/ DropLate(w, i)
                            \/ ContainerExits(w, i) \/ ContainerRemoved(w, i)
        \/ \E h \in Healths : HealthChanges(w, h)
        \/ Drain(w) \/ Undrain(w)
  BY Zenon DEF Environment
<1>2. ASSUME NEW i \in Insts, ContainerExits(w, i) \/ ContainerRemoved(w, i) PROVE FALSE
  BY <1>2 DEF Undying, ContainerExits, ContainerRemoved, Happens
<1>3. ASSUME NEW i \in Insts, DeliverLate(w, i) PROVE Tracked' /\ KeepsRunning
  <2>1. PICK n \in Nodes : n = node[w][i]
    BY Zenon DEF RestTypes
  <2>2. Tracks(n)
    BY Zenon, <2>1 DEF Tracked
  <2>3. Ran(n) \in Nodes /\ Tracks(Ran(n)) /\ (n.cur = "running" => Ran(n).cur = "running")
    BY Zenon, <2>2, TracksOps, NodeOps
  <2>4. Apply(w, i, Ran(n))
    BY Zenon, <1>3, <2>1 DEF DeliverLate
  <2>5. node[w][i].cur = "running" => Ran(n).cur = "running"
    BY Zenon, <2>1, <2>3
  <2> QED
    BY ZenonT(60), <2>3, <2>4, <2>5, ApplyTracked
<1>4. CASE (\E i \in Insts : DropLate(w, i)) \/ (\E h \in Healths : HealthChanges(w, h)) \/ Drain(w) \/ Undrain(w)
  <2>1. node' = node
    BY Zenon, <1>4 DEF DropLate, HealthChanges, Drain, Undrain, nodeVars
  <2> QED
    BY ZenonT(60), <2>1, KeptNodes
<1> QED
  BY Zenon, <1>1, <1>2, <1>3, <1>4

LEMMA InitServed == ServingInit => SrvInv
<1> SUFFICES ASSUME ServingInit PROVE SrvInv
  BY Zenon
<1>1. ClusterInit /\ ServiceInit
  BY Zenon DEF ServingInit
<1>2. Tracked
  <2>1. Tracks(EmptyNode)
    BY Zenon DEF EmptyNode, Tracks
  <2>2. \A w \in Workers, i \in Insts : node[w][i] = EmptyNode
    BY Zenon, <1>1 DEF ClusterInit
  <2> QED
    BY Zenon, <2>1, <2>2 DEF Tracked
<1>3. Steady
  BY <1>1 DEF ClusterInit, Steady
<1>4. ASSUME NEW t \in Threads PROVE Serving(t)
  <2>1. pc[t] = "idle"
    BY <1>1 DEF ServiceInit
  <2> QED
    BY <2>1 DEF Serving, Serves, DeployPCs
<1> QED
  BY ZenonT(60), <1>2, <1>3, <1>4 DEF SrvInv

LEMMA ServedStep ==
    ASSUME Undying, SvcInv, BackInv, SrvInv, [ServiceNext]_serviceVars
    PROVE  SrvInv'
<1>1. ASSUME NEW t \in Threads, NEW k \in Ops, NEW d \in Deps, NEW n \in Targets, Call(t, k, d, n)
      PROVE  SrvInv'
  BY Zenon, <1>1, CallServed
<1>2. ASSUME NEW t \in Threads, Handle(t) PROVE SrvInv'
  BY Zenon, <1>2, HandleServed
<1>3. CASE (Environment /\ UNCHANGED svcVars) \/ UNCHANGED serviceVars
  <2>1. UNCHANGED <<status, count, inst, lock, pc, kind, dep, old, loc>>
    BY Zenon, <1>3, EnvironmentStill DEF svcVars, serviceVars, clusterVars
  <2>2. RestTypes /\ Tracked
    BY Zenon, RestTypesOK DEF SvcInv, BackInv, SrvInv
  <2>3. Tracked' /\ KeepsRunning
    <3>1. CASE Environment
      BY ZenonT(60), <2>2, <3>1, EnvironmentServed
    <3>2. CASE UNCHANGED serviceVars
      BY ZenonT(60), <2>2, <3>2, KeptNodes DEF serviceVars, clusterVars
    <3> QED
      BY ZenonT(60), <1>3, <3>1, <3>2
  <2> QED
    BY ZenonT(60), <2>1, <2>3, SrvOutside
<1> QED
  BY ZenonT(60), <1>1, <1>2, <1>3 DEF ServiceNext, Service

LEMMA ServedReplicas ==
    ASSUME SvcInv, BackInv, SrvInv
    PROVE  ReplicasServed
<1> SUFFICES ASSUME NEW d \in Deps, status[d] = "RUNNING", lock[ProjectOf[d]] = NoThread
             PROVE  Cardinality({i \in Instances(d) :
                       /\ inst[i].status = "RUNNING" /\ inst[i].worker # NoWorker
                       /\ node[inst[i].worker][i].cur = "running"}) >= count[d]
  BY Zenon DEF ReplicasServed
<1>1. Good(d)
  BY Zenon, LockFree DEF SrvInv, Steady
<1>2. PICK S, A : /\ A = Active(d)
                  /\ S = {i \in Instances(d) :
                            /\ inst[i].status = "RUNNING" /\ inst[i].worker # NoWorker
                            /\ node[inst[i].worker][i].cur = "running"}
  BY Zenon
<1>3. A \subseteq S /\ S \subseteq Instances(d)
  <2>1. NoWorker \notin Workers
    BY ClusterAssumption
  <2> QED
    BY ZenonT(60), <1>1, <1>2, <2>1 DEF Good, Active, Served, Up
<1>4. IsFiniteSet(Instances(d)) /\ Counting
  BY Zenon, MadeFacts DEF BackInv, Created, Numbered
<1>5. IsFiniteSet(S)
  BY ZenonT(60), <1>3, <1>4, Part
<1>6. Cardinality(A) <= Cardinality(S) /\ Cardinality(A) \in Nat /\ Cardinality(S) \in Nat
  BY ZenonT(60), <1>3, <1>4, <1>5, Part
<1>8. Cardinality(A) >= count[d]
  BY ZenonT(60), <1>1, <1>2 DEF Good
<1>9. count[d] \in Nat
  <2>1. RestTypes
    BY ZenonT(60), RestTypesOK DEF SvcInv, BackInv
  <2> QED
    BY <2>1, ClusterAssumption DEF RestTypes
<1>10. Cardinality(S) >= count[d]
  BY <1>6, <1>8, <1>9
<1> QED
  BY Zenon, <1>2, <1>10

=============================================================================
