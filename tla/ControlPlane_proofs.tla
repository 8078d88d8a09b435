------------------------ MODULE ControlPlane_proofs -------------------------
(***************************************************************************)
(* Proofs about ControlPlane, for any projects, deployments, workers and   *)
(* handlers, any number of passes and of crashes: what the service and the *)
(* loop keep each for itself they keep together, and start-up takes over   *)
(* every deployment a crash left behind.                                   *)
(***************************************************************************)
EXTENDS ControlPlane, Replicas_proofs, Reconciler_proofs

\* The laws of counting, from the library of facts about finite sets.
LEMMA CountingLaws == Counting
<1>1. ASSUME NEW d, NEW k \in Nat PROVE IsFiniteSet({d} \X (1..k)) /\ Cardinality({d} \X (1..k)) = k
  <2>1. IsFiniteSet(1..k) /\ Cardinality(1..k) = k
    <3>1. 1 \in Int /\ k \in Int /\ (IF 1 > k THEN 0 ELSE k - 1 + 1) = k
      OBVIOUS
    <3> QED
      BY ZenonT(60), <3>1, FS_Interval
  <2>2. IsFiniteSet({d}) /\ Cardinality({d}) = 1
    BY ZenonT(60), FS_Singleton
  <2>3. IsFiniteSet({d} \X (1..k)) /\ Cardinality({d} \X (1..k)) = Cardinality({d}) * Cardinality(1..k)
    BY ZenonT(60), <2>1, <2>2, FS_Product
  <2> QED
    BY ZenonT(60), <2>1, <2>2, <2>3, OneTimes
<1>2. ASSUME NEW S, IsFiniteSet(S) PROVE Cardinality(S) \in Nat
  BY ZenonT(60), <1>2, FS_CardinalityType
<1>3. ASSUME NEW S, NEW T, IsFiniteSet(S), T \subseteq S
      PROVE  /\ IsFiniteSet(T) /\ Cardinality(T) <= Cardinality(S)
             /\ Cardinality(S \ T) = Cardinality(S) - Cardinality(T)
  <2>1. IsFiniteSet(T) /\ Cardinality(T) <= Cardinality(S)
    BY ZenonT(60), <1>3, FS_Subset
  <2>2. Cardinality(S \ T) = Cardinality(S) - Cardinality(S \cap T) /\ S \cap T = T
    BY ZenonT(60), <1>3, FS_Difference
  <2> QED
    BY ZenonT(60), <2>1, <2>2
<1>4. ASSUME NEW S, NEW x, IsFiniteSet(S), x \notin S PROVE Cardinality(S \cup {x}) = Cardinality(S) + 1
  BY ZenonT(60), <1>4, FS_AddElement
<1> QED
  BY ZenonT(60), <1>1, <1>2, <1>3, <1>4 DEF Counting

-----------------------------------------------------------------------------

\* While the process recovers, neither handlers nor the loop are at work; once
\* it has detected the stuck deployments, they are all the ones in flight.
StartUp ==
    /\ phase = "recovering" => rpc = "idle" /\ \A t \in Threads : pc[t] = "idle"
    /\ RecoveryTypeOK
    /\ phase # "recovering" => recovery.stage = "detect"
    /\ recovery.stage \in {"detect", "next"} => recovery.fixing = NoDep
    /\ recovery.stage # "detect" =>
         \A d \in Deps : IsInFlight(status[d]) <=> d \in recovery.stuck \/ d = recovery.fixing
    /\ recovery.stage \in {"instances", "fail"} => recovery.fixing \in Deps \ recovery.stuck

OwnInv == SvcInv /\ BackInv /\ StartUp /\ ReconcilerTypeOK /\ PassInv

\* What a step may do to the statuses.
StepKept == Moves /\ BackedKept

-----------------------------------------------------------------------------
LEMMA InitOwnInv == Init => OwnInv
<1> SUFFICES ASSUME Init PROVE OwnInv
  BY ZenonT(60)
<1>1. SvcInv /\ BackInv
  BY ZenonT(60), InitSvcInv, InitBackInv, CountingLaws DEF Init
<1>2. StartUp
  BY ZenonT(60) DEF Init, ServiceInit, ReconcilerInit, RecoveryInit, StartUp, NoRecovery, RecoveryTypeOK
<1>3. ReconcilerTypeOK
  BY ZenonT(60), NoPassType DEF Init, ReconcilerInit, ReconcilerTypeOK, Passes
<1>4. PassInv
  BY ZenonT(60) DEF Init, ReconcilerInit, NoPass, PassInv, PassOK
<1> QED
  BY ZenonT(60), <1>1, <1>2, <1>3, <1>4 DEF OwnInv

\* Who keeps deployments at rest at rest, and every record, leaves the loop's
\* pass in order.
LEMMA PassUndisturbed ==
    ASSUME ReconcilerTypeOK, PassInv, UNCHANGED recVars, RestKept,
           \A i \in Insts : Known(i) => Known(i)'
    PROVE  ReconcilerTypeOK' /\ PassInv'
<1>1. PICK p, r : p = rpc /\ r = rec
  BY ZenonT(60)
<1>2. r \in Passes /\ PassOK(p, r) /\ rpc' = p /\ rec' = r
  BY ZenonT(60), <1>1, PassFields DEF PassInv, recVars
<1>3. PassInv'
  BY ZenonT(60), <1>2, PassKept DEF RestKept
<1> QED
  BY ZenonT(60), <1>3 DEF ReconcilerTypeOK, recVars

\* A handler that takes a step has been called.
LEMMA HandleAwake ==
    ASSUME NEW t \in Threads, Handle(t)
    PROVE  pc[t] # "idle"
<1>1. \/ pc[t] \in {"lock", "queued", "building", "built", "scheduling", "place", "run", "record", "route"}
      \/ pc[t] \in {"stop", "stopped"}
  BY ZenonT(60) DEF Handle, CreateQueued, BuildStart, BuildFails, BuildDone, ToScheduling, ToStarting, Place,
     PlaceFails, Run, RunFails, Record, Route, FinishCreate, StopCall, StopRecord, StopLocked, FinishStop,
     RollbackRefused, RollbackQueued, Restored, FinishRollback, ScaleLocked, FinishScale, Lock, Placing,
     AllPlaced, AllStopped
<1> QED
  BY ZenonT(60), <1>1

\* Handlers, whatever the loop is about.
LEMMA HandlersStep ==
    ASSUME OwnInv, Service \/ (Environment /\ UNCHANGED svcVars) \/ UNCHANGED serviceVars,
           UNCHANGED <<recVars, recovery>>
    PROVE  OwnInv' /\ StepKept
<1>1. SvcInv' /\ BackInv' /\ Moves /\ BackedKept
  BY ZenonT(60), ServiceStep DEF OwnInv, ServiceNext
<1>2. /\ phase' = phase
      /\ \A i \in Insts : Known(i) => Known(i)'
      /\ phase # "recovering" \/ UNCHANGED <<status, pc>>
  <2>1. ASSUME NEW t \in Threads, NEW k \in Ops, NEW d \in Deps, NEW n \in Targets, Call(t, k, d, n)
        PROVE  phase' = phase /\ inst' = inst /\ phase # "recovering"
    BY ZenonT(60), <2>1 DEF Call, clusterVars
  <2>2. ASSUME NEW t \in Threads, Handle(t)
        PROVE  phase' = phase /\ phase # "recovering" /\ \A i \in Insts : Known(i) => Known(i)'
    <3>1. phase' = phase /\ \A i \in Insts : Known(i) => Known(i)'
      BY ZenonT(60), <2>2, HandleRecords DEF OwnInv, Known
    <3>2. pc[t] # "idle"
      BY ZenonT(60), <2>2, HandleAwake
    <3> QED
      BY ZenonT(60), <3>1, <3>2 DEF OwnInv, StartUp
  <2>3. CASE (Environment /\ UNCHANGED svcVars) \/ UNCHANGED serviceVars
    BY ZenonT(60), <2>3, EnvironmentStill DEF svcVars, serviceVars, clusterVars, Known
  <2> QED
    BY ZenonT(60), <2>1, <2>2, <2>3 DEF Service, Known
<1>3. StartUp'
  <2>1. recovery' = recovery /\ rpc' = rpc
    BY ZenonT(60) DEF recVars
  <2>2. CASE phase # "recovering"
    BY ZenonT(60), <1>2, <2>1, <2>2 DEF OwnInv, StartUp, RecoveryTypeOK
  <2>3. CASE UNCHANGED <<status, pc>>
    BY ZenonT(60), <1>2, <2>1, <2>3 DEF OwnInv, StartUp, RecoveryTypeOK
  <2> QED
    BY ZenonT(60), <1>2, <2>2, <2>3
<1>4. ReconcilerTypeOK' /\ PassInv'
  BY ZenonT(60), <1>1, <1>2, PassUndisturbed DEF OwnInv, Moves
<1> QED
  BY ZenonT(60), <1>1, <1>3, <1>4 DEF OwnInv, StepKept

\* A pass that overlaps handlers disturbs none, and what it repairs is at rest.
LEMMA ReconcileStep ==
    ASSUME OwnInv, Reconcile, UNCHANGED <<svcVars, recovery>>
    PROVE  /\ OwnInv' /\ StepKept
           /\ rpc' = "repaired" => \A x \in rec'.cur : ~IsInFlight(status[DepOf(x[1])])
<1>1. ClusterTypeOK /\ ReconcilerTypeOK /\ PassInv /\ SvcInv /\ BackInv /\ StartUp
  BY Zenon DEF OwnInv, BackInv, TypeInv
<1>2. ClusterTypeOK' /\ ReconcilerTypeOK' /\ PassInv'
  BY ZenonT(60), <1>1, PassStep
<1>3. /\ UNCHANGED <<status, count, releases>> /\ phase' \in {phase, "serving"} /\ Rewrites
      /\ phase # "recovering"
  BY ZenonT(60), <1>1, PassRecords DEF StartUp
<1>4. UNCHANGED <<lock, pc, kind, dep, old, loc, calls>>
  BY ZenonT(60) DEF svcVars
<1>5. SvcInv'
  BY ZenonT(60), <1>1, <1>3, <1>4, SvcStill
<1>6. RestTypes'
  <2>1. loc \in [Threads -> Locals] /\ calls \in 0..MaxCalls
    BY ZenonT(60), <1>1, RestTypesOK DEF SvcInv, BackInv, RestTypes
  <2> QED
    BY ZenonT(60), <1>2, <1>4, <2>1 DEF ClusterTypeOK, RestTypes
<1>7. BackInv'
  <2>1. \A i \in Insts : inst'[i].status = "NONE" <=> inst[i].status = "NONE"
    BY ZenonT(60), <1>1, <1>3, RewritesKnown DEF Known
  <2>2. ASSUME NEW t \in Threads, Deploys(t), NEW i \in Instances(dep[t]), Up(i)
        PROVE  Up(i)'
    <3>1. i \in Insts /\ ~AtRest(i)
      <4>1. i \in Insts /\ DepOf(i) = dep[t]
        BY ZenonT(60) DEF Instances
      <4>2. IsInFlight(status[dep[t]])
        BY ZenonT(60), <1>1, <2>2 DEF SvcInv, InFlight
      <4> QED
        BY ZenonT(60), <4>1, <4>2 DEF AtRest, IsTerminal, IsInFlight
    <3>2. CASE inst' = inst
      BY ZenonT(60), <2>2, <3>2 DEF Up
    <3>3. ASSUME NEW j \in Insts, NEW s, NEW w, SetInst(j, s, w),
                 AtRest(j) \/ (s = "RUNNING" /\ w \in Workers)
          PROVE  Up(i)'
      <4>1. inst'[i] = IF i = j THEN [status |-> s, worker |-> w] ELSE inst[i]
        BY ZenonT(60), <1>1, <3>1, <3>3 DEF SetInst, ClusterTypeOK
      <4>2. CASE i = j
        <5>1. inst'[i].status = s /\ inst'[i].worker = w
          BY ZenonT(60), <4>1, <4>2, RecordFields
        <5> QED
          BY ZenonT(60), <3>1, <3>3, <4>2, <5>1 DEF Up
      <4>3. CASE i # j
        BY ZenonT(60), <2>2, <4>1, <4>3 DEF Up
      <4> QED
        BY ZenonT(60), <4>2, <4>3
    <3> QED
      BY ZenonT(60), <1>3, <3>2, <3>3 DEF Rewrites
  <2> QED
    BY ZenonT(60), <1>1, <1>3, <1>4, <1>5, <1>6, <2>1, <2>2, OutsideBack
<1>8. StartUp'
  BY ZenonT(60), <1>1, <1>3, <1>4 DEF StartUp, RecoveryTypeOK
<1>9. StepKept
  BY ZenonT(60), <1>3, StillMoves DEF StepKept, BackedKept
<1>10. rpc' = "repaired" => \A x \in rec'.cur : ~IsInFlight(status[DepOf(x[1])])
  <2>1. rpc' = "repaired" => \A x \in rec'.cur : IsTerminal(status'[DepOf(x[1])])
    BY ZenonT(60), <1>2 DEF PassInv, PassOK, AtRest
  <2>2. \A s : IsTerminal(s) => ~IsInFlight(s)
    BY ZenonT(60) DEF IsTerminal, IsInFlight
  <2> QED
    BY ZenonT(60), <1>3, <2>1, <2>2
<1> QED
  BY ZenonT(60), <1>2, <1>5, <1>7, <1>8, <1>9, <1>10 DEF OwnInv

-----------------------------------------------------------------------------
(* Start-up                                                                 *)

\* While the process recovers nobody is served: only start-up's own
\* bookkeeping is at stake.
LEMMA RecoveringStep ==
    ASSUME OwnInv, phase = "recovering", status' \in [Deps -> Statuses \cup {"NONE"}],
           \A d \in Deps : status'[d] = status[d] \/ (IsInFlight(status[d]) /\ status'[d] = "FAILED"),
           \A i \in Insts : inst'[i].status = "NONE" <=> inst[i].status = "NONE",
           UNCHANGED <<svcVars, recVars, count>>, RestTypes', StartUp',
           phase' = "recovering" \/ \A d \in Deps : ~IsInFlight(status'[d])
    PROVE  OwnInv' /\ StepKept
<1>1. UNCHANGED <<lock, pc, kind, dep, old, loc, calls>>
  BY ZenonT(60) DEF svcVars
<1>2. \A t \in Threads : pc[t] = "idle" /\ pc'[t] = "idle" /\ ~Deploys(t) /\ ~Deploys(t)'
  <2>1. \A t \in Threads : pc[t] = "idle"
    BY ZenonT(60) DEF OwnInv, StartUp
  <2> QED
    BY ZenonT(60), <1>1, <2>1 DEF Deploys, DeployPCs
<1>3. Types'
  BY ZenonT(60), <1>1 DEF OwnInv, SvcInv, Types
<1>4. Holds' /\ Exists' /\ InFlight' /\ Waiting' /\ Superseded' /\ Stages'
  BY ZenonT(60), <1>2 DEF Holds, Exists, InFlight, Waiting, Superseded, Stages, Stage, LockedPCs, DeployPCs
<1>5. SvcInv'
  BY ZenonT(60), <1>3, <1>4 DEF SvcInv, InFlightOwned
<1>6. \A d \in Deps : status'[d] = "NONE" => status[d] = "NONE"
  BY ZenonT(60) DEF IsInFlight
<1>7. BackInv'
  BY ZenonT(60), <1>1, <1>2, <1>5, <1>6, OutsideBack DEF OwnInv
<1>8. StepKept
  <2>1. RestKept
    BY ZenonT(60) DEF RestKept, IsTerminal, IsInFlight
  <2>2. LegalKept
    BY ZenonT(60) DEF LegalKept, ValidateTransition, legalTransitions, IsInFlight
  <2>3. ContinuityKept /\ BackedKept
    BY ZenonT(60) DEF ContinuityKept, BackedKept
  <2> QED
    BY ZenonT(60), <2>1, <2>2, <2>3 DEF Moves, StepKept
<1>9. ReconcilerTypeOK' /\ PassInv'
  BY ZenonT(60), <1>8, PassUndisturbed DEF OwnInv, StepKept, Moves, Known
<1> QED
  BY ZenonT(60), <1>5, <1>7, <1>8, <1>9 DEF OwnInv

\* Recovery accounts for every deployment it finds in flight, and the API does
\* not open before all of them have FAILED.
LEMMA RecoverStep ==
    ASSUME OwnInv, Recover, UNCHANGED <<svcVars, recVars>>
    PROVE  OwnInv' /\ StepKept
<1> USE DEF clusterVars, repoVars, fleetVars, nodeVars, recVars, svcVars
<1>s. StartUp /\ RecoveryTypeOK /\ status \in [Deps -> Statuses \cup {"NONE"}]
  BY ZenonT(60) DEF OwnInv, StartUp, SvcInv, Types
<1>r. RestTypes
  BY ZenonT(60), RestTypesOK DEF OwnInv, SvcInv, BackInv
<1>p. phase = "recovering" /\ rpc = "idle" /\ \A t \in Threads : pc[t] = "idle"
  BY ZenonT(60), <1>s DEF Recover, DetectStuckDeployments, TakeStuck, CleanupPartialContainers,
              FailInstances, FailDeployment, RecoveryDone, StartUp
<1>1. CASE DetectStuckDeployments
  <2>1. /\ recovery'.stage = "next" /\ recovery'.fixing = NoDep /\ RecoveryTypeOK'
        /\ recovery'.stuck = {d \in Deps : IsInFlight(status[d])}
    BY ZenonT(60), <1>1, <1>s DEF DetectStuckDeployments, RecoveryTypeOK, StartUp
  <2>2. UNCHANGED <<status, count, inst, phase>> /\ RestTypes'
    BY ZenonT(60), <1>1, <1>r DEF DetectStuckDeployments, RestTypes
  <2>3. StartUp'
    BY ZenonT(60), <2>1, <2>2, <1>p, ClusterAssumption DEF StartUp
  <2> QED
    BY ZenonT(60), <2>2, <2>3, <1>p, <1>s, RecoveringStep
<1>2. ASSUME NEW d \in recovery.stuck, TakeStuck(d) \/ CleanupPartialContainers(d)
      PROVE  OwnInv' /\ StepKept
  <2>1. /\ recovery.stage = "next" /\ recovery'.stage \in {"instances", "fail"}
        /\ recovery'.stuck = recovery.stuck \ {d} /\ recovery'.fixing = d
        /\ RecoveryTypeOK' /\ UNCHANGED <<status, count, inst, phase>> /\ d \in Deps
    <3>1. /\ recovery.stage = "next" /\ d \in recovery.stuck /\ recovery.stuck \subseteq Deps
          /\ UNCHANGED <<status, count, inst, phase>>
      BY ZenonT(60), <1>2, <1>s
         DEF TakeStuck, CleanupPartialContainers, RecoveryTypeOK, clusterVars, repoVars
    <3>2. PICK s \in {"instances", "fail"} :
            recovery' = [stage |-> s, stuck |-> recovery.stuck \ {d}, fixing |-> d]
      BY ZenonT(60), <1>2 DEF TakeStuck, CleanupPartialContainers
    <3> QED
      BY ZenonT(60), <3>1, <3>2 DEF RecoveryTypeOK
  <2>2. \A e \in Deps : IsInFlight(status[e]) <=> e \in recovery.stuck
    BY ZenonT(60), <2>1, <1>s, ClusterAssumption DEF StartUp
  <2>3. StartUp'
    BY ZenonT(60), <2>1, <2>2, <1>p DEF StartUp
  <2>4. RestTypes'
    <3>1. CASE TakeStuck(d)
      BY ZenonT(60), <1>r, <3>1 DEF TakeStuck, RestTypes
    <3>2. CASE CleanupPartialContainers(d)
      <4>1. PICK unreachable :
               /\ IF unreachable = {} THEN UNCHANGED events ELSE Happens("lost") /\ Count
               /\ node' = [w \in Workers |->
                             IF health[w] = "HEALTHY" /\ w \notin unreachable THEN CleanedNode(w, d)
                                                                              ELSE node[w]]
        BY ZenonT(60), <3>2 DEF CleanupPartialContainers
      <4>2. events' \in 0..MaxEvents
        BY ZenonT(60), <1>r, <4>1, EventCounted DEF RestTypes
      <4>3. \A w \in Workers : node[w] \in [Insts -> Nodes] /\ CleanedNode(w, d) \in [Insts -> Nodes]
        <5>1. \A w \in Workers : node[w] \in [Insts -> Nodes] /\ \A i \in Insts : node[w][i] \in Nodes
          BY ZenonT(60), <1>r DEF RestTypes
        <5>2. \A w \in Workers : \A i \in Insts : Stopped(node[w][i]) \in Nodes
          BY ZenonT(60), <5>1, NodeOps
        <5> QED
          BY ZenonT(60), <5>1, <5>2 DEF CleanedNode
      <4>4. node' \in [Workers -> [Insts -> Nodes]]
        BY ZenonT(60), <4>1, <4>3
      <4> QED
        BY ZenonT(60), <1>r, <3>2, <4>2, <4>4 DEF CleanupPartialContainers, RestTypes
    <3> QED
      BY ZenonT(60), <1>2, <3>1, <3>2
  <2> QED
    BY ZenonT(60), <2>1, <2>3, <2>4, <1>p, <1>s, RecoveringStep
<1>3. CASE FailInstances
  <2>1. /\ recovery.stage = "instances" /\ recovery'.stage = "fail"
        /\ recovery'.stuck = recovery.stuck /\ recovery'.fixing = recovery.fixing
        /\ RecoveryTypeOK' /\ UNCHANGED <<status, count, phase>>
    BY ZenonT(60), <1>3, <1>s DEF FailInstances, RecoveryTypeOK
  <2>2. StartUp'
    BY ZenonT(60), <2>1, <1>p, <1>s DEF StartUp
  <2>3. PICK lost : /\ \A i \in lost : inst[i].status # "NONE"
                    /\ inst' = [i \in Insts |-> IF i \in lost THEN [inst[i] EXCEPT !.status = "FAILED"]
                                                              ELSE inst[i]]
    BY ZenonT(60), <1>3 DEF FailInstances, Instances
  <2>4. /\ inst' \in [Insts -> [status: InstStatuses, worker: Workers \cup {NoWorker}]]
        /\ \A i \in Insts : inst'[i].status = "NONE" <=> inst[i].status = "NONE"
    BY ZenonT(60), <1>r, <2>3 DEF RestTypes, InstStatuses
  <2>5. RestTypes'
    BY ZenonT(60), <1>3, <1>r, <2>4 DEF FailInstances, RestTypes
  <2> QED
    BY ZenonT(60), <2>1, <2>2, <2>4, <2>5, <1>p, <1>s, RecoveringStep
<1>4. CASE FailDeployment
  <2>1. /\ recovery.stage = "fail" /\ recovery'.stage = "next"
        /\ recovery'.stuck = recovery.stuck /\ recovery'.fixing = NoDep
        /\ RecoveryTypeOK' /\ UNCHANGED <<count, inst, phase>>
    BY ZenonT(60), <1>4, <1>s DEF FailDeployment, RecoveryTypeOK
  <2>2. /\ status' \in [Deps -> Statuses \cup {"NONE"}]
        /\ \A d \in Deps : status'[d] = IF d = recovery.fixing THEN "FAILED" ELSE status[d]
    BY ZenonT(60), <1>4, <1>s DEF FailDeployment, Statuses
  <2>3. /\ recovery.fixing \in Deps \ recovery.stuck
        /\ \A d \in Deps : IsInFlight(status[d]) <=> d \in recovery.stuck \/ d = recovery.fixing
    BY ZenonT(60), <2>1, <1>s DEF StartUp
  <2>4. StartUp'
    <3>1. \A d \in Deps : IsInFlight(status'[d]) <=> d \in recovery.stuck \/ d = NoDep
      BY ZenonT(60), <2>2, <2>3, ClusterAssumption DEF IsInFlight
    <3> QED
      BY ZenonT(60), <2>1, <3>1, <1>p DEF StartUp
  <2>5. RestTypes'
    BY ZenonT(60), <1>4, <1>r DEF FailDeployment, RestTypes
  <2>6. \A d \in Deps : status'[d] = status[d] \/ (IsInFlight(status[d]) /\ status'[d] = "FAILED")
    BY ZenonT(60), <2>2, <2>3
  <2> QED
    BY ZenonT(60), <2>1, <2>2, <2>4, <2>5, <2>6, <1>p, RecoveringStep
<1>5. CASE RecoveryDone
  <2>1. /\ recovery.stage = "next" /\ recovery.stuck = {} /\ UNCHANGED <<status, count, inst>>
        /\ recovery' = NoRecovery /\ phase' = "reconciling"
    BY ZenonT(60), <1>5 DEF RecoveryDone
  <2>2. \A d \in Deps : ~IsInFlight(status[d])
    BY ZenonT(60), <2>1, <1>s, ClusterAssumption DEF StartUp
  <2>3. StartUp'
    BY ZenonT(60), <2>1, <2>2 DEF StartUp, RecoveryTypeOK, NoRecovery
  <2>4. RestTypes'
    BY ZenonT(60), <1>5, <1>r DEF RecoveryDone, RestTypes
  <2> QED
    BY ZenonT(60), <2>1, <2>2, <2>3, <2>4, <1>p, <1>s, RecoveringStep
<1> QED
  BY ZenonT(60), <1>1, <1>2, <1>3, <1>4, <1>5 DEF Recover

\* After a crash nobody is at work, and the process knows that it recovers.
LEMMA CrashStep ==
    ASSUME OwnInv, Crash
    PROVE  OwnInv' /\ StepKept
<1>1. /\ UNCHANGED <<status, count, inst, kind, calls>> /\ phase' = "recovering"
      /\ lock' = [p \in Projects |-> NoThread] /\ pc' = [t \in Threads |-> "idle"]
      /\ dep' = [t \in Threads |-> NoDep] /\ old' = [t \in Threads |-> NoDep]
      /\ loc' = [t \in Threads |-> NoLocals]
      /\ rpc' = "idle" /\ rec' = NoPass /\ recovery' = NoRecovery
  BY ZenonT(60) DEF Crash
<1>2. Types'
  BY ZenonT(60), <1>1 DEF OwnInv, SvcInv, Types, LockedPCs, DeployPCs
<1>3. Holds' /\ Exists' /\ InFlight' /\ Waiting' /\ Superseded' /\ Stages'
  BY ZenonT(60), <1>1 DEF Holds, Exists, InFlight, Waiting, Superseded, Stages, Stage, Deploys, LockedPCs, DeployPCs
<1>4. SvcInv'
  BY ZenonT(60), <1>1, <1>2, <1>3 DEF SvcInv, InFlightOwned
<1>5. RestTypes /\ RestTypes'
  <2>1. RestTypes
    BY ZenonT(60), RestTypesOK DEF OwnInv, SvcInv, BackInv
  <2>2. late' \subseteq Workers \X Insts
    <3>1. \A t \in Threads : pc[t] = "run" => loc[t].w \in Workers /\ Newest(dep[t]) \in Insts
      BY ZenonT(60) DEF OwnInv, BackInv, Bringing, Instances
    <3>2. PICK sent \in SUBSET HandlerCalls, passSent \in {{}} \cup {{c} : c \in PassCalls} :
            late' = late \cup sent \cup passSent
      BY ZenonT(60) DEF Crash
    <3>3. sent \subseteq Workers \X Insts
      <4> SUFFICES ASSUME NEW x \in sent PROVE x \in Workers \X Insts
        BY ZenonT(60)
      <4>1. PICK t \in Threads : pc[t] = "run" /\ x = <<loc[t].w, Newest(dep[t])>>
        BY ZenonT(60), <3>2 DEF HandlerCalls
      <4>2. PICK w \in Workers, i \in Insts : w = loc[t].w /\ i = Newest(dep[t])
        BY ZenonT(60), <3>1, <4>1
      <4> QED
        BY ZenonT(60), <4>1, <4>2
    <3>4. passSent \subseteq Workers \X Insts
      BY ZenonT(60) DEF PassCalls
    <3>5. late \subseteq Workers \X Insts
      BY ZenonT(60), <2>1 DEF RestTypes
    <3> QED
      BY ZenonT(60), <3>2, <3>3, <3>4, <3>5
  <2>3. NoLocals \in Locals
    BY ZenonT(60), NoLocalsType
  <2>4. events' \in 0..MaxEvents
    BY ZenonT(60), <2>1, EventCounted DEF Crash, RestTypes
  <2>5. load' \in [Workers -> Nat] /\ loc' \in [Threads -> Locals]
    BY ZenonT(60), <1>1, <2>3 DEF Crash
  <2>6. routes' \subseteq Insts /\ releases' \subseteq Deps
    BY ZenonT(60) DEF Crash
  <2> QED
    BY ZenonT(60), <1>1, <2>1, <2>2, <2>4, <2>5, <2>6 DEF Crash, RestTypes
<1>6. BackInv'
  <2>1. TypeInv'
    BY ZenonT(60), <1>4, <1>5, RestTypesOK DEF SvcInv, Types, RestTypes, Locals, TypeInv, ClusterTypeOK, ServiceTypeOK
  <2>2. Created'
    BY ZenonT(60), <1>1 DEF OwnInv, BackInv, Created, Numbered, Instances
  <2>3. ASSUME NEW t \in Threads PROVE Bringing(t)'
    <3>1. pc'[t] = "idle" /\ loc'[t].todo = {} /\ loc'[t].hit = {} /\ ~Deploys(t)'
      BY ZenonT(60), <1>1 DEF NoLocals, Deploys, DeployPCs
    <3> QED
      BY ZenonT(60), <3>1 DEF Bringing
  <2> QED
    BY ZenonT(60), <2>1, <2>2, <2>3 DEF BackInv
<1>7. StartUp'
  BY ZenonT(60), <1>1 DEF StartUp, NoRecovery, RecoveryTypeOK
<1>8. ReconcilerTypeOK' /\ PassInv'
  <2>1. ReconcilerTypeOK'
    BY ZenonT(60), <1>1, NoPassType DEF ReconcilerTypeOK, Passes
  <2>2. PassInv'
    BY ZenonT(60), <1>1 DEF PassInv, PassOK, NoPass
  <2> QED
    BY ZenonT(60), <2>1, <2>2
<1>9. StepKept
  BY ZenonT(60), <1>1, StillMoves DEF StepKept, BackedKept
<1> QED
  BY ZenonT(60), <1>4, <1>6, <1>7, <1>8, <1>9 DEF OwnInv

\* Every step of the control plane preserves the invariant and moves statuses
\* only as it may; a repair is never of a deployment in flight.
LEMMA NextOwnInv ==
    ASSUME OwnInv, [Next]_vars
    PROVE  /\ OwnInv' /\ StepKept
           /\ rpc = "repair" /\ rpc' = "repaired" =>
                \A x \in rec'.cur : ~IsInFlight(status[DepOf(x[1])])
<1> USE DEF vars, recVars
<1>1. CASE Service /\ UNCHANGED <<recVars, recovery>>
  BY ZenonT(60), <1>1, HandlersStep
<1>2. CASE Reconcile /\ UNCHANGED <<svcVars, recovery>>
  BY ZenonT(60), <1>2, ReconcileStep
<1>3. CASE Recover /\ UNCHANGED <<svcVars, recVars>>
  BY ZenonT(60), <1>3, RecoverStep
<1>4. CASE Environment /\ UNCHANGED <<svcVars, recVars, recovery>>
  BY ZenonT(60), <1>4, HandlersStep
<1>5. CASE Crash
  BY ZenonT(60), <1>5, CrashStep DEF Crash
<1>6. CASE UNCHANGED vars
  BY ZenonT(60), <1>6, HandlersStep DEF serviceVars
<1> QED
  BY ZenonT(60), <1>1, <1>2, <1>3, <1>4, <1>5, <1>6 DEF Next

-----------------------------------------------------------------------------
\* The inductive invariant holds throughout, for any number of projects,
\* deployments, handlers, workers and crashes.
THEOREM OwnershipInvariant == Spec => []OwnInv
<1>1. OwnInv /\ [Next]_vars => OwnInv'
  BY ZenonT(60), NextOwnInv
<1> QED
  BY <1>1, InitOwnInv, PTL DEF Spec

\* Every variable of the control plane keeps its type: no handler, pass,
\* recovery or crash takes a counter, a record or a list beyond its bounds.
THEOREM TypesHold == Spec => []TypeOK
<1>1. OwnInv => TypeOK
  BY ZenonT(60) DEF OwnInv, BackInv, TypeInv, StartUp, TypeOK
<1> QED
  BY <1>1, OwnershipInvariant, PTL

\* Every in-flight deployment has a handler of its project at work on it, which
\* holds the project's lock, unless the process is recovering.
THEOREM InFlightIsOwned == Spec => []InFlightOwned
<1>1. OwnInv => InFlightOwned
  BY ZenonT(60) DEF OwnInv, SvcInv
<1> QED
  BY <1>1, OwnershipInvariant, PTL

\* The project lock serializes deployments: once the API serves, at most one
\* deployment of a project is in flight.
THEOREM DeploysSerialized == Spec => []OneInFlight
<1>1. OwnInv => OneInFlight
  <2> SUFFICES ASSUME OwnInv, phase # "recovering", NEW d \in Deps, NEW e \in Deps,
                      IsInFlight(status[d]), IsInFlight(status[e]),
                      ProjectOf[d] = ProjectOf[e]
               PROVE  d = e
    BY ZenonT(60) DEF OneInFlight
  <2>1. PICK t \in Threads : Owns(t, d)
    BY ZenonT(60) DEF OwnInv, SvcInv, InFlightOwned
  <2>2. PICK u \in Threads : Owns(u, e)
    BY Zenon DEF OwnInv, SvcInv, InFlightOwned
  <2> QED
    BY ZenonT(60), <2>1, <2>2 DEF Owns
<1> QED
  BY <1>1, OwnershipInvariant, PTL

\* Nothing calls ValidateTransition on the way, yet every status change but a
\* stop and a roll-back is one legalTransitions has, whoever makes it.
THEOREM ProgressIsLegal == Spec => ProgressLegal
<1>1. OwnInv /\ [Next]_vars =>
        [\A d \in Deps :
           status[d] # "NONE" /\ status'[d] \notin {"STOPPED", "ROLLED_BACK"}
           => ValidateTransition(status[d], status'[d])]_status
  BY ZenonT(60), NextOwnInv DEF StepKept, Moves, LegalKept
<1> QED
  BY <1>1, OwnershipInvariant, PTL DEF Spec, ProgressLegal

\* A rollback retires the superseded deployment only while the one it restored
\* runs, whatever passes, recoveries and crashes came in between.
THEOREM RollbackContinues == Spec => RollbackContinuity
<1>1. OwnInv /\ [Next]_vars =>
        [\A d \in Deps : status[d] # "ROLLED_BACK" /\ status'[d] = "ROLLED_BACK" =>
           \E t \in Threads : old[t] = d /\ dep[t] # d /\ status[dep[t]] = "RUNNING"]_status
  BY ZenonT(60), NextOwnInv DEF StepKept, Moves, ContinuityKept
<1> QED
  BY <1>1, OwnershipInvariant, PTL DEF Spec, RollbackContinuity

\* scheduleAndDispatchInstances reports RUNNING only what has the instances it
\* asked for, although passes rewrite instance records without a lock.
THEOREM RunningStaysBacked == Spec => RunningBacked
<1>1. OwnInv /\ [Next]_vars =>
        [\A d \in Deps : status[d] # "RUNNING" /\ status'[d] = "RUNNING" =>
          Cardinality({i \in Instances(d) : inst[i].status = "RUNNING" /\ inst[i].worker # NoWorker})
            >= count[d]]_status
  BY ZenonT(60), NextOwnInv DEF StepKept, BackedKept
<1> QED
  BY <1>1, OwnershipInvariant, PTL DEF Spec, RunningBacked

\* RepairMissing never starts a container for a deployment in flight, however
\* long before the pass has read the deployments (RACE-04).
THEOREM RepairsOnlyAtRest == Spec => NoDoubleCreate
<1>1. OwnInv /\ [Next]_vars =>
        [rpc = "repair" /\ rpc' = "repaired" =>
           \A x \in rec'.cur : ~IsInFlight(status[DepOf(x[1])])]_vars
  BY ZenonT(60), NextOwnInv
<1> QED
  BY <1>1, OwnershipInvariant, PTL DEF Spec, NoDoubleCreate

-----------------------------------------------------------------------------
(* The service alone *)

\* Every handler keeps the statuses, the lock and the instance records in order:
\* the invariant the next two results rest on.
THEOREM ServiceInvariant == ServiceSpec => [](SvcInv /\ BackInv)
<1>1. ServingInit => SvcInv /\ BackInv
  <2> SUFFICES ASSUME ServingInit PROVE SvcInv /\ BackInv
    BY ZenonT(60)
  <2>1. ClusterInit /\ ServiceInit /\ phase \in {"recovering", "reconciling", "serving"}
    BY Zenon DEF ServingInit
  <2> QED
    BY ZenonT(60), <2>1, CountingLaws, InitSvcInv, InitBackInv
<1>2. SvcInv /\ BackInv /\ [ServiceNext]_serviceVars => (SvcInv /\ BackInv)'
  BY ZenonT(60), ServiceStep
<1> QED
  BY <1>1, <1>2, PTL DEF ServiceSpec

\* CreateAndDeploy and Rollback report RUNNING only what has as many instances
\* recorded RUNNING on a worker as it asked for.
THEOREM RunningIsBacked == ServiceSpec => RunningBacked
<1>1. SvcInv /\ BackInv /\ [ServiceNext]_serviceVars =>
        [\A d \in Deps : status[d] # "RUNNING" /\ status'[d] = "RUNNING" =>
          Cardinality({i \in Instances(d) : inst[i].status = "RUNNING" /\ inst[i].worker # NoWorker})
            >= count[d]]_status
  BY ZenonT(60), ServiceStep DEF BackedKept
<1> QED
  BY <1>1, ServiceInvariant, PTL DEF ServiceSpec, RunningBacked

\* Once a handler has returned and released the project's lock, a RUNNING
\* deployment has as many containers running as its record asks for, whatever
\* calls failed, timed out or were delivered late, and however a scale or a
\* rollback ended halfway.  No handler can keep a container that dies by itself
\* running, so the environment's events are those without such a death.
THEOREM ReplicasStayServed == Undying => (ServiceSpec => []ReplicasServed)
<1> SUFFICES ASSUME Undying PROVE ServiceSpec => []ReplicasServed
  BY ZenonT(60)
<1>1. ServingInit => SrvInv
  BY ZenonT(60), InitServed
<1>2. SvcInv /\ BackInv /\ SrvInv /\ [ServiceNext]_serviceVars => SrvInv'
  BY ZenonT(60), ServedStep
<1>3. SvcInv /\ BackInv /\ SrvInv => ReplicasServed
  BY ZenonT(60), ServedReplicas
<1> QED
  BY <1>1, <1>2, <1>3, ServiceInvariant, PTL DEF ServiceSpec

=============================================================================
