---------------------- MODULE DeploymentService_proofs ----------------------
(***************************************************************************)
(* Proofs about DeploymentService, for any projects, deployments, workers, *)
(* handlers and replica counts: first about the statuses and the lock, then *)
(* about the instance records.  The lemmas about single steps do not say who *)
(* else is at work, and ControlPlane_proofs uses them for the process with *)
(* passes, recovery and crashes.                                           *)
(***************************************************************************)
EXTENDS DeploymentService, TLAPS

Deploys(t) == pc[t] \in DeployPCs /\ kind[t] \in {"create", "rollback"}

\* The variables the argument is about have their types.
Types ==
    /\ status \in [Deps -> Statuses \cup {"NONE"}]
    /\ lock \in [Projects -> Threads \cup {NoThread}]
    /\ pc \in [Threads -> LockedPCs \cup {"idle", "lock"}]
    /\ kind \in [Threads -> OpKinds]
    /\ dep \in [Threads -> Deps \cup {NoDep}]
    /\ old \in [Threads -> Deps \cup {NoDep}]
    /\ \A t \in Threads : pc[t] # "idle" => dep[t] \in Deps
    /\ \A t \in Threads : pc[t] \in {"queued", "building", "built", "scheduling"}
                            => kind[t] \in {"create", "rollback"}
    /\ \A t \in Threads : pc[t] \in DeployPCs => kind[t] # "stop"
    /\ \A t \in Threads : pc[t] \in {"stop", "stopped"} => kind[t] # "create"

\* A handler past its lock holds it.
Holds == \A t \in Threads : pc[t] \in LockedPCs => lock[ProjectOf[dep[t]]] = t

\* ... and its deployment exists.
Exists == \A t \in Threads : pc[t] \in LockedPCs => status[dep[t]] # "NONE"

\* The deployment a handler brings up is in flight.
InFlight == \A t \in Threads : Deploys(t) => IsInFlight(status[dep[t]])

\* ... with the status of the handler's position, and RUNNING while a rollback
\* that has brought it up stops the superseded one.
Stage(t) ==
    /\ pc[t] = "queued" => status[dep[t]] = "QUEUED"
    /\ pc[t] = "building" => status[dep[t]] = "BUILDING"
    /\ pc[t] = "built" => status[dep[t]] = "BUILT"
    /\ pc[t] = "scheduling" => status[dep[t]] = "SCHEDULING"
    /\ pc[t] \in {"place", "run", "record", "route"} /\ kind[t] \in {"create", "rollback"}
         => status[dep[t]] = "STARTING"
    /\ pc[t] \in {"stop", "stopped"} /\ kind[t] = "rollback" => status[dep[t]] = "RUNNING"

Stages == \A t \in Threads : Stage(t)

\* A create waiting for its lock has an id nobody else has; the others have a
\* deployment that exists.
Waiting ==
    \A t \in Threads : pc[t] = "lock" =>
        IF kind[t] = "create"
          THEN status[dep[t]] = "NONE" /\ \A u \in Threads \ {t} : dep[u] # dep[t]
          ELSE status[dep[t]] # "NONE"

\* A rollback supersedes another, existing deployment of its own project.
Superseded ==
    \A t \in Threads : kind[t] = "rollback" /\ pc[t] \in LockedPCs =>
        /\ old[t] \in Deps /\ status[old[t]] # "NONE" /\ old[t] # dep[t]
        /\ ProjectOf[old[t]] = ProjectOf[dep[t]]

SvcInv == /\ Types /\ Holds /\ Exists /\ InFlight /\ Stages /\ Waiting /\ Superseded
          /\ InFlightOwned

\* What a step may do to the statuses: a deployment at rest stays at rest, ...
RestKept ==
    \A d \in Deps : /\ IsTerminal(status[d]) => IsTerminal(status'[d])
                    /\ status[d] \in {"FAILED", "STOPPED", "ROLLED_BACK"}
                         => status'[d] # "RUNNING"

\* ... every other change but a stop and a roll-back is in the table, ...
LegalKept ==
    \A d \in Deps : status[d] # "NONE" /\ status'[d] \notin {"STOPPED", "ROLLED_BACK"}
                      => ValidateTransition(status[d], status'[d])

\* ... and a deployment is rolled back while the one in its place runs.
ContinuityKept ==
    \A d \in Deps : status[d] # "ROLLED_BACK" /\ status'[d] = "ROLLED_BACK" =>
        \E t \in Threads : old[t] = d /\ dep[t] # d /\ status[dep[t]] = "RUNNING"

Moves == RestKept /\ LegalKept /\ ContinuityKept

-----------------------------------------------------------------------------
\* Before anybody has called, the invariant holds whatever the phase.
LEMMA InitSvcInv == ClusterInit /\ ServiceInit => SvcInv
<1> SUFFICES ASSUME ClusterInit, ServiceInit PROVE SvcInv
  BY Zenon
<1> USE DEF ClusterInit, ServiceInit
<1>1. Types
  BY Zenon DEF Types, OpKinds, LockedPCs
<1>2. Holds /\ Exists /\ InFlight /\ Waiting /\ Superseded
  BY Zenon DEF Holds, Exists, InFlight, Waiting, Superseded, Deploys, LockedPCs, DeployPCs
<1>3. Stages
  BY Zenon DEF Stages, Stage
<1>4. InFlightOwned
  BY Zenon DEF InFlightOwned, IsInFlight
<1> QED
  BY Zenon, <1>1, <1>2, <1>3, <1>4 DEF SvcInv

\* A step of handler t that touches only its project's deployments and lock,
\* and leaves itself in order, preserves the invariant: whoever else is at work
\* on an in-flight deployment holds the lock of another project.
LEMMA ThreadStep ==
    ASSUME SvcInv, Types', NEW t \in Threads, dep[t] \in Deps,
           phase' = phase,
           lock[ProjectOf[dep[t]]] \in {t, NoThread},
           \A u \in Threads \ {t} : /\ pc'[u] = pc[u] /\ kind'[u] = kind[u]
                                    /\ dep'[u] = dep[u] /\ old'[u] = old[u],
           \A p \in Projects \ {ProjectOf[dep[t]]} : lock'[p] = lock[p],
           pc'[t] \in LockedPCs => /\ ProjectOf[dep'[t]] = ProjectOf[dep[t]]
                                   /\ lock'[ProjectOf[dep[t]]] = t
                                   /\ status'[dep'[t]] # "NONE",
           pc'[t] # "lock",
           dep'[t] = dep[t] \/ dep'[t] = NoDep \/ \A u \in Threads \ {t} : dep[u] # dep'[t],
           Deploys(t)' => IsInFlight(status'[dep'[t]]), Stage(t)',
           kind'[t] = "rollback" /\ pc'[t] \in LockedPCs =>
               /\ old'[t] \in Deps /\ status'[old'[t]] # "NONE" /\ old'[t] # dep'[t]
               /\ ProjectOf[old'[t]] = ProjectOf[dep'[t]],
           \A e \in Deps : status'[e] = status[e] \/ ProjectOf[e] = ProjectOf[dep[t]],
           \A e \in Deps : /\ status'[e] = "NONE" => status[e] = "NONE"
                           /\ status[e] = "NONE" /\ status'[e] # "NONE"
                                => e = dep'[t] /\ \A u \in Threads \ {t} : dep[u] # e,
           \A e \in Deps : IsInFlight(status'[e]) =>
               Owns(t, e)' \/ (IsInFlight(status[e]) /\ ~Owns(t, e))
    PROVE  SvcInv'
<1> DEFINE P == ProjectOf[dep[t]]
<1>0. P \in Projects /\ \A d \in Deps : ProjectOf[d] \in Projects
  BY ClusterAssumption
<1>t. Types /\ Types'
  BY ZenonT(60) DEF SvcInv
<1>1. \A u \in Threads \ {t} : pc[u] \in LockedPCs => ProjectOf[dep[u]] # P
  BY SMTT(60), Z3T(60), <1>t, ClusterAssumption DEF SvcInv, Holds, LockedPCs, DeployPCs, Types
<1>2. Holds'
  BY SMTT(60), Z3T(60), <1>t, <1>0, <1>1, ClusterAssumption DEF SvcInv, Holds, Types, LockedPCs, DeployPCs
<1>e. Exists'
  <2> SUFFICES ASSUME NEW u \in Threads, u # t, pc'[u] \in LockedPCs
               PROVE  status'[dep'[u]] # "NONE"
    BY Zenon DEF Exists
  <2>1. pc[u] \in LockedPCs /\ dep'[u] = dep[u] /\ dep[u] \in Deps
    BY ZenonT(60), <1>t DEF LockedPCs, DeployPCs, Types
  <2> QED
    BY <2>1 DEF SvcInv, Exists
<1>3. InFlight'
  <2> SUFFICES ASSUME NEW u \in Threads, u # t, Deploys(u)' PROVE IsInFlight(status'[dep'[u]])
    BY Zenon DEF InFlight
  <2>1. Deploys(u) /\ dep'[u] = dep[u]
    BY Zenon DEF Deploys
  <2>2. pc[u] \in LockedPCs /\ dep[u] \in Deps
    BY ZenonT(60), <2>1, <1>t DEF Deploys, LockedPCs, Types, DeployPCs
  <2> QED
    BY SMTT(60), Z3T(60), <2>1, <2>2, <1>1 DEF SvcInv, InFlight
<1>4. Waiting'
  <2> SUFFICES ASSUME NEW u \in Threads, u # t, pc'[u] = "lock"
               PROVE  IF kind'[u] = "create"
                        THEN status'[dep'[u]] = "NONE"
                             /\ \A v \in Threads \ {u} : dep'[v] # dep'[u]
                        ELSE status'[dep'[u]] # "NONE"
    BY ZenonT(60) DEF Waiting
  <2>1. pc[u] = "lock" /\ kind'[u] = kind[u] /\ dep'[u] = dep[u] /\ dep[u] \in Deps
    BY ZenonT(60), <1>t DEF Types
  <2>2. CASE kind[u] = "create"
    <3>1. status[dep[u]] = "NONE" /\ \A v \in Threads \ {u} : dep[v] # dep[u]
      BY Zenon, <2>1, <2>2 DEF SvcInv, Waiting
    <3>2. status'[dep[u]] = "NONE"
      BY Zenon, <2>1, <3>1, u \in Threads \ {t}
    <3>3. dep'[t] # dep[u]
      BY ZenonT(180), <2>1, <3>1, ClusterAssumption
    <3> QED
      BY ZenonT(180), <2>1, <2>2, <3>1, <3>2, <3>3
  <2>3. CASE kind[u] # "create"
    BY ZenonT(60), <2>1, <2>3 DEF SvcInv, Waiting
  <2> QED
    BY Zenon, <2>2, <2>3
<1>5. Superseded'
  <2> SUFFICES ASSUME NEW u \in Threads, u # t, kind'[u] = "rollback", pc'[u] \in LockedPCs
               PROVE  /\ old'[u] \in Deps /\ status'[old'[u]] # "NONE" /\ old'[u] # dep'[u]
                      /\ ProjectOf[old'[u]] = ProjectOf[dep'[u]]
    BY Zenon DEF Superseded
  <2>1. kind[u] = "rollback" /\ pc[u] \in LockedPCs /\ old'[u] = old[u] /\ dep'[u] = dep[u]
    BY Zenon, u \in Threads \ {t}
  <2> QED
    BY SMTT(60), Z3T(60), <2>1 DEF SvcInv, Superseded
<1>6. Stages'
  <2> SUFFICES ASSUME NEW u \in Threads, u # t PROVE Stage(u)'
    BY Zenon DEF Stages
  <2>1. pc'[u] = pc[u] /\ kind'[u] = kind[u] /\ dep'[u] = dep[u] /\ Stage(u)
    BY Zenon, u \in Threads \ {t} DEF SvcInv, Stages
  <2>2. pc[u] \in LockedPCs => status'[dep[u]] = status[dep[u]]
    <3>1. pc[u] \in LockedPCs => dep[u] \in Deps
      BY Zenon, <1>t DEF Types, LockedPCs, DeployPCs
    <3> QED
      BY Zenon, <3>1, <1>1, u \in Threads \ {t}
  <2> QED
    BY ZenonT(60), <2>1, <2>2 DEF Stage, LockedPCs, DeployPCs
<1>7. InFlightOwned'
  <2> SUFFICES ASSUME phase # "recovering", NEW e \in Deps, IsInFlight(status'[e]),
                      ~Owns(t, e)'
               PROVE  \E u \in Threads : Owns(u, e)'
    BY Zenon DEF InFlightOwned
  <2>1. IsInFlight(status[e]) /\ ~Owns(t, e)
    BY Zenon
  <2>2. PICK u \in Threads : Owns(u, e)
    BY Zenon, <2>1 DEF SvcInv, InFlightOwned
  <2>3. u # t
    BY Zenon, <2>1, <2>2
  <2>4. ProjectOf[e] # P
    BY ZenonT(60), <2>2, <2>3, <1>1 DEF Owns, LockedPCs
  <2>5. Owns(u, e)'
    BY <2>2, <2>3, <2>4, <1>0 DEF Owns
  <2> QED
    BY Zenon, <2>5
<1> QED
  BY ZenonT(60), <1>t, <1>2, <1>e, <1>3, <1>4, <1>5, <1>6, <1>7 DEF SvcInv

-----------------------------------------------------------------------------
\* A handler that has been called has a deployment, and past its lock holds the lock.
LEMMA HandlerFacts ==
    ASSUME SvcInv, NEW t \in Threads, pc[t] # "idle"
    PROVE  /\ dep[t] \in Deps /\ ProjectOf[dep[t]] \in Projects
           /\ pc[t] \in LockedPCs => lock[ProjectOf[dep[t]]] = t /\ status[dep[t]] # "NONE"
           /\ t # NoThread /\ NoDep \notin Deps
BY Zenon, ClusterAssumption DEF SvcInv, Types, Holds, Exists

\* The positions of the deploy path, with the status each step sets.
DeployPath ==
    {<<"queued", "building", "BUILDING">>, <<"building", "built", "BUILT">>,
     <<"queued", "scheduling", "SCHEDULING">>, <<"built", "scheduling", "SCHEDULING">>,
     <<"scheduling", "place", "STARTING">>}

\* The deploy path up to RUNNING: the handler stays the owner of its deployment,
\* whose status moves between in-flight ones.
LEMMA AdvanceStep ==
    ASSUME SvcInv, NEW t \in Threads, pc[t] \in DeployPCs, NEW p \in DeployPCs,
           pc' = [pc EXCEPT ![t] = p],
           UNCHANGED <<lock, kind, dep, old, phase>>,
           p \in {"queued", "building", "built", "scheduling"}
             => kind[t] \in {"create", "rollback"},
           \/ /\ status' = status
              /\ pc[t] \in {"place", "run", "record", "route"}
              /\ p \in {"place", "run", "record", "route"}
           \/ /\ kind[t] \in {"create", "rollback"}
              /\ \E s \in {"BUILDING", "BUILT", "SCHEDULING", "STARTING"} :
                    /\ status' = [status EXCEPT ![dep[t]] = s]
                    /\ <<pc[t], p, s>> \in DeployPath
    PROVE  SvcInv' /\ Moves
<1>1. /\ pc[t] \in LockedPCs /\ pc[t] # "idle" /\ pc'[t] = p /\ p # "lock" /\ p \in LockedPCs
      /\ \A u \in Threads \ {t} : pc'[u] = pc[u]
  BY Zenon DEF LockedPCs, DeployPCs, SvcInv, Types
<1>2. /\ dep[t] \in Deps /\ lock[ProjectOf[dep[t]]] = t
      /\ status[dep[t]] # "NONE"
  BY Zenon, <1>1, HandlerFacts
<1>3. \A e \in Deps : e # dep[t] => status'[e] = status[e]
  BY Zenon DEF SvcInv, Types
<1>4. /\ kind[t] \in {"create", "rollback"} => IsInFlight(status[dep[t]])
      /\ IsInFlight(status[dep[t]]) => IsInFlight(status'[dep[t]])
      /\ kind[t] \notin {"create", "rollback"} => status' = status
  BY Zenon, <1>2 DEF SvcInv, Types, InFlight, Deploys, IsInFlight
<1>s. Stage(t)' /\ ValidateTransition(status[dep[t]], status'[dep[t]])
  <2>1. Stage(t)
    BY Zenon DEF SvcInv, Stages
  <2>2. CASE status' = status /\ pc[t] \in {"place", "run", "record", "route"}
             /\ p \in {"place", "run", "record", "route"}
    BY Zenon, <2>1, <2>2, <1>1 DEF Stage, ValidateTransition
  <2>3. ASSUME NEW s \in {"BUILDING", "BUILT", "SCHEDULING", "STARTING"},
               kind[t] \in {"create", "rollback"}, <<pc[t], p, s>> \in DeployPath,
               status' = [status EXCEPT ![dep[t]] = s]
        PROVE  Stage(t)' /\ ValidateTransition(status[dep[t]], status'[dep[t]])
    <3>1. status'[dep[t]] = s
      BY Zenon, <2>3, <1>2 DEF SvcInv, Types
    <3>2. <<status[dep[t]], s>> \in legalTransitions
      BY Zenon, <2>1, <2>3 DEF Stage, DeployPath, legalTransitions
    <3>3. Stage(t)'
      BY <2>3, <1>1, <3>1 DEF Stage, DeployPath
    <3> QED
      BY Zenon, <3>1, <3>2, <3>3 DEF ValidateTransition
  <2> QED
    BY Zenon, <2>2, <2>3
<1>5. Types'
  BY SMTT(60), Z3T(60), <1>1, <1>2 DEF SvcInv, Types, Statuses, LockedPCs, DeployPCs
<1>6. \A e \in Deps : IsInFlight(status'[e]) =>
         Owns(t, e)' \/ (IsInFlight(status[e]) /\ ~Owns(t, e))
  BY Zenon, <1>1, <1>2, <1>3, <1>4 DEF Owns
<1>7. \A e \in Deps : /\ status'[e] = "NONE" <=> status[e] = "NONE"
                      /\ status'[e] = status[e] \/ e = dep[t]
  BY Zenon, <1>2, <1>3, <1>4 DEF IsInFlight
<1>8. SvcInv'
  <2>1. kind[t] = "rollback" => /\ old[t] \in Deps /\ status[old[t]] # "NONE" /\ old[t] # dep[t]
                                /\ ProjectOf[old[t]] = ProjectOf[dep[t]]
    BY Zenon, <1>1 DEF SvcInv, Superseded
  <2>2. Deploys(t)' => IsInFlight(status'[dep'[t]])
    BY Zenon, <1>4 DEF Deploys
  <2> QED
    BY Zenon, <1>1, <1>2, <1>5, <1>6, <1>7, <1>s, <2>1, <2>2, ThreadStep
<1>9. RestKept
  BY Zenon, <1>3, <1>4, <1>2 DEF RestKept, IsInFlight, IsTerminal
<1>10. LegalKept
  BY Zenon, <1>3, <1>s DEF LegalKept, ValidateTransition
<1>11. ContinuityKept
  <2> SUFFICES ASSUME NEW e \in Deps, status[e] # "ROLLED_BACK" PROVE status'[e] # "ROLLED_BACK"
    BY Zenon DEF ContinuityKept
  <2> QED
    BY Zenon, <1>3 DEF SvcInv, Types
<1> QED
  BY Zenon, <1>8, <1>9, <1>10, <1>11 DEF Moves

\* A step that changes no status moves none.
LEMMA StillMoves == status' = status => Moves
BY Zenon DEF Moves, RestKept, LegalKept, ContinuityKept, ValidateTransition

\* Stopping a list of instances leaves every status alone.
LEMMA StopStep ==
    ASSUME SvcInv, NEW t \in Threads, pc[t] \in {"stop", "stopped"},
           NEW p \in {"stop", "stopped"}, pc' = [pc EXCEPT ![t] = p],
           UNCHANGED <<status, lock, kind, dep, old, phase>>
    PROVE  SvcInv' /\ Moves
<1>1. /\ pc[t] \in LockedPCs /\ pc[t] # "idle" /\ pc'[t] = p /\ p # "lock" /\ p \in LockedPCs
      /\ p \notin DeployPCs /\ pc[t] \notin DeployPCs
      /\ \A u \in Threads \ {t} : pc'[u] = pc[u]
  BY Zenon DEF LockedPCs, DeployPCs, SvcInv, Types
<1>2. /\ dep[t] \in Deps /\ lock[ProjectOf[dep[t]]] = t
      /\ status[dep[t]] # "NONE"
  BY Zenon, <1>1, HandlerFacts
<1>3. Types'
  BY <1>1, <1>2 DEF SvcInv, Types, LockedPCs, DeployPCs
<1>4. kind[t] = "rollback" => /\ old[t] \in Deps /\ status[old[t]] # "NONE" /\ old[t] # dep[t]
                              /\ ProjectOf[old[t]] = ProjectOf[dep[t]]
  BY Zenon, <1>1 DEF SvcInv, Superseded
<1>s. Stage(t)'
  BY Zenon, <1>1 DEF SvcInv, Stages, Stage
<1>5. ~Deploys(t)' /\ \A e \in Deps : ~Owns(t, e)
  BY ZenonT(60), <1>1 DEF Deploys, Owns
<1>6. SvcInv'
  BY Zenon, <1>1, <1>2, <1>3, <1>4, <1>5, <1>s, ThreadStep
<1>7. Moves
  BY Zenon, StillMoves
<1> QED
  BY Zenon, <1>6, <1>7

\* StopDeployment and ScaleDeployment take the lock of an existing deployment.
LEMMA TakeStep ==
    ASSUME SvcInv, NEW t \in Threads, Lock(t), kind[t] \in {"stop", "scale"},
           NEW p \in {"stop", "place"}, p = "place" => kind[t] = "scale", pc' = [pc EXCEPT ![t] = p],
           UNCHANGED <<status, dep, old, phase>>
    PROVE  SvcInv' /\ Moves
<1>1. /\ pc[t] = "lock" /\ pc'[t] = p /\ p # "lock" /\ p \in LockedPCs
      /\ p \notin {"queued", "building", "built", "scheduling"}
      /\ \A u \in Threads \ {t} : pc'[u] = pc[u]
      /\ status[dep[t]] # "NONE"
  BY ZenonT(60) DEF Lock, LockedPCs, DeployPCs, SvcInv, Types, Waiting
<1>2. /\ dep[t] \in Deps /\ ProjectOf[dep[t]] \in Projects
  BY Zenon, <1>1, HandlerFacts
<1>3. /\ lock[ProjectOf[dep[t]]] = NoThread /\ lock'[ProjectOf[dep[t]]] = t
      /\ \A q \in Projects \ {ProjectOf[dep[t]]} : lock'[q] = lock[q]
      /\ kind' = kind
  BY Zenon, <1>2 DEF Lock, SvcInv, Types
<1>4. Types'
  BY <1>1, <1>2, <1>3 DEF Lock, SvcInv, Types, LockedPCs, DeployPCs
<1>5. ~Deploys(t)' /\ kind'[t] # "rollback" /\ \A e \in Deps : ~Owns(t, e)
  BY ZenonT(60), <1>1, <1>3 DEF Deploys, Owns
<1>s. Stage(t)'
  BY Zenon, <1>1, <1>3 DEF Stage
<1>6. SvcInv'
  BY Zenon, <1>1, <1>2, <1>3, <1>4, <1>5, <1>s, ThreadStep
<1>7. Moves
  BY Zenon, StillMoves
<1> QED
  BY Zenon, <1>6, <1>7

\* CreateAndDeploy and Rollback take the lock and create deployment d, which
\* nobody else knows, in their project.
LEMMA QueueStep ==
    ASSUME SvcInv, NEW t \in Threads, Lock(t), NEW d \in Deps,
           pc' = [pc EXCEPT ![t] = "queued"], status' = [status EXCEPT ![d] = "QUEUED"],
           status[d] = "NONE", \A u \in Threads \ {t} : dep[u] # d,
           ProjectOf[d] = ProjectOf[dep[t]], dep' = [dep EXCEPT ![t] = d],
           \/ kind[t] = "create" /\ old' = old
           \/ kind[t] = "rollback" /\ old' = [old EXCEPT ![t] = dep[t]],
           phase' = phase
    PROVE  SvcInv' /\ Moves
<1>1. /\ pc[t] = "lock" /\ pc'[t] = "queued" /\ "queued" \in LockedPCs
      /\ \A u \in Threads \ {t} : pc'[u] = pc[u] /\ dep'[u] = dep[u] /\ old'[u] = old[u]
      /\ dep'[t] = d
  BY Zenon DEF Lock, LockedPCs, DeployPCs, SvcInv, Types
<1>2. /\ dep[t] \in Deps /\ ProjectOf[dep[t]] \in Projects
  BY Zenon, <1>1, HandlerFacts
<1>3. /\ lock[ProjectOf[dep[t]]] = NoThread /\ lock'[ProjectOf[dep[t]]] = t
      /\ \A q \in Projects \ {ProjectOf[dep[t]]} : lock'[q] = lock[q]
      /\ kind' = kind
  BY Zenon, <1>2 DEF Lock, SvcInv, Types
<1>4. \A e \in Deps : status'[e] = IF e = d THEN "QUEUED" ELSE status[e]
  BY Zenon DEF SvcInv, Types
<1>5. Types'
  <2>1. /\ status' \in [Deps -> Statuses \cup {"NONE"}] /\ lock' \in [Projects -> Threads \cup {NoThread}]
        /\ pc' \in [Threads -> LockedPCs \cup {"idle", "lock"}] /\ kind' \in [Threads -> OpKinds]
        /\ dep' \in [Threads -> Deps \cup {NoDep}] /\ old' \in [Threads -> Deps \cup {NoDep}]
    BY ZenonT(60), <1>1, <1>2, <1>3 DEF Lock, SvcInv, Types, LockedPCs, DeployPCs, Statuses
  <2>2. /\ \A u \in Threads : pc'[u] # "idle" => dep'[u] \in Deps
        /\ \A u \in Threads : pc'[u] \in {"queued", "building", "built", "scheduling"}
                                => kind'[u] \in {"create", "rollback"}
        /\ \A u \in Threads : pc'[u] \in DeployPCs => kind'[u] # "stop"
        /\ \A u \in Threads : pc'[u] \in {"stop", "stopped"} => kind'[u] # "create"
    BY <1>1, <1>3 DEF SvcInv, Types
  <2> QED
    BY Zenon, <2>1, <2>2 DEF Types
<1>6. kind'[t] = "rollback" => /\ old'[t] \in Deps /\ status'[old'[t]] # "NONE" /\ old'[t] # dep'[t]
                               /\ ProjectOf[old'[t]] = ProjectOf[dep'[t]]
  <2> SUFFICES ASSUME kind[t] = "rollback"
               PROVE  /\ old'[t] \in Deps /\ status'[old'[t]] # "NONE" /\ old'[t] # dep'[t]
                      /\ ProjectOf[old'[t]] = ProjectOf[dep'[t]]
    BY Zenon, <1>3
  <2>1. old'[t] = dep[t]
    BY Zenon DEF SvcInv, Types
  <2>2. status[dep[t]] # "NONE"
    BY Zenon, <1>1 DEF SvcInv, Waiting
  <2> QED
    BY ZenonT(60), <2>1, <2>2, <1>1, <1>2, <1>4
<1>7. IsInFlight(status'[d]) /\ Owns(t, d)'
  BY ZenonT(60), <1>1, <1>3, <1>4 DEF IsInFlight, Owns, DeployPCs
<1>8. \A e \in Deps : ~Owns(t, e)
  BY Zenon, <1>1 DEF Owns, DeployPCs
<1>9. \A e \in Deps : IsInFlight(status'[e]) =>
         Owns(t, e)' \/ (IsInFlight(status[e]) /\ ~Owns(t, e))
  BY Zenon, <1>4, <1>7, <1>8
<1>s. Stage(t)'
  BY ZenonT(60), <1>1, <1>3, <1>4 DEF Stage
<1>10. SvcInv'
  <2>1. \A u \in Threads \ {t} : /\ pc'[u] = pc[u] /\ kind'[u] = kind[u]
                                   /\ dep'[u] = dep[u] /\ old'[u] = old[u]
    BY Zenon, <1>1, <1>3
  <2>2. /\ ProjectOf[dep'[t]] = ProjectOf[dep[t]] /\ lock'[ProjectOf[dep[t]]] = t
        /\ status'[dep'[t]] # "NONE" /\ IsInFlight(status'[dep'[t]])
    <3>1. status'[d] = "QUEUED"
      BY Zenon, <1>4
    <3> QED
      BY Zenon, <1>1, <1>3, <1>7, <3>1
  <2>3. \A e \in Deps : status'[e] = status[e] \/ ProjectOf[e] = ProjectOf[dep[t]]
    BY Zenon, <1>4
  <2>4. \A e \in Deps : /\ status'[e] = "NONE" => status[e] = "NONE"
                        /\ status[e] = "NONE" /\ status'[e] # "NONE"
                             => e = dep'[t] /\ \A u \in Threads \ {t} : dep[u] # e
    BY ZenonT(60), <1>1, <1>4
  <2>5. lock[ProjectOf[dep[t]]] \in {t, NoThread} /\ pc'[t] # "lock"
        /\ phase' = phase /\ \A u \in Threads \ {t} : dep[u] # dep'[t]
    BY ZenonT(60), <1>1, <1>3
  <2> QED
    BY ZenonT(180), <1>2, <1>3, <1>5, <1>6, <1>9, <1>s, <2>1, <2>2, <2>3, <2>4, <2>5, ThreadStep
<1>11. Moves
  BY <1>4 DEF Moves, RestKept, LegalKept, ContinuityKept, IsTerminal, ValidateTransition
<1> QED
  BY Zenon, <1>10, <1>11

\* A handler returns: it has given deployment e of its project a status at rest,
\* or left all statuses alone; what it brought up is no longer in flight.
LEMMA LeaveStep ==
    ASSUME SvcInv, NEW t \in Threads, pc[t] # "idle", Return(t),
           lock[ProjectOf[dep[t]]] \in {t, NoThread},
           phase' = phase,
           NEW e, NEW s \in {"RUNNING", "FAILED", "STOPPED", "ROLLED_BACK"},
           \/ status' = status /\ ~Deploys(t)
           \/ /\ status' = [status EXCEPT ![e] = s]
              /\ e \in Deps /\ status[e] # "NONE" /\ ProjectOf[e] = ProjectOf[dep[t]]
              /\ Deploys(t) => e = dep[t]
              /\ s = "RUNNING" => Deploys(t)
              /\ s \in {"STOPPED", "ROLLED_BACK"} \/ ValidateTransition(status[e], s)
              /\ s = "ROLLED_BACK" => old[t] = e /\ dep[t] # e /\ status[dep[t]] = "RUNNING"
    PROVE  SvcInv' /\ Moves
<1>1. /\ pc'[t] = "idle" /\ "idle" \notin LockedPCs /\ dep'[t] = NoDep /\ kind' = kind
      /\ \A u \in Threads \ {t} : pc'[u] = pc[u] /\ dep'[u] = dep[u] /\ old'[u] = old[u]
  BY ZenonT(60) DEF Return, Goto, LockedPCs, DeployPCs, SvcInv, Types
<1>2. /\ dep[t] \in Deps /\ ProjectOf[dep[t]] \in Projects
  BY Zenon, HandlerFacts
<1>3. \A q \in Projects \ {ProjectOf[dep[t]]} : lock'[q] = lock[q]
  BY ZenonT(60), <1>2 DEF Return, SvcInv, Types
<1>4. Types'
  <2>1. /\ status' \in [Deps -> Statuses \cup {"NONE"}] /\ lock' \in [Projects -> Threads \cup {NoThread}]
        /\ pc' \in [Threads -> LockedPCs \cup {"idle", "lock"}] /\ kind' \in [Threads -> OpKinds]
        /\ dep' \in [Threads -> Deps \cup {NoDep}] /\ old' \in [Threads -> Deps \cup {NoDep}]
    BY <1>1, <1>2 DEF Return, Goto, SvcInv, Types, Statuses
  <2>2. /\ \A u \in Threads : pc'[u] # "idle" => dep'[u] \in Deps
        /\ \A u \in Threads : pc'[u] \in {"queued", "building", "built", "scheduling"}
                                => kind'[u] \in {"create", "rollback"}
        /\ \A u \in Threads : pc'[u] \in DeployPCs => kind'[u] # "stop"
        /\ \A u \in Threads : pc'[u] \in {"stop", "stopped"} => kind'[u] # "create"
    BY <1>1 DEF SvcInv, Types, LockedPCs
  <2> QED
    BY Zenon, <2>1, <2>2 DEF Types
<1>5. \A d \in Deps : /\ status'[d] = status[d] \/ (d = e /\ status'[d] = s)
                      /\ status'[d] = status[d] \/ ProjectOf[d] = ProjectOf[dep[t]]
                      /\ status'[d] = "NONE" <=> status[d] = "NONE"
  BY Zenon DEF SvcInv, Types
<1>6. \A d \in Deps : IsInFlight(status'[d]) => IsInFlight(status[d]) /\ ~Owns(t, d)
  <2> SUFFICES ASSUME NEW d \in Deps, IsInFlight(status'[d])
               PROVE  IsInFlight(status[d]) /\ ~Owns(t, d)
    BY ZenonT(60)
  <2>1. status'[d] = status[d]
    BY Zenon, <1>5 DEF IsInFlight
  <2>2. ~Owns(t, d)
    BY DEF Owns, Deploys, IsInFlight, SvcInv, Types
  <2> QED
    BY Zenon, <2>1, <2>2
<1>7. ~Deploys(t)'
  BY ZenonT(60), <1>1 DEF Deploys, DeployPCs
<1>s. Stage(t)'
  BY Zenon, <1>1 DEF Stage
<1>8. SvcInv'
  BY ZenonT(60), <1>1, <1>2, <1>3, <1>4, <1>5, <1>6, <1>7, <1>s, ThreadStep
<1>9. Deploys(t) => IsInFlight(status[dep[t]])
  BY Zenon DEF SvcInv, InFlight
<1>10. RestKept
  BY Zenon, <1>5, <1>9 DEF RestKept, IsTerminal, IsInFlight, SvcInv, Types
<1>11. LegalKept
  BY Zenon, <1>5 DEF LegalKept, ValidateTransition
<1>12. ContinuityKept
  BY Zenon, <1>5 DEF ContinuityKept
<1> QED
  BY ZenonT(60), <1>8, <1>10, <1>11, <1>12 DEF Moves

\* A rollback's new deployment runs: its owner turns to the superseded one.
LEMMA RestoreStep ==
    ASSUME SvcInv, NEW t \in Threads, pc[t] = "place", kind[t] = "rollback",
           pc' = [pc EXCEPT ![t] = "stop"], status' = [status EXCEPT ![dep[t]] = "RUNNING"],
           UNCHANGED <<lock, kind, dep, old, phase>>
    PROVE  SvcInv' /\ Moves
<1>1. /\ pc[t] \in LockedPCs /\ pc[t] # "idle" /\ pc'[t] = "stop" /\ "stop" \in LockedPCs
      /\ "stop" \notin DeployPCs /\ Deploys(t)
      /\ \A u \in Threads \ {t} : pc'[u] = pc[u]
  BY ZenonT(60) DEF LockedPCs, DeployPCs, SvcInv, Types, Deploys
<1>2. /\ dep[t] \in Deps /\ lock[ProjectOf[dep[t]]] = t
      /\ IsInFlight(status[dep[t]])
  BY Zenon, <1>1, HandlerFacts DEF SvcInv, InFlight
<1>3. \A e \in Deps : status'[e] = IF e = dep[t] THEN "RUNNING" ELSE status[e]
  BY ZenonT(60) DEF SvcInv, Types
<1>4. Types'
  BY ZenonT(60), <1>1, <1>2 DEF SvcInv, Types, LockedPCs, DeployPCs, Statuses
<1>5. /\ old[t] \in Deps /\ status'[old[t]] # "NONE" /\ old[t] # dep[t] /\ ProjectOf[old[t]] = ProjectOf[dep[t]]
  <2>1. /\ old[t] \in Deps /\ status[old[t]] # "NONE" /\ old[t] # dep[t] /\ ProjectOf[old[t]] = ProjectOf[dep[t]]
    BY Zenon, <1>1 DEF SvcInv, Superseded
  <2> QED
    BY Zenon, <1>3, <2>1
<1>6. ~Deploys(t)'
  BY Zenon, <1>1 DEF Deploys
<1>7. \A e \in Deps : IsInFlight(status'[e]) => IsInFlight(status[e]) /\ ~Owns(t, e)
  BY <1>3 DEF Owns, IsInFlight
<1>8. \A e \in Deps : status'[e] = "NONE" <=> status[e] = "NONE"
  <2>1. status[dep[t]] # "NONE"
    BY Zenon, <1>2 DEF IsInFlight
  <2>2. status'[dep[t]] = "RUNNING"
    BY Zenon, <1>2, <1>3
  <2>3. \A e \in Deps : e # dep[t] => status'[e] = status[e]
    BY Zenon, <1>3
  <2> QED
    BY Zenon, <2>1, <2>2, <2>3
<1>s. Stage(t)'
  BY Zenon, <1>1, <1>2, <1>3 DEF Stage
<1>9. SvcInv'
  <2>1. \A u \in Threads \ {t} : /\ pc'[u] = pc[u] /\ kind'[u] = kind[u]
                                   /\ dep'[u] = dep[u] /\ old'[u] = old[u]
    BY Zenon, <1>1
  <2>2. /\ lock[ProjectOf[dep[t]]] \in {t, NoThread} /\ pc'[t] # "lock"
        /\ lock' = lock /\ dep' = dep /\ old' = old /\ phase' = phase
    BY Zenon, <1>1, <1>2
  <2>3. status'[dep[t]] # "NONE"
    BY <1>2, <1>3
  <2>4. \A e \in Deps : status'[e] = status[e] \/ ProjectOf[e] = ProjectOf[dep[t]]
    BY Zenon, <1>3
  <2> QED
    BY ZenonT(60), <1>2, <1>4, <1>5, <1>6, <1>7, <1>8, <1>s, <2>1, <2>2, <2>3, <2>4, ThreadStep
<1>10. RestKept
  BY Zenon, <1>2, <1>3 DEF RestKept, IsTerminal, IsInFlight
<1>11. status[dep[t]] = "STARTING"
  BY Zenon DEF SvcInv, Stages, Stage
<1>12. LegalKept
  BY Zenon, <1>3, <1>11 DEF LegalKept, ValidateTransition, legalTransitions
<1>13. ContinuityKept
  BY <1>3 DEF ContinuityKept
<1> QED
  BY Zenon, <1>9, <1>10, <1>12, <1>13 DEF Moves

\* A request that arrives waits for its lock and owns nothing yet.
LEMMA CallStep ==
    ASSUME SvcInv, NEW t \in Threads, NEW k \in Ops, NEW d \in Deps, NEW n \in Targets,
           Call(t, k, d, n)
    PROVE  SvcInv' /\ Moves
<1>1. /\ phase = "serving" /\ pc[t] = "idle" /\ pc'[t] = "lock" /\ dep'[t] = d /\ kind'[t] = k
      /\ \A u \in Threads \ {t} : pc'[u] = pc[u] /\ dep'[u] = dep[u] /\ kind'[u] = kind[u]
      /\ lock' = lock /\ old' = old /\ status' = status /\ phase' = phase
  BY DEF Call, Goto, clusterVars, SvcInv, Types
<1>2. /\ k = "create" => status[d] = "NONE" /\ \A u \in Threads : dep[u] # d
      /\ k # "create" => status[d] # "NONE"
  BY Zenon DEF Call, Fresh
<1>3. Types'
  BY ZenonT(60), <1>1, ServiceAssumption DEF Call, Goto, SvcInv, Types, LockedPCs, DeployPCs
<1>4. Holds' /\ Exists' /\ InFlight'
  BY Zenon, <1>1 DEF SvcInv, Holds, Exists, InFlight, Deploys, LockedPCs, DeployPCs
<1>5. Waiting'
  <2> SUFFICES ASSUME NEW u \in Threads, pc'[u] = "lock"
               PROVE  IF kind'[u] = "create"
                        THEN status'[dep'[u]] = "NONE"
                             /\ \A v \in Threads \ {u} : dep'[v] # dep'[u]
                        ELSE status'[dep'[u]] # "NONE"
    BY Zenon DEF Waiting
  <2>1. CASE u = t
    BY ZenonT(60), <1>1, <1>2, <2>1
  <2>2. CASE u # t
    <3>1. IF kind[u] = "create"
            THEN status[dep[u]] = "NONE" /\ \A v \in Threads \ {u} : dep[v] # dep[u]
            ELSE status[dep[u]] # "NONE"
      BY ZenonT(60), <1>1, <2>2 DEF SvcInv, Waiting
    <3> QED
      BY ZenonT(60), <1>1, <1>2, <2>2, <3>1
  <2> QED
    BY Zenon, <2>1, <2>2
<1>6. Superseded'
  BY ZenonT(60), <1>1 DEF SvcInv, Superseded, LockedPCs, DeployPCs
<1>7. Stages'
  BY ZenonT(60), <1>1 DEF SvcInv, Stages, Stage
<1>8. InFlightOwned'
  <2> SUFFICES ASSUME NEW e \in Deps, IsInFlight(status[e])
               PROVE  \E u \in Threads : Owns(u, e)'
    BY ZenonT(60), <1>1 DEF InFlightOwned
  <2>1. PICK u \in Threads : Owns(u, e)
    BY Zenon, <1>1 DEF SvcInv, InFlightOwned
  <2>2. u # t
    BY Zenon, <1>1, <2>1 DEF Owns, DeployPCs
  <2>3. Owns(u, e)'
    BY Zenon, <1>1, <2>1, <2>2 DEF Owns
  <2> QED
    BY Zenon, <2>3
<1>9. Moves
  BY Zenon, <1>1, StillMoves
<1> QED
  BY Zenon, <1>3, <1>4, <1>5, <1>6, <1>7, <1>8, <1>9 DEF SvcInv

\* Every step of a handler is one of the kinds above.
LEMMA HandleStep ==
    ASSUME SvcInv, NEW t \in Threads, Handle(t)
    PROVE  SvcInv' /\ Moves
<1> USE DEF Goto, UpdateStatus
<1>t. /\ Types
      /\ pc[t] \in DeployPCs => pc[t] \in LockedPCs /\ pc[t] # "idle"
      /\ pc[t] \in {"stop", "stopped"} => pc[t] \in LockedPCs /\ pc[t] # "idle"
  BY Zenon DEF SvcInv, LockedPCs, DeployPCs
<1>l. pc[t] \in LockedPCs => /\ lock[ProjectOf[dep[t]]] = t /\ dep[t] \in Deps
                             /\ status[dep[t]] # "NONE"
  BY Zenon, HandlerFacts DEF LockedPCs, DeployPCs
<1>1. CASE CreateQueued(t)
  <2>1. pc[t] = "lock" /\ kind[t] = "create"
    BY Zenon, <1>1 DEF CreateQueued, Lock
  <2>2. /\ dep[t] \in Deps /\ status[dep[t]] = "NONE"
        /\ \A u \in Threads \ {t} : dep[u] # dep[t]
    BY Zenon, <2>1 DEF SvcInv, Waiting, Types
  <2>3. dep' = [dep EXCEPT ![t] = dep[t]]
    BY Zenon, <1>1, <1>t DEF CreateQueued, Types
  <2> QED
    BY ZenonT(60), <1>1, <2>1, <2>2, <2>3, QueueStep DEF CreateQueued
<1>g. Stage(t)
  BY Zenon DEF SvcInv, Stages
<1>2. CASE BuildStart(t)
  <2>1. <<pc[t], "building", "BUILDING">> \in DeployPath
    BY Zenon, <1>2 DEF BuildStart, DeployPath
  <2> QED
    BY Zenon, <1>2, <2>1, AdvanceStep DEF BuildStart, Stay, DeployPCs
<1>i. Deploys(t) => ValidateTransition(status[dep[t]], "FAILED")
  BY Zenon DEF SvcInv, InFlight, IsInFlight, ValidateTransition, legalTransitions
<1>3. CASE BuildFails(t)
  <2>1. pc[t] \in DeployPCs /\ Deploys(t) /\ pc[t] # "idle"
    BY Zenon, <1>3, <1>t DEF BuildFails, DeployPCs, Deploys, Types
  <2> QED
    BY ZenonT(60), <1>3, <2>1, <1>t, <1>l, <1>i, LeaveStep DEF BuildFails
<1>4. CASE BuildDone(t)
  <2>1. <<pc[t], "built", "BUILT">> \in DeployPath
    BY Zenon, <1>4 DEF BuildDone, DeployPath
  <2> QED
    BY Zenon, <1>4, <1>t, <2>1, AdvanceStep DEF BuildDone, Stay, DeployPCs, Types
<1>5. CASE ToScheduling(t)
  <2>1. <<pc[t], "scheduling", "SCHEDULING">> \in DeployPath
    BY Zenon, <1>5 DEF ToScheduling, DeployPath
  <2> QED
    BY ZenonT(60), <1>5, <1>t, <2>1, AdvanceStep DEF ToScheduling, Stay, DeployPCs, Types
<1>6. CASE ToStarting(t)
  <2>1. <<pc[t], "place", "STARTING">> \in DeployPath
    BY Zenon, <1>6 DEF ToStarting, DeployPath
  <2> QED
    BY ZenonT(60), <1>6, <1>t, <2>1, AdvanceStep DEF ToStarting, Stay, DeployPCs, Types
<1>7. CASE Place(t)
  BY ZenonT(60), <1>7, AdvanceStep DEF Place, Placing, Stay, DeployPCs
<1>k. pc[t] \in DeployPCs => kind[t] # "stop"
  BY Zenon DEF SvcInv, Types, DeployPCs
<1>f. ASSUME pc[t] \in {"place", "run"}, NEW i, Fail(t, i), phase' = phase
      PROVE  SvcInv' /\ Moves
  <2>1. pc[t] \in DeployPCs
    BY Zenon, <1>f DEF DeployPCs
  <2>2. CASE kind[t] = "scale"
    <3>1. ~Deploys(t)
      BY Zenon, <2>2 DEF Deploys
    <3> QED
      BY Zenon, <1>f, <2>1, <2>2, <3>1, <1>t, <1>l, LeaveStep DEF Fail
  <2>3. CASE kind[t] # "scale"
    <3>1. Deploys(t)
      BY Zenon, <1>f, <2>1, <2>3, <1>k, <1>t DEF Deploys, Types, OpKinds
    <3> QED
      BY ZenonT(60), <1>f, <2>1, <2>3, <3>1, <1>t, <1>l, <1>i, LeaveStep DEF Fail
  <2> QED
    BY Zenon, <2>2, <2>3
<1>8. CASE PlaceFails(t)
  BY ZenonT(60), <1>8, <1>f DEF PlaceFails, Placing
<1>9. CASE Run(t)
  BY ZenonT(60), <1>9, AdvanceStep DEF Run, Stay, DeployPCs, repoVars
<1>10. CASE RunFails(t)
  BY Zenon, <1>10, <1>f DEF RunFails
<1>11. CASE Record(t)
  BY Zenon, <1>11, AdvanceStep DEF Record, Stay, DeployPCs
<1>12. CASE Route(t)
  BY Zenon, <1>12, AdvanceStep DEF Route, Stay, DeployPCs, repoVars
<1>13. CASE FinishCreate(t)
  <2>1. pc[t] \in DeployPCs /\ Deploys(t)
    BY Zenon, <1>13 DEF FinishCreate, AllPlaced, DeployPCs, Deploys
  <2>2. ValidateTransition(status[dep[t]], "RUNNING")
    BY Zenon, <1>13, <1>g DEF FinishCreate, AllPlaced, Stage, ValidateTransition, legalTransitions
  <2> QED
    BY ZenonT(60), <1>13, <2>1, <2>2, <1>t, <1>l, LeaveStep DEF FinishCreate
<1>14. ASSUME NEW x \in loc[t].todo, StopCall(t, x)
       PROVE  SvcInv' /\ Moves
  BY Zenon, <1>14, StopStep DEF StopCall, Stay, repoVars
<1>15. CASE StopRecord(t)
  BY Zenon, <1>15, StopStep DEF StopRecord, Stay
<1>16. CASE StopLocked(t)
  BY Zenon, <1>16, TakeStep DEF StopLocked, clusterVars
<1>17. CASE FinishStop(t)
  <2>1. pc[t] = "stop" /\ ~Deploys(t)
    BY Zenon, <1>17 DEF FinishStop, AllStopped, Deploys, DeployPCs
  <2> QED
    BY ZenonT(60), <1>17, <2>1, <1>t, <1>l, LeaveStep DEF FinishStop
<1>18. CASE RollbackRefused(t)
  <2>1. pc[t] = "lock" /\ ~Deploys(t)
    BY Zenon, <1>18 DEF RollbackRefused, Deploys, DeployPCs
  <2> QED
    BY Zenon, <1>18, <2>1, LeaveStep DEF RollbackRefused, clusterVars
<1>19. CASE RollbackQueued(t)
  <2>1. PICK d \in Deps : /\ Fresh(d) /\ ProjectOf[d] = ProjectOf[dep[t]]
                          /\ dep' = [dep EXCEPT ![t] = d]
                          /\ status' = [status EXCEPT ![d] = "QUEUED"]
    BY Zenon, <1>19 DEF RollbackQueued
  <2>2. status[d] = "NONE" /\ \A u \in Threads : dep[u] # d
    BY Zenon, <2>1 DEF Fresh
  <2> QED
    BY Zenon, <1>19, <2>1, <2>2, QueueStep DEF RollbackQueued
<1>20. CASE Restored(t)
  BY Zenon, <1>20, RestoreStep DEF Restored, AllPlaced, Stay
<1>21. CASE FinishRollback(t)
  <2>1. pc[t] = "stop" /\ kind[t] = "rollback" /\ ~Deploys(t)
    BY Zenon, <1>21 DEF FinishRollback, AllStopped, Deploys, DeployPCs
  <2>2. /\ old[t] \in Deps /\ status[old[t]] # "NONE" /\ ProjectOf[old[t]] = ProjectOf[dep[t]]
        /\ old[t] # dep[t] /\ status[dep[t]] = "RUNNING"
    BY Zenon, <2>1, <1>t, <1>g DEF SvcInv, Superseded, Stage
  <2> QED
    BY ZenonT(60), <1>21, <2>1, <2>2, <1>t, <1>l, LeaveStep DEF FinishRollback
<1>22. CASE ScaleLocked(t)
  BY Zenon, <1>22, TakeStep DEF ScaleLocked, clusterVars
<1>23. CASE FinishScale(t)
  <2>1. pc[t] \in LockedPCs /\ pc[t] # "idle" /\ ~Deploys(t)
    BY ZenonT(60), <1>23 DEF FinishScale, AllPlaced, AllStopped, LockedPCs, DeployPCs, Deploys
  <2> QED
    BY ZenonT(60), <1>23, <2>1, <1>l, LeaveStep DEF FinishScale
<1> QED
  BY ZenonT(60), <1>1, <1>2, <1>3, <1>4, <1>5, <1>6, <1>7, <1>8, <1>9, <1>10, <1>11, <1>12, <1>13, <1>14,
     <1>15, <1>16, <1>17, <1>18, <1>19, <1>20, <1>21, <1>22, <1>23 DEF Handle

-----------------------------------------------------------------------------
(* The instance records *)

\* The laws of counting that the proofs below go by.  They are facts about finite
\* sets that CountingLaws in ControlPlane_proofs proves, where the theorems that
\* rest on them are stated; Numbered carries them to the lemmas.
Counting ==
    /\ \A d : \A k \in Nat : IsFiniteSet({d} \X (1..k)) /\ Cardinality({d} \X (1..k)) = k
    /\ \A S : IsFiniteSet(S) => Cardinality(S) \in Nat
    /\ \A S, T : IsFiniteSet(S) /\ T \subseteq S =>
                   /\ IsFiniteSet(T) /\ Cardinality(T) <= Cardinality(S)
                   /\ Cardinality(S \ T) = Cardinality(S) - Cardinality(T)
    /\ \A S, x : IsFiniteSet(S) /\ x \notin S => Cardinality(S \cup {x}) = Cardinality(S) + 1

\* The number of instances ever created for a deployment, which are numbered
\* from 1 without gaps.
Made(d) == Cardinality(Instances(d))
Numbered(d) == Counting /\ \E k \in 0..MaxInst : Instances(d) = {d} \X (1..k)

\* The instance is recorded RUNNING on a worker.
Up(i) == inst[i].status = "RUNNING" /\ inst[i].worker \in Workers

\* The deployment whose instances a handler stops.
Target(t) == IF kind[t] = "rollback" THEN old[t] ELSE dep[t]

\* A handler that brings up a deployment has started every instance it created,
\* but the one in hand; one that dispatches knows the worker; one that stops
\* instances has only its target's on its list.
Bringing(t) ==
    /\ Deploys(t) =>
         /\ count[dep[t]] = loc[t].last
         /\ pc[t] \in {"queued", "building", "built", "scheduling"} => Instances(dep[t]) = {}
         /\ \A i \in Instances(dep[t]) :
              Up(i) \/ (pc[t] \in {"run", "record"} /\ i = Newest(dep[t]))
    /\ pc[t] \in {"run", "record", "route"} =>
         loc[t].w \in Workers /\ Newest(dep[t]) \in Instances(dep[t])
    /\ pc[t] \notin {"stop", "stopped"} => loc[t].todo = {}
    /\ pc[t] # "stopped" => loc[t].hit = {}
    /\ \A x \in loc[t].todo \cup loc[t].hit : x[1] \in Instances(Target(t))

Created == \A d \in Deps : /\ Numbered(d)
                           /\ status[d] = "NONE" => Instances(d) = {}

TypeInv == ClusterTypeOK /\ ServiceTypeOK

BackInv == TypeInv /\ Created /\ \A t \in Threads : Bringing(t)

-----------------------------------------------------------------------------
\* The first k instances of a deployment are k.
LEMMA Prefix ==
    ASSUME Counting, NEW d, NEW k \in Nat
    PROVE  IsFiniteSet({d} \X (1..k)) /\ Cardinality({d} \X (1..k)) = k
  BY Zenon DEF Counting

\* A part of a finite set.
LEMMA Part ==
    ASSUME Counting, NEW S, NEW T, IsFiniteSet(S), T \subseteq S
    PROVE  /\ IsFiniteSet(T) /\ Cardinality(S) \in Nat /\ Cardinality(T) \in Nat
           /\ Cardinality(T) <= Cardinality(S)
           /\ Cardinality(S \ T) = Cardinality(S) - Cardinality(T)
  BY Zenon DEF Counting

\* ListByDeployment returns the first Made(d) instances.
LEMMA MadeFacts ==
    ASSUME NEW d \in Deps, Numbered(d)
    PROVE  /\ Made(d) \in 0..MaxInst /\ Instances(d) = {d} \X (1..Made(d))
           /\ IsFiniteSet(Instances(d))
<1>1. PICK k \in 0..MaxInst : Instances(d) = {d} \X (1..k)
  BY Zenon DEF Numbered
<1>2. k \in Nat /\ Counting
  BY ClusterAssumption DEF Numbered
<1>3. IsFiniteSet(Instances(d)) /\ Cardinality(Instances(d)) = k
  <2>1. IsFiniteSet({d} \X (1..k)) /\ Cardinality({d} \X (1..k)) = k
    BY Zenon, <1>2, Prefix
  <2> QED
    BY Zenon, <1>1, <2>1
<1> QED
  BY Zenon, <1>1, <1>3 DEF Made

\* Writing a record that exists changes no list.
LEMMA InstRewritten ==
    ASSUME ClusterTypeOK, NEW i \in Insts, inst[i].status # "NONE", NEW s \in InstStatuses \ {"NONE"},
           NEW w, SetInst(i, s, w)
    PROVE  /\ \A d \in Deps : Instances(d)' = Instances(d)
           /\ inst'[i] = [status |-> s, worker |-> w]
           /\ \A j \in Insts : j # i => inst'[j] = inst[j]
<1>1. /\ inst'[i] = [status |-> s, worker |-> w]
      /\ \A j \in Insts : j # i => inst'[j] = inst[j]
  BY Zenon DEF SetInst, ClusterTypeOK
<1>2. \A j \in Insts : inst'[j].status # "NONE" <=> inst[j].status # "NONE"
  BY <1>1
<1>3. \A d \in Deps : Instances(d)' = Instances(d)
  BY Zenon, <1>2 DEF Instances
<1> QED
  BY Zenon, <1>1, <1>3

\* Creating the next record adds it to its deployment's list.
LEMMA InstCreated ==
    ASSUME ClusterTypeOK, NEW d \in Deps, Numbered(d), Made(d) < MaxInst,
           NEW s \in InstStatuses \ {"NONE"}, NEW w, SetInst(<<d, Made(d) + 1>>, s, w)
    PROVE  /\ <<d, Made(d) + 1>> \in Insts \ Instances(d)
           /\ Instances(d)' = Instances(d) \cup {<<d, Made(d) + 1>>}
           /\ Numbered(d)' /\ Made(d)' = Made(d) + 1
           /\ \A e \in Deps \ {d} : Instances(e)' = Instances(e)
           /\ inst'[<<d, Made(d) + 1>>] = [status |-> s, worker |-> w]
           /\ \A j \in Insts : j # <<d, Made(d) + 1>> => inst'[j] = inst[j]
<1>1. PICK k \in 0..MaxInst : k = Made(d)
  BY Zenon, MadeFacts
<1>2. Instances(d) = {d} \X (1..k) /\ k < MaxInst /\ k + 1 \in 1..MaxInst
  BY <1>1, MadeFacts, ClusterAssumption
<1> DEFINE i == <<d, k + 1>>
<1>3. i \in Insts /\ i \notin Instances(d)
  BY <1>2 DEF Insts
<1>4. /\ inst'[i] = [status |-> s, worker |-> w]
      /\ \A j \in Insts : j # i => inst'[j] = inst[j]
  BY Zenon, <1>1, <1>3 DEF SetInst, ClusterTypeOK
<1>5. /\ Instances(d)' = Instances(d) \cup {i}
      /\ \A e \in Deps \ {d} : Instances(e)' = Instances(e)
  <2>1. inst'[i].status # "NONE" /\ DepOf(i) = d
    BY <1>4 DEF DepOf
  <2> QED
    BY <1>3, <1>4, <2>1 DEF Instances
<1>6. Instances(d)' = {d} \X (1..(k + 1))
  BY <1>2, <1>5
<1>7. Numbered(d)' /\ Made(d)' = k + 1
  <2>1. k + 1 \in Nat /\ k + 1 \in 0..MaxInst
    BY <1>2
  <2>c. Counting
    BY Zenon DEF Numbered
  <2>2. Cardinality({d} \X (1..(k + 1))) = k + 1
    BY Zenon, <2>1, <2>c, Prefix
  <2> QED
    BY Zenon, <1>6, <2>1, <2>2, <2>c DEF Numbered, Made
<1> QED
  BY <1>1, <1>3, <1>4, <1>5, <1>7

-----------------------------------------------------------------------------

\* A handler's locals.
Locals == [seen: Statuses \cup {"NONE"}, n: 0..MaxInst, last: 0..MaxInst,
           w: Workers \cup {NoWorker},
           todo: SUBSET (Insts \X (Workers \cup {NoWorker})),
           hit: SUBSET (Insts \X (Workers \cup {NoWorker}))]

\* The types of what the status invariant does not mention.
RestTypes ==
    /\ count \in [Deps -> 0..MaxInst]
    /\ inst \in [Insts -> [status: InstStatuses, worker: Workers \cup {NoWorker}]]
    /\ releases \subseteq Deps
    /\ health \in [Workers -> Healths] /\ draining \subseteq Workers
    /\ load \in [Workers -> Nat]
    /\ routes \subseteq Insts
    /\ node \in [Workers -> [Insts -> Nodes]]
    /\ late \subseteq Workers \X Insts
    /\ phase \in {"recovering", "reconciling", "serving"}
    /\ events \in 0..MaxEvents
    /\ loc \in [Threads -> Locals]
    /\ calls \in 0..MaxCalls

LEMMA RestTypesOK == Types => (RestTypes <=> TypeInv)
BY Zenon DEF Types, RestTypes, Locals, TypeInv, ClusterTypeOK, ServiceTypeOK

\* A node stays a node.
LEMMA NodeOps ==
    ASSUME NEW n \in Nodes
    PROVE  Ran(n) \in Nodes /\ Refused(n) \in Nodes /\ Unstarted(n) \in Nodes /\ Stopped(n) \in Nodes
<1>1. Listed(n) \in BOOLEAN
  BY Zenon DEF Nodes, Listed
<1>2. Ran(n) \in Nodes /\ Refused(n) \in Nodes /\ Unstarted(n) \in Nodes
  BY Zenon, <1>1 DEF Ran, Refused, Unstarted, Nodes
<1>3. Stopped(n) \in Nodes
  BY Zenon DEF Stopped, Nodes
<1> QED
  BY Zenon, <1>2, <1>3

LEMMA ApplyType ==
    ASSUME RestTypes, NEW w \in Workers, NEW i \in Insts, NEW n \in Nodes, Apply(w, i, n)
    PROVE  /\ node' \in [Workers -> [Insts -> Nodes]]
           /\ node'[w][i] = n
           /\ \A v \in Workers, j \in Insts : <<v, j>> # <<w, i>> => node'[v][j] = node[v][j]
BY Zenon DEF RestTypes, Apply

LEMMA CallRunType ==
    ASSUME RestTypes, NEW w \in Workers, NEW i \in Insts, NEW ok, CallRun(w, i, ok)
    PROVE  /\ node' \in [Workers -> [Insts -> Nodes]] /\ late' \subseteq Workers \X Insts
           /\ events' \in 0..MaxEvents
<1>1. node[w][i] \in Nodes
  BY DEF RestTypes
<1>2. Ran(node[w][i]) \in Nodes /\ Refused(node[w][i]) \in Nodes /\ Unstarted(node[w][i]) \in Nodes
  BY Zenon, <1>1, NodeOps
<1>3. node' \in [Workers -> [Insts -> Nodes]]
  <2>1. CASE \/ Apply(w, i, Ran(node[w][i])) \/ Apply(w, i, Refused(node[w][i]))
            \/ Apply(w, i, Unstarted(node[w][i]))
    BY Zenon, <1>2, <2>1, ApplyType
  <2>2. CASE node' = node
    BY Zenon, <2>2 DEF RestTypes
  <2> QED
    BY Zenon, <2>1, <2>2 DEF CallRun
<1>4. late' \subseteq Workers \X Insts /\ events' \in 0..MaxEvents
  BY ClusterAssumption DEF CallRun, RestTypes, Happens, Count
<1> QED
  BY Zenon, <1>3, <1>4

LEMMA CallStopType ==
    ASSUME RestTypes, NEW w \in Workers, NEW i \in Insts, CallStop(w, i)
    PROVE  node' \in [Workers -> [Insts -> Nodes]] /\ events' \in 0..MaxEvents
<1>1. node[w][i] \in Nodes
  BY DEF RestTypes
<1>2. Stopped(node[w][i]) \in Nodes
  BY Zenon, <1>1, NodeOps
<1>3. CASE Apply(w, i, Stopped(node[w][i])) /\ UNCHANGED events
  BY Zenon, <1>2, <1>3, ApplyType DEF RestTypes
<1>4. CASE Happens("lost") /\ Count /\ UNCHANGED node
  BY <1>4, ClusterAssumption DEF RestTypes, Happens, Count
<1> QED
  BY Zenon, <1>3, <1>4 DEF CallStop

LEMMA SetInstType ==
    ASSUME RestTypes, NEW i, NEW s \in InstStatuses, NEW w \in Workers \cup {NoWorker}, SetInst(i, s, w)
    PROVE  inst' \in [Insts -> [status: InstStatuses, worker: Workers \cup {NoWorker}]]
BY Zenon DEF RestTypes, SetInst

\* An event that still may happen is counted.
LEMMA EventCounted ==
    ASSUME events \in 0..MaxEvents, NEW e, UNCHANGED events \/ (Happens(e) /\ Count)
    PROVE  events' \in 0..MaxEvents
  BY ClusterAssumption DEF Happens, Count

LEMMA OneTimes == \A k \in Nat : 1 * k = k
  OBVIOUS

LEMMA NoLocalsType == NoLocals \in Locals
<1>1. /\ "NONE" \in Statuses \cup {"NONE"} /\ 0 \in 0..MaxInst /\ NoWorker \in Workers \cup {NoWorker}
      /\ {} \in SUBSET (Insts \X (Workers \cup {NoWorker}))
  BY ClusterAssumption
<1> QED
  BY Zenon, <1>1 DEF NoLocals, Locals

LEMMA ReturnType ==
    ASSUME RestTypes, NEW t \in Threads, Return(t)
    PROVE  /\ loc' \in [Threads -> Locals]
           /\ calls' \in 0..MaxCalls
BY Zenon, NoLocalsType DEF RestTypes, Return

LEMMA AsReadType ==
    ASSUME RestTypes, NEW is \in SUBSET Insts
    PROVE  AsRead(is) \in SUBSET (Insts \X (Workers \cup {NoWorker}))
BY DEF RestTypes, AsRead

\* One local replaced.
LEMMA LocFields ==
    ASSUME NEW l \in Locals
    PROVE  /\ \A k \in 0..MaxInst : [l EXCEPT !.last = k] \in Locals
           /\ \A w \in Workers \cup {NoWorker} : [l EXCEPT !.w = w] \in Locals
           /\ \A x \in SUBSET (Insts \X (Workers \cup {NoWorker})) : [l EXCEPT !.todo = x] \in Locals
           /\ \A x \in SUBSET (Insts \X (Workers \cup {NoWorker})) : [l EXCEPT !.hit = x] \in Locals
           /\ \A x, y \in SUBSET (Insts \X (Workers \cup {NoWorker})) :
                [l EXCEPT !.todo = x, !.hit = y] \in Locals
           /\ l.last \in 0..MaxInst /\ l.n \in 0..MaxInst /\ l.w \in Workers \cup {NoWorker}
           /\ l.todo \subseteq Insts \X (Workers \cup {NoWorker})
           /\ l.hit \subseteq Insts \X (Workers \cup {NoWorker})
BY ZenonT(60) DEF Locals

\* A step of handler t sets some of its locals and leaves the others' alone.
LocSet(t, l) == loc' \in [Threads -> Locals] /\ loc'[t] = l /\ \A u \in Threads \ {t} : loc'[u] = loc[u]

LEMMA LocSteps ==
    ASSUME RestTypes, NEW t \in Threads
    PROVE  /\ \A k \in 0..MaxInst :
                loc' = [loc EXCEPT ![t].last = k] => LocSet(t, [loc[t] EXCEPT !.last = k])
           /\ \A w \in Workers \cup {NoWorker} :
                loc' = [loc EXCEPT ![t].w = w] => LocSet(t, [loc[t] EXCEPT !.w = w])
           /\ \A x \in SUBSET (Insts \X (Workers \cup {NoWorker})) :
                loc' = [loc EXCEPT ![t].todo = x] => LocSet(t, [loc[t] EXCEPT !.todo = x])
           /\ \A x \in SUBSET (Insts \X (Workers \cup {NoWorker})) :
                loc' = [loc EXCEPT ![t].hit = x] => LocSet(t, [loc[t] EXCEPT !.hit = x])
           /\ \A x, y \in SUBSET (Insts \X (Workers \cup {NoWorker})) :
                loc' = [loc EXCEPT ![t].todo = x, ![t].hit = y]
                  => LocSet(t, [loc[t] EXCEPT !.todo = x, !.hit = y])
<1>1. loc[t] \in Locals /\ loc \in [Threads -> Locals]
  BY Zenon DEF RestTypes
<1>2. \A l \in Locals : loc' = [loc EXCEPT ![t] = l] => LocSet(t, l)
  BY Zenon, <1>1 DEF LocSet
<1>3. /\ \A k : [loc EXCEPT ![t].last = k] = [loc EXCEPT ![t] = [loc[t] EXCEPT !.last = k]]
      /\ \A k : [loc EXCEPT ![t].w = k] = [loc EXCEPT ![t] = [loc[t] EXCEPT !.w = k]]
      /\ \A k : [loc EXCEPT ![t].todo = k] = [loc EXCEPT ![t] = [loc[t] EXCEPT !.todo = k]]
      /\ \A k : [loc EXCEPT ![t].hit = k] = [loc EXCEPT ![t] = [loc[t] EXCEPT !.hit = k]]
      /\ \A x, y : [loc EXCEPT ![t].todo = x, ![t].hit = y]
                   = [loc EXCEPT ![t] = [loc[t] EXCEPT !.todo = x, !.hit = y]]
  BY Zenon, <1>1
<1>4. /\ \A k \in 0..MaxInst : [loc[t] EXCEPT !.last = k] \in Locals
      /\ \A w \in Workers \cup {NoWorker} : [loc[t] EXCEPT !.w = w] \in Locals
      /\ \A x \in SUBSET (Insts \X (Workers \cup {NoWorker})) : [loc[t] EXCEPT !.todo = x] \in Locals
      /\ \A x \in SUBSET (Insts \X (Workers \cup {NoWorker})) : [loc[t] EXCEPT !.hit = x] \in Locals
      /\ \A x, y \in SUBSET (Insts \X (Workers \cup {NoWorker})) :
           [loc[t] EXCEPT !.todo = x, !.hit = y] \in Locals
  BY Zenon, <1>1, LocFields
<1>5. \A k \in 0..MaxInst : loc' = [loc EXCEPT ![t].last = k] => LocSet(t, [loc[t] EXCEPT !.last = k])
  BY Zenon, <1>2, <1>3, <1>4
<1>6. \A w \in Workers \cup {NoWorker} :
        loc' = [loc EXCEPT ![t].w = w] => LocSet(t, [loc[t] EXCEPT !.w = w])
  BY Zenon, <1>2, <1>3, <1>4
<1>7. /\ \A x \in SUBSET (Insts \X (Workers \cup {NoWorker})) :
           loc' = [loc EXCEPT ![t].todo = x] => LocSet(t, [loc[t] EXCEPT !.todo = x])
      /\ \A x \in SUBSET (Insts \X (Workers \cup {NoWorker})) :
           loc' = [loc EXCEPT ![t].hit = x] => LocSet(t, [loc[t] EXCEPT !.hit = x])
  BY Zenon, <1>2, <1>3, <1>4
<1>8. \A x, y \in SUBSET (Insts \X (Workers \cup {NoWorker})) :
        loc' = [loc EXCEPT ![t].todo = x, ![t].hit = y] => LocSet(t, [loc[t] EXCEPT !.todo = x, !.hit = y])
  <2> SUFFICES ASSUME NEW x \in SUBSET (Insts \X (Workers \cup {NoWorker})),
                      NEW y \in SUBSET (Insts \X (Workers \cup {NoWorker})),
                      loc' = [loc EXCEPT ![t].todo = x, ![t].hit = y]
               PROVE  LocSet(t, [loc[t] EXCEPT !.todo = x, !.hit = y])
    BY Zenon
  <2>1. PICK l : l = [loc[t] EXCEPT !.todo = x, !.hit = y]
    BY Zenon
  <2>2. l \in Locals
    BY Zenon, <1>4, <2>1
  <2>3. loc' = [loc EXCEPT ![t] = l]
    BY Zenon, <1>3, <2>1
  <2> QED
    BY Zenon, <1>2, <2>1, <2>2, <2>3
<1> QED
  BY Zenon, <1>5, <1>6, <1>7, <1>8

\* Every active instance is counted once.
LEMMA ActiveFacts ==
    ASSUME NEW d \in Deps, Numbered(d)
    PROVE  /\ IsFiniteSet(Active(d)) /\ Active(d) \subseteq Instances(d)
           /\ Cardinality(Active(d)) \in Nat /\ Cardinality(Active(d)) <= Made(d)
<1>1. IsFiniteSet(Instances(d)) /\ Active(d) \subseteq Instances(d)
  BY Zenon, MadeFacts DEF Active
<1>2. Counting
  BY Zenon DEF Numbered
<1>3. /\ IsFiniteSet(Active(d)) /\ Cardinality(Active(d)) <= Cardinality(Instances(d))
      /\ Cardinality(Active(d)) \in Nat
  BY Zenon, <1>1, <1>2, Part
<1> QED
  BY Zenon, <1>1, <1>3 DEF Made

LEMMA HandleTypes ==
    ASSUME SvcInv, BackInv, NEW t \in Threads, Handle(t)
    PROVE  RestTypes'
<1>r. RestTypes /\ Types
  BY Zenon, RestTypesOK DEF SvcInv, BackInv
<1>d. pc[t] # "idle" => dep[t] \in Deps /\ Instances(dep[t]) \subseteq Insts
  BY Zenon, HandlerFacts DEF Instances
<1>n. dep[t] \in Deps => Numbered(dep[t])
  BY DEF BackInv, Created
<1>v. /\ loc[t] \in Locals /\ loc[t].n \in 0..MaxInst
      /\ loc[t].todo \subseteq Insts \X (Workers \cup {NoWorker})
      /\ loc[t].hit \subseteq Insts \X (Workers \cup {NoWorker})
  BY Zenon, <1>r, LocFields DEF RestTypes
<1>w. pc[t] \in {"run", "record", "route"} => loc[t].w \in Workers /\ Newest(dep[t]) \in Insts
  BY Zenon DEF BackInv, Bringing, Instances
<1>1. CASE CreateQueued(t)
  <2>1. loc' \in [Threads -> Locals]
    BY ZenonT(60), <1>1, <1>v, <1>r, LocSteps DEF CreateQueued, LocSet
  <2> QED
    BY Zenon, <1>1, <1>v, <1>r, <2>1 DEF RestTypes, CreateQueued, Lock, fleetVars, nodeVars
<1>2. CASE BuildStart(t)
  BY Zenon, <1>2, <1>r DEF RestTypes, BuildStart, Stay, fleetVars, nodeVars
<1>3. CASE BuildFails(t)
  BY <1>3, <1>r, ReturnType DEF RestTypes, BuildFails, fleetVars, nodeVars
<1>4. CASE BuildDone(t)
  BY Zenon, <1>4, <1>r DEF RestTypes, BuildDone, Stay, fleetVars, nodeVars
<1>5. CASE ToScheduling(t)
  BY Zenon, <1>5, <1>r, <1>d DEF RestTypes, ToScheduling, Stay, fleetVars, nodeVars
<1>6. CASE ToStarting(t)
  BY Zenon, <1>6, <1>r DEF RestTypes, ToStarting, Stay, fleetVars, nodeVars
<1>7. CASE Place(t)
  <2>1. inst' \in [Insts -> [status: InstStatuses, worker: Workers \cup {NoWorker}]]
    BY Zenon, <1>7, <1>r, SetInstType DEF Place, InstStatuses
  <2>2. loc' \in [Threads -> Locals]
    <3>1. PICK w \in Feasible : loc' = [loc EXCEPT ![t].w = w]
      BY Zenon, <1>7 DEF Place
    <3>2. w \in Workers \cup {NoWorker}
      BY Zenon DEF Feasible
    <3> QED
      BY Zenon, <1>r, <3>1, <3>2, LocSteps DEF LocSet
  <2> QED
    BY Zenon, <1>7, <1>r, <2>1, <2>2 DEF RestTypes, Place, Stay, fleetVars, nodeVars
<1>8. CASE PlaceFails(t)
  <2>1. inst' \in [Insts -> [status: InstStatuses, worker: Workers \cup {NoWorker}]]
    BY ZenonT(60), <1>8, <1>r, SetInstType DEF PlaceFails, Fail, InstStatuses
  <2>2. Return(t)
    BY <1>8 DEF PlaceFails, Fail
  <2> QED
    BY Zenon, <1>8, <1>r, <2>1, <2>2, ReturnType DEF RestTypes, PlaceFails, fleetVars, nodeVars
<1>9. CASE Run(t)
  <2>1. /\ node' \in [Workers -> [Insts -> Nodes]] /\ late' \subseteq Workers \X Insts
        /\ events' \in 0..MaxEvents
    <3>1. CallRun(loc[t].w, Newest(dep[t]), TRUE) /\ loc[t].w \in Workers /\ Newest(dep[t]) \in Insts
      BY Zenon, <1>9, <1>w DEF Run
    <3> QED
      BY Zenon, <1>r, <3>1, CallRunType
  <2> QED
    BY Zenon, <1>9, <1>r, <2>1 DEF RestTypes, Run, Stay, fleetVars, repoVars
<1>10. CASE RunFails(t)
  <2>1. /\ node' \in [Workers -> [Insts -> Nodes]] /\ late' \subseteq Workers \X Insts
        /\ events' \in 0..MaxEvents
    <3>1. CallRun(loc[t].w, Newest(dep[t]), FALSE) /\ loc[t].w \in Workers /\ Newest(dep[t]) \in Insts
      BY Zenon, <1>10, <1>w DEF RunFails
    <3> QED
      BY Zenon, <1>r, <3>1, CallRunType
  <2>2. inst' \in [Insts -> [status: InstStatuses, worker: Workers \cup {NoWorker}]]
    BY Zenon, <1>10, <1>r, SetInstType DEF RunFails, Fail, InstStatuses
  <2>3. Return(t)
    BY Zenon, <1>10 DEF RunFails, Fail
  <2> QED
    BY <1>10, <1>r, <2>1, <2>2, <2>3, ReturnType DEF RestTypes, RunFails, fleetVars
<1>11. CASE Record(t)
  <2>1. inst' \in [Insts -> [status: InstStatuses, worker: Workers \cup {NoWorker}]]
    BY Zenon, <1>11, <1>r, <1>w, SetInstType DEF Record, InstStatuses
  <2> QED
    BY Zenon, <1>11, <1>r, <2>1 DEF RestTypes, Record, Stay, fleetVars, nodeVars
<1>12. CASE Route(t)
  <2>1. loc' \in [Threads -> Locals]
    BY Zenon, <1>12, <1>r, LocSteps DEF Route, LocSet
  <2>2. load' \in [Workers -> Nat] /\ routes' \subseteq Insts
    BY <1>12, <1>r, <1>w DEF RestTypes, Route, AddLoad
  <2> QED
    BY Zenon, <1>12, <1>r, <2>1, <2>2 DEF RestTypes, Route, Stay, repoVars, nodeVars
<1>13. CASE FinishCreate(t)
  BY <1>13, <1>r, ReturnType DEF RestTypes, FinishCreate, fleetVars, nodeVars
<1>14. ASSUME NEW x \in loc[t].todo, StopCall(t, x)
       PROVE  RestTypes'
  <2>1. x \in Insts \X (Workers \cup {NoWorker})
    BY Zenon, <1>14, <1>v
  <2>2. x[1] \in Insts /\ (x[2] = NoWorker \/ x[2] \in Workers)
    BY Zenon, <2>1
  <2>3. node' \in [Workers -> [Insts -> Nodes]] /\ events' \in 0..MaxEvents
    <3>1. CASE x[2] = NoWorker
      BY Zenon, <1>14, <1>r, <3>1 DEF StopCall, RestTypes
    <3>2. CASE x[2] # NoWorker
      BY Zenon, <1>14, <1>r, <2>2, <3>2, CallStopType DEF StopCall
    <3> QED
      BY Zenon, <3>1, <3>2
  <2>4. load' \in [Workers -> Nat] /\ routes' \subseteq Insts
    <3>1. load \in [Workers -> Nat] /\ routes \subseteq Insts
      BY Zenon, <1>r DEF RestTypes
    <3>2. /\ \/ load' = load
             \/ x[2] \in Workers /\ DropLoad(x[2])
          /\ routes' = routes \/ routes' = routes \ {x[1]}
      BY Zenon, <1>14, <2>2 DEF StopCall
    <3> QED
      BY <3>1, <3>2 DEF DropLoad
  <2>5. loc' \in [Threads -> Locals]
    <3>1. PICK y \in SUBSET (Insts \X (Workers \cup {NoWorker})) : y = loc[t].todo \ {x}
      BY Zenon, <1>v
    <3>2. loc' = [loc EXCEPT ![t].todo = y, ![t].hit = {x}]
      BY Zenon, <1>14, <1>r, <3>1 DEF StopCall, RestTypes
    <3>3. {x} \in SUBSET (Insts \X (Workers \cup {NoWorker}))
      BY Zenon, <2>1
    <3> QED
      BY ZenonT(60), <1>r, <3>2, <3>3, LocSteps DEF LocSet
  <2> QED
    BY Zenon, <1>14, <1>r, <2>3, <2>4, <2>5 DEF RestTypes, StopCall, Stay, repoVars
<1>15. CASE StopRecord(t)
  <2>1. inst' \in [Insts -> [status: InstStatuses, worker: Workers \cup {NoWorker}]]
        /\ routes' \subseteq Insts
    <3>1. PICK x \in loc[t].hit : /\ SetInst(x[1], "STOPPED", x[2])
                                  /\ routes' = IF kind[t] = "scale" THEN routes ELSE routes \ {x[1]}
      BY Zenon, <1>15 DEF StopRecord
    <3>2. x[2] \in Workers \cup {NoWorker} /\ "STOPPED" \in InstStatuses
      BY Zenon, <1>v DEF InstStatuses
    <3>3. inst' \in [Insts -> [status: InstStatuses, worker: Workers \cup {NoWorker}]]
      BY Zenon, <1>r, <3>1, <3>2, SetInstType
    <3>4. routes' \subseteq Insts
      BY Zenon, <1>r, <3>1 DEF RestTypes
    <3> QED
      BY Zenon, <3>3, <3>4
  <2>2. loc' \in [Threads -> Locals]
    <3>1. {} \in SUBSET (Insts \X (Workers \cup {NoWorker}))
      BY Zenon
    <3> QED
      BY Zenon, <1>15, <1>r, <3>1, LocSteps DEF StopRecord, LocSet
  <2> QED
    BY Zenon, <1>15, <1>r, <2>1, <2>2 DEF RestTypes, StopRecord, Stay, fleetVars, nodeVars
<1>16. CASE StopLocked(t)
  <2>1. AsRead(Instances(dep[t])) \in SUBSET (Insts \X (Workers \cup {NoWorker}))
    BY <1>16, <1>r, <1>d, AsReadType DEF StopLocked, Lock
  <2>2. loc' \in [Threads -> Locals]
    BY Zenon, <1>16, <1>r, <2>1, LocSteps DEF StopLocked, LocSet
  <2> QED
    BY Zenon, <1>16, <1>r, <2>2 DEF RestTypes, StopLocked, Lock, clusterVars
<1>17. CASE FinishStop(t)
  BY <1>17, <1>r, ReturnType DEF RestTypes, FinishStop, fleetVars, nodeVars
<1>18. CASE RollbackRefused(t)
  BY <1>18, <1>r, ReturnType DEF RestTypes, RollbackRefused, clusterVars
<1>19. CASE RollbackQueued(t)
  <2>1. PICK d \in Deps : count' = [count EXCEPT ![d] = loc[t].n]
    BY ZenonT(60), <1>19 DEF RollbackQueued
  <2>2. loc' \in [Threads -> Locals]
    <3>1. loc' = [loc EXCEPT ![t].last = loc[t].n]
      BY Zenon, <1>19 DEF RollbackQueued
    <3> QED
      BY Zenon, <3>1, <1>v, <1>r, LocSteps DEF LocSet
  <2> QED
    BY <1>19, <1>r, <1>v, <2>1, <2>2 DEF RestTypes, RollbackQueued, Lock, fleetVars, nodeVars
<1>20. CASE Restored(t)
  <2>1. AsRead(Instances(old[t])) \in SUBSET (Insts \X (Workers \cup {NoWorker}))
    BY Zenon, <1>r, AsReadType DEF Instances
  <2>2. loc' \in [Threads -> Locals]
    BY ZenonT(60), <1>20, <1>r, <2>1, LocSteps DEF Restored, LocSet
  <2> QED
    BY Zenon, <1>20, <1>r, <2>2 DEF RestTypes, Restored, Stay, fleetVars, nodeVars
<1>21. CASE FinishRollback(t)
  BY <1>21, <1>r, ReturnType DEF RestTypes, FinishRollback, fleetVars, nodeVars
<1>22. CASE ScaleLocked(t)
  <2>1. pc[t] = "lock" /\ dep[t] \in Deps /\ Numbered(dep[t])
    BY Zenon, <1>22, <1>d, <1>n DEF ScaleLocked, Lock
  <2>2. PICK have \in Nat : have = Cardinality(Active(dep[t])) /\ have <= Made(dep[t])
    BY Zenon, <2>1, ActiveFacts
  <2>3. PICK made \in 0..MaxInst : made = Cardinality(Instances(dep[t]))
    BY Zenon, <2>1, MadeFacts DEF Made
  <2>4. loc[t].n \in 0..MaxInst /\ MaxInst \in Nat /\ made + loc[t].n - have <= MaxInst
    BY Zenon, <1>22, <1>v, <2>2, <2>3, ClusterAssumption DEF ScaleLocked
  <2>5. made + loc[t].n - have \in 0..MaxInst
    BY <2>2, <2>3, <2>4 DEF Made
  <2>6. CASE loc[t].n >= have
    <3>1. loc' = [loc EXCEPT ![t].last = made + loc[t].n - have]
      BY <1>22, <2>2, <2>3, <2>6 DEF ScaleLocked
    <3>2. loc' \in [Threads -> Locals]
      BY ZenonT(60), <1>r, <2>5, <3>1, LocSteps DEF LocSet
    <3> QED
      BY Zenon, <1>22, <1>r, <3>2 DEF RestTypes, ScaleLocked, Lock, clusterVars
  <2>7. CASE ~(loc[t].n >= have)
    <3>1. PICK is \in SUBSET Active(dep[t]) : loc' = [loc EXCEPT ![t].todo = AsRead(is)]
      BY Zenon, <1>22, <2>2, <2>3, <2>7 DEF ScaleLocked
    <3>2. is \in SUBSET Insts
      BY Zenon DEF Active, Instances
    <3>3. AsRead(is) \in SUBSET (Insts \X (Workers \cup {NoWorker}))
      BY Zenon, <1>r, <3>2, AsReadType
    <3>4. loc' \in [Threads -> Locals]
      BY Zenon, <1>r, <3>1, <3>3, LocSteps DEF LocSet
    <3> QED
      BY Zenon, <1>22, <1>r, <3>4 DEF RestTypes, ScaleLocked, Lock, clusterVars
  <2> QED
    BY Zenon, <2>6, <2>7
<1>23. CASE FinishScale(t)
  BY Zenon, <1>23, <1>r, <1>v, ReturnType DEF RestTypes, FinishScale, fleetVars, nodeVars
<1> QED
  BY ZenonT(60), <1>1, <1>2, <1>3, <1>4, <1>5, <1>6, <1>7, <1>8, <1>9, <1>10, <1>11, <1>12, <1>13, <1>14,
     <1>15, <1>16, <1>17, <1>18, <1>19, <1>20, <1>21, <1>22, <1>23 DEF Handle

-----------------------------------------------------------------------------

\* The count, the list and the records of a deployment stay as they are.
KeptDep(d) == /\ count'[d] = count[d] /\ Instances(d)' = Instances(d)
              /\ \A i \in Instances(d) : inst'[i] = inst[i]

\* A deployment that exists keeps existing.
LEMMA NoneKept == Moves => \A d \in Deps : status'[d] = "NONE" => status[d] = "NONE"
BY Zenon DEF Moves, LegalKept, ValidateTransition, legalTransitions

\* What handlers may do to the records of a deployment that is not theirs.
LEMMA KeptAll ==
    ASSUME count' = count, inst' = inst
    PROVE  \A d : KeptDep(d)
BY Zenon DEF KeptDep, Instances

\* A handler that is not touched, of a deployment that is not touched.
LEMMA BringingKept ==
    ASSUME SvcInv, NEW u \in Threads, Bringing(u),
           pc'[u] = pc[u], kind'[u] = kind[u], dep'[u] = dep[u], old'[u] = old[u], loc'[u] = loc[u],
           NEW d, d = dep[u], NEW e, e = Target(u),
           pc[u] \in LockedPCs => KeptDep(d) /\ KeptDep(e)
    PROVE  Bringing(u)'
<1>1. Target(u)' = Target(u) /\ (Deploys(u)' <=> Deploys(u))
  BY Zenon DEF Target, Deploys
<1>2. CASE pc[u] \in LockedPCs
  <2>1. /\ count'[d] = count[d] /\ Instances(d)' = Instances(d) /\ Instances(e)' = Instances(e)
        /\ \A i \in Instances(d) : inst'[i] = inst[i]
    BY Zenon, <1>2 DEF KeptDep
  <2>2. Newest(d)' = Newest(d) /\ \A i \in Instances(d) : Up(i)' <=> Up(i)
    BY Zenon, <2>1 DEF Newest, Up
  <2>3. /\ Instances(dep[u]) = Instances(d) /\ Newest(dep[u]) = Newest(d)
        /\ Instances(Target(u)) = Instances(e)
        /\ Instances(dep[u])' = Instances(d) /\ Newest(dep[u])' = Newest(d)
        /\ Instances(Target(u))' = Instances(e)
    <3>1. dep[u]' = d /\ Target(u)' = e
      BY Zenon, <1>1
    <3>2. Instances(dep[u])' = Instances(d)' /\ Newest(dep[u])' = Newest(d)'
      BY Zenon, <3>1 DEF Instances, Newest
    <3>3. Instances(Target(u))' = Instances(e)'
      BY Zenon, <3>1 DEF Instances
    <3> QED
      BY Zenon, <2>1, <2>2, <3>2, <3>3
  <2>4. Deploys(u) =>
         /\ count'[d] = loc[u].last
         /\ pc[u] \in {"queued", "building", "built", "scheduling"} => Instances(d) = {}
         /\ \A i \in Instances(d) :
              Up(i)' \/ (pc[u] \in {"run", "record"} /\ i = Newest(d))
    BY Zenon, <2>1, <2>2, <2>3 DEF Bringing
  <2>5. /\ pc[u] \in {"run", "record", "route"} => loc[u].w \in Workers /\ Newest(d) \in Instances(d)
        /\ pc[u] \notin {"stop", "stopped"} => loc[u].todo = {}
        /\ pc[u] # "stopped" => loc[u].hit = {}
        /\ \A x \in loc[u].todo \cup loc[u].hit : x[1] \in Instances(e)
    BY Zenon, <2>1, <2>2, <2>3 DEF Bringing
  <2> QED
    BY Zenon, <1>1, <2>3, <2>4, <2>5 DEF Bringing
<1>3. CASE pc[u] \notin LockedPCs
  <2>1. pc[u] \in {"idle", "lock"} /\ ~Deploys(u)
    BY Zenon, <1>3 DEF SvcInv, Types, Deploys, LockedPCs
  <2>2. loc[u].todo = {} /\ loc[u].hit = {}
    BY Zenon, <2>1 DEF Bringing
  <2> QED
    BY ZenonT(60), <1>1, <2>1, <2>2 DEF Bringing
<1> QED
  BY Zenon, <1>2, <1>3

\* A step of handler t that touches only its project's records and leaves
\* itself in order.
LEMMA BackFrame ==
    ASSUME SvcInv, SvcInv', BackInv, RestTypes', NEW t \in Threads, dep[t] \in Deps,
           lock[ProjectOf[dep[t]]] \in {t, NoThread},
           \A u \in Threads \ {t} : /\ pc'[u] = pc[u] /\ kind'[u] = kind[u]
                                    /\ dep'[u] = dep[u] /\ old'[u] = old[u] /\ loc'[u] = loc[u],
           \A d \in Deps : ProjectOf[d] # ProjectOf[dep[t]] => KeptDep(d),
           Created', Bringing(t)'
    PROVE  BackInv'
<1>1. TypeInv'
  <2>1. Types'
    BY Zenon DEF SvcInv
  <2> QED
    BY Zenon, <2>1, RestTypesOK DEF Types, RestTypes, Locals, TypeInv, ClusterTypeOK, ServiceTypeOK
<1>2. ASSUME NEW u \in Threads \ {t} PROVE Bringing(u)'
  <2>1. Bringing(u) /\ u \in Threads
    BY DEF BackInv
  <2>2. PICK d : d = dep[u]
    BY Zenon
  <2>3. PICK e : e = Target(u)
    BY Zenon
  <2>4. ASSUME pc[u] \in LockedPCs PROVE KeptDep(d) /\ KeptDep(e)
    <3>1. d \in Deps /\ lock[ProjectOf[d]] = u /\ u # NoThread
      BY Zenon, <2>2, <2>4, HandlerFacts DEF LockedPCs, DeployPCs
    <3>2. ProjectOf[d] # ProjectOf[dep[t]]
      BY Zenon, <3>1
    <3>3. e \in Deps /\ ProjectOf[e] = ProjectOf[d]
      BY Zenon, <2>2, <2>3, <2>4, <3>1 DEF Target, SvcInv, Superseded
    <3> QED
      BY Zenon, <3>1, <3>2, <3>3
  <2> QED
    BY Zenon, <2>1, <2>2, <2>3, <2>4, BringingKept
<1> QED
  BY Zenon, <1>1, <1>2 DEF BackInv

\* A handler's step is its own: the others stand still, and nobody else holds
\* the lock of its project.
LEMMA HandleOwn ==
    ASSUME SvcInv, RestTypes, NEW t \in Threads, Handle(t)
    PROVE  /\ pc[t] # "idle" /\ dep[t] \in Deps /\ lock[ProjectOf[dep[t]]] \in {t, NoThread}
           /\ \A u \in Threads \ {t} : /\ pc'[u] = pc[u] /\ kind'[u] = kind[u]
                                       /\ dep'[u] = dep[u] /\ old'[u] = old[u] /\ loc'[u] = loc[u]
           /\ kind' = kind
<1>t. /\ pc \in [Threads -> LockedPCs \cup {"idle", "lock"}] /\ dep \in [Threads -> Deps \cup {NoDep}]
      /\ old \in [Threads -> Deps \cup {NoDep}] /\ loc \in [Threads -> Locals]
  BY Zenon DEF SvcInv, Types, RestTypes
<1> DEFINE Mine == \A u \in Threads \ {t} : /\ pc'[u] = pc[u] /\ dep'[u] = dep[u] /\ old'[u] = old[u]
                                            /\ loc'[u] = loc[u]
<1>q. Return(t) => Mine /\ kind' = kind
  BY Zenon, <1>t DEF Return, Goto
<1>1. (pc[t] \in LockedPCs \/ (pc[t] = "lock" /\ lock[ProjectOf[dep[t]]] = NoThread)) /\ Mine /\ kind' = kind
  <2> USE DEF Goto, LockedPCs, DeployPCs, Stay
  <2>1. CASE CreateQueued(t) \/ StopLocked(t)
    BY Zenon, <2>1, <1>t DEF CreateQueued, StopLocked, Lock
  <2>2. CASE ScaleLocked(t)
    BY Zenon, <2>2, <1>t DEF ScaleLocked, Lock
  <2>3. CASE RollbackQueued(t)
    BY Zenon, <2>3, <1>t DEF RollbackQueued, Lock
  <2>4. CASE RollbackRefused(t)
    BY Zenon, <2>4, <1>q DEF RollbackRefused
  <2>5. CASE BuildStart(t) \/ BuildDone(t) \/ ToScheduling(t) \/ ToStarting(t)
    BY Zenon, <2>5, <1>t DEF BuildStart, BuildDone, ToScheduling, ToStarting
  <2>6. CASE BuildFails(t) \/ FinishCreate(t) \/ FinishStop(t) \/ FinishRollback(t) \/ FinishScale(t)
    BY Zenon, <2>6, <1>q DEF BuildFails, FinishCreate, FinishStop, FinishRollback, FinishScale,
       AllPlaced, AllStopped
  <2>7. CASE Place(t) \/ Run(t) \/ Record(t) \/ Route(t)
    BY Zenon, <2>7, <1>t DEF Place, Placing, Run, Record, Route
  <2>8. CASE PlaceFails(t) \/ RunFails(t)
    BY Zenon, <2>8, <1>q DEF PlaceFails, Placing, RunFails, Fail
  <2>9. CASE (\E x \in loc[t].todo : StopCall(t, x)) \/ StopRecord(t) \/ Restored(t)
    BY Zenon, <2>9, <1>t DEF StopCall, StopRecord, Restored, AllPlaced
  <2> QED
    BY Zenon, <2>1, <2>2, <2>3, <2>4, <2>5, <2>6, <2>7, <2>8, <2>9 DEF Handle
<1>2. pc[t] # "idle"
  BY Zenon, <1>1 DEF LockedPCs, DeployPCs
<1> QED
  BY Zenon, <1>1, <1>2, HandlerFacts

LEMMA BringingIntro ==
    ASSUME NEW t \in Threads, NEW d, dep'[t] = d, NEW e, Target(t)' = e, NEW p, pc'[t] = p,
           Deploys(t)' =>
             /\ count'[d] = loc'[t].last
             /\ p \in {"queued", "building", "built", "scheduling"} => Instances(d)' = {}
             /\ \A i \in Instances(d)' : Up(i)' \/ (p \in {"run", "record"} /\ i = Newest(d)'),
           p \in {"run", "record", "route"} => loc'[t].w \in Workers /\ Newest(d)' \in Instances(d)',
           p \notin {"stop", "stopped"} => loc'[t].todo = {},
           p # "stopped" => loc'[t].hit = {},
           \A x \in loc'[t].todo \cup loc'[t].hit : x[1] \in Instances(e)'
    PROVE  Bringing(t)'
<1>1. /\ Instances(dep[t])' = Instances(d)' /\ Newest(dep[t])' = Newest(d)'
      /\ Instances(Target(t))' = Instances(e)'
  BY Zenon DEF Instances, Newest
<1> QED
  BY Zenon, <1>1 DEF Bringing

\* What Bringing says of handler t, its deployment being d and its target e.
LEMMA BringingElim ==
    ASSUME NEW t \in Threads, Bringing(t), NEW d, dep[t] = d, NEW e, Target(t) = e
    PROVE  /\ Deploys(t) =>
                /\ count[d] = loc[t].last
                /\ pc[t] \in {"queued", "building", "built", "scheduling"} => Instances(d) = {}
                /\ \A i \in Instances(d) : Up(i) \/ (pc[t] \in {"run", "record"} /\ i = Newest(d))
           /\ pc[t] \in {"run", "record", "route"} => loc[t].w \in Workers /\ Newest(d) \in Instances(d)
           /\ pc[t] \notin {"stop", "stopped"} => loc[t].todo = {}
           /\ pc[t] # "stopped" => loc[t].hit = {}
           /\ \A x \in loc[t].todo \cup loc[t].hit : x[1] \in Instances(e)
BY Zenon DEF Bringing

LEMMA IdleBringing ==
    ASSUME NEW t \in Threads, pc \in [Threads -> LockedPCs \cup {"idle", "lock"}],
           loc \in [Threads -> Locals], Return(t)
    PROVE  Bringing(t)'
<1>1. pc'[t] = "idle" /\ loc'[t] = NoLocals
  BY Zenon DEF Return, Goto
<1>2. loc'[t].todo = {} /\ loc'[t].hit = {} /\ ~Deploys(t)'
  BY <1>1 DEF NoLocals, Deploys, DeployPCs
<1> QED
  BY Zenon, <1>1, <1>2 DEF Bringing

\* Steps that write no instance record.
LEMMA BackQuiet ==
    ASSUME SvcInv, BackInv, NEW t \in Threads, Handle(t), inst' = inst,
           \A d \in Deps : ProjectOf[d] # ProjectOf[dep[t]] => count'[d] = count[d],
           Bringing(t)'
    PROVE  BackInv'
<1>1. SvcInv' /\ Moves
  BY Zenon, HandleStep
<1>2. RestTypes /\ RestTypes'
  BY Zenon, HandleTypes, RestTypesOK DEF SvcInv, BackInv
<1>3. \A d \in Deps : Instances(d)' = Instances(d)
  BY Zenon DEF Instances
<1>4. Created'
  <2>1. \A d \in Deps : Numbered(d)'
    BY Zenon, <1>3 DEF BackInv, Created, Numbered
  <2> QED
    BY Zenon, <1>1, <1>3, <2>1, NoneKept DEF BackInv, Created
<1>5. \A d \in Deps : ProjectOf[d] # ProjectOf[dep[t]] => KeptDep(d)
  BY Zenon, <1>3 DEF KeptDep
<1> QED
  BY Zenon, <1>1, <1>2, <1>4, <1>5, HandleOwn, BackFrame

\* Steps that write a record of the handler's project.
LEMMA BackRewrite ==
    ASSUME SvcInv, BackInv, NEW t \in Threads, Handle(t), NEW d \in Deps,
           ProjectOf[d] = ProjectOf[dep[t]], NEW i \in Instances(d),
           NEW s \in InstStatuses \ {"NONE"}, NEW w, SetInst(i, s, w), count' = count,
           Bringing(t)'
    PROVE  BackInv'
<1>1. SvcInv' /\ Moves
  BY Zenon, HandleStep
<1>2. RestTypes /\ RestTypes' /\ ClusterTypeOK
  BY Zenon, HandleTypes, RestTypesOK DEF SvcInv, BackInv, TypeInv
<1>3. i \in Insts /\ inst[i].status # "NONE" /\ DepOf(i) = d
  BY Zenon DEF Instances
<1>4. /\ \A e \in Deps : Instances(e)' = Instances(e)
      /\ \A j \in Insts : j # i => inst'[j] = inst[j]
  BY Zenon, <1>2, <1>3, InstRewritten
<1>5. Created'
  <2>1. \A e \in Deps : Numbered(e)'
    BY Zenon, <1>4 DEF BackInv, Created, Numbered
  <2> QED
    BY Zenon, <1>1, <1>4, <2>1, NoneKept DEF BackInv, Created
<1>6. \A e \in Deps : ProjectOf[e] # ProjectOf[dep[t]] => KeptDep(e)
  <2> SUFFICES ASSUME NEW e \in Deps, ProjectOf[e] # ProjectOf[dep[t]] PROVE KeptDep(e)
    BY Zenon
  <2>1. \A j \in Instances(e) : j # i /\ j \in Insts
    BY Zenon, <1>3 DEF Instances
  <2> QED
    BY Zenon, <1>4, <2>1 DEF KeptDep
<1> QED
  BY Zenon, <1>1, <1>2, <1>5, <1>6, HandleOwn, BackFrame

\* Steps that create the next record of the handler's deployment.
LEMMA BackCreate ==
    ASSUME SvcInv, BackInv, NEW t \in Threads, Handle(t), NEW d \in Deps, dep[t] = d,
           Made(d) < MaxInst, status[d] # "NONE",
           NEW s \in InstStatuses \ {"NONE"}, NEW w, SetInst(<<d, Made(d) + 1>>, s, w), count' = count,
           Bringing(t)'
    PROVE  BackInv'
<1>1. SvcInv' /\ Moves
  BY Zenon, HandleStep
<1>2. RestTypes /\ RestTypes' /\ ClusterTypeOK
  BY Zenon, HandleTypes, RestTypesOK DEF SvcInv, BackInv, TypeInv
<1>3. Numbered(d)
  BY Zenon DEF BackInv, Created
<1>4. /\ Numbered(d)' /\ <<d, Made(d) + 1>> \notin Instances(d)
      /\ \A e \in Deps \ {d} : Instances(e)' = Instances(e)
      /\ \A j \in Insts : j # <<d, Made(d) + 1>> => inst'[j] = inst[j]
  BY Zenon, <1>2, <1>3, InstCreated
<1>5. Created'
  <2>1. \A e \in Deps \ {d} : Numbered(e)'
    <3> TAKE e \in Deps \ {d}
    <3>1. e \in Deps /\ Numbered(e) /\ Instances(e)' = Instances(e)
      BY Zenon, <1>4 DEF BackInv, Created
    <3> QED
      BY Zenon, <3>1 DEF Numbered
  <2>2. status'[d] # "NONE"
    BY Zenon, <1>1, NoneKept
  <2>3. \A e \in Deps \ {d} : status'[e] = "NONE" => Instances(e)' = {}
    BY Zenon, <1>1, <1>4, NoneKept DEF BackInv, Created
  <2> QED
    BY Zenon, <1>4, <2>1, <2>2, <2>3 DEF Created
<1>6. \A e \in Deps : ProjectOf[e] # ProjectOf[dep[t]] => KeptDep(e)
  <2> SUFFICES ASSUME NEW e \in Deps, e # d PROVE KeptDep(e)
    BY Zenon
  <2>1. \A j \in Instances(e) : j # <<d, Made(d) + 1>> /\ j \in Insts
    BY DEF Instances, DepOf
  <2> QED
    BY Zenon, <1>4, <2>1 DEF KeptDep
<1> QED
  BY Zenon, <1>1, <1>2, <1>5, <1>6, HandleOwn, BackFrame

-----------------------------------------------------------------------------

\* A deployment is reported RUNNING only when as many instances as it asked for
\* are up.
BackedKept ==
    \A d \in Deps : status[d] # "RUNNING" /\ status'[d] = "RUNNING" =>
        Cardinality({i \in Instances(d) : inst[i].status = "RUNNING" /\ inst[i].worker # NoWorker})
          >= count[d]

\* When every instance was placed, every one is up.
LEMMA AllUp ==
    ASSUME SvcInv, BackInv, NEW t \in Threads, Deploys(t), AllPlaced(t), NEW d \in Deps, dep[t] = d
    PROVE  Cardinality({i \in Instances(d) : inst[i].status = "RUNNING" /\ inst[i].worker # NoWorker})
             >= count[d]
<1>1. PICK e : e = Target(t)
  BY Zenon
<1>2. count[d] = loc[t].last /\ \A i \in Instances(d) : Up(i)
  BY ZenonT(60), <1>1, BringingElim DEF BackInv, AllPlaced
<1>3. {i \in Instances(d) : inst[i].status = "RUNNING" /\ inst[i].worker # NoWorker} = Instances(d)
  BY Zenon, <1>2, ClusterAssumption DEF Up
<1>4. Cardinality(Instances(d)) >= loc[t].last
  BY Zenon DEF AllPlaced
<1> QED
  BY Zenon, <1>2, <1>3, <1>4

LEMMA HandleBacked ==
    ASSUME SvcInv, BackInv, NEW t \in Threads, Handle(t)
    PROVE  BackedKept
<1>t. status \in [Deps -> Statuses \cup {"NONE"}]
  BY Zenon DEF SvcInv, Types
<1>1. CASE \E d, s : s # "RUNNING" /\ status' = [status EXCEPT ![d] = s]
  BY Zenon, <1>1, <1>t DEF BackedKept
<1>2. CASE status' = status
  BY Zenon, <1>2 DEF BackedKept
<1>3. CASE FinishCreate(t) \/ Restored(t)
  <2>1. /\ Deploys(t) /\ AllPlaced(t) /\ pc[t] = "place"
        /\ status' = [status EXCEPT ![dep[t]] = "RUNNING"]
    BY Zenon, <1>3 DEF FinishCreate, Restored, AllPlaced, Deploys, DeployPCs, UpdateStatus
  <2>2. PICK d \in Deps : d = dep[t]
    BY Zenon, <2>1, HandlerFacts
  <2>3. \A e \in Deps : status[e] # "RUNNING" /\ status'[e] = "RUNNING" => e = d
    BY Zenon, <1>t, <2>1, <2>2
  <2> QED
    BY Zenon, <2>1, <2>2, <2>3, AllUp DEF BackedKept
<1>4. ASSUME ~FinishCreate(t), ~Restored(t)
      PROVE  status' = status \/ \E d, s : s # "RUNNING" /\ status' = [status EXCEPT ![d] = s]
  BY ZenonT(60), <1>4 DEF Handle, CreateQueued, BuildStart, BuildFails, BuildDone, ToScheduling, ToStarting,
     Place, PlaceFails, Run, RunFails, Record, Route, StopCall, StopRecord, StopLocked, FinishStop,
     RollbackRefused, RollbackQueued, FinishRollback, ScaleLocked, FinishScale, Fail, UpdateStatus,
     repoVars, clusterVars
<1> QED
  BY Zenon, <1>1, <1>2, <1>3, <1>4

\* Handler t's deployment is d, ...
Typed(t, d) ==
    /\ RestTypes /\ Types /\ ClusterTypeOK
    /\ pc \in [Threads -> LockedPCs \cup {"idle", "lock"}] /\ loc \in [Threads -> Locals]
    /\ pc[t] # "idle" /\ dep[t] = d /\ d \in Deps /\ kind' = kind
    /\ Numbered(d) /\ Made(d) \in 0..MaxInst /\ Instances(d) \subseteq Insts

\* ... its target e, ...
Hand(t, d, e) ==
    /\ Deploys(t) =>
         /\ count[d] = loc[t].last
         /\ pc[t] \in {"queued", "building", "built", "scheduling"} => Instances(d) = {}
         /\ \A i \in Instances(d) : Up(i) \/ (pc[t] \in {"run", "record"} /\ i = Newest(d))
    /\ pc[t] \in {"run", "record", "route"} => loc[t].w \in Workers /\ Newest(d) \in Instances(d)
    /\ pc[t] \notin {"stop", "stopped"} => loc[t].todo = {}
    /\ pc[t] # "stopped" => loc[t].hit = {}
    /\ \A x \in loc[t].todo \cup loc[t].hit : x[1] \in Instances(e)

\* ... and a step that writes no record leaves the lists alone.
StillInst == inst' = inst => \A f : /\ Instances(f)' = Instances(f) /\ Newest(f)' = Newest(f)
                                    /\ \A i : Up(i)' <=> Up(i)

Facts(t, d, e) == d = dep[t] /\ e = Target(t) /\ Typed(t, d) /\ Hand(t, d, e) /\ StillInst

LEMMA BackFacts ==
    ASSUME SvcInv, BackInv, NEW t \in Threads, Handle(t)
    PROVE  \E d, e : Facts(t, d, e)
<1>d. PICK d : d = dep[t]
  BY Zenon
<1>e. PICK e : e = Target(t)
  BY Zenon
<1>1. RestTypes /\ Types /\ pc \in [Threads -> LockedPCs \cup {"idle", "lock"}] /\ loc \in [Threads -> Locals]
  BY Zenon, RestTypesOK DEF SvcInv, BackInv, Types, RestTypes
<1>2. pc[t] # "idle" /\ d \in Deps /\ kind' = kind
  BY Zenon, <1>d, <1>1, HandleOwn
<1>3. Hand(t, d, e)
  BY Zenon, <1>d, <1>e, BringingElim DEF BackInv, Hand
<1>4. StillInst
  BY Zenon DEF StillInst, Instances, Newest, Up
<1>5. Numbered(d) /\ ClusterTypeOK /\ Made(d) \in 0..MaxInst /\ Instances(d) \subseteq Insts
  BY Zenon, <1>2, MadeFacts DEF BackInv, Created, TypeInv, Instances
<1>6. Typed(t, d)
  BY Zenon, <1>d, <1>1, <1>2, <1>5 DEF Typed
<1> QED
  BY Zenon, <1>d, <1>e, <1>3, <1>4, <1>6 DEF Facts

\* The deploy path, and a dispatch, leave locals and records alone.
LEMMA BackAdvance ==
    ASSUME SvcInv, BackInv, NEW t \in Threads, Handle(t), NEW d, NEW e, Facts(t, d, e),
           NEW p, pc' = [pc EXCEPT ![t] = p], UNCHANGED <<dep, old, loc, count, inst>>,
           \/ /\ pc[t] \in {"queued", "building", "built"}
              /\ p \in {"building", "built", "scheduling"}
           \/ pc[t] = "scheduling" /\ p = "place"
           \/ pc[t] = "run" /\ p = "record"
    PROVE  BackInv'
<1>1. pc'[t] = p /\ dep'[t] = d /\ Target(t)' = e
  BY Zenon DEF Facts, Typed, Target
<1>2. Deploys(t)' => Deploys(t)
  BY Zenon DEF Facts, Typed, Deploys, DeployPCs
<1>3. Deploys(t)' =>
         /\ count'[d] = loc'[t].last
         /\ p \in {"queued", "building", "built", "scheduling"} => Instances(d)' = {}
         /\ \A i \in Instances(d)' : Up(i)' \/ (p \in {"run", "record"} /\ i = Newest(d)')
  BY Zenon, <1>2 DEF Facts, Hand, StillInst
<1>4. /\ p \in {"run", "record", "route"} => loc'[t].w \in Workers /\ Newest(d)' \in Instances(d)'
      /\ loc'[t].todo = {} /\ loc'[t].hit = {}
  BY Zenon DEF Facts, Hand, StillInst
<1>5. Bringing(t)'
  BY Zenon, <1>1, <1>3, <1>4, BringingIntro
<1> QED
  BY Zenon, <1>5, BackQuiet

\* CreateAndDeploy records the deployment.
LEMMA BackCreateQueued ==
    ASSUME SvcInv, BackInv, NEW t \in Threads, Handle(t), NEW d, NEW e, Facts(t, d, e), CreateQueued(t)
    PROVE  BackInv'
<1>1. pc[t] = "lock" /\ kind[t] = "create" /\ pc'[t] = "queued" /\ dep'[t] = d /\ inst' = inst
      /\ Target(t)' = d
  BY Zenon DEF Facts, Typed, CreateQueued, Lock, Goto, Target
<1>2. status[d] = "NONE" /\ Instances(d) = {}
  BY Zenon, <1>1 DEF Facts, Typed, SvcInv, Waiting, BackInv, Created
<1>3. PICK k \in 0..MaxInst : k = loc[t].n /\ loc' = [loc EXCEPT ![t].last = k]
  BY Zenon, LocFields DEF Facts, Typed, CreateQueued
<1>4. LocSet(t, [loc[t] EXCEPT !.last = k])
  BY Zenon, <1>3, LocSteps DEF Facts, Typed
<1>5. loc'[t].last = k /\ loc'[t].todo = {} /\ loc'[t].hit = {}
  BY <1>1, <1>4 DEF Facts, Hand, Typed, LocSet, Locals
<1>6. count'[d] = k /\ \A f \in Deps : f # d => count'[f] = count[f]
  BY Zenon, <1>3 DEF Facts, Typed, CreateQueued, RestTypes
<1>7. Bringing(t)'
  BY ZenonT(60), <1>1, <1>2, <1>5, <1>6, BringingIntro DEF Facts, StillInst
<1> QED
  BY Zenon, <1>1, <1>6, <1>7, BackQuiet DEF Facts

\* The instance to place is the next one.
LEMMA PlacingFacts ==
    ASSUME SvcInv, NEW t \in Threads, NEW d, NEW e, Facts(t, d, e), Placing(t)
    PROVE  /\ pc[t] = "place" /\ pc[t] \in LockedPCs /\ Made(d) < MaxInst /\ status[d] # "NONE"
           /\ \A s, w : SetInst(<<dep[t], Cardinality(Instances(dep[t])) + 1>>, s, w)
                          <=> SetInst(<<d, Made(d) + 1>>, s, w)
<1>1. pc[t] = "place" /\ pc[t] \in LockedPCs /\ Made(d) < loc[t].last
  BY DEF Facts, Placing, LockedPCs, DeployPCs, Made
<1>2. loc[t].last \in 0..MaxInst /\ MaxInst \in Nat /\ Made(d) \in 0..MaxInst
  BY Zenon, LocFields, ClusterAssumption DEF Facts, Typed
<1>3. status[d] # "NONE"
  BY Zenon, <1>1, HandlerFacts DEF Facts, Typed
<1>4. \A s, w : SetInst(<<dep[t], Cardinality(Instances(dep[t])) + 1>>, s, w)
                  <=> SetInst(<<d, Made(d) + 1>>, s, w)
  BY Zenon DEF Facts, Made, SetInst
<1>5. Made(d) < MaxInst
  BY <1>1, <1>2
<1> QED
  BY Zenon, <1>1, <1>3, <1>4, <1>5

\* The next instance is recorded.
LEMMA BackPlace ==
    ASSUME SvcInv, BackInv, NEW t \in Threads, Handle(t), NEW d, NEW e, Facts(t, d, e), Place(t)
    PROVE  BackInv'
<1>1. /\ pc[t] = "place" /\ pc[t] \in LockedPCs /\ Made(d) < MaxInst /\ status[d] # "NONE"
      /\ SetInst(<<d, Made(d) + 1>>, "PENDING", NoWorker)
  BY Zenon, PlacingFacts DEF Place
<1>2. "PENDING" \in InstStatuses \ {"NONE"}
  BY Zenon DEF InstStatuses
<1>3. /\ Instances(d)' = Instances(d) \cup {<<d, Made(d) + 1>>} /\ Made(d)' = Made(d) + 1
      /\ <<d, Made(d) + 1>> \in Insts \ Instances(d)
      /\ \A j \in Insts : j # <<d, Made(d) + 1>> => inst'[j] = inst[j]
  BY Zenon, <1>1, <1>2, InstCreated DEF Facts, Typed
<1>4. Newest(d)' = <<d, Made(d) + 1>>
  BY Zenon, <1>3 DEF Newest, Made
<1>5. \A i \in Instances(d)' : i # Newest(d)' => i \in Instances(d) /\ inst'[i] = inst[i]
  BY Zenon, <1>3, <1>4 DEF Facts, Typed
<1>6. PICK w \in Workers : loc' = [loc EXCEPT ![t].w = w]
  BY Zenon DEF Place, Feasible
<1>7. LocSet(t, [loc[t] EXCEPT !.w = w])
  BY Zenon, <1>6, LocSteps DEF Facts, Typed
<1>8. loc'[t].w \in Workers /\ loc'[t].last = loc[t].last /\ loc'[t].todo = {} /\ loc'[t].hit = {}
  BY <1>1, <1>7 DEF Facts, Hand, Typed, LocSet, Locals
<1>9. pc'[t] = "run" /\ dep'[t] = d /\ Target(t)' = e /\ count' = count /\ (Deploys(t)' => Deploys(t))
  BY Zenon, <1>1 DEF Facts, Typed, Place, Goto, Stay, Target, Deploys, DeployPCs
<1>10. Deploys(t) => \A i \in Instances(d) : Up(i)
  BY Zenon, <1>1 DEF Facts, Hand
<1>11. Deploys(t) => \A i \in Instances(d)' : Up(i)' \/ i = Newest(d)'
  BY Zenon, <1>5, <1>10 DEF Up
<1>12. Newest(d)' \in Instances(d)'
  BY Zenon, <1>3, <1>4
<1>13. Bringing(t)'
  BY Zenon, <1>1, <1>8, <1>9, <1>11, <1>12, BringingIntro DEF Facts, Hand
<1> QED
  BY Zenon, <1>1, <1>2, <1>9, <1>13, BackCreate DEF Facts, Typed

\* ... or fails at once.
LEMMA BackPlaceFails ==
    ASSUME SvcInv, BackInv, NEW t \in Threads, Handle(t), NEW d, NEW e, Facts(t, d, e), PlaceFails(t)
    PROVE  BackInv'
<1>1. /\ Made(d) < MaxInst /\ status[d] # "NONE" /\ Return(t) /\ count' = count
      /\ SetInst(<<d, Made(d) + 1>>, "FAILED", NoWorker)
  BY Zenon, PlacingFacts DEF PlaceFails, Fail
<1>2. "FAILED" \in InstStatuses \ {"NONE"}
  BY Zenon DEF InstStatuses
<1> QED
  BY Zenon, <1>1, <1>2, IdleBringing, BackCreate DEF Facts, Typed

\* The instance in hand fails, ...
LEMMA BackRunFails ==
    ASSUME SvcInv, BackInv, NEW t \in Threads, Handle(t), NEW d, NEW e, Facts(t, d, e), RunFails(t)
    PROVE  BackInv'
<1>w. Newest(dep[t]) = Newest(d)
  BY Zenon DEF Facts
<1>1. /\ Return(t) /\ count' = count /\ Newest(d) \in Instances(d)
      /\ SetInst(Newest(d), "FAILED", NoWorker)
  BY Zenon, <1>w DEF Facts, Hand, RunFails, Fail
<1>2. "FAILED" \in InstStatuses \ {"NONE"}
  BY DEF InstStatuses
<1>3. PICK i \in Instances(d) : i = Newest(d)
  BY Zenon, <1>1
<1> QED
  BY Zenon, <1>1, <1>2, <1>3, IdleBringing, BackRewrite DEF Facts, Typed

\* ... or is recorded up, ...
LEMMA BackRecord ==
    ASSUME SvcInv, BackInv, NEW t \in Threads, Handle(t), NEW d, NEW e, Facts(t, d, e), Record(t)
    PROVE  BackInv'
<1>w. Newest(dep[t]) = Newest(d)
  BY Zenon DEF Facts
<1>1. /\ count' = count /\ Newest(d) \in Instances(d) /\ loc[t].w \in Workers
      /\ SetInst(Newest(d), "RUNNING", loc[t].w) /\ pc[t] = "record" /\ loc' = loc
  BY Zenon, <1>w DEF Facts, Hand, Record
<1>2. "RUNNING" \in InstStatuses \ {"NONE"}
  BY Zenon DEF InstStatuses
<1>3. PICK i \in Instances(d) : i = Newest(d)
  BY Zenon, <1>1
<1>4. PICK w \in Workers : w = loc[t].w
  BY Zenon, <1>1
<1>5. SetInst(i, "RUNNING", w) /\ i \in Insts /\ inst[i].status # "NONE"
  BY <1>1, <1>3, <1>4 DEF Instances
<1>6. /\ \A f \in Deps : Instances(f)' = Instances(f)
      /\ inst'[i] = [status |-> "RUNNING", worker |-> w]
      /\ \A j \in Insts : j # i => inst'[j] = inst[j]
  BY Zenon, <1>2, <1>5, InstRewritten DEF Facts, Typed
<1>7. Newest(d)' = i /\ Instances(d)' = Instances(d) /\ Up(i)'
  <2>1. Instances(d)' = Instances(d)
    BY Zenon, <1>6 DEF Facts, Typed
  <2>2. Newest(d)' = i
    BY Zenon, <1>3, <2>1 DEF Newest
  <2>3. Up(i)'
    BY <1>6 DEF Up
  <2> QED
    BY Zenon, <2>1, <2>2, <2>3
<1>8. pc'[t] = "route" /\ dep'[t] = d /\ Target(t)' = e /\ (Deploys(t)' => Deploys(t))
  BY <1>1 DEF Facts, Typed, Record, Goto, Stay, Target, Deploys, DeployPCs
<1>9. Deploys(t) => \A j \in Instances(d) : Up(j)'
  <2> SUFFICES ASSUME Deploys(t), NEW j \in Instances(d), j # i PROVE Up(j)'
    BY Zenon, <1>7
  <2>1. Up(j) /\ j \in Insts
    BY ZenonT(60), <1>3 DEF Facts, Hand, Typed
  <2> QED
    BY Zenon, <1>6, <2>1 DEF Facts, Hand, Typed, Up
<1>10. e = d \/ kind[t] = "rollback"
  BY DEF Facts, Target
<1>11. Bringing(t)'
  BY ZenonT(60), <1>1, <1>3, <1>7, <1>8, <1>9, BringingIntro DEF Facts, Hand
<1> QED
  BY Zenon, <1>1, <1>2, <1>5, <1>11, BackRewrite DEF Facts, Typed

\* ... and routed.
LEMMA BackRoute ==
    ASSUME SvcInv, BackInv, NEW t \in Threads, Handle(t), NEW d, NEW e, Facts(t, d, e), Route(t)
    PROVE  BackInv'
<1>1. pc'[t] = "place" /\ dep'[t] = d /\ Target(t)' = e /\ (Deploys(t)' => Deploys(t))
      /\ inst' = inst /\ count' = count /\ pc[t] = "route"
  BY Zenon DEF Facts, Typed, Route, Goto, Stay, Target, Deploys, DeployPCs, repoVars
<1>2. LocSet(t, [loc[t] EXCEPT !.w = NoWorker])
  BY Zenon, LocSteps DEF Facts, Typed, Route
<1>3. loc'[t].last = loc[t].last /\ loc'[t].todo = {} /\ loc'[t].hit = {}
  BY <1>1, <1>2 DEF Facts, Hand, Typed, LocSet, Locals
<1>4. Bringing(t)'
  BY Zenon, <1>1, <1>3, BringingIntro DEF Facts, Hand, StillInst
<1> QED
  BY Zenon, <1>1, <1>4, BackQuiet

\* An instance of the list is stopped, ...
LEMMA BackStopCall ==
    ASSUME SvcInv, BackInv, NEW t \in Threads, Handle(t), NEW d, NEW e, Facts(t, d, e), NEW x \in loc[t].todo, StopCall(t, x)
    PROVE  BackInv'
<1>1. pc'[t] = "stopped" /\ dep'[t] = d /\ Target(t)' = e /\ ~Deploys(t)'
      /\ inst' = inst /\ count' = count /\ pc[t] = "stop"
  BY Zenon DEF Facts, Typed, StopCall, Goto, Stay, Target, Deploys, DeployPCs, repoVars
<1>2. loc' = [loc EXCEPT ![t].todo = loc[t].todo \ {x}, ![t].hit = {x}]
  BY Zenon DEF Facts, Typed, StopCall
<1>3. loc'[t].todo = loc[t].todo \ {x} /\ loc'[t].hit = {x}
  BY <1>2 DEF Facts, Typed, Locals
<1>4. \A y \in loc'[t].todo \cup loc'[t].hit : y[1] \in Instances(e)'
  BY Zenon, <1>1, <1>3 DEF Facts, Hand, StillInst
<1>5. Bringing(t)'
  BY Zenon, <1>1, <1>4, BringingIntro
<1> QED
  BY Zenon, <1>1, <1>5, BackQuiet

\* ... and recorded so.
LEMMA BackStopRecord ==
    ASSUME SvcInv, BackInv, NEW t \in Threads, Handle(t), NEW d, NEW e, Facts(t, d, e), StopRecord(t)
    PROVE  BackInv'
<1>1. PICK x \in loc[t].hit : SetInst(x[1], "STOPPED", x[2])
  BY Zenon DEF StopRecord
<1>2. pc'[t] = "stop" /\ dep'[t] = d /\ Target(t)' = e /\ ~Deploys(t)' /\ count' = count
      /\ pc[t] = "stopped" /\ pc[t] \in LockedPCs
  BY Zenon DEF Facts, Typed, StopRecord, Goto, Stay, Target, Deploys, LockedPCs, DeployPCs
<1>3. loc'[t].todo = loc[t].todo /\ loc'[t].hit = {}
  BY DEF Facts, Typed, StopRecord, Locals
<1>4. e \in Deps /\ ProjectOf[e] = ProjectOf[dep[t]]
  BY ZenonT(60), <1>2 DEF Facts, Typed, Target, SvcInv, Superseded
<1>5. PICK i \in Instances(e) : i = x[1]
  BY ZenonT(60), <1>1 DEF Facts, Hand
<1>6. PICK w : w = x[2]
  OBVIOUS
<1>7. SetInst(i, "STOPPED", w) /\ i \in Insts /\ inst[i].status # "NONE" /\ "STOPPED" \in InstStatuses \ {"NONE"}
  BY <1>1, <1>5, <1>6 DEF Instances, InstStatuses
<1>8. \A f \in Deps : Instances(f)' = Instances(f)
  BY Zenon, <1>7, InstRewritten DEF Facts, Typed
<1>9. Bringing(t)'
  <2>1. \A y \in loc'[t].todo \cup loc'[t].hit : y[1] \in Instances(e)'
    BY <1>3, <1>4, <1>8 DEF Facts, Hand
  <2> QED
    BY ZenonT(60), <1>2, <1>3, <2>1, BringingIntro DEF Facts, Hand
<1> QED
  BY Zenon, <1>2, <1>4, <1>7, <1>9, BackRewrite

\* The lists are of the target's instances.
LEMMA BackStopLocked ==
    ASSUME SvcInv, BackInv, NEW t \in Threads, Handle(t), NEW d, NEW e, Facts(t, d, e), StopLocked(t)
    PROVE  BackInv'
<1>1. pc'[t] = "stop" /\ dep'[t] = d /\ Target(t)' = d /\ ~Deploys(t)' /\ inst' = inst /\ count' = count
      /\ pc[t] = "lock"
  BY Zenon DEF Facts, Typed, StopLocked, Lock, Goto, Target, Deploys, DeployPCs, clusterVars
<1>h. loc[t].hit = {}
  BY Zenon, <1>1 DEF Facts, Hand
<1>2. loc'[t].todo = AsRead(Instances(d)) /\ loc'[t].hit = {}
  BY <1>1, <1>h DEF Facts, Typed, StopLocked, Locals
<1>3. \A x \in loc'[t].todo \cup loc'[t].hit : x[1] \in Instances(d)
  BY <1>2 DEF AsRead
<1>4. Bringing(t)'
  BY Zenon, <1>1, <1>2, <1>3, BringingIntro DEF Facts, StillInst
<1> QED
  BY Zenon, <1>1, <1>4, BackQuiet

\* Rollback records a deployment nobody knows.
LEMMA BackRollbackQueued ==
    ASSUME SvcInv, BackInv, NEW t \in Threads, Handle(t), NEW d, NEW e, Facts(t, d, e), RollbackQueued(t)
    PROVE  BackInv'
<1>1. PICK f \in Deps : /\ Fresh(f) /\ ProjectOf[f] = ProjectOf[dep[t]]
                        /\ dep' = [dep EXCEPT ![t] = f]
                        /\ count' = [count EXCEPT ![f] = loc[t].n]
  BY Zenon DEF RollbackQueued
<1>2. pc[t] = "lock" /\ kind[t] = "rollback" /\ pc'[t] = "queued" /\ dep'[t] = f /\ inst' = inst
  BY Zenon, <1>1 DEF Facts, Typed, RollbackQueued, Lock, Goto, Types
<1>3. Instances(f) = {}
  BY ZenonT(60), <1>1 DEF Fresh, BackInv, Created
<1>4. PICK k \in 0..MaxInst : k = loc[t].n /\ loc' = [loc EXCEPT ![t].last = k]
  BY Zenon, LocFields DEF Facts, Typed, RollbackQueued
<1>5. LocSet(t, [loc[t] EXCEPT !.last = k])
  BY Zenon, <1>4, LocSteps DEF Facts, Typed
<1>6. loc'[t].last = k /\ loc'[t].todo = {} /\ loc'[t].hit = {}
  BY <1>2, <1>5 DEF Facts, Hand, Typed, LocSet, Locals
<1>7. count'[f] = k /\ \A g \in Deps : g # f => count'[g] = count[g]
  BY Zenon, <1>1, <1>4 DEF Facts, Typed, RestTypes
<1>8. PICK g : g = Target(t)'
  BY Zenon
<1>9. Bringing(t)'
  BY ZenonT(60), <1>2, <1>3, <1>6, <1>7, <1>8, BringingIntro DEF Facts, StillInst
<1> QED
  BY Zenon, <1>1, <1>2, <1>7, <1>9, BackQuiet

\* A rollback turns to the superseded deployment.
LEMMA BackRestored ==
    ASSUME SvcInv, BackInv, NEW t \in Threads, Handle(t), NEW d, NEW e, Facts(t, d, e), Restored(t)
    PROVE  BackInv'
<1>1. pc'[t] = "stop" /\ dep'[t] = d /\ Target(t)' = e /\ ~Deploys(t)' /\ inst' = inst /\ count' = count
      /\ pc[t] = "place" /\ e = old[t]
  BY Zenon DEF Facts, Typed, Restored, AllPlaced, Goto, Stay, Target, Deploys, DeployPCs
<1>h. loc[t].hit = {}
  BY ZenonT(60), <1>1 DEF Facts, Hand
<1>2. loc'[t].todo = AsRead(Instances(e)) /\ loc'[t].hit = {}
  BY <1>1, <1>h DEF Facts, Typed, Restored, Locals
<1>3. \A x \in loc'[t].todo \cup loc'[t].hit : x[1] \in Instances(e)
  BY <1>2 DEF AsRead
<1>4. Bringing(t)'
  BY Zenon, <1>1, <1>2, <1>3, BringingIntro DEF Facts, StillInst
<1> QED
  BY Zenon, <1>1, <1>4, BackQuiet

\* ScaleDeployment decides.
LEMMA BackScaleLocked ==
    ASSUME SvcInv, BackInv, NEW t \in Threads, Handle(t), NEW d, NEW e, Facts(t, d, e), ScaleLocked(t)
    PROVE  BackInv'
<1>1. dep'[t] = d /\ Target(t)' = d /\ ~Deploys(t)' /\ inst' = inst /\ count' = count
      /\ pc[t] = "lock" /\ pc'[t] \in {"place", "stop"}
  BY Zenon DEF Facts, Typed, ScaleLocked, Lock, Goto, Target, Deploys, DeployPCs, clusterVars
<1>2. \/ pc'[t] = "place" /\ \E k : loc' = [loc EXCEPT ![t].last = k]
      \/ pc'[t] = "stop" /\ \E is \in SUBSET Active(d) : loc' = [loc EXCEPT ![t].todo = AsRead(is)]
  BY Zenon DEF Facts, Typed, ScaleLocked, Goto
<1>3. CASE pc'[t] = "place" /\ \E k : loc' = [loc EXCEPT ![t].last = k]
  <2>1. loc'[t].todo = {} /\ loc'[t].hit = {}
    BY <1>1, <1>3 DEF Facts, Hand, Typed, Locals
  <2>2. Bringing(t)'
    BY Zenon, <1>1, <1>3, <2>1, BringingIntro
  <2> QED
    BY Zenon, <1>1, <2>2, BackQuiet DEF Facts, StillInst
<1>4. CASE pc'[t] = "stop" /\ \E is \in SUBSET Active(d) : loc' = [loc EXCEPT ![t].todo = AsRead(is)]
  <2>1. PICK is \in SUBSET Active(d) : loc' = [loc EXCEPT ![t].todo = AsRead(is)]
    BY Zenon, <1>4
  <2>2. loc'[t].todo = AsRead(is) /\ loc'[t].hit = {}
    BY <1>1, <2>1 DEF Facts, Hand, Typed, Locals
  <2>3. \A x \in loc'[t].todo \cup loc'[t].hit : x[1] \in Instances(d)'
    <3>1. is \subseteq Instances(d)
      BY Zenon DEF Active
    <3>2. \A x \in AsRead(is) : x[1] \in is
      BY DEF AsRead
    <3> QED
      BY Zenon, <1>1, <2>2, <3>1, <3>2 DEF Facts, StillInst
  <2>4. Bringing(t)'
    BY Zenon, <1>1, <1>4, <2>2, <2>3, BringingIntro
  <2> QED
    BY Zenon, <1>1, <2>4, BackQuiet
<1> QED
  BY Zenon, <1>2, <1>3, <1>4

\* ... and records the new count.
LEMMA BackFinishScale ==
    ASSUME SvcInv, BackInv, NEW t \in Threads, Handle(t), NEW d, NEW e, Facts(t, d, e), FinishScale(t)
    PROVE  BackInv'
<1>1. Return(t) /\ inst' = inst /\ count' = [count EXCEPT ![d] = loc[t].n]
  BY Zenon DEF Facts, FinishScale
<1>2. \A f \in Deps : f # d => count'[f] = count[f]
  BY Zenon, <1>1 DEF Facts, Typed, RestTypes
<1> QED
  BY Zenon, <1>1, <1>2, IdleBringing, BackQuiet DEF Facts, Typed

LEMMA HandleBack ==
    ASSUME SvcInv, BackInv, NEW t \in Threads, Handle(t)
    PROVE  BackInv'
<1>f. PICK d, e : Facts(t, d, e)
  BY Zenon, BackFacts
<1>1. CASE BuildStart(t) \/ BuildDone(t) \/ ToScheduling(t) \/ ToStarting(t) \/ Run(t)
  BY Zenon, <1>1, <1>f, BackAdvance DEF BuildStart, BuildDone, ToScheduling, ToStarting, Run, Goto, Stay, repoVars
<1>2. CASE BuildFails(t) \/ FinishCreate(t) \/ FinishStop(t) \/ FinishRollback(t) \/ RollbackRefused(t)
  <2>1. Return(t) /\ inst' = inst /\ count' = count
    BY Zenon, <1>2 DEF BuildFails, FinishCreate, FinishStop, FinishRollback, RollbackRefused, clusterVars
  <2>2. pc \in [Threads -> LockedPCs \cup {"idle", "lock"}] /\ loc \in [Threads -> Locals]
    BY Zenon, RestTypesOK DEF SvcInv, BackInv, Types, RestTypes
  <2> QED
    BY Zenon, <2>1, <2>2, IdleBringing, BackQuiet
<1> QED
  BY ZenonT(60), <1>1, <1>2, <1>f, BackCreateQueued, BackPlace, BackPlaceFails, BackRunFails, BackRecord, BackRoute,
     BackStopCall, BackStopRecord, BackStopLocked, BackRollbackQueued, BackRestored, BackScaleLocked,
     BackFinishScale DEF Handle

-----------------------------------------------------------------------------

\* A request that arrives touches no record.
LEMMA CallBack ==
    ASSUME SvcInv, BackInv, NEW t \in Threads, NEW k \in Ops, NEW d \in Deps, NEW n \in Targets,
           Call(t, k, d, n)
    PROVE  BackInv'
<1>1. SvcInv' /\ RestTypes
  BY Zenon, CallStep, RestTypesOK DEF SvcInv, BackInv
<1>2. /\ pc'[t] = "lock" /\ UNCHANGED clusterVars
      /\ \A u \in Threads \ {t} : /\ pc'[u] = pc[u] /\ dep'[u] = dep[u] /\ kind'[u] = kind[u]
                                  /\ old'[u] = old[u]
  BY ZenonT(60) DEF Call, Goto, SvcInv, Types
<1>3. \E m \in 0..MaxInst : loc' = [loc EXCEPT ![t] = [NoLocals EXCEPT !.seen = status[d], !.n = m]]
  <2>1. n \in 0..MaxInst /\ count[d] \in 0..MaxInst
    BY <1>1, ServiceAssumption, ClusterAssumption DEF RestTypes
  <2> QED
    BY Zenon, <2>1 DEF Call
<1>4. PICK m \in 0..MaxInst : loc' = [loc EXCEPT ![t] = [NoLocals EXCEPT !.seen = status[d], !.n = m]]
  BY Zenon, <1>3
<1>5. [NoLocals EXCEPT !.seen = status[d], !.n = m] \in Locals
  <2>1. status[d] \in Statuses \cup {"NONE"}
    BY Zenon DEF SvcInv, Types
  <2>2. NoLocals \in Locals
    BY Zenon, NoLocalsType
  <2>3. \A l \in Locals, s \in Statuses \cup {"NONE"} : [l EXCEPT !.seen = s, !.n = m] \in Locals
    BY ZenonT(60) DEF Locals
  <2> QED
    BY Zenon, <2>1, <2>2, <2>3
<1>6. /\ loc' \in [Threads -> Locals] /\ loc'[t].todo = {} /\ loc'[t].hit = {}
      /\ \A u \in Threads \ {t} : loc'[u] = loc[u]
  BY Zenon, <1>1, <1>4, <1>5 DEF RestTypes, NoLocals
<1>7. calls' \in 0..MaxCalls
  BY <1>1, ServiceAssumption DEF Call, RestTypes
<1>8. RestTypes'
  BY Zenon, <1>1, <1>2, <1>6, <1>7 DEF RestTypes, clusterVars
<1>9. TypeInv'
  BY Zenon, <1>1, <1>8 DEF SvcInv, Types, RestTypes, Locals, TypeInv, ClusterTypeOK, ServiceTypeOK
<1>10. Created'
  <2>1. \A e \in Deps : Instances(e)' = Instances(e) /\ status' = status
    BY Zenon, <1>2 DEF Instances, clusterVars
  <2> QED
    BY Zenon, <2>1 DEF BackInv, Created, Numbered
<1>11. Bringing(t)'
  <2>1. ~Deploys(t)' /\ pc'[t] \notin {"run", "record", "route"}
    BY Zenon, <1>2 DEF Deploys, DeployPCs
  <2> QED
    BY Zenon, <1>6, <2>1 DEF Bringing
<1>12. ASSUME NEW u \in Threads \ {t} PROVE Bringing(u)'
  <2>1. PICK e, f : e = dep[u] /\ f = Target(u)
    BY Zenon
  <2>2. KeptDep(e) /\ KeptDep(f)
    BY Zenon, <1>2, KeptAll DEF clusterVars
  <2>3. Bringing(u) /\ u \in Threads
    BY Zenon DEF BackInv
  <2> QED
    BY Zenon, <1>2, <1>6, <2>1, <2>2, <2>3, BringingKept
<1> QED
  BY Zenon, <1>9, <1>10, <1>11, <1>12 DEF BackInv

\* A step of somebody else, which loses no record and takes no instance down
\* that a handler has brought up.
LEMMA OutsideBack ==
    ASSUME SvcInv, SvcInv', BackInv, RestTypes', UNCHANGED <<count, pc, kind, dep, old, loc>>,
           \A d \in Deps : status'[d] = "NONE" => status[d] = "NONE",
           \A i \in Insts : inst'[i].status = "NONE" <=> inst[i].status = "NONE",
           \A t \in Threads : Deploys(t) => \A i \in Instances(dep[t]) : Up(i) => Up(i)'
    PROVE  BackInv'
<1>1. TypeInv'
  BY Zenon DEF SvcInv, Types, RestTypes, Locals, TypeInv, ClusterTypeOK, ServiceTypeOK
<1>2. \A e : Instances(e)' = Instances(e) /\ Newest(e)' = Newest(e)
  <2>1. \A e : Instances(e)' = Instances(e)
    BY Zenon DEF Instances
  <2> QED
    BY Zenon, <2>1 DEF Newest
<1>3. Created'
  BY Zenon, <1>2 DEF BackInv, Created, Numbered
<1>4. ASSUME NEW u \in Threads PROVE Bringing(u)'
  <2>1. PICK d, e, p : d = dep[u] /\ e = Target(u) /\ p = pc[u]
    BY Zenon
  <2>2. dep'[u] = d /\ Target(u)' = e /\ pc'[u] = p /\ (Deploys(u)' <=> Deploys(u))
    BY Zenon, <2>1 DEF Target, Deploys
  <2>3. Bringing(u)
    BY Zenon DEF BackInv
  <2>4. /\ Deploys(u) =>
             /\ count[d] = loc[u].last
             /\ p \in {"queued", "building", "built", "scheduling"} => Instances(d) = {}
             /\ \A i \in Instances(d) : Up(i) \/ (p \in {"run", "record"} /\ i = Newest(d))
        /\ p \in {"run", "record", "route"} => loc[u].w \in Workers /\ Newest(d) \in Instances(d)
        /\ p \notin {"stop", "stopped"} => loc[u].todo = {}
        /\ p # "stopped" => loc[u].hit = {}
        /\ \A x \in loc[u].todo \cup loc[u].hit : x[1] \in Instances(e)
    BY Zenon, <2>1, <2>3, BringingElim
  <2>5. Deploys(u) => \A i \in Instances(d) : Up(i) => Up(i)'
    BY Zenon, <2>1
  <2> QED
    BY ZenonT(60), <1>2, <2>2, <2>4, <2>5, BringingIntro
<1> QED
  BY Zenon, <1>1, <1>3, <1>4 DEF BackInv

\* A handler loses no record either, and opens or closes nothing.
LEMMA HandleRecords ==
    ASSUME BackInv, NEW t \in Threads, Handle(t)
    PROVE  phase' = phase /\ \A i \in Insts : inst[i].status # "NONE" => inst'[i].status # "NONE"
<1>1. phase' = phase
  BY Zenon DEF Handle, CreateQueued, BuildStart, BuildFails, BuildDone, ToScheduling, ToStarting, Place,
     PlaceFails, Run, RunFails, Record, Route, FinishCreate, StopCall, StopRecord, StopLocked, FinishStop,
     RollbackRefused, RollbackQueued, Restored, FinishRollback, ScaleLocked, FinishScale, clusterVars
<1>2. inst' = inst \/ \E i, s, w : SetInst(i, s, w) /\ s # "NONE"
  <2>1. \A s \in {"PENDING", "RUNNING", "FAILED", "STOPPED"} : s # "NONE"
    BY Zenon
  <2>2. CASE \/ CreateQueued(t) \/ BuildStart(t) \/ BuildFails(t) \/ BuildDone(t) \/ ToScheduling(t)
             \/ ToStarting(t) \/ Run(t) \/ Route(t) \/ FinishCreate(t) \/ StopLocked(t) \/ FinishStop(t)
             \/ RollbackRefused(t) \/ RollbackQueued(t) \/ Restored(t) \/ FinishRollback(t)
             \/ ScaleLocked(t) \/ FinishScale(t) \/ \E x \in loc[t].todo : StopCall(t, x)
    BY Zenon, <2>2 DEF CreateQueued, BuildStart, BuildFails, BuildDone, ToScheduling, ToStarting, Run, Route,
       FinishCreate, StopCall, StopLocked, FinishStop, RollbackRefused, RollbackQueued, Restored,
       FinishRollback, ScaleLocked, FinishScale, clusterVars, repoVars
  <2>3. CASE Place(t) \/ PlaceFails(t) \/ RunFails(t) \/ Record(t) \/ StopRecord(t)
    BY Zenon, <2>1, <2>3 DEF Place, PlaceFails, RunFails, Record, StopRecord, Fail
  <2> QED
    BY Zenon, <2>2, <2>3 DEF Handle
<1>3. ASSUME NEW i, NEW s, NEW w, SetInst(i, s, w), s # "NONE", NEW j \in Insts, inst[j].status # "NONE"
      PROVE  inst'[j].status # "NONE"
  BY Zenon, <1>3 DEF SetInst, BackInv, TypeInv, ClusterTypeOK
<1> QED
  BY ZenonT(60), <1>1, <1>2, <1>3

LEMMA EnvironmentTypes ==
    ASSUME RestTypes, Environment, loc' = loc, calls' = calls
    PROVE  RestTypes'
<1>1. PICK w \in Workers :
        \/ \E i \in Insts : \/ DeliverLate(w, i) \/ DropLate(w, i)
                            \/ ContainerExits(w, i) \/ ContainerRemoved(w, i)
        \/ \E h \in Healths : HealthChanges(w, h)
        \/ Drain(w) \/ Undrain(w)
  BY Zenon DEF Environment
<1>2. ASSUME NEW i \in Insts,
             DeliverLate(w, i) \/ DropLate(w, i) \/ ContainerExits(w, i) \/ ContainerRemoved(w, i)
      PROVE  RestTypes'
  <2>1. node[w][i] \in Nodes /\ [node[w][i] EXCEPT !.cur = "exited"] \in Nodes
        /\ [node[w][i] EXCEPT !.cur = "none"] \in Nodes
    <3>1. node[w][i] \in Nodes
      BY DEF RestTypes
    <3>2. \A n \in Nodes : [n EXCEPT !.cur = "exited"] \in Nodes /\ [n EXCEPT !.cur = "none"] \in Nodes
      BY Zenon DEF Nodes
    <3> QED
      BY Zenon, <3>1, <3>2
  <2>2. Ran(node[w][i]) \in Nodes
    BY Zenon, <2>1, NodeOps
  <2>3. node' \in [Workers -> [Insts -> Nodes]]
    <3>1. node' = node \/ \E n \in Nodes : Apply(w, i, n)
      BY Zenon, <1>2, <2>1, <2>2 DEF DeliverLate, DropLate, ContainerExits, ContainerRemoved
    <3>2. node \in [Workers -> [Insts -> Nodes]]
      BY Zenon DEF RestTypes
    <3> QED
      BY Zenon, <3>1, <3>2, ApplyType
  <2>4. late' \subseteq Workers \X Insts /\ events' \in 0..MaxEvents
    BY <1>2, ClusterAssumption DEF RestTypes, DeliverLate, DropLate, ContainerExits, ContainerRemoved,
       Happens, Count
  <2> QED
    BY <1>2, <2>3, <2>4 DEF RestTypes, DeliverLate, DropLate, ContainerExits, ContainerRemoved,
       repoVars, fleetVars
<1>3. ASSUME NEW h \in Healths, HealthChanges(w, h) PROVE RestTypes'
  <2>1. health' \in [Workers -> Healths] /\ events' \in 0..MaxEvents
    BY <1>3, ClusterAssumption DEF RestTypes, HealthChanges, Happens, Count
  <2> QED
    BY Zenon, <1>3, <2>1 DEF RestTypes, HealthChanges, repoVars, nodeVars
<1>4. CASE Drain(w) \/ Undrain(w)
  BY <1>4, ClusterAssumption DEF RestTypes, Drain, Undrain, Happens, Count, repoVars, nodeVars
<1> QED
  BY Zenon, <1>1, <1>2, <1>3, <1>4

\* The environment touches no record, lock or handler.
LEMMA EnvironmentStill ==
    Environment => UNCHANGED <<status, count, inst, releases, routes, phase>>
BY ZenonT(60) DEF Environment, DeliverLate, DropLate, ContainerExits, ContainerRemoved, HealthChanges, Drain, Undrain,
   repoVars

-----------------------------------------------------------------------------
LEMMA InitBackInv ==
    ASSUME Counting, ClusterInit, ServiceInit, phase \in {"recovering", "reconciling", "serving"}
    PROVE  BackInv
<1>1. TypeInv
  <2>1. EmptyNode \in Nodes
    BY Zenon DEF EmptyNode, Nodes
  <2>2. NoLocals \in Locals
    BY Zenon, NoLocalsType
  <2>3. RestTypes
    <3>1. /\ 0 \in 0..MaxInst /\ 0 \in Nat /\ 0 \in 0..MaxEvents /\ 0 \in 0..MaxCalls
          /\ [status |-> "NONE", worker |-> NoWorker]
               \in [status: InstStatuses, worker: Workers \cup {NoWorker}]
          /\ "HEALTHY" \in Healths
      BY ClusterAssumption, ServiceAssumption DEF InstStatuses, Healths
    <3> QED
      BY Zenon, <2>1, <2>2, <3>1 DEF ClusterInit, ServiceInit, RestTypes
  <2> QED
    BY Zenon, <2>3, InitSvcInv, RestTypesOK DEF SvcInv
<1>2. Created
  <2>1. \A d \in Deps : Instances(d) = {}
    BY Zenon DEF Instances, ClusterInit
  <2>2. \A d \in Deps : Instances(d) = {d} \X (1..0) /\ 0 \in 0..MaxInst
    BY <2>1, ClusterAssumption
  <2> QED
    BY Zenon, <2>1, <2>2 DEF Created, Numbered
<1>3. \A t \in Threads : Bringing(t)
  <2> TAKE t \in Threads
  <2>1. pc[t] = "idle" /\ loc[t].todo = {} /\ loc[t].hit = {} /\ ~Deploys(t)
    BY Zenon DEF ServiceInit, NoLocals, Deploys, DeployPCs
  <2> QED
    BY Zenon, <2>1 DEF Bringing
<1> QED
  BY Zenon, <1>1, <1>2, <1>3 DEF BackInv

\* The statuses and the handlers stand still.
LEMMA SvcStill ==
    ASSUME SvcInv, UNCHANGED <<status, lock, pc, kind, dep, old>>,
           phase = "recovering" => phase' = "recovering"
    PROVE  SvcInv'
<1>1. Types' /\ Stages'
  BY Zenon DEF SvcInv, Types, Stages, Stage
<1>2. Holds' /\ Exists' /\ InFlight'
  BY Zenon DEF SvcInv, Holds, Exists, InFlight, Deploys
<1>3. Waiting' /\ Superseded'
  BY Zenon DEF SvcInv, Waiting, Superseded
<1>4. InFlightOwned'
  BY Zenon DEF SvcInv, InFlightOwned, Owns
<1> QED
  BY Zenon, <1>1, <1>2, <1>3, <1>4 DEF SvcInv

\* Every step of the service and its environment keeps both invariants, moves
\* statuses as it may, and reports RUNNING what is up.
LEMMA ServiceStep ==
    ASSUME SvcInv, BackInv, [ServiceNext]_serviceVars
    PROVE  SvcInv' /\ BackInv' /\ Moves /\ BackedKept
<1>1. ASSUME NEW t \in Threads, NEW k \in Ops, NEW d \in Deps, NEW n \in Targets, Call(t, k, d, n)
      PROVE  SvcInv' /\ BackInv' /\ Moves /\ BackedKept
  <2>1. BackedKept
    BY Zenon, <1>1 DEF Call, clusterVars, BackedKept
  <2> QED
    BY Zenon, <1>1, <2>1, CallStep, CallBack
<1>2. ASSUME NEW t \in Threads, Handle(t)
      PROVE  SvcInv' /\ BackInv' /\ Moves /\ BackedKept
  BY Zenon, <1>2, HandleStep, HandleBack, HandleBacked
<1>3. CASE (Environment /\ UNCHANGED svcVars) \/ UNCHANGED serviceVars
  <2>1. UNCHANGED <<status, count, inst, lock, pc, kind, dep, old, loc, calls, phase>>
    BY Zenon, <1>3, EnvironmentStill DEF svcVars, serviceVars, clusterVars
  <2>2. SvcInv'
    BY Zenon, <2>1, SvcStill
  <2>3. RestTypes
    BY Zenon, RestTypesOK DEF SvcInv, BackInv
  <2>4. RestTypes'
    <3>1. CASE Environment
      BY Zenon, <2>1, <2>3, <3>1, EnvironmentTypes
    <3>2. CASE UNCHANGED serviceVars
      BY Zenon, <2>1, <2>3, <3>2 DEF serviceVars, clusterVars, RestTypes
    <3> QED
      BY Zenon, <1>3, <3>1, <3>2
  <2>5. Moves /\ BackedKept
    BY Zenon, <2>1, StillMoves DEF BackedKept
  <2>6. BackInv'
    BY Zenon, <2>1, <2>2, <2>4, OutsideBack DEF Up
  <2> QED
    BY Zenon, <2>2, <2>5, <2>6
<1> QED
  BY Zenon, <1>1, <1>2, <1>3 DEF ServiceNext, Service

=============================================================================
