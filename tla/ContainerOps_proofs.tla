------------------------ MODULE ContainerOps_proofs ------------------------
(***************************************************************************)
(* Proofs about ContainerOps, for any sets of instances, callers, lock     *)
(* objects and containers: the reference-counted keyed lock excludes and   *)
(* is reclaimed exactly, and, while the daemon answers truthfully and the  *)
(* agent does not restart, an instance has at most one running container   *)
(* and a successful stop leaves none.                                      *)
(***************************************************************************)
EXTENDS ContainerOps, FiniteSetTheorems, TLAPS

-----------------------------------------------------------------------------
\* The handlers that hold a reference to lock object o.
Refs(o) == {t \in Callers : kl[t] = o}

\* The inductive invariant of LockInstance.  Exactness of the counts (the last
\* two conjuncts) is what makes deleting the map entry safe: without it a
\* handler could hold a reference to a lock the map no longer names, and the
\* next handler would create a second lock for the same instance.
LockInv ==
    /\ TypeOK
    /\ \A t \in Callers :
         /\ kl[t] = NoLock <=> pc[t] \in {"idle", "enter"}
         /\ pc[t] # "idle" => inst[t] \in Instances
         /\ kl[t] # NoLock => keyLocks[inst[t]] = kl[t]
         /\ InCritical(t) => holder[kl[t]] = t
    /\ \A i, j \in Instances :
         keyLocks[i] # NoLock /\ keyLocks[i] = keyLocks[j] => i = j
    /\ \A i \in Instances, o \in LockObjects : keyLocks[i] = o => Refs(o) # {}
    /\ \A o \in LockObjects : refCount[o] = Cardinality(Refs(o))

\* Init establishes the lock invariant: no locks, no references.
LEMMA InitLockInv == Init => LockInv
<1> SUFFICES ASSUME Init PROVE LockInv
  BY Zenon
<1> USE ConstantsAssumption
<1>1. TypeOK
  BY DEF Init, TypeOK, NoRecord, States, PCs, ContainerStates
<1>2. ASSUME NEW o \in LockObjects PROVE refCount[o] = Cardinality(Refs(o))
  <2>1. Refs(o) = {}
    BY Zenon DEF Init, Refs
  <2> QED
    BY Zenon, <2>1, FS_EmptySet DEF Init
<1> QED
  BY Zenon, <1>1, <1>2 DEF Init, LockInv, InCritical, CriticalPCs

\* A caller past its entry refers to the lock object of its instance.
LEMMA Referring ==
  ASSUME LockInv, NEW u \in Callers, pc[u] \notin {"idle", "enter"}
  PROVE  kl[u] \in LockObjects /\ keyLocks[inst[u]] = kl[u]
<1>1. kl[u] \in LockObjects \cup {NoLock}
  BY Zenon DEF LockInv, TypeOK
<1>2. kl[u] # NoLock
  BY Zenon DEF LockInv
<1> QED
  BY Zenon, <1>1, <1>2 DEF LockInv

\* A caller in its critical section holds that object.
LEMMA Holding ==
  ASSUME LockInv, NEW u \in Callers, pc[u] \in CriticalPCs
  PROVE  kl[u] \in LockObjects /\ holder[kl[u]] = u
<1>1. pc[u] \notin {"idle", "enter"}
  BY Zenon DEF CriticalPCs
<1> QED
  BY Zenon, <1>1, Referring DEF LockInv, InCritical

\* Every step that touches neither the locks nor the references, and keeps a
\* caller on the same side of the lock operations, preserves the invariant.
LEMMA LocalStepLockInv ==
  ASSUME LockInv, TypeOK', NEW t \in Callers,
         UNCHANGED <<keyLocks, refCount, holder, kl, inst>>,
         InCritical(t),
         \E p \in CriticalPCs : pc' = [pc EXCEPT ![t] = p]
  PROVE  LockInv'
<1> USE ConstantsAssumption
<1>1. PICK p \in CriticalPCs : pc' = [pc EXCEPT ![t] = p]
  BY Zenon
<1>2. \A o \in LockObjects : Refs(o)' = Refs(o)
  BY Zenon DEF Refs
<1>3. \A u \in Callers : pc'[u] = IF u = t THEN p ELSE pc[u]
  BY <1>1 DEF LockInv, TypeOK
<1>4. ASSUME NEW u \in Callers
      PROVE  /\ kl[u] = NoLock <=> pc'[u] \in {"idle", "enter"}
             /\ pc'[u] # "idle" => inst[u] \in Instances
             /\ pc'[u] \in CriticalPCs => holder[kl[u]] = u
  BY Zenon, <1>3 DEF LockInv, InCritical, CriticalPCs
<1>5. \A i \in Instances, o \in LockObjects : keyLocks[i] = o => Refs(o)' # {}
  BY <1>2 DEF LockInv
<1> QED
  BY <1>2, <1>4, <1>5 DEF LockInv, InCritical

-----------------------------------------------------------------------------
\* Moving one container, or one record, to another state is well typed.
LEMMA StateUpdates ==
  ASSUME TypeOK
  PROVE  /\ \A c, s : s \in ContainerStates =>
              [docker EXCEPT ![c].state = s]
                \in [Containers -> [state: ContainerStates,
                                    inst: Instances \cup {NoInstance}]]
         /\ \A i, s : s \in States =>
              [records EXCEPT ![i].state = s]
                \in [Instances -> [state: States, ctr: Containers \cup {NoContainer}]]
<1>1. ASSUME NEW c, NEW s \in ContainerStates
      PROVE  [docker EXCEPT ![c].state = s]
                \in [Containers -> [state: ContainerStates,
                                    inst: Instances \cup {NoInstance}]]
  <2>1. CASE c \in Containers
    BY <2>1 DEF TypeOK
  <2>2. CASE c \notin Containers
    BY Zenon, <2>2 DEF TypeOK
  <2> QED
    BY Zenon, <2>1, <2>2
<1>2. ASSUME NEW i, NEW s \in States
      PROVE  [records EXCEPT ![i].state = s]
                \in [Instances -> [state: States, ctr: Containers \cup {NoContainer}]]
  <2>1. CASE i \in Instances
    BY <2>1 DEF TypeOK
  <2>2. CASE i \notin Instances
    BY Zenon, <2>2 DEF TypeOK
  <2> QED
    BY Zenon, <2>1, <2>2
<1> QED
  BY Zenon, <1>1, <1>2

\* Every step keeps every variable in its range.
LEMMA NextTypeOK == LockInv /\ [Next]_vars => TypeOK'
<1> SUFFICES ASSUME LockInv, [Next]_vars PROVE TypeOK'
  BY Zenon
<1> USE ConstantsAssumption
<1>t. TypeOK
  BY Zenon DEF LockInv
<1>1. ASSUME NEW t \in Callers, NEW o \in {"run", "stop"}, NEW i \in Instances,
             Call(t, o, i)
      PROVE  TypeOK'
  BY <1>1, <1>t DEF Call, TypeOK, PCs, lockVars
<1>2. ASSUME NEW t \in Callers, Step(t) PROVE TypeOK'
  <2>0. pc[t] # "idle" => inst[t] \in Instances
    BY Zenon DEF LockInv
  <2>1. CASE LockEnter(t)
    BY <2>0, <2>1, <1>t DEF LockEnter, TypeOK, PCs
  <2>2. CASE LockAcquire(t)
    BY Zenon, <2>2, <1>t DEF LockAcquire, TypeOK, PCs, callVars
  <2>3. CASE Unlock(t)
    BY Zenon, <2>3, <1>t DEF Unlock, TypeOK, PCs, callVars
  <2>4. CASE Deref(t)
    <3>1. kl[t] \in LockObjects /\ t \in Refs(kl[t])
      BY SMTT(60), Z3T(60), <2>4, <1>t DEF Deref, LockInv, TypeOK, Refs
    <3>2. IsFiniteSet(Refs(kl[t]))
      BY Zenon, FS_Subset DEF Refs
    <3>3. refCount[kl[t]] # 0
      BY <3>1, <3>2, FS_EmptySet DEF LockInv
    <3>4. refCount[kl[t]] - 1 \in Nat
      BY <3>1, <3>3, <1>t DEF TypeOK
    <3>5. refCount' \in [LockObjects -> Nat]
      BY Zenon, <2>4, <3>1, <3>4, <1>t DEF Deref, TypeOK
    <3>6. keyLocks' \in [Instances -> LockObjects \cup {NoLock}]
      BY Zenon, <2>4, <1>t DEF Deref, TypeOK
    <3> QED
      BY Zenon, <2>4, <3>5, <3>6, <1>t DEF Deref, TypeOK, PCs
  <2>5. CASE RunDuplicate(t)
    BY Zenon, <2>5, <1>t DEF RunDuplicate, Finish, TypeOK, PCs, callVars, lockVars
  <2>6. CASE RunRejected(t)
    BY Zenon, <2>6, <1>t DEF RunRejected, Finish, TypeOK, PCs, States, callVars, lockVars
  <2>7. CASE RunMarkStarting(t)
    BY Zenon, <2>7, <1>t DEF RunMarkStarting, TypeOK, PCs, States, callVars, lockVars
  <2>8. CASE RunCreate(t)
    <3>1. docker' \in [Containers -> [state: ContainerStates,
                                     inst: Instances \cup {NoInstance}]]
      BY <2>0, <2>8, <1>t DEF RunCreate, TypeOK, ContainerStates
    <3> QED
      BY <2>8, <3>1, <1>t DEF RunCreate, TypeOK, PCs, callVars, lockVars
  <2>9. CASE RunCreateFails(t)
    <3>1. docker' \in [Containers -> [state: ContainerStates,
                                     inst: Instances \cup {NoInstance}]]
      BY <2>0, <2>9, <1>t DEF RunCreateFails, TypeOK, ContainerStates
    <3> QED
      BY ZenonT(60), <2>9, <3>1, <1>t
      DEF RunCreateFails, Finish, TypeOK, PCs, States, callVars, lockVars
  <2>10. CASE RunStart(t)
    <3>1. docker' \in [Containers -> [state: ContainerStates,
                                     inst: Instances \cup {NoInstance}]]
      BY Zenon, <2>10, StateUpdates, <1>t DEF RunStart, TypeOK, ContainerStates
    <3> QED
      BY Zenon, <2>10, <3>1, <1>t DEF RunStart, TypeOK, PCs, States, callVars, lockVars
  <2>11. CASE RunStartFails(t)
    <3>0. \/ docker' = docker
          \/ docker' = [docker EXCEPT ![ctr[t]].state = "running"]
      BY Zenon, <2>11 DEF RunStartFails
    <3>a. [docker EXCEPT ![ctr[t]].state = "running"]
            \in [Containers -> [state: ContainerStates, inst: Instances \cup {NoInstance}]]
      BY Zenon, StateUpdates, <1>t DEF ContainerStates
    <3>b. docker
            \in [Containers -> [state: ContainerStates, inst: Instances \cup {NoInstance}]]
      BY Zenon, <1>t DEF TypeOK
    <3>1. docker'
            \in [Containers -> [state: ContainerStates, inst: Instances \cup {NoInstance}]]
      BY Zenon, <3>0, <3>a, <3>b
    <3> QED
      BY Zenon, <2>11, <3>1, <1>t DEF RunStartFails, Finish, TypeOK, PCs, States, callVars, lockVars
  <2>12. CASE RunRecord(t)
    BY Zenon, <2>12, <1>t DEF RunRecord, Finish, TypeOK, PCs, States, callVars, lockVars
  <2>13. CASE StopNothing(t)
    BY Zenon, <2>13, <1>t DEF StopNothing, Finish, TypeOK, PCs, callVars, lockVars
  <2>14. CASE StopMarkStopping(t)
    BY <2>0, <2>14, <1>t DEF StopMarkStopping, TypeOK, PCs, States, callVars, lockVars
  <2>15. CASE StopDocker(t)
    <3>1. docker' \in [Containers -> [state: ContainerStates,
                                     inst: Instances \cup {NoInstance}]]
      BY Zenon, <2>15, StateUpdates, <1>t DEF StopDocker, TypeOK, ContainerStates
    <3> QED
      BY Zenon, <2>15, <3>1, <1>t DEF StopDocker, TypeOK, PCs, States, callVars, lockVars
  <2>16. CASE StopDockerFails(t)
    <3>0. \/ docker' = docker
          \/ docker' = [docker EXCEPT ![ctr[t]].state = "exited"]
      BY Zenon, <2>16 DEF StopDockerFails
    <3>a. [docker EXCEPT ![ctr[t]].state = "exited"]
            \in [Containers -> [state: ContainerStates, inst: Instances \cup {NoInstance}]]
      BY Zenon, StateUpdates, <1>t DEF ContainerStates
    <3>b. docker
            \in [Containers -> [state: ContainerStates, inst: Instances \cup {NoInstance}]]
      BY <1>t DEF TypeOK
    <3>1. docker'
            \in [Containers -> [state: ContainerStates, inst: Instances \cup {NoInstance}]]
      BY Zenon, <3>0, <3>a, <3>b
    <3> QED
      BY Zenon, <2>16, <3>1, <1>t DEF StopDockerFails, Finish, TypeOK, PCs, States, callVars, lockVars
  <2>17. CASE StopRecord(t)
    BY Zenon, <2>17, StateUpdates, <1>t DEF StopRecord, Finish, TypeOK, PCs, States, callVars, lockVars
  <2> QED
    BY Zenon, <1>2, <2>1, <2>2, <2>3, <2>4, <2>5, <2>6, <2>7, <2>8, <2>9, <2>10, <2>11,
       <2>12, <2>13, <2>14, <2>15, <2>16, <2>17 DEF Step
<1>3. ASSUME NEW c \in Containers, ContainerExits(c) PROVE TypeOK'
  BY Zenon, <1>3, StateUpdates, <1>t DEF ContainerExits, TypeOK, ContainerStates, callVars, lockVars
<1>4. ASSUME NEW c \in Containers, ContainerRemoved(c) PROVE TypeOK'
  BY ZenonT(60), <1>4, StateUpdates, <1>t DEF ContainerRemoved, TypeOK, ContainerStates, callVars, lockVars
<1>5. CASE AgentRestart
  BY Zenon, <1>5, <1>t DEF AgentRestart, TypeOK, NoRecord, PCs, States
<1>6. CASE UNCHANGED vars
  BY Zenon, <1>6, <1>t DEF vars, TypeOK
<1> QED
  BY Zenon, <1>1, <1>2, <1>3, <1>4, <1>5, <1>6 DEF Next

\* The lock operations themselves preserve the lock invariant.
LEMMA LockOpsLockInv ==
  ASSUME LockInv, TypeOK', NEW t \in Callers,
         LockEnter(t) \/ LockAcquire(t) \/ Unlock(t) \/ Deref(t)
  PROVE  LockInv'
<1> USE ConstantsAssumption
<1>t. TypeOK
  BY Zenon DEF LockInv
<1>f. \A o : IsFiniteSet(Refs(o))
  BY Zenon, FS_Subset DEF Refs
<1>1. CASE LockEnter(t)
  <2>1. PICK o \in LockObjects :
          /\ IF keyLocks[inst[t]] # NoLock THEN o = keyLocks[inst[t]] ELSE FreeLock(o)
          /\ keyLocks' = [keyLocks EXCEPT ![inst[t]] = o]
          /\ refCount' = [refCount EXCEPT
                            ![o] = (IF keyLocks[inst[t]] # NoLock THEN @ ELSE 0) + 1]
          /\ kl' = [kl EXCEPT ![t] = o]
    BY ZenonT(60), <1>1 DEF LockEnter
  <2>2. inst[t] \in Instances /\ kl[t] = NoLock /\ t \notin Refs(o)
    BY Zenon, <1>1 DEF LockEnter, LockInv, Refs
  <2>3. Refs(o)' = Refs(o) \cup {t}
    BY <2>1, <1>t DEF Refs, TypeOK
  <2>4. ASSUME NEW p \in LockObjects, p # o PROVE Refs(p)' = Refs(p)
    BY <2>1, <2>2, <2>4, <1>t DEF Refs, TypeOK
  <2>5. keyLocks[inst[t]] = NoLock => Refs(o) = {}
    BY Zenon, <2>1 DEF FreeLock, Refs
  <2>6. Cardinality(Refs(o)') = Cardinality(Refs(o)) + 1
    BY Zenon, <2>2, <2>3, <1>f, FS_AddElement
  <2>7. ASSUME NEW p \in LockObjects PROVE refCount'[p] = Cardinality(Refs(p)')
    <3>1. CASE p = o
      <4>1. CASE keyLocks[inst[t]] # NoLock
        BY <2>1, <2>6, <3>1, <4>1, <1>t DEF LockInv, TypeOK
      <4>2. CASE keyLocks[inst[t]] = NoLock
        BY ZenonT(60), <2>1, <2>5, <2>6, <3>1, <4>2, <1>t, FS_EmptySet DEF TypeOK
      <4> QED
        BY Zenon, <4>1, <4>2
    <3>2. CASE p # o
      BY <2>1, <2>4, <3>2, <1>t DEF LockInv, TypeOK
    <3> QED
      BY Zenon, <3>1, <3>2
  <2>8. ASSUME NEW u \in Callers
        PROVE  /\ kl'[u] = NoLock <=> pc'[u] \in {"idle", "enter"}
               /\ pc'[u] # "idle" => inst'[u] \in Instances
               /\ kl'[u] # NoLock => keyLocks'[inst'[u]] = kl'[u]
               /\ pc'[u] \in CriticalPCs => holder'[kl'[u]] = u
    <3>1. CASE u = t
      BY ZenonT(60), <1>1, <2>1, <2>2, <3>1, <1>t DEF LockEnter, TypeOK, CriticalPCs
    <3>2. CASE u # t
      <4>1. /\ kl'[u] = kl[u] /\ pc'[u] = pc[u] /\ inst' = inst /\ holder' = holder
        BY ZenonT(60), <1>1, <2>1, <3>2, <1>t DEF LockEnter, TypeOK
      <4>2. kl[u] # NoLock => keyLocks[inst[u]] = kl[u] /\ inst[u] \in Instances
        BY Zenon DEF LockInv
      <4>3. kl[u] # NoLock => keyLocks'[inst[u]] = kl[u]
        BY ZenonT(60), <2>1, <2>2, <4>2, <1>t DEF TypeOK, FreeLock
      <4> QED
        BY Zenon, <4>1, <4>2, <4>3 DEF LockInv, InCritical
    <3> QED
      BY Zenon, <3>1, <3>2
  <2>9. ASSUME NEW i \in Instances, NEW j \in Instances,
               keyLocks'[i] # NoLock, keyLocks'[i] = keyLocks'[j]
        PROVE  i = j
    BY <2>1, <2>2, <2>9, <1>t DEF LockInv, TypeOK, FreeLock
  <2>10. ASSUME NEW i \in Instances, NEW p \in LockObjects, keyLocks'[i] = p
         PROVE  Refs(p)' # {}
    <3>1. CASE p = o
      BY Zenon, <2>3, <3>1
    <3>2. CASE p # o
      <4>1. keyLocks[i] = p
        BY ZenonT(60), <2>1, <2>2, <2>10, <3>2, <1>t DEF TypeOK
      <4> QED
        BY Zenon, <2>4, <3>2, <4>1 DEF LockInv
    <3> QED
      BY Zenon, <3>1, <3>2
  <2> QED
    BY Zenon, <2>7, <2>8, <2>9, <2>10 DEF LockInv, InCritical
<1>2. CASE LockAcquire(t)
  <2>0. kl' = kl /\ keyLocks' = keyLocks /\ refCount' = refCount /\ inst' = inst
    BY Zenon, <1>2 DEF LockAcquire, callVars
  <2>1. \A o : Refs(o)' = Refs(o)
    BY ZenonT(60), <2>0 DEF Refs
  <2>2. kl[t] \in LockObjects
    BY SMTT(60), Z3T(60), <1>2, <1>t DEF LockAcquire, LockInv, TypeOK
  <2>3. ASSUME NEW u \in Callers
        PROVE  /\ kl[u] = NoLock <=> pc'[u] \in {"idle", "enter"}
               /\ pc'[u] # "idle" => inst[u] \in Instances
               /\ pc'[u] \in CriticalPCs => holder'[kl[u]] = u
    <3>1. CASE u = t
      <4>1. pc[t] = "acquire" /\ pc'[t] = "check" /\ holder'[kl[t]] = t
        BY ZenonT(60), <1>2, <2>2, <1>t DEF LockAcquire, TypeOK
      <4> QED
        BY Zenon, <4>1, <3>1 DEF LockInv
    <3>2. CASE u # t
      <4>1. pc'[u] = pc[u]
        BY Zenon, <1>2, <3>2, <1>t DEF LockAcquire, TypeOK
      <4>2. pc[u] \in CriticalPCs => holder[kl[u]] = u /\ kl[u] \in LockObjects
        BY Zenon, <1>t, Holding
      <4>3. pc[u] \in CriticalPCs => kl[u] # kl[t]
        BY Zenon, <1>2, <4>2, ConstantsAssumption DEF LockAcquire
      <4>4. pc[u] \in CriticalPCs => holder'[kl[u]] = u
        BY Zenon, <1>2, <2>2, <4>2, <4>3, <1>t DEF LockAcquire, TypeOK
      <4> QED
        BY Zenon, <4>1, <4>4 DEF LockInv
    <3> QED
      BY Zenon, <3>1, <3>2
  <2> QED
    BY Zenon, <2>0, <2>1, <2>3 DEF LockInv, InCritical
<1>3. CASE Unlock(t)
  <2>0. kl' = kl /\ keyLocks' = keyLocks /\ refCount' = refCount /\ inst' = inst
    BY Zenon, <1>3 DEF Unlock, callVars
  <2>1. \A o : Refs(o)' = Refs(o)
    BY Zenon, <2>0 DEF Refs
  <2>2. kl[t] \in LockObjects /\ holder[kl[t]] = t
    BY Zenon, <1>3, <1>t, Holding DEF Unlock, CriticalPCs
  <2>3. ASSUME NEW u \in Callers
        PROVE  /\ kl[u] = NoLock <=> pc'[u] \in {"idle", "enter"}
               /\ pc'[u] # "idle" => inst[u] \in Instances
               /\ pc'[u] \in CriticalPCs => holder'[kl[u]] = u
    <3>1. CASE u = t
      BY ZenonT(180), <1>3, <3>1, <1>t DEF Unlock, TypeOK, LockInv, CriticalPCs
    <3>2. CASE u # t
      <4>1. pc'[u] = pc[u]
        BY Zenon, <1>3, <3>2, <1>t DEF Unlock, TypeOK
      <4>2. pc[u] \in CriticalPCs => holder[kl[u]] = u /\ kl[u] \in LockObjects
        BY Zenon, <1>t, Holding
      <4>3. pc[u] \in CriticalPCs => holder'[kl[u]] = u
        BY ZenonT(60), <1>3, <2>2, <3>2, <4>2, <1>t DEF Unlock, TypeOK
      <4> QED
        BY Zenon, <4>1, <4>3 DEF LockInv
    <3> QED
      BY <3>1, <3>2
  <2> QED
    BY <2>0, <2>1, <2>3 DEF LockInv, InCritical
<1>4. CASE Deref(t)
  <2>0. PICK o \in LockObjects : o = kl[t]
    BY Zenon, <1>4, <1>t, Referring DEF Deref
  <2>1. o = kl[t] /\ inst[t] \in Instances /\ t \in Refs(o) /\ keyLocks[inst[t]] = o
    BY Zenon, <1>4, <2>0, <1>t DEF Deref, LockInv, TypeOK, Refs
  <2>2. Refs(o)' = Refs(o) \ {t}
    BY Zenon, <1>4, <2>1, <1>t DEF Deref, Refs, TypeOK
  <2>3. ASSUME NEW p \in LockObjects, p # o PROVE Refs(p)' = Refs(p)
    BY Zenon, <1>4, <2>1, <2>3, <1>t DEF Deref, Refs, TypeOK
  <2>4. Cardinality(Refs(o)') = Cardinality(Refs(o)) - 1
    BY ZenonT(60), <2>1, <2>2, <1>f, FS_RemoveElement
  <2>5. refCount[o] = 1 <=> Refs(o) = {t}
    <3>1. refCount[o] = Cardinality(Refs(o))
      BY Zenon, <2>1 DEF LockInv
    <3>2. Refs(o) = {t} => Cardinality(Refs(o)) = 1
      BY Zenon, FS_Singleton
    <3>3. Cardinality(Refs(o)) = 1 => \E x : Refs(o) = {x}
      BY Zenon, <1>f, FS_Singleton
    <3> QED
      BY Zenon, <2>1, <3>1, <3>2, <3>3
  <2>6. ASSUME NEW p \in LockObjects PROVE refCount'[p] = Cardinality(Refs(p)')
    BY <1>4, <2>1, <2>3, <2>4, <1>t DEF Deref, LockInv, TypeOK
  <2>7. ASSUME NEW u \in Callers
        PROVE  /\ kl'[u] = NoLock <=> pc'[u] \in {"idle", "enter"}
               /\ pc'[u] # "idle" => inst'[u] \in Instances
               /\ kl'[u] # NoLock => keyLocks'[inst'[u]] = kl'[u]
               /\ pc'[u] \in CriticalPCs => holder'[kl'[u]] = u
    <3>1. CASE u = t
      BY ZenonT(60), <1>4, <3>1, <1>t DEF Deref, TypeOK, CriticalPCs
    <3>2. CASE u # t
      <4>1. /\ kl'[u] = kl[u] /\ pc'[u] = pc[u] /\ inst' = inst /\ holder' = holder
        BY ZenonT(60), <1>4, <3>2, <1>t DEF Deref, TypeOK
      <4>2. kl[u] # NoLock => keyLocks[inst[u]] = kl[u] /\ inst[u] \in Instances
        BY DEF LockInv
      <4>3. kl[u] # NoLock /\ refCount[o] = 1 => inst[u] # inst[t]
        BY Zenon, <2>1, <2>5, <3>2, <4>2 DEF Refs
      <4>4. kl[u] # NoLock => keyLocks'[inst[u]] = keyLocks[inst[u]]
        BY ZenonT(60), <1>4, <2>1, <4>2, <4>3, <1>t DEF Deref, TypeOK
      <4> QED
        BY Zenon, <4>1, <4>2, <4>4 DEF LockInv, InCritical
    <3> QED
      BY <3>1, <3>2
  <2>8. ASSUME NEW i \in Instances, NEW p \in LockObjects, keyLocks'[i] = p
        PROVE  keyLocks[i] = p
    BY Zenon, <1>4, <2>8, <1>t DEF Deref, TypeOK
  <2>9. ASSUME NEW i \in Instances, NEW p \in LockObjects, keyLocks'[i] = p
        PROVE  Refs(p)' # {}
    <3>0. keyLocks[i] = p
      BY Zenon, <2>8, <2>9
    <3>1. CASE p = o
      <4>1. i = inst[t]
        BY SMTT(60), Z3T(60), <2>1, <3>0, <3>1 DEF LockInv, TypeOK
      <4>2. refCount[o] # 1
        BY ZenonT(60), <1>4, <2>1, <2>9, <4>1, <1>t DEF Deref, TypeOK
      <4> QED
        BY ZenonT(60), <2>1, <2>2, <2>5, <3>1, <4>2
    <3>2. CASE p # o
      BY ZenonT(60), <2>3, <3>0, <3>2 DEF LockInv
    <3> QED
      BY <3>1, <3>2
  <2>10. ASSUME NEW i \in Instances, NEW j \in Instances,
                keyLocks'[i] # NoLock, keyLocks'[i] = keyLocks'[j]
         PROVE  i = j
    BY <2>8, <2>10 DEF LockInv, TypeOK
  <2> QED
    BY Zenon, <2>6, <2>7, <2>9, <2>10 DEF LockInv, InCritical
<1> QED
  BY Zenon, <1>1, <1>2, <1>3, <1>4

\* The step lemma: every action of Next preserves the lock invariant.
LEMMA NextLockInv == LockInv /\ [Next]_vars => LockInv'
<1> SUFFICES ASSUME LockInv, [Next]_vars PROVE LockInv'
  BY Zenon
<1> USE ConstantsAssumption
<1>t. TypeOK
  BY DEF LockInv
<1>n. TypeOK'
  BY ZenonT(60), NextTypeOK
<1>1. ASSUME NEW t \in Callers, NEW o \in {"run", "stop"}, NEW i \in Instances,
             Call(t, o, i)
      PROVE  LockInv'
  <2>1. \A p \in LockObjects : Refs(p)' = Refs(p)
    BY ZenonT(60), <1>1 DEF Call, Refs
  <2>2. ASSUME NEW u \in Callers
        PROVE  /\ kl'[u] = NoLock <=> pc'[u] \in {"idle", "enter"}
               /\ pc'[u] # "idle" => inst'[u] \in Instances
               /\ kl'[u] # NoLock => keyLocks'[inst'[u]] = kl'[u]
               /\ pc'[u] \in CriticalPCs => holder'[kl'[u]] = u
    BY <1>1, <1>t DEF Call, lockVars, LockInv, TypeOK, InCritical, CriticalPCs
  <2>3. UNCHANGED <<keyLocks, refCount, holder>>
    BY ZenonT(60), <1>1 DEF Call, lockVars
  <2>4. \A j \in Instances, p \in LockObjects : keyLocks'[j] = p => Refs(p)' # {}
    BY <2>1, <2>3 DEF LockInv
  <2> QED
    BY SMTT(60), Z3T(60), <1>n, <2>1, <2>2, <2>3, <2>4 DEF LockInv, InCritical
<1>2. ASSUME NEW t \in Callers, Step(t) PROVE LockInv'
  <2>1. CASE LockEnter(t) \/ LockAcquire(t) \/ Unlock(t) \/ Deref(t)
    BY Zenon, <1>n, <2>1, LockOpsLockInv
  <2>2. CASE ~(LockEnter(t) \/ LockAcquire(t) \/ Unlock(t) \/ Deref(t))
    <3>1. InCritical(t)
      BY Zenon, <1>2, <2>2 DEF Step, InCritical, CriticalPCs, RunDuplicate, RunRejected,
         RunMarkStarting, RunCreate, RunCreateFails, RunStart, RunStartFails, RunRecord,
         StopNothing, StopMarkStopping, StopDocker, StopDockerFails, StopRecord
    <3>2. UNCHANGED <<keyLocks, refCount, holder, kl, inst>>
      BY Zenon, <1>2, <2>2 DEF Step, lockVars, callVars, RunDuplicate, RunRejected,
         RunMarkStarting, RunCreate, RunCreateFails, RunStart, RunStartFails, RunRecord,
         StopNothing, StopMarkStopping, StopDocker, StopDockerFails, StopRecord
    <3>3. \E p \in CriticalPCs : pc' = [pc EXCEPT ![t] = p]
      BY ZenonT(60), <1>2, <2>2 DEF Step, CriticalPCs, Finish, RunDuplicate, RunRejected,
         RunMarkStarting, RunCreate, RunCreateFails, RunStart, RunStartFails, RunRecord,
         StopNothing, StopMarkStopping, StopDocker, StopDockerFails, StopRecord
    <3> QED
      BY Zenon, <1>n, <3>1, <3>2, <3>3, LocalStepLockInv
  <2> QED
    BY Zenon, <2>1, <2>2
<1>3. ASSUME UNCHANGED <<keyLocks, refCount, holder, pc, kl, inst>> PROVE LockInv'
  <2>1. \A p \in LockObjects : Refs(p)' = Refs(p)
    BY Zenon, <1>3 DEF Refs
  <2>2. \A j \in Instances, p \in LockObjects : keyLocks'[j] = p => Refs(p)' # {}
    BY Zenon, <1>3, <2>1 DEF LockInv
  <2> QED
    BY Zenon, <1>3, <1>n, <2>1, <2>2 DEF LockInv, InCritical
<1>4. ASSUME NEW c \in Containers, ContainerExits(c) \/ ContainerRemoved(c)
      PROVE  LockInv'
  BY Zenon, <1>3, <1>4 DEF ContainerExits, ContainerRemoved, lockVars, callVars
<1>5. ASSUME AgentRestart PROVE LockInv'
  <2>1. ASSUME NEW o \in LockObjects PROVE refCount'[o] = Cardinality(Refs(o)')
    <3>1. Refs(o)' = {}
      BY Zenon, <1>5 DEF AgentRestart, Refs
    <3> QED
      BY Zenon, <1>5, <3>1, FS_EmptySet DEF AgentRestart
  <2> QED
    BY Zenon, <1>5, <1>n, <2>1 DEF AgentRestart, LockInv, InCritical, CriticalPCs
<1>6. ASSUME UNCHANGED vars PROVE LockInv'
  BY Zenon, <1>3, <1>6 DEF vars
<1> QED
  BY Zenon, <1>1, <1>2, <1>4, <1>5, <1>6 DEF Next

\* The tracker's lock structures stay consistent in every reachable state.
THEOREM LockInvariant == Spec => []LockInv
<1>1. Init => LockInv
  BY Zenon, InitLockInv
<1>2. LockInv /\ [Next]_vars => LockInv'
  BY Zenon, NextLockInv
<1> QED
  BY <1>1, <1>2, PTL DEF Spec

\* Every variable of the runtime keeps its type.
THEOREM TypeCorrect == Spec => []TypeOK
<1>1. LockInv => TypeOK
  BY Zenon DEF LockInv
<1> QED
  BY <1>1, LockInvariant, PTL

\* LockInstance excludes: at most one handler works on an instance at a time.
THEOREM Exclusion == Spec => []KeyMutex
<1>1. LockInv => KeyMutex
  <2> SUFFICES ASSUME LockInv, NEW t \in Callers, NEW u \in Callers,
                      InCritical(t), InCritical(u), inst[t] = inst[u]
               PROVE  t = u
    BY Zenon DEF KeyMutex
  <2>1. kl[t] = keyLocks[inst[t]] /\ kl[u] = keyLocks[inst[u]]
    BY Zenon DEF LockInv, InCritical, CriticalPCs
  <2> QED
    BY <2>1 DEF LockInv
<1> QED
  BY <1>1, LockInvariant, PTL

\* The map holds an instance's lock exactly while a handler refers to it.
THEOREM Reclamation == Spec => []LocksReclaimed
<1>1. LockInv => LocksReclaimed
  <2> SUFFICES ASSUME LockInv, NEW i \in Instances
               PROVE  keyLocks[i] # NoLock <=>
                        \E t \in Callers : inst[t] = i /\ pc[t] \notin {"idle", "enter"}
    BY Zenon DEF LocksReclaimed
  <2>1. ASSUME keyLocks[i] # NoLock
        PROVE  \E t \in Callers : inst[t] = i /\ pc[t] \notin {"idle", "enter"}
    <3>1. keyLocks[i] \in LockObjects
      BY SMTT(60), Z3T(60), <2>1 DEF LockInv, TypeOK
    <3>2. PICK t \in Callers : kl[t] = keyLocks[i]
      BY Zenon, <3>1 DEF LockInv, Refs
    <3>3. pc[t] \notin {"idle", "enter"}
      BY Zenon, <2>1, <3>2 DEF LockInv
    <3>4. keyLocks[inst[t]] = keyLocks[i] /\ inst[t] \in Instances
      BY Zenon, <2>1, <3>2, <3>3 DEF LockInv
    <3> QED
      BY Zenon, <2>1, <3>3, <3>4 DEF LockInv
  <2>2. ASSUME NEW t \in Callers, inst[t] = i, pc[t] \notin {"idle", "enter"}
        PROVE  keyLocks[i] # NoLock
    BY Zenon, <2>2 DEF LockInv
  <2> QED
    BY Zenon, <2>1, <2>2
<1> QED
  BY <1>1, LockInvariant, PTL

-----------------------------------------------------------------------------
(* One running container per instance                                       *)

\* The daemon answers truthfully and the agent does not restart.  Without this
\* OneRunning and StopEffective are false: a failed create or a restart makes
\* the tracker forget a container the daemon still runs.
NoFaults == "fault" \notin Events /\ "restart" \notin Events

\* What the tracker knows of a running container: its record names it, or the
\* handler inside the instance's lock is about to record or to stop it.
Tracked(c) ==
    \/ /\ docker[c].inst \in Instances
       /\ records[docker[c].inst] = [state |-> "RUNNING", ctr |-> c]
    \/ \E t \in Callers : /\ pc[t] \in {"started", "stop"}
                          /\ inst[t] = docker[c].inst /\ ctr[t] = c

\* What a handler knows at its position, given that nobody else works on its
\* instance.
Local(t) ==
    /\ pc[t] \in {"create", "start", "started"} =>
         records[inst[t]].state = "STARTING" /\ op[t] = "run"
    /\ pc[t] = "stop" => records[inst[t]].state = "STOPPING"
    /\ pc[t] \in {"start", "started", "stop"} =>
         /\ ctr[t] \in Containers
         /\ docker[ctr[t]].inst = inst[t] /\ docker[ctr[t]].state # "unused"
    /\ \/ pc[t] = "stopped"
       \/ pc[t] = "unlock" /\ op[t] = "stop" /\ result[t] = "ok"
       => \A c \in Containers : docker[c].inst = inst[t] => docker[c].state # "running"

\* A recorded container was created for that instance.
Owned(i) ==
    LET c == records[i].ctr
    IN  c # NoContainer => docker[c].inst = i /\ docker[c].state # "unused"

RunInv ==
    /\ LockInv
    /\ \A i \in Instances : Owned(i)
    /\ \A c \in Containers : docker[c].state = "running" => Tracked(c)
    /\ \A t \in Callers : Local(t)

\* The lock invariant excludes two handlers inside one instance's lock.
LEMMA LockInvMutex ==
  ASSUME LockInv, NEW t \in Callers, NEW u \in Callers,
         InCritical(t), InCritical(u), inst[t] = inst[u]
  PROVE  t = u
<1>1. kl[t] = keyLocks[inst[t]] /\ kl[u] = keyLocks[inst[u]]
  BY DEF LockInv, InCritical, CriticalPCs
<1> QED
  BY <1>1 DEF LockInv

\* A handler inside the lock that changes only its own instance's record and
\* containers disturbs nobody else: it owes only its own part of the invariant.
LEMMA RunFrame ==
  ASSUME RunInv, LockInv', NEW t \in Callers, NEW p, InCritical(t),
         pc' = [pc EXCEPT ![t] = p], UNCHANGED <<inst, op>>,
         \A u \in Callers : u # t => ctr'[u] = ctr[u] /\ result'[u] = result[u],
         \A i \in Instances : i # inst[t] => records'[i] = records[i],
         \A c \in Containers :
            \/ docker'[c] = docker[c]
            \/ /\ docker'[c].inst = inst[t]
               /\ docker'[c].state # "unused"
               /\ docker[c].inst = inst[t] \/ docker[c].state = "unused",
         \A c \in Containers :
            docker'[c].inst = inst[t] /\ docker'[c].state = "running" => Tracked(c)',
         Local(t)',
         \/ records'[inst[t]].ctr \in {records[inst[t]].ctr, NoContainer}
         \/ pc[t] \in {"start", "started"} /\ records'[inst[t]].ctr = ctr[t]
  PROVE  RunInv'
<1>0. inst[t] \in Instances
  BY Zenon DEF RunInv, LockInv, InCritical, CriticalPCs
<1>1. \A u \in Callers : u # t => pc'[u] = pc[u]
  <2>1. pc \in [Callers -> PCs]
    BY Zenon DEF RunInv, LockInv, TypeOK
  <2> QED
    BY ZenonT(60), <2>1
<1>2. ASSUME NEW u \in Callers, u # t PROVE Local(u)'
  <2>1. CASE InCritical(u)
    <3>1. inst[u] # inst[t] /\ inst[u] \in Instances
      BY ZenonT(60), <1>2, <2>1, LockInvMutex DEF RunInv, LockInv, InCritical, CriticalPCs
    <3>2. records'[inst[u]] = records[inst[u]]
      BY ZenonT(60), <3>1
    <3>3. \A c \in Containers : docker'[c].inst = inst[u] => docker'[c] = docker[c]
      BY Zenon, <3>1
    <3>4. \A c \in Containers :
             docker[c].inst = inst[u] /\ docker[c].state # "unused" => docker'[c] = docker[c]
      BY Zenon, <3>1
    <3>5. Local(u)
      BY Zenon DEF RunInv
    <3>6. pc'[u] = pc[u] /\ ctr'[u] = ctr[u] /\ result'[u] = result[u]
      BY Zenon, <1>1, <1>2
    <3>7. pc[u] \in {"start", "started", "stop"} => docker'[ctr[u]] = docker[ctr[u]]
      BY Zenon, <3>4, <3>5 DEF Local
    <3>8. \/ pc[u] = "stopped"
          \/ pc[u] = "unlock" /\ op[u] = "stop" /\ result[u] = "ok"
          => \A c \in Containers : docker'[c].inst = inst[u] => docker'[c].state # "running"
      BY ZenonT(180), <3>3, <3>5 DEF Local
    <3>9. /\ pc'[u] \in {"create", "start", "started"} =>
               records'[inst[u]].state = "STARTING" /\ op[u] = "run"
          /\ pc'[u] = "stop" => records'[inst[u]].state = "STOPPING"
      BY Zenon, <3>2, <3>5, <3>6 DEF Local
    <3>10. pc'[u] \in {"start", "started", "stop"} =>
              /\ ctr'[u] \in Containers
              /\ docker'[ctr'[u]].inst = inst[u] /\ docker'[ctr'[u]].state # "unused"
      BY ZenonT(180), <3>5, <3>6, <3>7 DEF Local
    <3> QED
      BY ZenonT(60), <3>6, <3>8, <3>9, <3>10 DEF Local
  <2>2. CASE ~InCritical(u)
    BY ZenonT(60), <1>1, <1>2, <2>2 DEF Local, InCritical, CriticalPCs
  <2> QED
    BY Zenon, <2>1, <2>2
<1>3. ASSUME NEW c \in Containers, docker'[c].state = "running" PROVE Tracked(c)'
  <2>1. CASE docker'[c].inst = inst[t]
    BY Zenon, <1>3, <2>1
  <2>2. CASE docker'[c].inst # inst[t]
    <3>1. docker'[c] = docker[c]
      BY Zenon, <2>2
    <3>2. Tracked(c)
      BY Zenon, <1>3, <3>1 DEF RunInv
    <3>3. CASE /\ docker[c].inst \in Instances
               /\ records[docker[c].inst] = [state |-> "RUNNING", ctr |-> c]
      <4>1. records'[docker[c].inst] = records[docker[c].inst]
        BY Zenon, <2>2, <3>1, <3>3
      <4> QED
        BY Zenon, <3>1, <3>3, <4>1 DEF Tracked
    <3>4. CASE \E u \in Callers : /\ pc[u] \in {"started", "stop"}
                                 /\ inst[u] = docker[c].inst /\ ctr[u] = c
      <4>1. PICK u \in Callers : /\ pc[u] \in {"started", "stop"}
                                /\ inst[u] = docker[c].inst /\ ctr[u] = c
        BY Zenon, <3>4
      <4>2. u # t
        BY Zenon, <2>2, <3>1, <4>1
      <4> QED
        BY ZenonT(180), <1>1, <3>1, <4>1, <4>2 DEF Tracked
    <3> QED
      BY Zenon, <3>2, <3>3, <3>4 DEF Tracked
  <2> QED
    BY Zenon, <2>1, <2>2
<1>4. \A c \in Containers :
        docker[c].state # "unused" => /\ docker'[c].inst = docker[c].inst
                                      /\ docker'[c].state # "unused"
  BY Zenon
<1>5. ASSUME NEW i \in Instances PROVE Owned(i)'
  <2>1. records[i].ctr \in Containers \cup {NoContainer}
    BY ZenonT(60) DEF RunInv, LockInv, TypeOK
  <2>2. Owned(i) /\ Local(t)
    BY Zenon DEF RunInv
  <2>3. CASE records'[i].ctr \in {records[i].ctr, NoContainer}
    BY ZenonT(60), <1>4, <2>1, <2>2, <2>3 DEF Owned
  <2>4. CASE i = inst[t] /\ pc[t] \in {"start", "started"} /\ records'[i].ctr = ctr[t]
    BY ZenonT(180), <1>4, <2>2, <2>4 DEF Owned, Local
  <2> QED
    BY Zenon, <2>3, <2>4
<1> QED
  BY Zenon, <1>2, <1>3, <1>5 DEF RunInv

\* A step outside the lock leaves what the tracker and the daemon know alone.
LEMMA OutsideFrame ==
  ASSUME RunInv, LockInv', NEW t \in Callers,
         ~InCritical(t) \/ pc[t] = "unlock",
         pc'[t] \in {"idle", "enter", "acquire", "check", "deref"},
         UNCHANGED <<records, docker>>,
         \A u \in Callers : u # t =>
            /\ pc'[u] = pc[u] /\ inst'[u] = inst[u] /\ op'[u] = op[u]
            /\ ctr'[u] = ctr[u] /\ result'[u] = result[u]
  PROVE  RunInv'
<1>1. Local(t)'
  BY ZenonT(60) DEF Local
<1>2. ASSUME NEW u \in Callers, u # t PROVE Local(u)'
  BY ZenonT(180), <1>2 DEF RunInv, Local
<1>3. ASSUME NEW c \in Containers, docker'[c].state = "running" PROVE Tracked(c)'
  <2>1. Tracked(c)
    BY Zenon, <1>3 DEF RunInv
  <2>2. \A u \in Callers : pc[u] \in {"started", "stop"} => u # t
    BY Zenon DEF InCritical, CriticalPCs
  <2> QED
    BY ZenonT(60), <2>1, <2>2 DEF Tracked
<1>4. \A i \in Instances : Owned(i)'
  BY Zenon DEF RunInv, Owned
<1> QED
  BY Zenon, <1>1, <1>2, <1>3, <1>4 DEF RunInv

\* Seen from inside the lock: a running container of the handler's instance is
\* the recorded one, or the one the handler itself is starting or stopping.
LEMMA SoleRunning ==
  ASSUME RunInv, NEW t \in Callers, InCritical(t), NEW c \in Containers,
         docker[c].state = "running", docker[c].inst = inst[t]
  PROVE  \/ /\ records[inst[t]] = [state |-> "RUNNING", ctr |-> c]
            /\ records[inst[t]].state = "RUNNING" /\ records[inst[t]].ctr = c
         \/ pc[t] \in {"started", "stop"} /\ ctr[t] = c
<1>1. Tracked(c)
  BY Zenon DEF RunInv
<1>2. \A u \in Callers : pc[u] \in {"started", "stop"} /\ inst[u] = inst[t] => u = t
  BY Zenon, LockInvMutex DEF RunInv, InCritical, CriticalPCs
<1> QED
  BY SMTT(60), Z3T(60), <1>1, <1>2 DEF Tracked

\* The steps of RunContainer preserve the run invariant.
LEMMA RunStepsRunInv ==
  ASSUME RunInv, LockInv', NoFaults, NEW t \in Callers,
         \/ RunDuplicate(t) \/ RunRejected(t) \/ RunMarkStarting(t)
         \/ RunCreate(t) \/ RunCreateFails(t) \/ RunStart(t)
         \/ RunStartFails(t) \/ RunRecord(t)
  PROVE  RunInv'
<1>t. /\ TypeOK /\ InCritical(t) /\ inst[t] \in Instances /\ Local(t)
      /\ Owned(inst[t])
  BY Zenon DEF RunInv, LockInv, InCritical, CriticalPCs, RunDuplicate, RunRejected,
     RunMarkStarting, RunCreate, RunCreateFails, RunStart, RunStartFails, RunRecord
<1>s. \A c \in Containers :
        docker[c].state = "running" /\ docker[c].inst = inst[t] =>
          \/ /\ records[inst[t]] = [state |-> "RUNNING", ctr |-> c]
             /\ records[inst[t]].state = "RUNNING" /\ records[inst[t]].ctr = c
          \/ pc[t] \in {"started", "stop"} /\ ctr[t] = c
  BY ZenonT(60), <1>t, SoleRunning
<1>1. CASE RunDuplicate(t)
  <2>1. Local(t)'
    BY ZenonT(60), <1>1, <1>t DEF RunDuplicate, Finish, Local, TypeOK, callVars
  <2>2. \A c \in Containers :
          docker'[c].inst = inst[t] /\ docker'[c].state = "running" => Tracked(c)'
    BY Zenon, <1>1, <1>s, <1>t DEF RunDuplicate, Tracked
  <2> QED
    BY ZenonT(60), <1>1, <1>t, <2>1, <2>2, RunFrame
       DEF RunDuplicate, Finish, TypeOK, callVars
<1>2. CASE RunRejected(t)
  <2>1. Local(t)'
    BY Zenon, <1>2, <1>t DEF RunRejected, Finish, Local, TypeOK, callVars
  <2>2. \A c \in Containers :
          docker'[c].inst = inst[t] /\ docker'[c].state = "running" => Tracked(c)'
    BY Zenon, <1>2, <1>s DEF RunRejected
  <2> QED
    BY ZenonT(60), <1>2, <1>t, <2>1, <2>2, RunFrame
       DEF RunRejected, Finish, TypeOK, callVars
<1>3. CASE RunMarkStarting(t)
  <2>1. Local(t)'
    BY Zenon, <1>3, <1>t DEF RunMarkStarting, Local, TypeOK, callVars
  <2>2. \A c \in Containers :
          docker'[c].inst = inst[t] /\ docker'[c].state = "running" => Tracked(c)'
    BY Zenon, <1>3, <1>s DEF RunMarkStarting
  <2> QED
    BY ZenonT(60), <1>3, <1>t, <2>1, <2>2, RunFrame DEF RunMarkStarting, TypeOK, callVars
<1>4. CASE RunCreate(t)
  <2>1. PICK d \in Containers :
          /\ docker[d].state = "unused"
          /\ docker' = [docker EXCEPT ![d] = [state |-> "created", inst |-> inst[t]]]
          /\ ctr' = [ctr EXCEPT ![t] = d]
    BY ZenonT(60), <1>4 DEF RunCreate
  <2>2. Local(t)'
    BY <1>4, <1>t, <2>1 DEF RunCreate, Local, TypeOK, callVars
  <2>3. \A c \in Containers :
          docker'[c].inst = inst[t] /\ docker'[c].state = "running" => FALSE
    BY Zenon, <1>4, <1>s, <1>t, <2>1 DEF RunCreate, Local, TypeOK
  <2>4. \A c \in Containers :
            \/ docker'[c] = docker[c]
            \/ /\ docker'[c].inst = inst[t]
               /\ docker'[c].state # "unused"
               /\ docker[c].inst = inst[t] \/ docker[c].state = "unused"
    BY ZenonT(60), <2>1, <1>t DEF TypeOK
  <2> QED
    BY ZenonT(60), <1>4, <1>t, <2>1, <2>2, <2>3, <2>4, RunFrame DEF RunCreate, TypeOK, callVars
<1>5. CASE RunCreateFails(t)
  <2>1. docker' = docker
    BY ZenonT(60), <1>5 DEF RunCreateFails, NoFaults
  <2>2. Local(t)'
    <3>1. pc'[t] = "unlock" /\ op'[t] = op[t] /\ result'[t] = "error"
      <4>1. /\ pc' = [pc EXCEPT ![t] = "unlock"] /\ result' = [result EXCEPT ![t] = "error"]
            /\ op' = op
        BY Zenon, <1>5 DEF RunCreateFails, Finish, callVars
      <4>2. pc \in [Callers -> PCs] /\ result \in [Callers -> {"none", "ok", "error"}]
        BY Zenon, <1>t DEF TypeOK
      <4> QED
        BY Zenon, <4>1, <4>2
    <3> QED
      BY ZenonT(60), <3>1 DEF Local
  <2>3. \A c \in Containers :
          docker'[c].inst = inst[t] /\ docker'[c].state = "running" => FALSE
    BY Zenon, <1>5, <1>s, <1>t, <2>1 DEF RunCreateFails, Local
  <2> QED
    BY ZenonT(60), <1>5, <1>t, <2>1, <2>2, <2>3, RunFrame DEF RunCreateFails, Finish, TypeOK, callVars
<1>6. CASE RunStart(t)
  <2>0. ctr[t] \in Containers /\ docker[ctr[t]].inst = inst[t]
    BY Zenon, <1>6, <1>t DEF RunStart, Local
  <2>1. \A c \in Containers : docker'[c] = IF c = ctr[t]
          THEN [state |-> "running", inst |-> inst[t]] ELSE docker[c]
    BY <1>6, <1>t, <2>0 DEF RunStart, TypeOK
  <2>2. Local(t)'
    BY <1>6, <1>t, <2>0, <2>1 DEF RunStart, Local, TypeOK, callVars
  <2>3. \A c \in Containers :
          docker'[c].inst = inst[t] /\ docker'[c].state = "running" => c = ctr[t]
    BY ZenonT(60), <1>6, <1>s, <1>t, <2>1 DEF RunStart, Local
  <2>4. Tracked(ctr[t])'
    BY <1>6, <1>t, <2>0, <2>1 DEF RunStart, Tracked, TypeOK, callVars
  <2>5. \A c \in Containers :
          docker'[c].inst = inst[t] /\ docker'[c].state = "running" => Tracked(c)'
    BY Zenon, <1>6, <2>3, <2>4 DEF RunStart
  <2>6. \A c \in Containers :
            \/ docker'[c] = docker[c]
            \/ /\ docker'[c].inst = inst[t]
               /\ docker'[c].state # "unused"
               /\ docker[c].inst = inst[t] \/ docker[c].state = "unused"
    BY <2>0, <2>1
  <2> QED
    BY ZenonT(60), <1>6, <1>t, <2>2, <2>5, <2>6, RunFrame DEF RunStart, TypeOK, callVars
<1>7. CASE RunStartFails(t)
  <2>1. docker' = docker
    BY Zenon, <1>7 DEF RunStartFails, NoFaults
  <2>2. Local(t)'
    BY Zenon, <1>7, <1>t, <2>1 DEF RunStartFails, Finish, Local, TypeOK, callVars
  <2>3. \A c \in Containers :
          docker'[c].inst = inst[t] /\ docker'[c].state = "running" => FALSE
    BY Zenon, <1>7, <1>s, <1>t, <2>1 DEF RunStartFails, Local
  <2> QED
    BY ZenonT(60), <1>7, <1>t, <2>1, <2>2, <2>3, RunFrame DEF RunStartFails, Finish, TypeOK, callVars
<1>8. CASE RunRecord(t)
  <2>1. docker' = docker
    BY Zenon, <1>8 DEF RunRecord
  <2>2. Local(t)'
    <3>1. pc'[t] = "unlock" /\ op'[t] = op[t] /\ inst'[t] = inst[t]
      BY ZenonT(60), <1>8, <1>t DEF RunRecord, Finish, TypeOK, callVars
    <3>2. op[t] = "run"
      BY ZenonT(60), <1>8, <1>t DEF RunRecord, Local
    <3> QED
      BY Zenon, <3>1, <3>2 DEF Local
  <2>3. \A c \in Containers :
          docker'[c].inst = inst[t] /\ docker'[c].state = "running" => c = ctr[t]
    BY ZenonT(60), <1>8, <1>s, <1>t, <2>1 DEF RunRecord, Local
  <2>4. records'[inst[t]] = [state |-> "RUNNING", ctr |-> ctr[t]]
    BY Zenon, <1>8, <1>t DEF RunRecord, TypeOK
  <2>5. \A c \in Containers :
          docker'[c].inst = inst[t] /\ docker'[c].state = "running" => Tracked(c)'
    BY Zenon, <1>8, <1>t, <2>3, <2>4 DEF RunRecord, Tracked
  <2> QED
    BY ZenonT(60), <1>8, <1>t, <2>1, <2>2, <2>5, RunFrame DEF RunRecord, Finish, TypeOK, callVars
<1> QED
  BY ZenonT(60), <1>1, <1>2, <1>3, <1>4, <1>5, <1>6, <1>7, <1>8

\* The steps of StopContainer preserve the run invariant.
LEMMA StopStepsRunInv ==
  ASSUME RunInv, LockInv', NoFaults, NEW t \in Callers,
         \/ StopNothing(t) \/ StopMarkStopping(t) \/ StopDocker(t)
         \/ StopDockerFails(t) \/ StopRecord(t)
  PROVE  RunInv'
<1>t. /\ TypeOK /\ InCritical(t) /\ inst[t] \in Instances /\ Local(t)
      /\ Owned(inst[t])
  BY ZenonT(60) DEF RunInv, LockInv, InCritical, CriticalPCs, StopNothing, StopMarkStopping,
     StopDocker, StopDockerFails, StopRecord
<1>s. \A c \in Containers :
        docker[c].state = "running" /\ docker[c].inst = inst[t] =>
          \/ /\ records[inst[t]] = [state |-> "RUNNING", ctr |-> c]
             /\ records[inst[t]].state = "RUNNING" /\ records[inst[t]].ctr = c
          \/ pc[t] \in {"started", "stop"} /\ ctr[t] = c
  BY ZenonT(60), <1>t, SoleRunning
<1>1. CASE StopNothing(t)
  <2>1. \A c \in Containers : docker[c].inst = inst[t] => docker[c].state # "running"
    BY ZenonT(60), <1>1, <1>s DEF StopNothing
  <2>2. Local(t)'
    BY Zenon, <1>1, <1>t, <2>1 DEF StopNothing, Finish, Local, TypeOK, callVars
  <2> QED
    BY Zenon, <1>1, <1>t, <2>1, <2>2, RunFrame DEF StopNothing, Finish, TypeOK, callVars
<1>2. CASE StopMarkStopping(t)
  <2>1. \A i \in Instances : i # inst[t] => records'[i] = records[i]
    BY Zenon, <1>2, <1>t DEF StopMarkStopping, TypeOK
  <2>2. /\ records'[inst[t]].state = "STOPPING"
        /\ records'[inst[t]].ctr = records[inst[t]].ctr
    BY <1>2, <1>t DEF StopMarkStopping, TypeOK
  <2>3. CASE records[inst[t]].ctr = NoContainer
    <3>1. \A c \in Containers : docker[c].inst = inst[t] => docker[c].state # "running"
      BY Zenon, <1>2, <1>s, <2>3, ConstantsAssumption DEF StopMarkStopping
    <3>2. pc' = [pc EXCEPT ![t] = "stopped"]
      BY Zenon, <1>2, <2>3 DEF StopMarkStopping
    <3>3. Local(t)'
      BY Zenon, <1>2, <1>t, <3>1, <3>2 DEF StopMarkStopping, Local, TypeOK, callVars
    <3>4. \A c \in Containers :
            docker'[c].inst = inst[t] /\ docker'[c].state = "running" => Tracked(c)'
      BY Zenon, <1>2, <3>1 DEF StopMarkStopping
    <3> QED
      BY ZenonT(60), <1>2, <1>t, <2>1, <2>2, <3>2, <3>3, <3>4, RunFrame
         DEF StopMarkStopping, TypeOK, callVars
  <2>4. CASE records[inst[t]].ctr # NoContainer
    <3>1. records[inst[t]].ctr \in Containers
      BY Zenon, <1>t, <2>4 DEF TypeOK
    <3>2. pc' = [pc EXCEPT ![t] = "stop"] /\ ctr'[t] = records[inst[t]].ctr
      BY ZenonT(60), <1>2, <1>t, <2>4 DEF StopMarkStopping, TypeOK
    <3>3. Local(t)'
      <4>1. pc'[t] = "stop" /\ inst' = inst /\ docker' = docker
        BY Zenon, <1>2, <1>t, <3>2 DEF StopMarkStopping, TypeOK, callVars
      <4> QED
        BY Zenon, <1>t, <2>2, <2>4, <3>1, <3>2, <4>1 DEF Local, Owned
    <3>4. \A c \in Containers :
            docker'[c].inst = inst[t] /\ docker'[c].state = "running" => Tracked(c)'
      <4>1. pc'[t] = "stop" /\ inst' = inst /\ docker' = docker
        BY <1>2, <1>t, <3>2 DEF StopMarkStopping, TypeOK, callVars
      <4> QED
        BY ZenonT(60), <1>2, <1>s, <3>2, <4>1 DEF StopMarkStopping, Tracked
    <3> QED
      BY ZenonT(60), <1>2, <1>t, <2>1, <2>2, <3>2, <3>3, <3>4, RunFrame
         DEF StopMarkStopping, TypeOK, callVars
  <2> QED
    BY Zenon, <2>3, <2>4
<1>3. CASE StopDocker(t)
  <2>0. ctr[t] \in Containers
    BY Zenon, <1>3, <1>t DEF StopDocker, Local
  <2>1. \A c \in Containers :
          /\ docker'[c].inst = docker[c].inst
          /\ c # ctr[t] => docker'[c] = docker[c]
    BY <1>3, <1>t, <2>0 DEF StopDocker, TypeOK
  <2>2. docker'[ctr[t]].state # "running"
    BY <1>3, <1>t, <2>0 DEF StopDocker, TypeOK
  <2>3. \A c \in Containers :
          docker[c].inst = inst[t] /\ docker[c].state = "running" => c = ctr[t]
    BY ZenonT(60), <1>3, <1>s, <1>t DEF StopDocker, Local
  <2>4. \A c \in Containers : docker'[c].inst = inst[t] => docker'[c].state # "running"
    BY Zenon, <2>1, <2>2, <2>3
  <2>5. Local(t)'
    BY Zenon, <1>3, <1>t, <2>4 DEF StopDocker, Local, TypeOK, callVars
  <2>6. docker[ctr[t]].inst = inst[t] /\ docker'[ctr[t]].state # "unused"
    BY <1>3, <1>t, <2>0 DEF StopDocker, Local, TypeOK
  <2> QED
    BY ZenonT(60), <1>3, <1>t, <2>1, <2>4, <2>5, <2>6, RunFrame DEF StopDocker, TypeOK, callVars
<1>4. CASE StopDockerFails(t)
  <2>0. docker[ctr[t]].state = "removed" /\ docker' = docker
    BY Zenon, <1>4 DEF StopDockerFails, NoFaults
  <2>1. \A c \in Containers : docker[c].inst = inst[t] => docker[c].state # "running"
    BY Zenon, <1>4, <1>s, <1>t, <2>0 DEF StopDockerFails, Local
  <2>2. Local(t)'
    BY Zenon, <1>4, <1>t, <2>0 DEF StopDockerFails, Finish, Local, TypeOK, callVars
  <2> QED
    BY ZenonT(60), <1>4, <1>t, <2>0, <2>1, <2>2, RunFrame
       DEF StopDockerFails, Finish, TypeOK, callVars
<1>5. CASE StopRecord(t)
  <2>1. \A c \in Containers : docker[c].inst = inst[t] => docker[c].state # "running"
    BY Zenon, <1>5, <1>t DEF StopRecord, Local
  <2>2. Local(t)'
    BY Zenon, <1>5, <1>t, <2>1 DEF StopRecord, Finish, Local, TypeOK, callVars
  <2>3. /\ \A i \in Instances : i # inst[t] => records'[i] = records[i]
        /\ records'[inst[t]].ctr = records[inst[t]].ctr
    BY <1>5, <1>t DEF StopRecord, TypeOK
  <2> QED
    BY ZenonT(60), <1>5, <1>t, <2>1, <2>2, <2>3, RunFrame DEF StopRecord, Finish, TypeOK, callVars
<1> QED
  BY Zenon, <1>1, <1>2, <1>3, <1>4, <1>5

\* While the daemon answers truthfully and the agent stays up, every action
\* preserves the run invariant.
LEMMA NextRunInv == NoFaults /\ RunInv /\ [Next]_vars => RunInv'
<1> SUFFICES ASSUME NoFaults, RunInv, [Next]_vars PROVE RunInv'
  BY Zenon
<1>n. LockInv'
  BY Zenon, NextLockInv DEF RunInv
<1>t. TypeOK
  BY ZenonT(60) DEF RunInv, LockInv
<1>1. ASSUME NEW t \in Callers, NEW o \in {"run", "stop"}, NEW i \in Instances,
             Call(t, o, i)
      PROVE  RunInv'
  BY Zenon, <1>1, <1>n, <1>t, OutsideFrame DEF Call, InCritical, CriticalPCs, TypeOK
<1>2. ASSUME NEW t \in Callers, Step(t) PROVE RunInv'
  <2>1. CASE LockEnter(t)
    BY Zenon, <2>1, <1>n, <1>t, OutsideFrame DEF LockEnter, InCritical, CriticalPCs, TypeOK
  <2>2. CASE LockAcquire(t)
    BY Zenon, <2>2, <1>n, <1>t, OutsideFrame
       DEF LockAcquire, InCritical, CriticalPCs, TypeOK, callVars
  <2>3. CASE Unlock(t)
    BY ZenonT(60), <2>3, <1>n, <1>t, OutsideFrame DEF Unlock, TypeOK, callVars
  <2>4. CASE Deref(t)
    BY ZenonT(60), <2>4, <1>n, <1>t, OutsideFrame DEF Deref, InCritical, CriticalPCs, TypeOK
  <2> QED
    BY ZenonT(60), <1>2, <1>n, <2>1, <2>2, <2>3, <2>4, RunStepsRunInv, StopStepsRunInv DEF Step
<1>3. ASSUME NEW d \in Containers, ContainerExits(d) \/ ContainerRemoved(d)
      PROVE  RunInv'
  <2>1. \A c \in Containers :
          /\ docker'[c].inst = docker[c].inst
          /\ docker'[c].state = "running" => docker[c].state = "running"
          /\ docker[c].state # "unused" => docker'[c].state # "unused"
    BY SMTT(60), Z3T(60), <1>3, <1>t DEF ContainerExits, ContainerRemoved, TypeOK
  <2>2. UNCHANGED <<records, pc, op, inst, ctr, result>>
    BY Zenon, <1>3 DEF ContainerExits, ContainerRemoved, callVars
  <2>3. ASSUME NEW t \in Callers PROVE Local(t)'
    <3>1. Local(t)
      BY ZenonT(60) DEF RunInv
    <3> QED
      BY Zenon, <2>1, <2>2, <3>1 DEF Local
  <2>4. ASSUME NEW c \in Containers, docker'[c].state = "running" PROVE Tracked(c)'
    <3>1. Tracked(c)
      BY Zenon, <2>1, <2>4 DEF RunInv
    <3> QED
      BY Zenon, <2>1, <2>2, <3>1 DEF Tracked
  <2>5. ASSUME NEW i \in Instances PROVE Owned(i)'
    <3>1. Owned(i) /\ records[i].ctr \in Containers \cup {NoContainer}
      BY ZenonT(60), <1>t DEF RunInv, TypeOK
    <3> QED
      BY Zenon, <2>1, <2>2, <3>1 DEF Owned
  <2> QED
    BY Zenon, <1>n, <2>3, <2>4, <2>5 DEF RunInv
<1>4. ASSUME UNCHANGED vars PROVE RunInv'
  BY SMTT(90), Z3T(90), <1>4, <1>n DEF vars, RunInv, Local, Tracked, Owned
<1> QED
  BY Zenon, <1>1, <1>2, <1>3, <1>4 DEF Next, AgentRestart, NoFaults

\* Without daemon faults and restarts the run invariant always holds.
THEOREM RunInvariant == ASSUME NoFaults PROVE Spec => []RunInv
<1>1. Init => RunInv
  <2> SUFFICES ASSUME Init PROVE RunInv
    BY Zenon
  <2>1. LockInv
    BY Zenon, InitLockInv
  <2> QED
    BY Zenon, <2>1 DEF Init, RunInv, Local, Tracked, Owned, NoRecord
<1>2. RunInv /\ [Next]_vars => RunInv'
  BY Zenon, NextRunInv
<1> QED
  BY <1>1, <1>2, PTL DEF Spec

\* G-09 for every number of handlers, instances and containers, with or without
\* the daemon's name check: an instance never has two running containers.
THEOREM OneRunningHolds == ASSUME NoFaults PROVE Spec => []OneRunning
<1>1. RunInv => OneRunning
  <2> SUFFICES ASSUME RunInv, NEW i \in Instances, NEW c \in Running(i), NEW d \in Running(i)
               PROVE  c = d
    BY Zenon DEF OneRunning
  <2>1. Tracked(c) /\ Tracked(d) /\ docker[c].inst = i /\ docker[d].inst = i
    BY ZenonT(60) DEF RunInv, Running
  <2>2. ASSUME NEW t \in Callers, pc[t] \in {"started", "stop"}, inst[t] = i
        PROVE  records[i].state # "RUNNING"
    BY Zenon, <2>2 DEF RunInv, Local
  <2>3. ASSUME NEW t \in Callers, NEW u \in Callers, pc[t] \in {"started", "stop"},
               pc[u] \in {"started", "stop"}, inst[t] = inst[u]
        PROVE  t = u
    BY ZenonT(60), <2>3, LockInvMutex DEF RunInv, InCritical, CriticalPCs
  <2>4. \A e : records[i] = [state |-> "RUNNING", ctr |-> e] =>
                  records[i].state = "RUNNING" /\ records[i].ctr = e
    BY SMTT(60), Z3T(60)
  <2> QED
    BY <2>1, <2>2, <2>3, <2>4 DEF Tracked
<1> QED
  BY <1>1, RunInvariant, PTL

\* A successful StopContainer leaves none of the instance's containers running.
THEOREM StopEffectiveHolds == ASSUME NoFaults PROVE Spec => []StopEffective
<1>1. RunInv => StopEffective
  BY Zenon DEF RunInv, Local, StopEffective, Running
<1> QED
  BY <1>1, RunInvariant, PTL

=============================================================================
