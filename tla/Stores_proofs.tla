--------------------------- MODULE Stores_proofs ----------------------------
(***************************************************************************)
(* What the stores keep.  The electors keep their leases apart and         *)
(* implement Leadership, for any number of nodes, any lease time and any   *)
(* number of faults.  Secrets and the audit log keep every version, key    *)
(* and entry, for any writers, deployments and keys.                       *)
(***************************************************************************)
EXTENDS Secrets, Election, TLAPS

-----------------------------------------------------------------------------
(* Election                                                                 *)

\* What makes LeaseKept inductive: the store's age is that of the owner's last
\* grant, and only a node that has been stopped releases.
LeaseInv ==
    /\ TypeOK
    /\ LeaseKept
    /\ owner # NoNode => own[owner] = age
    /\ \A n \in Nodes : spc[n] # "none" => n \in stopped

LEMMA OlderAge == ASSUME NEW a \in Ages
                  PROVE  /\ Older(a) \in Ages
                         /\ Older(a) <= TTL => a <= TTL
  BY ElectionAssumption DEF Ages, Older

LEMMA FaultCounted == ASSUME faults \in 0..MaxFaults, Fault PROVE faults' \in 0..MaxFaults
  BY ElectionAssumption DEF Fault

LEMMA InitLease == Init => LeaseInv
  BY ElectionAssumption DEF Init, LeaseInv, TypeOK, LeaseKept, Ages

\* Being granted the lock keeps the lease of every other running node.
LEMMA GrantKeeps ==
    ASSUME LeaseInv, NEW n \in Nodes, Granted(n), MayTake(n), UNCHANGED stopped
    PROVE  /\ owner' \in Nodes /\ age' \in Ages /\ own' \in [Nodes -> Ages]
           /\ LeaseKept' /\ own'[owner'] = age'
<1>1. owner' = n /\ age' = 0 /\ own' = [own EXCEPT ![n] = 0]
  BY Zenon DEF Granted
<1>2. own \in [Nodes -> Ages] /\ 0 \in Ages
  BY ElectionAssumption DEF LeaseInv, TypeOK, Ages
<1>3. ASSUME NEW m \in Nodes \ stopped, m # n, own[m] <= TTL
      PROVE  FALSE
  <2>1. owner = m /\ own[m] = age
    BY Zenon, <1>3, ElectionAssumption DEF LeaseInv, LeaseKept
  <2>2. age \in Nat /\ ~(age > TTL)
    BY <2>1, <1>3, ElectionAssumption DEF LeaseInv, TypeOK, Ages
  <2> QED
    BY Zenon, <2>1, <2>2, <1>3, ElectionAssumption DEF MayTake
<1>4. LeaseKept'
  BY Zenon, <1>1, <1>2, <1>3 DEF LeaseKept
<1> QED
  BY Zenon, <1>1, <1>2, <1>4

LEMMA NextLease == LeaseInv /\ [Next]_vars => LeaseInv'
<1> SUFFICES ASSUME LeaseInv, [Next]_vars PROVE LeaseInv'
  BY Zenon
<1>1. CASE Tick
  <2>1. own' \in [Nodes -> Ages] /\ age' \in Ages
    BY Zenon, <1>1, OlderAge DEF Tick, LeaseInv, TypeOK
  <2>2. LeaseKept'
    <3> SUFFICES ASSUME NEW n \in Nodes \ stopped, Older(own[n]) <= TTL
                 PROVE  owner = n
      BY Zenon, <1>1 DEF Tick, LeaseKept
    <3> QED
      BY Zenon, OlderAge DEF LeaseInv, TypeOK, LeaseKept
  <2>3. owner' # NoNode => own'[owner'] = age'
    BY Zenon, <1>1 DEF Tick, LeaseInv, TypeOK
  <2> QED
    BY Zenon, <1>1, <2>1, <2>2, <2>3 DEF Tick, LeaseInv, TypeOK
<1>2. ASSUME NEW n \in Nodes, Renew(n)
      PROVE  LeaseInv'
  <2>1. CASE n \notin cut /\ MayRenew(n)
    <3>1. Granted(n) /\ MayTake(n) /\ UNCHANGED stopped
      BY Zenon, <1>2, <2>1 DEF Renew, MayRenew, MayTake
    <3> QED
      BY Zenon, <3>1, <1>2, <2>1, GrantKeeps DEF Renew, Goto, LeaseInv, TypeOK
  <2>2. CASE ~(n \notin cut /\ MayRenew(n))
    BY ZenonT(60), <2>2, <1>2 DEF Renew, Goto, leaseVars, LeaseInv, TypeOK, LeaseKept
  <2> QED
    BY Zenon, <2>1, <2>2
<1>3. ASSUME NEW n \in Nodes, TryAcquire(n)
      PROVE  LeaseInv'
  <2>1. CASE n \notin cut /\ MayTake(n)
    <3>1. Granted(n) /\ MayTake(n) /\ UNCHANGED stopped
      BY Zenon, <1>3, <2>1 DEF TryAcquire
    <3> QED
      BY <3>1, <1>3, <2>1, GrantKeeps DEF TryAcquire, Goto, LeaseInv, TypeOK
  <2>2. CASE ~(n \notin cut /\ MayTake(n))
    BY <2>2, <1>3 DEF TryAcquire, Goto, leaseVars, LeaseInv, TypeOK, LeaseKept
  <2> QED
    BY <2>1, <2>2
<1>4. ASSUME NEW n \in Nodes, Stop(n)
      PROVE  LeaseInv'
  BY Zenon, <1>4, FaultCounted DEF Stop, leaseVars, LeaseInv, TypeOK, LeaseKept
<1>5. ASSUME NEW n \in Nodes, Release(n)
      PROVE  LeaseInv'
  <2>1. n \in stopped
    BY Zenon, <1>5 DEF Release, LeaseInv
  <2> QED
    BY Zenon, <2>1, <1>5 DEF Release, LeaseInv, TypeOK, LeaseKept
<1>6. ASSUME NEW n \in Nodes, Partition(n)
      PROVE  LeaseInv'
  BY Zenon, <1>6, FaultCounted DEF Partition, leaseVars, LeaseInv, TypeOK, LeaseKept
<1>7. ASSUME NEW n \in Nodes,
             LoopTick(n) \/ LoopExit(n) \/ Promote(n) \/ StepDownLoop(n) \/ SteppedDownLoop(n)
      PROVE  LeaseInv'
  BY <1>7 DEF LoopTick, LoopExit, Promote, StepDownLoop, SteppedDownLoop, Fence, Fenced,
              Goto, leaseVars, LeaseInv, TypeOK, LeaseKept
<1>8. ASSUME NEW n \in Nodes, StopCheck(n) \/ StopFence(n) \/ StopFenced(n)
      PROVE  LeaseInv'
  BY <1>8 DEF StopCheck, StopFence, StopFenced, Fence, Fenced, leaseVars,
              LeaseInv, TypeOK, LeaseKept
<1>9. ASSUME NEW n \in Nodes,
             StepDown(n) \/ SteppedDown(n) \/ CheckLeader(n) \/ RecordDecision(n)
      PROVE  LeaseInv'
  BY <1>9, FaultCounted DEF StepDown, SteppedDown, CheckLeader, RecordDecision, Fence, Fenced,
              leaseVars, LeaseInv, TypeOK, LeaseKept
<1>10. CASE UNCHANGED vars
  BY Zenon, <1>10 DEF vars, LeaseInv, TypeOK, LeaseKept
<1> QED
  BY Zenon, <1>1, <1>2, <1>3, <1>4, <1>5, <1>6, <1>7, <1>8, <1>9, <1>10
     DEF Next, Loop, StopSteps

\* The lock protocol is type correct and no running elector loses the lock
\* while its lease is valid.
THEOREM LeaseInvariant == Spec => []LeaseInv
  BY InitLease, NextLease, PTL DEF Spec

\* A running elector keeps the lock until its lease has run out.
THEOREM LeaseKeptHolds == Spec => []LeaseKept
<1>1. LeaseInv => LeaseKept
  BY Zenon DEF LeaseInv
<1> QED
  BY <1>1, LeaseInvariant, PTL

-----------------------------------------------------------------------------
(* Refinement                                                               *)

\* Two running nodes never both lead under valid leases.
LEMMA OneValidLeader ==
    ASSUME LeaseInv, NEW a \in ValidLeaders, NEW b \in ValidLeaders
    PROVE  a = b /\ owner = a
  BY Zenon DEF LeaseInv, LeaseKept, ValidLeaders, Leads

\* Losing one's place, or gaining it while nobody else has it, is a step of the
\* abstract specification or a stutter.
LEMMA LosesPlace ==
    ASSUME LeaseInv, ValidLeaders' \subseteq ValidLeaders
    PROVE  [Abstract!Next]_ValidLeaders
<1>1. CASE ValidLeaders' = ValidLeaders
  BY Zenon, <1>1
<1>2. CASE ValidLeaders' # ValidLeaders
  <2>1. PICK n \in ValidLeaders : n \notin ValidLeaders'
    BY Zenon, <1>2
  <2>2. ValidLeaders = {n} /\ ValidLeaders' = {} /\ n \in Nodes
    BY <2>1, OneValidLeader DEF ValidLeaders
  <2> QED
    BY Zenon, <2>2 DEF Abstract!Next, Abstract!GiveUp
<1> QED
  BY Zenon, <1>1, <1>2

LEMMA GainsPlace ==
    ASSUME NEW n \in Nodes, ValidLeaders \subseteq {n}, ValidLeaders' \subseteq {n}
    PROVE  [Abstract!Next]_ValidLeaders
  BY DEF Abstract!Next, Abstract!Take, Abstract!GiveUp

\* A node that is granted the lock is the only one that can lead.
LEMMA GrantStep ==
    ASSUME LeaseInv, NEW n \in Nodes, Granted(n), MayTake(n), UNCHANGED <<state, stopped>>
    PROVE  [Abstract!Next]_ValidLeaders
<1>1. ASSUME NEW m \in ValidLeaders PROVE m = n
  <2>1. owner = m /\ own[m] <= TTL /\ own[m] = age /\ m \in Nodes
    BY Zenon, <1>1, OneValidLeader, ElectionAssumption DEF LeaseInv, ValidLeaders
  <2>2. age \in Nat /\ ~(age > TTL)
    BY <2>1, ElectionAssumption DEF LeaseInv, TypeOK, Ages
  <2> QED
    BY Zenon, <2>1, <2>2, ElectionAssumption DEF MayTake
<1>2. ASSUME NEW m \in ValidLeaders' PROVE m = n
  <2>1. CASE m # n
    BY Zenon, <2>1, <1>1, <1>2 DEF Granted, LeaseInv, TypeOK, ValidLeaders, Leads
  <2> QED
    BY Zenon, <2>1
<1> QED
  BY Zenon, <1>1, <1>2, GainsPlace

LEMMA NextRefines == LeaseInv /\ [Next]_vars => [Abstract!Next]_ValidLeaders
<1> SUFFICES ASSUME LeaseInv, [Next]_vars PROVE [Abstract!Next]_ValidLeaders
  BY Zenon
<1>1. CASE Tick
  BY Zenon, <1>1, OlderAge, LosesPlace DEF Tick, LeaseInv, TypeOK, ValidLeaders, Leads
<1>2. ASSUME NEW n \in Nodes, Renew(n) \/ TryAcquire(n)
      PROVE  [Abstract!Next]_ValidLeaders
  <2>1. CASE Granted(n) /\ MayTake(n)
    BY Zenon, <2>1, <1>2, GrantStep DEF Renew, TryAcquire
  <2>2. CASE UNCHANGED leaseVars
    BY Zenon, <2>2, <1>2, LosesPlace DEF Renew, TryAcquire, leaseVars, ValidLeaders, Leads
  <2> QED
    BY Zenon, <2>1, <2>2, <1>2 DEF Renew, TryAcquire, MayRenew, MayTake
<1>3. ASSUME NEW n \in Nodes, Promote(n)
      PROVE  [Abstract!Next]_ValidLeaders
  <2>1. CASE state[n] # "STANDBY" \/ own[n] > TTL \/ n \in stopped
    <3>1. \A m \in Nodes : state'[m] = state[m] \/ (m = n /\ state[m] = "STANDBY")
      BY Zenon, <1>3 DEF Promote, LeaseInv, TypeOK
    <3>2. ValidLeaders' \subseteq ValidLeaders
      <4>1. own[n] \in Nat
        BY DEF LeaseInv, TypeOK, Ages
      <4> QED
        BY <4>1, <3>1, <2>1, <1>3, ElectionAssumption DEF Promote, leaseVars, ValidLeaders, Leads
    <3> QED
      BY Zenon, <3>2, LosesPlace
  <2>2. CASE state[n] = "STANDBY" /\ ~(own[n] > TTL) /\ n \notin stopped
    <3>1. own[n] <= TTL
      BY <2>2, ElectionAssumption DEF LeaseInv, TypeOK, Ages
    <3>2. owner = n
      BY Zenon, <3>1, <2>2 DEF LeaseInv, LeaseKept
    <3>3. ValidLeaders = {}
      BY Zenon, <3>2, <2>2, OneValidLeader DEF ValidLeaders, Leads
    <3>4. ValidLeaders' \subseteq {n}
      BY Zenon, <3>3, <1>3 DEF Promote, leaseVars, LeaseInv, TypeOK, ValidLeaders, Leads
    <3> QED
      BY Zenon, <3>3, <3>4, GainsPlace
  <2> QED
    BY Zenon, <2>1, <2>2
<1>4. ASSUME NEW n \in Nodes,
             \/ LoopTick(n) \/ LoopExit(n) \/ Partition(n) \/ StopCheck(n) \/ Release(n)
             \/ CheckLeader(n) \/ RecordDecision(n)
      PROVE  [Abstract!Next]_ValidLeaders
  <2>1. UNCHANGED <<state, own, stopped>>
    BY <1>4, Zenon DEF LoopTick, LoopExit, Partition, StopCheck, Release, CheckLeader,
                RecordDecision, leaseVars
  <2> QED
    BY Zenon, <2>1, LosesPlace DEF ValidLeaders, Leads
<1>5. ASSUME NEW n \in Nodes,
             \/ StepDownLoop(n) \/ SteppedDownLoop(n) \/ StopFence(n) \/ StopFenced(n)
             \/ StepDown(n) \/ SteppedDown(n)
      PROVE  [Abstract!Next]_ValidLeaders
  <2>1. UNCHANGED <<own, stopped>>
    BY <1>5, Zenon DEF StepDownLoop, SteppedDownLoop, StopFence, StopFenced, StepDown, SteppedDown,
                leaseVars
  <2>2. \/ UNCHANGED state
        \/ state' = [state EXCEPT ![n] = "FENCED"]
        \/ state' = [state EXCEPT ![n] = "STANDBY"]
    BY <1>5, Zenon DEF StepDownLoop, SteppedDownLoop, StopFence, StopFenced, StepDown, SteppedDown,
                Fence, Fenced
  <2>3. \A m \in Nodes : state'[m] = "LEADER" => state[m] = "LEADER"
    BY Zenon, <2>2 DEF LeaseInv, TypeOK
  <2> QED
    BY Zenon, <2>1, <2>3, LosesPlace DEF ValidLeaders, Leads
<1>6. ASSUME NEW n \in Nodes, Stop(n)
      PROVE  [Abstract!Next]_ValidLeaders
  BY Zenon, <1>6, LosesPlace DEF Stop, leaseVars, ValidLeaders, Leads
<1>7. CASE UNCHANGED vars
  BY Zenon, <1>7, LosesPlace DEF vars, ValidLeaders, Leads
<1> QED
  BY Zenon, <1>1, <1>2, <1>3, <1>4, <1>5, <1>6, <1>7 DEF Next, Loop, StopSteps

\* G-44 for every deployment: the electors implement Leadership.
THEOREM Refinement == Spec => ImplementsLeadership
<1>1. Init => Abstract!Init
  BY Zenon DEF Init, Abstract!Init, ValidLeaders, Leads
<1> QED
  BY <1>1, LeaseInvariant, NextRefines, PTL DEF Spec, ImplementsLeadership, Abstract!Spec

\* A decision recorded late by a running elector finds another valid leader
\* only when its own lease has run out.
THEOREM LateDecisions == Spec => LateDecisionExpired
<1>1. LeaseInv => (\A n \in Nodes \ stopped : ValidLeaders \ {n} # {} => own[n] > TTL)
  BY ElectionAssumption DEF LeaseInv, LeaseKept, TypeOK, Ages, ValidLeaders, Leads
<1>2. LeaseInv /\ [Next]_vars =>
        [\A n \in deciding \ stopped :
           n \notin deciding' /\ ValidLeaders \ {n} # {} => own[n] > TTL]_vars
  BY Zenon, <1>1 DEF LeaseInv, TypeOK
<1> QED
  BY <1>2, LeaseInvariant, PTL DEF Spec, LateDecisionExpired

-----------------------------------------------------------------------------
(* The secret store                                                         *)

Blobs == [dek : Nat, under : Nat]
Rows == [version : Nat \ {0}, keyVersion : Nat, dek : Nat, value : Writers]

WriterRecords == [at : {"idle", "getKey", "unwrap", "query", "insert", "audit", "done", "failed"},
                  keyVer : Nat, blob : Blobs, keyID : Nat, next : Nat]
ReaderRecords == [at : {"new", "ready", "unwrap"}, blob : Blobs, keyID : Nat]

StoreTypes ==
    /\ masters \in Nat \ {0}
    /\ wrapped \in Seq(Blobs) /\ keyIDs \in Seq(Nat)
    /\ Len(keyIDs) = Len(wrapped) /\ Len(wrapped) # 0
    /\ rows \subseteq Rows
    /\ snapshot \in [SecretDeps -> SUBSET Rows]
    /\ writer \in [Writers -> WriterRecords]
    /\ reader \in [SecretDeps -> ReaderRecords]
    /\ acked \in [Writers -> Nat] /\ asOf \in [SecretDeps -> Nat] /\ deks \in Nat
    /\ seen \in [SecretDeps -> SUBSET (Writers \cup {NoValue})]

\* Every version of the key is wrapped under the master key recorded for it.
KeysOK ==
    \A v \in 1..Len(wrapped) : wrapped[v].under = keyIDs[v] /\ keyIDs[v] \in 1..masters

\* dek is the data key of version v, unless v was given one again.
Current(blobs, again, v, dek) == v \in again \/ blobs[v].dek = dek

RowsOK ==
    /\ \A row \in rows : row.keyVersion \in 1..Len(wrapped) /\ Current(wrapped, renewed, row.keyVersion, row.dek)
    /\ \A row, other \in rows : row.version = other.version => row = other

\* What a request has read, and the row it has inserted.
WriterOK(w) ==
    LET x == writer[w] IN
      /\ x.at \in {"getKey", "unwrap", "query", "insert"} => x.keyVer \in 1..Len(wrapped)
      /\ x.at \in {"unwrap", "query", "insert"} => Current(wrapped, renewed, x.keyVer, x.blob.dek)
      /\ x.at = "unwrap" => x.blob.under = x.keyID
      /\ x.at \in {"insert", "audit"} => x.next # 0
      /\ x.at = "audit" => \E row \in rows : row.version = x.next /\ row.value = w
      /\ x.at \in {"idle", "getKey", "unwrap", "query", "insert", "audit"} => acked[w] = 0
      /\ acked[w] # 0 => \E row \in rows : row.version = acked[w] /\ row.value = w

\* MaxOf is defined for the versions of the rows and for those answered.
HasMax(S) == \E n \in S \cup {0} : \A m \in S : m <= n
MaximaExist ==
    /\ HasMax({row.version : row \in rows})
    /\ HasMax({acked[w] : w \in Writers})
    /\ rows # {} => Latest # {}

ReaderOK(d) ==
    /\ reader[d].at = "unwrap" => reader[d].blob.under = reader[d].keyID
    /\ reader[d].at = "new" => snapshot[d] = {} /\ asOf[d] = 0 /\ seen[d] = {}
    /\ \A row, other \in snapshot[d] : row = other
    /\ \A row \in snapshot[d] : row \in rows /\ row.version >= asOf[d]
    /\ asOf[d] > 0 => snapshot[d] # {}
    /\ \A x \in seen[d] \ {NoValue} : \E row \in snapshot[d] : x = row.value

StoreInv ==
    /\ StoreTypes /\ KeysOK /\ RowsOK /\ MaximaExist
    /\ \A w \in Writers : WriterOK(w)
    /\ \A d \in SecretDeps : ReaderOK(d)

-----------------------------------------------------------------------------

LEMMA MaxOfIsMax ==
    ASSUME NEW S, S \subseteq Nat, HasMax(S)
    PROVE  MaxOf(S) \in S \cup {0} /\ MaxOf(S) \in Nat /\ \A m \in S : m <= MaxOf(S)
<1>1. \E n \in S \cup {0} : \A m \in S : m <= n
  BY Zenon DEF HasMax
<1>2. MaxOf(S) \in S \cup {0} /\ \A m \in S : m <= MaxOf(S)
  BY <1>1, Zenon DEF MaxOf
<1>3. \A x \in S \cup {0} : x \in Nat
  OBVIOUS
<1> QED BY <1>2, <1>3, Zenon

LEMMA OneElement ==
    ASSUME NEW S, NEW x \in S
    PROVE  <<x>> \in Seq(S) /\ Len(<<x>>) = 1 /\ <<x>>[1] = x
OBVIOUS

LEMMA MapSeq ==
    ASSUME NEW S, NEW n \in Nat, NEW f, f \in [1..n -> S]
    PROVE  f \in Seq(S) /\ Len(f) = n
OBVIOUS

LEMMA InitStore == SecretsInit => StoreInv
<1> SUFFICES ASSUME SecretsInit PROVE StoreInv
  OBVIOUS
<1> USE DEF SecretsInit
<1>1. FirstBlob \in Blobs /\ FirstBlob.dek = 1 /\ FirstBlob.under = 1
  BY Zenon DEF FirstBlob, Blobs
<1>2. /\ wrapped \in Seq(Blobs) /\ keyIDs \in Seq(Nat) /\ Len(wrapped) = 1 /\ Len(keyIDs) = 1
      /\ wrapped[1] = FirstBlob /\ keyIDs[1] = 1
  <2>1. wrapped = <<FirstBlob>> /\ keyIDs = <<1>>
    BY Zenon
  <2>2. wrapped \in Seq(Blobs) /\ Len(wrapped) = 1 /\ wrapped[1] = FirstBlob
    BY Zenon, <1>1, <2>1, OneElement
  <2>3. keyIDs \in Seq(Nat) /\ Len(keyIDs) = 1 /\ keyIDs[1] = 1
    BY Zenon, <2>1, OneElement
  <2> QED BY Zenon, <2>2, <2>3
<1>3. StoreTypes
  <2>1. writer \in [Writers -> WriterRecords]
    <3>1. Idle \in WriterRecords
      BY Zenon, <1>1 DEF Idle, WriterRecords
    <3> QED BY Zenon, <3>1
  <2>2. reader \in [SecretDeps -> ReaderRecords]
    <3>1. [at |-> "new", blob |-> FirstBlob, keyID |-> 1] \in ReaderRecords
      BY Zenon, <1>1 DEF ReaderRecords
    <3> QED BY Zenon, <3>1
  <2>3. /\ snapshot \in [SecretDeps -> SUBSET Rows] /\ seen \in [SecretDeps -> SUBSET (Writers \cup {NoValue})]
        /\ acked \in [Writers -> Nat] /\ asOf \in [SecretDeps -> Nat]
    BY Zenon
  <2> QED BY <1>2, <2>1, <2>2, <2>3 DEF StoreTypes
<1>4. KeysOK /\ RowsOK
  BY <1>1, <1>2 DEF KeysOK, RowsOK
<1>5. MaximaExist
  BY DEF MaximaExist, HasMax
<1>6. \A w \in Writers : WriterOK(w)
  BY Zenon DEF WriterOK, Idle
<1>7. \A d \in SecretDeps : ReaderOK(d)
  BY DEF ReaderOK
<1> QED BY Zenon, <1>3, <1>4, <1>5, <1>6, <1>7 DEF StoreInv

-----------------------------------------------------------------------------
(* Keys                                                                     *)

\* Rotations and re-wrapping keep every version, with its data key.
LEMMA KeysKept ==
    ASSUME StoreInv, StoreTypes', KeysOK', Len(wrapped') >= Len(wrapped),
           \A v \in 1..Len(wrapped) : v \in renewed' \/ (v \notin renewed /\ wrapped'[v].dek = wrapped[v].dek),
           UNCHANGED <<rows, snapshot, writer, reader, acked, asOf, seen>>
    PROVE  StoreInv'
<1>0. StoreTypes /\ RowsOK /\ MaximaExist
  BY Zenon DEF StoreInv
<1>a. wrapped \in Seq(Blobs) /\ wrapped' \in Seq(Blobs)
  BY Zenon, <1>0 DEF StoreTypes
<1>b. 1..Len(wrapped) \subseteq 1..Len(wrapped')
  BY <1>a
<1>c. ASSUME NEW v \in 1..Len(wrapped), NEW dek, Current(wrapped, renewed, v, dek)
      PROVE  Current(wrapped', renewed', v, dek)
  BY Zenon, <1>c DEF Current
<1>1. RowsOK'
  BY Zenon, <1>0, <1>b, <1>c DEF RowsOK
<1>2. MaximaExist'
  BY Zenon, <1>0 DEF MaximaExist, Latest
<1>3. ASSUME NEW w \in Writers PROVE WriterOK(w)'
  <2>1. WriterOK(w)
    BY Zenon DEF StoreInv
  <2> QED BY Zenon, <1>b, <1>c, <2>1 DEF WriterOK
<1>4. ASSUME NEW d \in SecretDeps PROVE ReaderOK(d)'
  <2>1. ReaderOK(d)
    BY Zenon DEF StoreInv
  <2> QED BY Zenon, <2>1 DEF ReaderOK
<1> QED BY Zenon, <1>1, <1>2, <1>3, <1>4 DEF StoreInv

LEMMA KeyStepKeeps == ASSUME StoreInv, KeyStep PROVE StoreInv'
<1> StoreTypes /\ KeysOK
  BY Zenon DEF StoreInv
<1>0. UNCHANGED <<rows, snapshot, writer, reader, acked, asOf, seen>>
  BY Zenon DEF KeyStep
<1>1. CASE RotateKey
  <2>1. UNCHANGED <<wrapped, keyIDs, deks, renewed>> /\ masters' = masters + 1
    BY Zenon, <1>1 DEF RotateKey, provider
  <2>2. StoreTypes' /\ KeysOK' /\ Len(wrapped') >= Len(wrapped)
    BY <1>0, <2>1 DEF StoreTypes, KeysOK
  <2>3. \A v \in 1..Len(wrapped) : v \in renewed' \/ (v \notin renewed /\ wrapped'[v].dek = wrapped[v].dek)
    BY Zenon, <2>1
  <2> QED BY Zenon, <1>0, <2>2, <2>3, KeysKept
<1>2. ASSUME NEW version \in 1..(Len(wrapped) + 1), GenerateAndWrapKey(version) PROVE StoreInv'
  <2> DEFINE n == Len(wrapped)
  <2> DEFINE b == [dek |-> deks + 1, under |-> masters]
  <2>1. n \in Nat /\ masters \in Nat /\ masters \in 1..masters /\ deks \in Nat /\ deks + 1 \in Nat
    BY DEF StoreTypes
  <2>2. b \in Blobs /\ b.under = masters
    BY Zenon, <2>1 DEF Blobs
  <2>3. masters' = masters /\ deks' = deks + 1
    BY Zenon, <1>2 DEF GenerateAndWrapKey
  <2>4. DOMAIN wrapped = 1..n
    BY DEF StoreTypes
  <2>5. CASE version \in 1..n
    <3>1. /\ wrapped' = [wrapped EXCEPT ![version] = b] /\ keyIDs' = [keyIDs EXCEPT ![version] = masters]
          /\ renewed' = renewed \cup {version}
      BY Zenon, <1>2, <2>4, <2>5 DEF GenerateAndWrapKey
    <3> HIDE DEF b
    <3>2. wrapped' \in Seq(Blobs) /\ Len(wrapped') = n
          /\ \A i \in 1..n : wrapped'[i] = IF i = version THEN b ELSE wrapped[i]
      BY <2>2, <2>5, <3>1 DEF StoreTypes
    <3>3. keyIDs' \in Seq(Nat) /\ Len(keyIDs') = n
          /\ \A i \in 1..n : keyIDs'[i] = IF i = version THEN masters ELSE keyIDs[i]
      BY <2>1, <2>5, <3>1 DEF StoreTypes
    <3>4. StoreTypes'
      BY Zenon, <1>0, <2>1, <2>3, <3>2, <3>3 DEF StoreTypes
    <3>5. KeysOK'
      BY Zenon, <2>1, <2>2, <2>3, <3>2, <3>3 DEF KeysOK
    <3>6. Len(wrapped') >= Len(wrapped)
      BY <2>1, <3>2
    <3>7. \A v \in 1..n : v \in renewed' \/ (v \notin renewed /\ wrapped'[v].dek = wrapped[v].dek)
      BY Zenon, <3>1, <3>2
    <3> QED BY Zenon, <1>0, <3>4, <3>5, <3>6, <3>7, KeysKept
  <2>6. CASE version \notin 1..n
    <3>1. wrapped' = Append(wrapped, b) /\ keyIDs' = Append(keyIDs, masters) /\ renewed' = renewed
      BY Zenon, <1>2, <2>4, <2>6 DEF GenerateAndWrapKey
    <3> HIDE DEF b
    <3>2. wrapped' \in Seq(Blobs) /\ Len(wrapped') = n + 1 /\ wrapped'[n + 1] = b
          /\ \A i \in 1..n : wrapped'[i] = wrapped[i]
      BY <2>2, <3>1 DEF StoreTypes
    <3>3. keyIDs' \in Seq(Nat) /\ Len(keyIDs') = n + 1 /\ keyIDs'[n + 1] = masters
          /\ \A i \in 1..n : keyIDs'[i] = keyIDs[i]
      BY <2>1, <3>1 DEF StoreTypes
    <3>4. n + 1 # 0 /\ n + 1 >= n /\ \A v \in 1..(n + 1) : v = n + 1 \/ v \in 1..n
      BY <2>1
    <3>5. StoreTypes'
      BY Zenon, <1>0, <2>1, <2>3, <3>2, <3>3, <3>4 DEF StoreTypes
    <3>6. KeysOK'
      BY Zenon, <2>1, <2>2, <2>3, <3>2, <3>3, <3>4 DEF KeysOK
    <3>7. \A v \in 1..n : v \in renewed' \/ (v \notin renewed /\ wrapped'[v].dek = wrapped[v].dek)
      BY Zenon, <3>1, <3>2
    <3>8. Len(wrapped') >= Len(wrapped)
      BY Zenon, <3>2, <3>4
    <3> QED BY Zenon, <1>0, <3>5, <3>6, <3>7, <3>8, KeysKept
  <2> QED BY Zenon, <2>5, <2>6
<1>3. ASSUME NEW old \in 1..masters, NEW new \in 1..masters, ReWrapKeys(old, new) PROVE StoreInv'
  <2> DEFINE n == Len(wrapped)
  <2>1. n \in Nat /\ DOMAIN wrapped = 1..n /\ DOMAIN keyIDs = 1..n /\ Len(keyIDs) = n /\ new \in Nat
    BY DEF StoreTypes
  <2>2. PICK done : done \subseteq 1..n
          /\ wrapped' = [v \in 1..n |-> IF v \in done THEN [wrapped[v] EXCEPT !.under = new] ELSE wrapped[v]]
          /\ keyIDs' = [v \in 1..n |-> IF v \in done THEN new ELSE keyIDs[v]]
          /\ masters' = masters /\ deks' = deks /\ renewed' = renewed
    BY Zenon, <1>3, <2>1 DEF ReWrapKeys, ReWrapped
  <2>3. ASSUME NEW v \in 1..n
        PROVE /\ wrapped[v] \in Blobs /\ keyIDs[v] \in Nat
              /\ wrapped'[v] \in Blobs /\ keyIDs'[v] \in Nat
              /\ wrapped'[v].dek = wrapped[v].dek /\ wrapped'[v].under = keyIDs'[v]
              /\ keyIDs'[v] \in 1..masters
    <3>1. wrapped[v] \in Blobs /\ keyIDs[v] \in Nat
      BY <2>1 DEF StoreTypes
    <3>2. CASE v \in done
      BY Zenon, <2>1, <2>2, <3>1, <3>2 DEF KeysOK, Blobs
    <3>3. CASE v \notin done
      BY Zenon, <2>1, <2>2, <3>1, <3>3 DEF KeysOK
    <3> QED BY Zenon, <3>1, <3>2, <3>3
  <2>4. wrapped' \in [1..n -> Blobs] /\ keyIDs' \in [1..n -> Nat]
    BY Zenon, <2>2, <2>3
  <2>5. wrapped' \in Seq(Blobs) /\ Len(wrapped') = n /\ keyIDs' \in Seq(Nat) /\ Len(keyIDs') = n
    BY Zenon, <2>1, <2>4, MapSeq
  <2>6. StoreTypes'
    BY Zenon, <1>0, <2>1, <2>2, <2>5 DEF StoreTypes
  <2>7. KeysOK'
    BY Zenon, <2>2, <2>3, <2>5 DEF KeysOK
  <2>8. Len(wrapped') >= Len(wrapped)
    BY <2>1, <2>5
  <2>9. \A v \in 1..n : v \in renewed' \/ (v \notin renewed /\ wrapped'[v].dek = wrapped[v].dek)
    BY Zenon, <2>2, <2>3
  <2> QED BY Zenon, <1>0, <2>6, <2>7, <2>8, <2>9, KeysKept
<1> QED BY Zenon, <1>1, <1>2, <1>3 DEF KeyStep

-----------------------------------------------------------------------------
(* Requests                                                                 *)

\* A request that only moves on keeps the invariant if it keeps its own part.
LEMMA WriterMoves ==
    ASSUME StoreInv, NEW w \in Writers, NEW x \in WriterRecords,
           writer' = [writer EXCEPT ![w] = x],
           UNCHANGED <<rows, acked, masters, wrapped, keyIDs, deks, renewed, snapshot, reader, asOf, seen>>,
           WriterOK(w)'
    PROVE  StoreInv'
<1>1. StoreTypes'
  BY Zenon DEF StoreInv, StoreTypes
<1>0. KeysOK /\ RowsOK /\ MaximaExist
  BY Zenon DEF StoreInv
<1>2. KeysOK' /\ RowsOK' /\ MaximaExist'
  <2>1. KeysOK' /\ RowsOK'
    BY Zenon, <1>0 DEF KeysOK, RowsOK
  <2>2. MaximaExist'
    BY Zenon, <1>0 DEF MaximaExist, Latest
  <2> QED BY Zenon, <2>1, <2>2
<1>3. ASSUME NEW v \in Writers PROVE WriterOK(v)'
  <2>1. CASE v # w
    <3>1. writer'[v] = writer[v]
      BY Zenon, <2>1 DEF StoreInv, StoreTypes
    <3>2. WriterOK(v)
      BY Zenon DEF StoreInv
    <3> QED BY Zenon, <3>1, <3>2 DEF WriterOK
  <2> QED BY Zenon, <2>1
<1>4. ASSUME NEW d \in SecretDeps PROVE ReaderOK(d)'
  <2>1. ReaderOK(d)
    BY Zenon DEF StoreInv
  <2> QED BY Zenon, <2>1 DEF ReaderOK
<1> QED BY Zenon, <1>1, <1>2, <1>3, <1>4 DEF StoreInv

LEMMA SetSecretKeeps == ASSUME StoreInv, NEW w \in Writers, SetSecret(w) PROVE StoreInv'
<1>0. /\ StoreTypes /\ KeysOK /\ RowsOK /\ MaximaExist /\ WriterOK(w)
      /\ writer[w] \in WriterRecords /\ wrapped \in Seq(Blobs) /\ Len(wrapped) \in Nat \ {0}
      /\ keyIDs \in Seq(Nat) /\ Len(keyIDs) = Len(wrapped)
  BY DEF StoreInv, StoreTypes
<1>i. Idle \in WriterRecords /\ [Idle EXCEPT !.at = "failed"] \in WriterRecords
  BY Zenon DEF Idle, WriterRecords, FirstBlob, Blobs
<1>1. CASE CurrentVersion(w)
  <2> DEFINE x == [writer[w] EXCEPT !.at = "getKey", !.keyVer = Len(wrapped)]
  <2>1. x \in WriterRecords /\ x.at = "getKey" /\ x.keyVer = Len(wrapped)
    BY Zenon, <1>0 DEF WriterRecords
  <2>2. writer' = [writer EXCEPT ![w] = x] /\ writer[w].at = "idle"
        /\ UNCHANGED <<rows, acked, masters, wrapped, keyIDs, deks, renewed, snapshot, reader, asOf, seen>>
    BY Zenon, <1>1 DEF CurrentVersion, WriterUnchanged, provider
  <2> HIDE DEF x
  <2>3. writer'[w] = x
    BY Zenon, <1>0, <2>2 DEF StoreTypes
  <2>4. WriterOK(w)'
    BY <1>0, <2>1, <2>2, <2>3 DEF WriterOK
  <2> QED BY Zenon, <2>1, <2>2, <2>4, WriterMoves
<1>2. CASE GetKey(w)
  <2> DEFINE v == writer[w].keyVer
  <2> DEFINE x == [writer[w] EXCEPT !.at = "unwrap", !.blob = wrapped[v], !.keyID = keyIDs[v]]
  <2>1. writer[w].at = "getKey" /\ writer' = [writer EXCEPT ![w] = x]
        /\ UNCHANGED <<rows, acked, masters, wrapped, keyIDs, deks, renewed, snapshot, reader, asOf, seen>>
    BY Zenon, <1>2 DEF GetKey, WriterUnchanged, provider
  <2>2. v \in 1..Len(wrapped)
    BY Zenon, <1>0, <2>1 DEF WriterOK
  <2>3. wrapped[v] \in Blobs /\ keyIDs[v] \in Nat /\ wrapped[v].under = keyIDs[v]
        /\ Current(wrapped, renewed, v, wrapped[v].dek)
    <3>1. wrapped[v].under = keyIDs[v] /\ Current(wrapped, renewed, v, wrapped[v].dek)
      BY Zenon, <1>0, <2>2 DEF KeysOK, Current
    <3> HIDE DEF v
    <3> QED BY <1>0, <2>2, <3>1
  <2>4. x \in WriterRecords /\ x.at = "unwrap" /\ x.keyVer = v /\ x.blob = wrapped[v] /\ x.keyID = keyIDs[v]
    BY Zenon, <1>0, <2>3 DEF WriterRecords
  <2> HIDE DEF x
  <2>5. writer'[w] = x
    BY ZenonT(60), <1>0, <2>1 DEF StoreTypes
  <2>6. WriterOK(w)'
    BY <1>0, <2>1, <2>2, <2>3, <2>4, <2>5 DEF WriterOK
  <2> QED BY Zenon, <2>1, <2>4, <2>6, WriterMoves
<1>f. ASSUME writer[w].at \in {"unwrap", "insert"},
             writer' = [writer EXCEPT ![w] = [Idle EXCEPT !.at = "failed"]],
             UNCHANGED <<rows, acked, masters, wrapped, keyIDs, deks, renewed, snapshot, reader, asOf, seen>>
      PROVE  StoreInv'
  <2>1. writer'[w].at = "failed"
    BY Zenon, <1>0, <1>f DEF StoreTypes, Idle
  <2>2. WriterOK(w)'
    BY Zenon, <1>0, <1>f, <2>1 DEF WriterOK
  <2> QED BY Zenon, <1>i, <1>f, <2>2, WriterMoves
<1>3. CASE UnwrapKey(w)
  <2>1. writer[w].at = "unwrap"
        /\ UNCHANGED <<rows, acked, masters, wrapped, keyIDs, deks, renewed, snapshot, reader, asOf, seen>>
    BY Zenon, <1>3 DEF UnwrapKey, WriterUnchanged, provider
  <2> DEFINE x == [writer[w] EXCEPT !.at = "query"]
  <2>2. CASE writer' = [writer EXCEPT ![w] = x]
    <3>1. x \in WriterRecords /\ x.at = "query" /\ x.keyVer = writer[w].keyVer /\ x.blob = writer[w].blob
      BY Zenon, <1>0 DEF WriterRecords
    <3> HIDE DEF x
    <3>2. writer'[w] = x
      BY Zenon, <1>0, <2>2 DEF StoreTypes
    <3>3. WriterOK(w)'
      BY Zenon, <1>0, <2>1, <3>1, <3>2 DEF WriterOK
    <3> QED BY Zenon, <2>1, <2>2, <3>1, <3>3, WriterMoves
  <2>3. CASE writer' = [writer EXCEPT ![w] = [Idle EXCEPT !.at = "failed"]]
    BY Zenon, <1>f, <2>1, <2>3
  <2> QED BY Zenon, <1>3, <2>2, <2>3 DEF UnwrapKey
<1>4. CASE QueryVersion(w)
  <2> DEFINE next == MaxOf({row.version : row \in rows}) + 1
  <2> DEFINE x == [writer[w] EXCEPT !.at = "insert", !.next = next]
  <2>1. writer[w].at = "query" /\ writer' = [writer EXCEPT ![w] = x]
        /\ UNCHANGED <<rows, acked, masters, wrapped, keyIDs, deks, renewed, snapshot, reader, asOf, seen>>
    BY Zenon, <1>4 DEF QueryVersion, WriterUnchanged, provider
  <2>2. next \in Nat /\ next # 0
    <3>1. {row.version : row \in rows} \subseteq Nat
      BY <1>0 DEF StoreTypes, Rows
    <3>2. MaxOf({row.version : row \in rows}) \in Nat
      BY Zenon, <1>0, <3>1, MaxOfIsMax DEF MaximaExist
    <3>3. \A n \in Nat : n + 1 \in Nat /\ n + 1 # 0
      OBVIOUS
    <3> QED BY ZenonT(60), <3>2, <3>3
  <2> HIDE DEF next
  <2>3. x \in WriterRecords /\ x.at = "insert" /\ x.next # 0 /\ x.keyVer = writer[w].keyVer
        /\ x.blob = writer[w].blob
    BY Zenon, <1>0, <2>2 DEF WriterRecords
  <2> HIDE DEF x
  <2>4. writer'[w] = x
    BY Zenon, <1>0, <2>1 DEF StoreTypes
  <2>5. WriterOK(w)'
    BY <1>0, <2>1, <2>3, <2>4 DEF WriterOK
  <2> QED BY Zenon, <2>1, <2>3, <2>5, WriterMoves
<1>5. CASE Insert(w)
  <2>1. writer[w].at = "insert"
        /\ UNCHANGED <<acked, masters, wrapped, keyIDs, deks, renewed, snapshot, reader, asOf, seen>>
    BY Zenon, <1>5 DEF Insert, WriterUnchanged, provider
  <2>2. CASE \E row \in rows : row.version = writer[w].next
    BY Zenon, <1>5, <1>f, <2>1, <2>2 DEF Insert
  <2>3. CASE ~ \E row \in rows : row.version = writer[w].next
    <3> DEFINE x == [writer[w] EXCEPT !.at = "audit"]
    <3> DEFINE new == NewRow(w)
    <3>1. writer' = [writer EXCEPT ![w] = x] /\ rows' = rows \cup {new}
      BY Zenon, <1>5, <2>3 DEF Insert
    <3>2. x \in WriterRecords /\ x.at = "audit" /\ x.next = writer[w].next
      BY Zenon, <1>0 DEF WriterRecords
    <3>3. new \in Rows /\ new.version = writer[w].next /\ new.value = w
          /\ new.keyVersion \in 1..Len(wrapped) /\ Current(wrapped, renewed, new.keyVersion, new.dek)
      <4>1. /\ writer[w].keyVer \in 1..Len(wrapped) /\ writer[w].next # 0
            /\ Current(wrapped, renewed, writer[w].keyVer, writer[w].blob.dek)
        BY Zenon, <1>0, <2>1 DEF WriterOK
      <4>2. writer[w].keyVer \in Nat /\ writer[w].blob.dek \in Nat /\ writer[w].next \in Nat
        BY Zenon, <1>0 DEF WriterRecords, Blobs
      <4> QED BY <4>1, <4>2 DEF NewRow, Rows
    <3> HIDE DEF x, new
    <3>4. StoreTypes'
      BY Zenon, <1>0, <2>1, <3>1, <3>2, <3>3 DEF StoreTypes
    <3>5. KeysOK'
      BY Zenon, <1>0, <2>1 DEF KeysOK
    <3>6. RowsOK'
      BY ZenonT(60), <1>0, <2>1, <2>3, <3>1, <3>3 DEF RowsOK
    <3>7. MaximaExist'
      <4> DEFINE S == {row.version : row \in rows}
      <4>1. S' = S \cup {new.version}
        <5>1. rows' = rows \cup {new}
          BY Zenon, <3>1
        <5> QED BY <5>1
      <4>2. S \subseteq Nat /\ new.version \in Nat
        BY <1>0, <3>3 DEF StoreTypes, Rows
      <4>3. PICK n \in S \cup {0} : \A m \in S : m <= n
        BY Zenon, <1>0 DEF MaximaExist, HasMax
      <4> HIDE DEF S
      <4>4. HasMax(S')
        <5>1. CASE n <= new.version
          BY <4>1, <4>2, <4>3, <5>1 DEF HasMax
        <5>2. CASE new.version <= n
          BY Zenon, <4>1, <4>2, <4>3, <5>2 DEF HasMax
        <5> QED BY <4>2, <4>3, <5>1, <5>2
      <4>5. Latest' # {}
        <5>1. CASE rows = {}
          <6>1. new \in Latest'
            BY <3>1, <3>3, <5>1 DEF Latest, Rows
          <6> QED BY Zenon, <6>1
        <5>2. CASE rows # {}
          <6>1. PICK top \in rows : \A other \in rows : other.version <= top.version
            BY <1>0, <5>2 DEF MaximaExist, Latest
          <6>2. top.version \in Nat /\ new.version \in Nat /\ \A other \in rows : other.version \in Nat
            BY Zenon, <1>0, <3>3 DEF StoreTypes, Rows
          <6>3. CASE top.version <= new.version
            <7>1. new \in Latest'
              BY <3>1, <6>1, <6>2, <6>3 DEF Latest
            <7> QED BY Zenon, <7>1
          <6>4. CASE new.version <= top.version
            <7>1. top \in Latest'
              BY Zenon, <3>1, <6>1, <6>2, <6>4 DEF Latest
            <7> QED BY Zenon, <7>1
          <6>5. top.version <= new.version \/ new.version <= top.version
            BY <6>2
          <6> QED BY Zenon, <6>3, <6>4, <6>5
        <5> QED BY Zenon, <5>1, <5>2
      <4>6. HasMax({acked[v] : v \in Writers})'
        BY Zenon, <1>0, <2>1 DEF MaximaExist
      <4> QED BY Zenon, <4>4, <4>5, <4>6 DEF MaximaExist, S
    <3>8. ASSUME NEW v \in Writers PROVE WriterOK(v)'
      <4>1. CASE v = w
        <5>1. writer'[v] = x
          BY Zenon, <1>0, <3>1, <4>1 DEF StoreTypes
        <5>2. writer'[w].at = "audit" /\ writer'[w].next # 0 /\ acked'[w] = 0
          BY Zenon, <1>0, <2>1, <3>2, <4>1, <5>1 DEF WriterOK
        <5>3. new \in rows' /\ new.version = writer'[w].next /\ new.value = w
          BY Zenon, <3>1, <3>2, <3>3, <4>1, <5>1
        <5> QED BY Zenon, <4>1, <5>2, <5>3 DEF WriterOK
      <4>2. CASE v # w
        <5>1. writer'[v] = writer[v] /\ WriterOK(v)
          BY Zenon, <1>0, <3>1, <4>2 DEF StoreInv, StoreTypes
        <5> QED BY Zenon, <2>1, <3>1, <5>1 DEF WriterOK
      <4> QED BY Zenon, <4>1, <4>2
    <3>9. ASSUME NEW d \in SecretDeps PROVE ReaderOK(d)'
      BY ZenonT(60), <2>1, <3>1 DEF StoreInv, ReaderOK
    <3> QED BY Zenon, <3>4, <3>5, <3>6, <3>7, <3>8, <3>9 DEF StoreInv
  <2> QED BY Zenon, <2>2, <2>3
<1> QED BY Zenon, <1>1, <1>2, <1>3, <1>4, <1>5 DEF SetSecret

LEMMA RecordAuditKeeps == ASSUME StoreInv, NEW w \in Writers, RecordAudit(w) PROVE StoreInv'
<1> DEFINE x == [Idle EXCEPT !.at = "done"]
<1> DEFINE n == writer[w].next
<1>1. /\ writer[w].at = "audit" /\ writer' = [writer EXCEPT ![w] = x] /\ acked' = [acked EXCEPT ![w] = n]
      /\ UNCHANGED <<rows, masters, wrapped, keyIDs, deks, renewed, snapshot, reader, asOf, seen>>
  BY Zenon DEF RecordAudit, WriterUnchanged, provider
<1>2. x \in WriterRecords /\ x.at = "done"
  BY Zenon DEF Idle, WriterRecords, FirstBlob, Blobs
<1>3. StoreTypes /\ WriterOK(w) /\ n \in Nat /\ n # 0 /\ acked[w] = 0
  <2>1. StoreTypes /\ WriterOK(w) /\ n # 0 /\ acked[w] = 0
    BY Zenon, <1>1 DEF StoreInv, WriterOK
  <2>2. writer[w] \in WriterRecords
    BY Zenon, <2>1 DEF StoreTypes
  <2> QED BY Zenon, <2>1, <2>2 DEF WriterRecords
<1> HIDE DEF x, n
<1>4. StoreTypes'
  BY Zenon, <1>1, <1>2, <1>3 DEF StoreTypes
<1>5. KeysOK' /\ RowsOK'
  BY Zenon, <1>1 DEF StoreInv, KeysOK, RowsOK
<1>6. MaximaExist'
  <2> DEFINE S == {acked[v] : v \in Writers}
  <2>1. S' \subseteq S \cup {n} /\ n \in S' /\ \A m \in S : m = 0 \/ m \in S'
    BY Zenon, <1>1, <1>3 DEF StoreTypes
  <2>2. S \subseteq Nat
    BY <1>3 DEF StoreTypes
  <2>3. PICK top \in S \cup {0} : \A m \in S : m <= top
    BY Zenon DEF StoreInv, MaximaExist, HasMax
  <2> HIDE DEF S
  <2>4. HasMax(S')
    <3>1. CASE top <= n
      BY <1>3, <2>1, <2>2, <2>3, <3>1 DEF HasMax
    <3>2. CASE n <= top
      <4>1. top \in S'
        BY <1>3, <2>1, <2>2, <2>3, <3>2
      <4> QED BY Zenon, <1>3, <2>1, <2>2, <2>3, <3>2, <4>1 DEF HasMax
    <3> QED BY <1>3, <2>2, <2>3, <3>1, <3>2
  <2> QED BY Zenon, <1>1, <2>4 DEF StoreInv, MaximaExist, Latest, S
<1>7. ASSUME NEW v \in Writers PROVE WriterOK(v)'
  <2>1. CASE v = w
    <3>1. writer'[v] = x /\ acked'[v] = n
      BY Zenon, <1>1, <1>3, <2>1 DEF StoreTypes
    <3>2. \E row \in rows : row.version = n /\ row.value = w
      BY Zenon, <1>1, <1>3 DEF WriterOK, n
    <3> QED BY Zenon, <1>1, <1>2, <2>1, <3>1, <3>2 DEF WriterOK
  <2>2. CASE v # w
    <3>1. writer'[v] = writer[v] /\ acked'[v] = acked[v]
      BY Zenon, <1>1, <1>3, <2>2 DEF StoreTypes
    <3>2. WriterOK(v)
      BY Zenon DEF StoreInv
    <3> QED BY Zenon, <1>1, <3>1, <3>2 DEF WriterOK
  <2> QED BY <2>1, <2>2
<1>8. ASSUME NEW d \in SecretDeps PROVE ReaderOK(d)'
  BY ZenonT(60), <1>1 DEF StoreInv, ReaderOK
<1> QED BY Zenon, <1>4, <1>5, <1>6, <1>7, <1>8 DEF StoreInv

-----------------------------------------------------------------------------
(* Deployments                                                              *)

LEMMA ReaderMoves ==
    ASSUME StoreInv, NEW d \in SecretDeps, StoreTypes',
           UNCHANGED <<rows, acked, masters, wrapped, keyIDs, deks, renewed, writer>>,
           ReaderOK(d)',
           \A e \in SecretDeps \ {d} : /\ reader'[e] = reader[e] /\ snapshot'[e] = snapshot[e]
                                       /\ asOf'[e] = asOf[e] /\ seen'[e] = seen[e]
    PROVE  StoreInv'
<1>0. KeysOK /\ RowsOK /\ MaximaExist
  BY Zenon DEF StoreInv
<1>1. KeysOK' /\ RowsOK' /\ MaximaExist'
  <2>1. KeysOK' /\ RowsOK'
    BY Zenon, <1>0 DEF KeysOK, RowsOK
  <2>2. MaximaExist'
    BY Zenon, <1>0 DEF MaximaExist, Latest
  <2> QED BY Zenon, <2>1, <2>2
<1>2. ASSUME NEW w \in Writers PROVE WriterOK(w)'
  <2>1. WriterOK(w)
    BY Zenon DEF StoreInv
  <2> QED BY Zenon, <2>1 DEF WriterOK
<1>3. ASSUME NEW e \in SecretDeps PROVE ReaderOK(e)'
  <2>1. CASE e # d
    <3>1. ReaderOK(e) /\ e \in SecretDeps \ {d}
      BY Zenon, <2>1 DEF StoreInv
    <3>2. reader'[e] = reader[e] /\ snapshot'[e] = snapshot[e] /\ asOf'[e] = asOf[e] /\ seen'[e] = seen[e]
      BY Zenon, <3>1
    <3> QED BY <3>1, <3>2 DEF ReaderOK
  <2> QED BY Zenon, <2>1
<1> QED BY Zenon, <1>1, <1>2, <1>3 DEF StoreInv

LEMMA ReaderStepKeeps == ASSUME StoreInv, NEW d \in SecretDeps, ReaderStep(d) PROVE StoreInv'
<1>0. /\ StoreTypes /\ KeysOK /\ RowsOK /\ MaximaExist /\ ReaderOK(d) /\ reader[d] \in ReaderRecords
      /\ snapshot[d] \subseteq Rows /\ wrapped \in Seq(Blobs) /\ keyIDs \in Seq(Nat)
      /\ Len(keyIDs) = Len(wrapped)
  BY Zenon DEF StoreInv, StoreTypes
<1>1. CASE /\ SnapshotForDeployment(d) /\ snapshot' = [snapshot EXCEPT ![d] = Latest]
           /\ asOf' = [asOf EXCEPT ![d] = MaxOf({acked[w] : w \in Writers})]
  <2> DEFINE top == MaxOf({acked[w] : w \in Writers})
  <2> DEFINE x == [reader[d] EXCEPT !.at = "ready"]
  <2>1. /\ reader[d].at = "new" /\ reader' = [reader EXCEPT ![d] = x]
        /\ snapshot' = [snapshot EXCEPT ![d] = Latest] /\ asOf' = [asOf EXCEPT ![d] = top]
        /\ UNCHANGED <<seen, rows, acked, masters, wrapped, keyIDs, deks, renewed, writer>>
    BY Zenon, <1>1 DEF SnapshotForDeployment, ReaderUnchanged, provider
  <2>2. x \in ReaderRecords /\ x.at = "ready"
    BY Zenon, <1>0 DEF ReaderRecords
  <2>3. top \in Nat /\ (top # 0 => \E w \in Writers : acked[w] = top)
    <3>1. {acked[w] : w \in Writers} \subseteq Nat
      BY Zenon, <1>0 DEF StoreTypes
    <3>2. top \in {acked[w] : w \in Writers} \cup {0} /\ top \in Nat
      BY Zenon, <1>0, <3>1, MaxOfIsMax DEF MaximaExist
    <3> HIDE DEF top
    <3> QED BY <3>2
  <2> HIDE DEF x, top
  <2>4. Latest \subseteq rows /\ rows \subseteq Rows
    BY Zenon, <1>0 DEF Latest, StoreTypes
  <2>5. StoreTypes'
    BY Zenon, <1>0, <2>1, <2>2, <2>3, <2>4 DEF StoreTypes
  <2>6. /\ reader'[d] = x /\ snapshot'[d] = Latest /\ asOf'[d] = top /\ seen'[d] = {}
        /\ \A e \in SecretDeps \ {d} : /\ reader'[e] = reader[e] /\ snapshot'[e] = snapshot[e]
                                       /\ asOf'[e] = asOf[e] /\ seen'[e] = seen[e]
    BY Zenon, <1>0, <2>1 DEF StoreTypes, ReaderOK
  <2>7. \A row, other \in Latest : row = other
    <3> SUFFICES ASSUME NEW row \in Latest, NEW other \in Latest PROVE row = other
      BY Zenon
    <3>1. /\ row \in rows /\ other \in rows /\ row.version <= other.version /\ other.version <= row.version
          /\ row.version \in Nat /\ other.version \in Nat
      BY Zenon, <2>4 DEF Latest, Rows
    <3>2. row.version = other.version
      BY <3>1
    <3> QED BY <1>0, <3>1, <3>2 DEF RowsOK
  <2>8. CASE top = 0
    <3>1. \A row \in Latest : row.version >= 0
      BY <2>4 DEF Rows
    <3>2. asOf'[d] = 0 /\ ~(0 > 0)
      BY <2>6, <2>8
    <3>3. ReaderOK(d)'
      BY Zenon, <2>1, <2>2, <2>4, <2>6, <2>7, <3>1, <3>2 DEF ReaderOK
    <3> QED BY Zenon, <2>1, <2>5, <2>6, <3>3, ReaderMoves
  <2>9. CASE top # 0
    <3>1. PICK w \in Writers : acked[w] = top
      BY Zenon, <2>3, <2>9
    <3>2. PICK old \in rows : old.version = top
      BY Zenon, <2>9, <3>1 DEF StoreInv, WriterOK
    <3>3. Latest # {} /\ \A row \in Latest : row.version >= top
      BY Zenon, <1>0, <2>4, <3>2 DEF MaximaExist, Latest, Rows
    <3>4. ReaderOK(d)'
      BY Zenon, <2>1, <2>2, <2>4, <2>6, <2>7, <3>3 DEF ReaderOK
    <3> QED BY Zenon, <2>1, <2>5, <2>6, <3>4, ReaderMoves
  <2> QED BY Zenon, <2>8, <2>9
<1>2. CASE GetSecretsForDeployment(d)
  <2>1. reader[d].at = "ready" /\ UNCHANGED <<snapshot, asOf, seen, rows, acked, masters, wrapped, keyIDs, deks, renewed, writer>>
    BY Zenon, <1>2 DEF GetSecretsForDeployment, ReaderUnchanged, provider
  <2>2. PICK row \in snapshot[d] :
          reader' = [reader EXCEPT ![d] = [at |-> "unwrap", blob |-> wrapped[row.keyVersion],
                                           keyID |-> keyIDs[row.keyVersion]]]
    BY Zenon, <1>2 DEF GetSecretsForDeployment
  <2> DEFINE v == row.keyVersion
  <2> DEFINE x == [at |-> "unwrap", blob |-> wrapped[v], keyID |-> keyIDs[v]]
  <2>3. v \in 1..Len(wrapped)
    BY Zenon, <1>0 DEF ReaderOK, RowsOK
  <2>4. wrapped[v] \in Blobs /\ keyIDs[v] \in Nat /\ wrapped[v].under = keyIDs[v]
    <3>1. wrapped[v].under = keyIDs[v]
      BY Zenon, <1>0, <2>3 DEF KeysOK
    <3> HIDE DEF v
    <3> QED BY <1>0, <2>3, <3>1
  <2> HIDE DEF v
  <2>5. x \in ReaderRecords /\ x.at = "unwrap" /\ x.blob.under = x.keyID
    BY Zenon, <2>4 DEF ReaderRecords
  <2>6. reader' = [reader EXCEPT ![d] = x]
    BY Zenon, <2>2 DEF v
  <2> HIDE DEF x
  <2>7. StoreTypes' /\ reader'[d] = x /\ \A e \in SecretDeps \ {d} : reader'[e] = reader[e]
    BY Zenon, <1>0, <2>1, <2>5, <2>6 DEF StoreTypes
  <2>8. ReaderOK(d)'
    BY Zenon, <1>0, <2>1, <2>5, <2>7 DEF ReaderOK
  <2> QED BY Zenon, <2>1, <2>7, <2>8, ReaderMoves
<1>3. CASE InjectSecrets(d)
  <2> DEFINE x == [at |-> "ready", blob |-> FirstBlob, keyID |-> 1]
  <2>1. /\ reader[d].at = "unwrap" /\ reader' = [reader EXCEPT ![d] = x]
        /\ UNCHANGED <<snapshot, asOf, rows, acked, masters, wrapped, keyIDs, deks, renewed, writer>>
    BY <1>3 DEF InjectSecrets, ReaderUnchanged, provider
  <2>2. x \in ReaderRecords /\ x.at = "ready"
    BY Zenon DEF ReaderRecords, FirstBlob, Blobs
  <2> HIDE DEF x
  <2>3. \E y \in {row.value : row \in snapshot[d]} \cup {NoValue} : seen' = [seen EXCEPT ![d] = @ \cup {y}]
    <3>1. NoValue \in {row.value : row \in snapshot[d]} \cup {NoValue}
      BY Zenon
    <3>2. \A row \in snapshot[d] : row.value \in {r.value : r \in snapshot[d]} \cup {NoValue}
      BY Zenon
    <3>3. \/ seen' = [seen EXCEPT ![d] = @ \cup {NoValue}]
          \/ \E row \in snapshot[d] : seen' = [seen EXCEPT ![d] = @ \cup {row.value}]
      BY Zenon, <1>3 DEF InjectSecrets
    <3> QED BY Zenon, <3>1, <3>2, <3>3
  <2>4. PICK y \in {row.value : row \in snapshot[d]} \cup {NoValue} : seen' = [seen EXCEPT ![d] = @ \cup {y}]
    BY Zenon, <2>3
  <2>5. y \in Writers \cup {NoValue}
    BY Zenon, <1>0, <2>4 DEF Rows
  <2>6. StoreTypes'
    BY Zenon, <1>0, <2>1, <2>2, <2>4, <2>5 DEF StoreTypes
  <2>7. /\ reader'[d] = x /\ seen'[d] = seen[d] \cup {y}
        /\ \A e \in SecretDeps \ {d} : reader'[e] = reader[e] /\ seen'[e] = seen[e]
    BY Zenon, <1>0, <2>1, <2>4 DEF StoreTypes
  <2>8. \A z \in seen'[d] \ {NoValue} : \E row \in snapshot[d] : z = row.value
    <3>1. \A z \in seen[d] \ {NoValue} : \E row \in snapshot[d] : z = row.value
      BY Zenon, <1>0 DEF ReaderOK
    <3>2. y # NoValue => \E row \in snapshot[d] : y = row.value
      BY Zenon, <2>4
    <3> QED BY Zenon, <2>7, <3>1, <3>2
  <2>9. ReaderOK(d)'
    BY Zenon, <1>0, <2>1, <2>2, <2>7, <2>8 DEF ReaderOK
  <2> QED BY Zenon, <2>1, <2>6, <2>7, <2>9, ReaderMoves
<1>4. CASE SnapshotForDeployment(d) /\ UNCHANGED <<snapshot, asOf>>
  <2> DEFINE x == [reader[d] EXCEPT !.at = "ready"]
  <2>1. /\ reader[d].at = "new" /\ reader' = [reader EXCEPT ![d] = x]
        /\ UNCHANGED <<snapshot, asOf, seen, rows, acked, masters, wrapped, keyIDs, deks, renewed, writer>>
    BY Zenon, <1>4 DEF SnapshotForDeployment, ReaderUnchanged, provider
  <2>2. x \in ReaderRecords /\ x.at = "ready"
    BY Zenon, <1>0 DEF ReaderRecords
  <2> HIDE DEF x
  <2>3. StoreTypes' /\ reader'[d] = x /\ \A e \in SecretDeps \ {d} : reader'[e] = reader[e]
    BY Zenon, <1>0, <2>1, <2>2 DEF StoreTypes
  <2>4. ReaderOK(d)'
    BY Zenon, <1>0, <2>1, <2>2, <2>3 DEF ReaderOK
  <2> QED BY Zenon, <2>1, <2>3, <2>4, ReaderMoves
<1>5. CASE RunPlain(d)
  <2>1. /\ reader[d].at # "new" /\ seen' = [seen EXCEPT ![d] = @ \cup {NoValue}]
        /\ UNCHANGED <<reader, snapshot, asOf, rows, acked, masters, wrapped, keyIDs, deks, renewed, writer>>
    BY Zenon, <1>5 DEF RunPlain, ReaderUnchanged, provider
  <2>2. StoreTypes'
    BY Zenon, <1>0, <2>1 DEF StoreTypes
  <2>3. /\ seen'[d] = seen[d] \cup {NoValue}
        /\ \A e \in SecretDeps \ {d} : seen'[e] = seen[e]
    BY Zenon, <1>0, <2>1 DEF StoreTypes
  <2>4. ReaderOK(d)'
    BY Zenon, <1>0, <2>1, <2>3 DEF ReaderOK
  <2> QED BY Zenon, <2>1, <2>2, <2>3, <2>4, ReaderMoves
<1> QED BY Zenon, <1>1, <1>2, <1>3, <1>4, <1>5 DEF ReaderStep, SnapshotForDeployment

-----------------------------------------------------------------------------

LEMMA StoreInductive == SecretsSpec => []StoreInv
<1>1. ASSUME StoreInv, [SecretsNext]_secrets PROVE StoreInv'
  <2>1. CASE UNCHANGED secrets
    <3>1. UNCHANGED <<rows, acked, masters, wrapped, keyIDs, deks, renewed, snapshot, writer, reader, asOf, seen>>
      BY Zenon, <2>1 DEF secrets, store, provider
    <3>2. StoreTypes' /\ KeysOK' /\ Len(wrapped') >= Len(wrapped)
      <4>1. StoreTypes' /\ KeysOK' /\ wrapped \in Seq(Blobs)
        BY Zenon, <1>1, <3>1 DEF StoreInv, StoreTypes, KeysOK
      <4> QED BY <3>1, <4>1
    <3>3. \A v \in 1..Len(wrapped) : v \in renewed' \/ (v \notin renewed /\ wrapped'[v].dek = wrapped[v].dek)
      BY Zenon, <3>1
    <3> QED BY Zenon, <1>1, <3>1, <3>2, <3>3, KeysKept
  <2>2. CASE KeyStep
    BY Zenon, <1>1, <2>2, KeyStepKeeps
  <2>3. ASSUME NEW w \in Writers, SetSecret(w) \/ RecordAudit(w) PROVE StoreInv'
    BY Zenon, <1>1, <2>3, SetSecretKeeps, RecordAuditKeeps
  <2>4. ASSUME NEW d \in SecretDeps, ReaderStep(d) PROVE StoreInv'
    BY Zenon, <1>1, <2>4, ReaderStepKeeps
  <2> QED BY Zenon, <1>1, <2>1, <2>2, <2>3, <2>4 DEF SecretsNext, CreateSecret, RotateSecret
<1> QED BY InitStore, <1>1, PTL DEF SecretsSpec

\* RowsReadable: rotating and re-wrapping keys, also when it fails half way, never
\* leaves a row, or what a request has read, under a key other than the one recorded,
\* and keeps the data key of every version that is not generated again.
THEOREM AlwaysReadable == SecretsSpec => []RowsReadable
<1>1. StoreInv => RowsReadable
  <2> SUFFICES ASSUME StoreInv PROVE RowsReadable
    BY Zenon
  <2>1. DOMAIN keyIDs = 1..Len(wrapped)
    BY DEF StoreInv, StoreTypes
  <2>2. KeysOK /\ RowsOK
    BY Zenon DEF StoreInv
  <2>3. \A w \in Writers : writer[w].at = "unwrap" => writer[w].blob.under = writer[w].keyID
    BY Zenon DEF StoreInv, WriterOK
  <2>4. \A d \in SecretDeps : reader[d].at = "unwrap" => reader[d].blob.under = reader[d].keyID
    BY Zenon DEF StoreInv, ReaderOK
  <2> QED BY Zenon, <2>1, <2>2, <2>3, <2>4 DEF KeysOK, RowsOK, Current, RowsReadable
<1> QED BY StoreInductive, <1>1, PTL

\* NoLostVersion: the unique index and the version query together keep the value
\* of every request that was answered.
THEOREM VersionsKept == SecretsSpec => []NoLostVersion
<1>1. StoreInv => NoLostVersion
  <2> SUFFICES ASSUME StoreInv, NEW w \in Writers, acked[w] # 0
               PROVE {row.value : row \in {row \in rows : row.version = acked[w]}} = {w}
    BY Zenon DEF NoLostVersion
  <2>1. PICK mine \in rows : mine.version = acked[w] /\ mine.value = w
    BY Zenon DEF StoreInv, WriterOK
  <2>2. {row \in rows : row.version = acked[w]} = {mine}
    BY Zenon, <2>1 DEF StoreInv, RowsOK
  <2> QED BY Zenon, <2>1, <2>2
<1> QED BY StoreInductive, <1>1, PTL

\* OneValuePerDeployment: an instance that is given a value is given the one in the
\* deployment's snapshot, which is at least as new as any answered before it, whatever
\* is set, rotated or re-wrapped later and whichever instances are given none.
THEOREM OneValue == SecretsSpec => []OneValuePerDeployment
<1>1. StoreInv => OneValuePerDeployment
  <2> SUFFICES ASSUME StoreInv, NEW d \in SecretDeps
               PROVE /\ \A x, y \in seen[d] \ {NoValue} : x = y
                     /\ \A x \in seen[d] \ {NoValue} :
                          \E row \in rows : row.value = x /\ row.version >= asOf[d]
                     /\ asOf[d] > 0 => snapshot[d] # {}
    BY Zenon DEF OneValuePerDeployment
  <2>1. ReaderOK(d)
    BY Zenon DEF StoreInv
  <2> QED BY Zenon, <2>1 DEF ReaderOK
<1> QED BY StoreInductive, <1>1, PTL

-----------------------------------------------------------------------------
(* The audit log                                                            *)

IsEntry(x) ==
    \E n, f, p, h : x = [index |-> n, fields |-> f, prev |-> p, hash |-> h]

GoodEntry(x, i, prior) ==
    /\ x.index = i - 1
    /\ x.prev = IF i = 1 THEN GenesisHash ELSE prior
    /\ x.hash = ComputeHash(x.index, x.fields, x.prev)

\* An entry VerifyChain refuses wherever the log goes on.
BadEntry(x, i) ==
    x.index # i - 1 \/ x.hash # ComputeHash(x.index, x.fields, x.prev)

LogInv ==
    /\ \E S : log \in Seq(S)
    /\ \A i \in 1..Len(log) : IsEntry(log[i])
    /\ intact \in BOOLEAN
    /\ intact => \A i \in 1..Len(log) : GoodEntry(log[i], i, log[i - 1].hash)
    /\ ~intact => \E i \in 1..Len(log) : BadEntry(log[i], i)

\* What deleting an entry leaves.
LEMMA Joined ==
    ASSUME NEW S, NEW s \in Seq(S), NEW t \in Seq(S)
    PROVE  /\ s \o t \in Seq(S) /\ Len(s \o t) = Len(s) + Len(t)
           /\ \A i \in 1..(Len(s) + Len(t)) : (s \o t)[i] = IF i <= Len(s) THEN s[i] ELSE t[i - Len(s)]
OBVIOUS

LEMMA LogDetects == LogInv => TamperEvident
<1> SUFFICES ASSUME LogInv PROVE VerifyChain <=> intact
  BY Zenon DEF TamperEvident
<1>1. DOMAIN log = 1..Len(log)
  BY DEF LogInv
<1>2. CASE intact
  BY Zenon, <1>1, <1>2 DEF LogInv, GoodEntry, VerifyChain
<1>3. CASE ~intact
  BY Zenon, <1>1, <1>3 DEF LogInv, BadEntry, VerifyChain
<1> QED BY Zenon, <1>2, <1>3

LEMMA AppendKeeps == ASSUME LogInv, NEW f, AppendEntry(f) PROVE LogInv'
<1>a. (\A i \in 1..Len(log) : IsEntry(log[i])) /\ intact \in BOOLEAN
  BY Zenon DEF LogInv
<1>b. intact => \A i \in 1..Len(log) : GoodEntry(log[i], i, log[i - 1].hash)
  BY Zenon DEF LogInv
<1>c. ~intact => \E i \in 1..Len(log) : BadEntry(log[i], i)
  BY Zenon DEF LogInv
<1>1. PICK S : log \in Seq(S)
  BY Zenon DEF LogInv
<1> DEFINE n == Len(log)
<1> DEFINE prev == IF n = 0 THEN GenesisHash ELSE log[n].hash
<1> DEFINE x == [index |-> n, fields |-> f, prev |-> prev, hash |-> ComputeHash(n, f, prev)]
<1>2. log' = Append(log, x) /\ intact' = intact
  BY Zenon DEF AppendEntry
<1>3. x.index = n /\ x.fields = f /\ x.prev = prev /\ x.hash = ComputeHash(n, f, prev) /\ IsEntry(x)
  BY Zenon DEF IsEntry
<1> HIDE DEF x
<1>4. n \in Nat
  BY <1>1
<1>5. log \in Seq(S \cup {x})
  BY <1>1
<1>6. /\ log' \in Seq(S \cup {x}) /\ Len(log') = n + 1
      /\ \A i \in 1..n : log'[i] = log[i]
      /\ log'[n + 1] = x
  BY <1>2, <1>5
<1>7. \A i \in 1..(n + 1) : IsEntry(log'[i])
  BY <1>a, <1>3, <1>4, <1>6
<1>8. intact' => \A i \in 1..(n + 1) : GoodEntry(log'[i], i, log'[i - 1].hash)
  <2> SUFFICES ASSUME intact, NEW i \in 1..(n + 1) PROVE GoodEntry(log'[i], i, log'[i - 1].hash)
    BY Zenon, <1>2
  <2>1. CASE i = n + 1
    <3>1. n # 0 => log'[i - 1] = log[n]
      BY <1>4, <1>6, <2>1
    <3> QED BY <1>3, <1>4, <1>6, <2>1, <3>1 DEF GoodEntry
  <2>2. CASE i \in 1..n
    <3>1. GoodEntry(log[i], i, log[i - 1].hash) /\ log'[i] = log[i]
      BY Zenon, <1>b, <1>6, <2>2
    <3>2. i # 1 => log'[i - 1] = log[i - 1]
      BY <1>4, <1>6, <2>2
    <3> QED BY Zenon, <3>1, <3>2 DEF GoodEntry
  <2> QED BY <1>4, <2>1, <2>2
<1>9. ~intact' => \E i \in 1..(n + 1) : BadEntry(log'[i], i)
  BY <1>c, <1>2, <1>4, <1>6
<1> QED BY Zenon, <1>a, <1>2, <1>6, <1>7, <1>8, <1>9 DEF LogInv

LEMMA TamperKeeps ==
    ASSUME LogInv, NEW k \in 1..Len(log), NEW g, TamperEntry(k, g) PROVE LogInv'
<1>a. (\A i \in 1..Len(log) : IsEntry(log[i])) /\ intact \in BOOLEAN
  BY Zenon DEF LogInv
<1>b. intact => \A i \in 1..Len(log) : GoodEntry(log[i], i, log[i - 1].hash)
  BY Zenon DEF LogInv
<1>1. PICK S : log \in Seq(S)
  BY Zenon DEF LogInv
<1>2. PICK n, f, p, h : log[k] = [index |-> n, fields |-> f, prev |-> p, hash |-> h]
  BY Zenon, <1>a DEF IsEntry
<1>3. /\ log[k].index = n /\ log[k].fields = f /\ log[k].prev = p /\ log[k].hash = h
  BY <1>2
<1> DEFINE y == [index |-> n, fields |-> g, prev |-> p, hash |-> h]
<1>4. /\ log' = [log EXCEPT ![k] = [log[k] EXCEPT !.fields = g]] /\ intact
      /\ intact' = (TextOf[g] = TextOf[f])
  BY Zenon, <1>3 DEF TamperEntry
<1>5. [log[k] EXCEPT !.fields = g] = y
  BY <1>2
<1>6. IsEntry(y) /\ y.index = n /\ y.fields = g /\ y.prev = p /\ y.hash = h
  BY Zenon DEF IsEntry
<1>7. GoodEntry(log[k], k, log[k - 1].hash) /\ h = <<n, TextOf[f], p>>
  BY Zenon, <1>b, <1>3, <1>4 DEF GoodEntry, ComputeHash
<1>8. log' = [log EXCEPT ![k] = y]
  BY Zenon, <1>4, <1>5
<1> HIDE DEF y
<1>9. log \in Seq(S \cup {y})
  BY <1>1
<1>10. /\ log' \in Seq(S \cup {y}) /\ Len(log') = Len(log)
       /\ \A i \in 1..Len(log) : log'[i] = IF i = k THEN y ELSE log[i]
  BY <1>8, <1>9
<1>11. \A i \in 1..Len(log') : IsEntry(log'[i])
  BY Zenon, <1>a, <1>6, <1>10
<1>12. CASE TextOf[g] # TextOf[f]
  <2>1. BadEntry(y, k)
    BY <1>6, <1>7, <1>12 DEF BadEntry, ComputeHash
  <2>2. ~intact' /\ intact' \in BOOLEAN
    BY Zenon, <1>4, <1>12
  <2> QED BY Zenon, <2>1, <2>2, <1>10, <1>11 DEF LogInv
<1>13. CASE TextOf[g] = TextOf[f]
  <2>1. \A i \in 1..Len(log) : log'[i].hash = log[i].hash
    BY Zenon, <1>3, <1>6, <1>10
  <2>2. ASSUME NEW i \in 1..Len(log) PROVE GoodEntry(log'[i], i, log'[i - 1].hash)
    <3>1. GoodEntry(log[i], i, log[i - 1].hash)
      BY Zenon, <1>b, <1>4
    <3>2. i = 1 \/ i - 1 \in 1..Len(log)
      BY <1>1
    <3>3. i = 1 \/ log'[i - 1].hash = log[i - 1].hash
      BY Zenon, <2>1, <3>2
    <3>4. CASE i # k
      <4>1. log'[i] = log[i]
        BY Zenon, <1>10, <3>4
      <4> QED BY Zenon, <3>1, <3>3, <4>1 DEF GoodEntry
    <3>5. CASE i = k
      <4>1. log'[i] = y
        BY Zenon, <1>10, <3>5
      <4>2. n = i - 1 /\ p = IF i = 1 THEN GenesisHash ELSE log[i - 1].hash
        BY Zenon, <1>3, <3>1, <3>5 DEF GoodEntry
      <4>3. h = ComputeHash(n, g, p)
        BY Zenon, <1>7, <1>13 DEF ComputeHash
      <4> QED BY Zenon, <1>6, <3>3, <4>1, <4>2, <4>3 DEF GoodEntry
    <3> QED BY Zenon, <3>4, <3>5
  <2>3. intact' /\ intact' \in BOOLEAN
    BY Zenon, <1>4, <1>13
  <2> QED BY Zenon, <2>2, <2>3, <1>10, <1>11 DEF LogInv
<1> QED BY Zenon, <1>12, <1>13

LEMMA DeleteKeeps == ASSUME LogInv, NEW k \in 1..Len(log), DeleteEntry(k) PROVE LogInv'
<1>a. (\A i \in 1..Len(log) : IsEntry(log[i])) /\ intact \in BOOLEAN
  BY Zenon DEF LogInv
<1>b. intact => \A i \in 1..Len(log) : GoodEntry(log[i], i, log[i - 1].hash)
  BY Zenon DEF LogInv
<1>c. ~intact => \E i \in 1..Len(log) : BadEntry(log[i], i)
  BY Zenon DEF LogInv
<1>1. PICK S : log \in Seq(S)
  BY Zenon DEF LogInv
<1>2. PICK n \in Nat : n = Len(log)
  BY <1>1
<1> DEFINE s == SubSeq(log, 1, k - 1)
<1> DEFINE t == SubSeq(log, k + 1, n)
<1>3. log' = s \o t /\ intact /\ intact' = (k = n)
  BY Zenon, <1>2 DEF DeleteEntry
<1>5. s \in Seq(S) /\ Len(s) = k - 1 /\ \A i \in 1..(k - 1) : s[i] = log[i]
  <2>2. /\ s \in Seq(S) /\ Len(s) = IF 1 <= k - 1 THEN k - 1 - 1 + 1 ELSE 0
        /\ \A i \in 1..(k - 1 - 1 + 1) : s[i] = log[1 + i - 1]
    BY <1>1, <1>2
  <2> HIDE DEF s
  <2> QED BY <1>2, <2>2
<1>6. t \in Seq(S) /\ Len(t) = n - k /\ \A i \in 1..(n - k) : t[i] = log[k + i]
  <2>2. /\ t \in Seq(S) /\ Len(t) = IF k + 1 <= n THEN n - (k + 1) + 1 ELSE 0
        /\ \A i \in 1..(n - (k + 1) + 1) : t[i] = log[(k + 1) + i - 1]
    BY <1>1, <1>2
  <2> HIDE DEF t
  <2> QED BY <1>2, <2>2
<1> HIDE DEF s, t
<1>7. /\ log' \in Seq(S) /\ Len(log') = Len(s) + Len(t)
      /\ \A i \in 1..(Len(s) + Len(t)) : log'[i] = IF i <= Len(s) THEN s[i] ELSE t[i - Len(s)]
  BY ZenonT(60), <1>3, <1>5, <1>6, Joined
<1>8. /\ Len(log') = n - 1
      /\ \A i \in 1..(n - 1) : log'[i] = IF i < k THEN log[i] ELSE log[i + 1]
  <2>1. k \in 1..n
    BY Zenon, <1>2
  <2>2. Len(s) + Len(t) = n - 1
    BY <1>5, <1>6, <2>1
  <2> SUFFICES ASSUME NEW i \in 1..(n - 1)
               PROVE  log'[i] = IF i < k THEN log[i] ELSE log[i + 1]
    BY Zenon, <1>7, <2>2
  <2>3. log'[i] = IF i <= k - 1 THEN s[i] ELSE t[i - (k - 1)]
    BY Zenon, <1>5, <1>7, <2>2
  <2>4. CASE i < k
    BY <1>5, <2>1, <2>3, <2>4
  <2>5. CASE i >= k
    <3>1. i - (k - 1) \in 1..(n - k) /\ k + (i - (k - 1)) = i + 1
      BY <2>1, <2>5
    <3>2. t[i - (k - 1)] = log[i + 1]
      BY Zenon, <1>6, <3>1
    <3> QED BY <2>1, <2>3, <2>5, <3>2
  <2> QED BY <2>1, <2>4, <2>5
<1>9. \A i \in 1..Len(log') : IsEntry(log'[i])
  BY <1>a, <1>2, <1>8
<1>10. intact' => \A i \in 1..Len(log') : GoodEntry(log'[i], i, log'[i - 1].hash)
  <2> SUFFICES ASSUME k = n, NEW i \in 1..(n - 1) PROVE GoodEntry(log'[i], i, log'[i - 1].hash)
    BY Zenon, <1>3, <1>8
  <2>1. log'[i] = log[i] /\ (i # 1 => log'[i - 1] = log[i - 1])
    BY <1>2, <1>8
  <2>2. GoodEntry(log[i], i, log[i - 1].hash)
    BY <1>b, <1>2, <1>3
  <2> QED BY Zenon, <2>1, <2>2 DEF GoodEntry
<1>11. ~intact' => \E i \in 1..Len(log') : BadEntry(log'[i], i)
  <2> SUFFICES ASSUME k # n PROVE \E i \in 1..(n - 1) : BadEntry(log'[i], i)
    BY Zenon, <1>3, <1>8
  <2>1. k \in 1..(n - 1) /\ log'[k] = log[k + 1] /\ k + 1 \in 1..n
    BY <1>2, <1>8
  <2>2. log[k + 1].index = k
    <3>1. GoodEntry(log[k + 1], k + 1, log[(k + 1) - 1].hash)
      BY Zenon, <1>b, <1>2, <1>3, <2>1
    <3>2. log[k + 1].index = (k + 1) - 1
      BY Zenon, <3>1 DEF GoodEntry
    <3> QED BY <2>1, <3>2
  <2>3. BadEntry(log'[k], k)
    BY <2>1, <2>2 DEF BadEntry
  <2> QED BY Zenon, <2>1, <2>3
<1>12. intact' \in BOOLEAN
  BY Zenon, <1>3
<1> QED BY Zenon, <1>7, <1>9, <1>10, <1>11, <1>12 DEF LogInv

\* TamperEvident: for a log of any length, VerifyChain accepts what requests
\* appended and refuses it from the first change of an entry's text, or deletion of
\* an entry that is not the last, on.
THEOREM TamperSeen == AuditSpec => []TamperEvident
<1>1. AuditInit => LogInv
  <2> SUFFICES ASSUME AuditInit PROVE LogInv
    OBVIOUS
  <2>1. log \in Seq({}) /\ Len(log) = 0
    BY DEF AuditInit
  <2> QED BY <2>1 DEF AuditInit, LogInv
<1>2. LogInv /\ [AuditNext]_audit => LogInv'
  <2> SUFFICES ASSUME LogInv, [AuditNext]_audit PROVE LogInv'
    OBVIOUS
  <2>1. DOMAIN log = 1..Len(log)
    BY DEF LogInv
  <2>2. ASSUME NEW f \in Fields, ListSecrets(f) PROVE LogInv'
    BY Zenon, <2>2, AppendKeeps DEF ListSecrets
  <2>3. ASSUME NEW i \in 1..Len(log), DeleteEntry(i) \/ \E f \in Fields : TamperEntry(i, f) PROVE LogInv'
    BY Zenon, <2>3, TamperKeeps, DeleteKeeps
  <2>4. CASE UNCHANGED audit
    BY Zenon, <2>4 DEF audit, LogInv
  <2> QED BY Zenon, <2>1, <2>2, <2>3, <2>4 DEF AuditNext
<1> QED BY <1>1, <1>2, LogDetects, PTL DEF AuditSpec
=============================================================================
