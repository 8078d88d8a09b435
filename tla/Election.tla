------------------------------ MODULE Election ------------------------------
(***************************************************************************)
(* Leader election (internal/ha/election.go): one Elector per control      *)
(* plane node over a MemoryAdvisoryLock that grants leases.  Each elector  *)
(* is a campaign loop, and other goroutines may stop it, make it step down *)
(* or record a scheduling decision between any two of the loop's steps.    *)
(*                                                                         *)
(* Time is how many ticks ago a lease was renewed; ages are not told apart *)
(* beyond the lease's end.                                                 *)
(***************************************************************************)
EXTENDS Naturals

CONSTANTS
    Nodes, NoNode,
    TTL,         \* leaseTTL, in ticks
    MaxFaults    \* bound on partitions, heals, stops and step-downs

ASSUME ElectionAssumption == NoNode \notin Nodes /\ TTL \in Nat \ {0} /\ MaxFaults \in Nat

VARIABLES
    owner, age,    \* the lock store: currentOwner, time since lastRenew
    cut,           \* nodes partitioned from the store
    own,           \* time since each node last acquired or renewed (history)
    state,         \* Elector.state
    pc,            \* each campaign loop's position
    stopped,       \* nodes whose Stop has been called
    spc,           \* each Stop call's position
    fencer,        \* who is stepping down, while state is FENCED
    deciding,      \* nodes whose RecordDecision has passed its check
    faults

vars == <<owner, age, cut, own, state, pc, stopped, spc, fencer, deciding, faults>>
leaseVars == <<owner, age, own>>

Ages == 0..(TTL + 1)
Older(a) == IF a > TTL THEN a ELSE a + 1

TypeOK ==
    /\ owner \in Nodes \cup {NoNode} /\ age \in Ages
    /\ cut \subseteq Nodes /\ own \in [Nodes -> Ages]
    /\ state \in [Nodes -> {"STANDBY", "LEADER", "FENCED"}]
    /\ pc \in [Nodes -> {"wait", "renew", "failed", "fencing", "try", "acquired", "exit"}]
    /\ stopped \subseteq Nodes
    /\ spc \in [Nodes -> {"none", "check", "fence", "fencing", "release", "done"}]
    /\ fencer \in [Nodes -> {"none", "loop", "stop", "caller"}]
    /\ deciding \subseteq Nodes
    /\ faults \in 0..MaxFaults

Init ==
    /\ owner = NoNode /\ age = TTL + 1
    /\ cut = {} /\ own = [n \in Nodes |-> TTL + 1]
    /\ state = [n \in Nodes |-> "STANDBY"]
    /\ pc = [n \in Nodes |-> "wait"]
    /\ stopped = {} /\ spc = [n \in Nodes |-> "none"]
    /\ fencer = [n \in Nodes |-> "none"]
    /\ deciding = {}
    /\ faults = 0

Fault == faults < MaxFaults /\ faults' = faults + 1
Goto(n, p) == pc' = [pc EXCEPT ![n] = p]

-----------------------------------------------------------------------------
(* MemoryAdvisoryLock                                                       *)

Tick ==
    /\ age' = Older(age)
    /\ own' = [n \in Nodes |-> Older(own[n])]
    /\ UNCHANGED <<owner, cut, state, pc, stopped, spc, fencer, deciding, faults>>

Partition(n) ==
    /\ Fault
    /\ cut' = IF n \in cut THEN cut \ {n} ELSE cut \cup {n}
    /\ UNCHANGED <<leaseVars, state, pc, stopped, spc, fencer, deciding>>

Granted(n) ==
    /\ owner' = n /\ age' = 0
    /\ own' = [own EXCEPT ![n] = 0]

\* Mutant: a lease may be taken over on the tick it is still valid.
MayTake_Early(n) == owner \in {NoNode, n} \/ age >= TTL

\* Mutant: an owner that is gone keeps the lock.
MayTake_Free(n) == owner \in {NoNode, n}

\* TryAcquire: the lock is free, the node's own, or another's that has expired.
MayTake(n) == owner \in {NoNode, n} \/ age > TTL

\* RenewOrHold: as long as nobody took the lock over, however late it comes.
MayRenew(n) == owner = n

-----------------------------------------------------------------------------
(* stepDown: LEADER to FENCED by compare-and-swap, onDemoted, then STANDBY  *)

Fence(n, who) ==
    /\ state[n] = "LEADER"
    /\ state' = [state EXCEPT ![n] = "FENCED"]
    /\ fencer' = [fencer EXCEPT ![n] = who]

Fenced(n, who) ==
    /\ state[n] = "FENCED" /\ fencer[n] = who
    /\ state' = [state EXCEPT ![n] = "STANDBY"]
    /\ fencer' = [fencer EXCEPT ![n] = "none"]

-----------------------------------------------------------------------------
(* campaignLoop                                                             *)

\* The select sees stopCh closed.  It may see the ticker instead.
LoopExit(n) ==
    /\ pc[n] = "wait" /\ n \in stopped
    /\ Goto(n, "exit")
    /\ UNCHANGED <<leaseVars, cut, state, stopped, spc, fencer, deciding, faults>>

\* A tick: the loop looks at its own state.
LoopTick(n) ==
    /\ pc[n] = "wait"
    /\ Goto(n, IF state[n] = "LEADER" THEN "renew" ELSE "try")
    /\ UNCHANGED <<leaseVars, cut, state, stopped, spc, fencer, deciding, faults>>

\* Mutant: a renewal that fails is tried again on the next tick.
Renew_Lenient(n) ==
    /\ pc[n] = "renew"
    /\ IF n \notin cut /\ MayRenew(n) THEN Granted(n) ELSE UNCHANGED leaseVars
    /\ Goto(n, "wait")
    /\ UNCHANGED <<cut, state, stopped, spc, fencer, deciding, faults>>

Renew(n) ==
    /\ pc[n] = "renew"
    /\ IF n \notin cut /\ MayRenew(n)
         THEN Granted(n) /\ Goto(n, "wait")
         ELSE UNCHANGED leaseVars /\ Goto(n, "failed")
    /\ UNCHANGED <<cut, state, stopped, spc, fencer, deciding, faults>>

StepDownLoop(n) ==
    /\ pc[n] = "failed"
    /\ IF state[n] = "LEADER" THEN Fence(n, "loop") /\ Goto(n, "fencing")
                              ELSE UNCHANGED <<state, fencer>> /\ Goto(n, "wait")
    /\ UNCHANGED <<leaseVars, cut, stopped, spc, deciding, faults>>

SteppedDownLoop(n) ==
    /\ pc[n] = "fencing"
    /\ Fenced(n, "loop") /\ Goto(n, "wait")
    /\ UNCHANGED <<leaseVars, cut, stopped, spc, deciding, faults>>

TryAcquire(n) ==
    /\ pc[n] = "try"
    /\ IF n \notin cut /\ MayTake(n)
         THEN Granted(n) /\ Goto(n, "acquired")
         ELSE UNCHANGED leaseVars /\ Goto(n, "wait")
    /\ UNCHANGED <<cut, state, stopped, spc, fencer, deciding, faults>>

\* The compare-and-swap to LEADER fails while a step-down is under way.
Promote(n) ==
    /\ pc[n] = "acquired"
    /\ state' = [state EXCEPT ![n] = IF @ = "STANDBY" THEN "LEADER" ELSE @]
    /\ Goto(n, "wait")
    /\ UNCHANGED <<leaseVars, cut, stopped, spc, fencer, deciding, faults>>

Loop(n) ==
    \/ LoopTick(n) \/ Renew(n) \/ StepDownLoop(n) \/ SteppedDownLoop(n)
    \/ TryAcquire(n) \/ Promote(n)

-----------------------------------------------------------------------------
(* Stop, StepDown and RecordDecision, called by other goroutines            *)

Stop(n) ==
    /\ Fault /\ n \notin stopped
    /\ stopped' = stopped \cup {n}
    /\ spc' = [spc EXCEPT ![n] = "check"]
    /\ UNCHANGED <<leaseVars, cut, state, pc, fencer, deciding>>

\* Nothing is released unless the node leads just now.
StopCheck(n) ==
    /\ spc[n] = "check"
    /\ spc' = [spc EXCEPT ![n] = IF state[n] = "LEADER" THEN "fence" ELSE "done"]
    /\ UNCHANGED <<leaseVars, cut, state, pc, stopped, fencer, deciding, faults>>

StopFence(n) ==
    /\ spc[n] = "fence"
    /\ IF state[n] = "LEADER"
         THEN Fence(n, "stop") /\ spc' = [spc EXCEPT ![n] = "fencing"]
         ELSE UNCHANGED <<state, fencer>> /\ spc' = [spc EXCEPT ![n] = "release"]
    /\ UNCHANGED <<leaseVars, cut, pc, stopped, deciding, faults>>

StopFenced(n) ==
    /\ spc[n] = "fencing"
    /\ Fenced(n, "stop") /\ spc' = [spc EXCEPT ![n] = "release"]
    /\ UNCHANGED <<leaseVars, cut, pc, stopped, deciding, faults>>

\* Mutant: Release frees the lock whoever owns it.
Release_Any(n) ==
    /\ spc[n] = "release"
    /\ spc' = [spc EXCEPT ![n] = "done"]
    /\ owner' = NoNode
    /\ UNCHANGED <<age, own, cut, state, pc, stopped, fencer, deciding, faults>>

Release(n) ==
    /\ spc[n] = "release"
    /\ spc' = [spc EXCEPT ![n] = "done"]
    /\ owner' = IF owner = n THEN NoNode ELSE owner
    /\ UNCHANGED <<age, own, cut, state, pc, stopped, fencer, deciding, faults>>

\* StepDown keeps the lock: the loop may take it again on its next tick.
StepDown(n) ==
    /\ Fault
    /\ Fence(n, "caller")
    /\ UNCHANGED <<leaseVars, cut, pc, stopped, spc, deciding>>

SteppedDown(n) ==
    /\ Fenced(n, "caller")
    /\ UNCHANGED <<leaseVars, cut, pc, stopped, spc, deciding, faults>>

\* RecordDecision checks IsLeader, then takes the elector's mutex and appends.
CheckLeader(n) ==
    /\ state[n] = "LEADER" /\ n \notin deciding
    /\ deciding' = deciding \cup {n}
    /\ UNCHANGED <<leaseVars, cut, state, pc, stopped, spc, fencer, faults>>

RecordDecision(n) ==
    /\ n \in deciding
    /\ deciding' = deciding \ {n}
    /\ UNCHANGED <<leaseVars, cut, state, pc, stopped, spc, fencer, faults>>

StopSteps(n) == StopCheck(n) \/ StopFence(n) \/ StopFenced(n) \/ Release(n)

-----------------------------------------------------------------------------
Next ==
    \/ Tick
    \/ \E n \in Nodes :
         \/ Loop(n) \/ LoopExit(n) \/ StopSteps(n) \/ SteppedDown(n)
         \/ Partition(n) \/ Stop(n) \/ StepDown(n)
         \/ CheckLeader(n) \/ RecordDecision(n)

Spec == Init /\ [][Next]_vars

\* Time passes and goroutines run.  Go's select picks among ready cases at
\* random, so a loop that is stopped does not see its ticker for ever.
Fairness ==
    /\ WF_vars(Tick)
    /\ \A n \in Nodes : /\ WF_vars(Loop(n)) /\ SF_vars(LoopExit(n))
                        /\ WF_vars(StopSteps(n)) /\ WF_vars(SteppedDown(n))

FairSpec == Spec /\ Fairness

-----------------------------------------------------------------------------
(* Properties                                                               *)

Leads(n) == state[n] = "LEADER" /\ n \notin stopped

\* A running elector never loses the lock before its lease has run out: neither
\* another's TryAcquire takes it, nor the Release of a node that lost it.
LeaseKept == \A n \in Nodes \ stopped : own[n] <= TTL => owner = n

\* The nodes that lead and were granted the lock at most TTL ago.
ValidLeaders == {n \in Nodes : Leads(n) /\ own[n] <= TTL}

Abstract == INSTANCE Leadership WITH lead <- ValidLeaders

\* G-44, no split brain: leadership under a valid lease is exclusive and never
\* jumps from one running elector to another, whatever partitions, step-downs
\* and stops come between the steps of their loops.
ImplementsLeadership == Abstract!Spec

\* RecordDecision tests IsLeader before it takes the mutex: a decision recorded
\* late finds another leader only if one of the two leases has run out.
LateDecisionExpired ==
    [][\A n \in deciding \ stopped :
         n \notin deciding' /\ ValidLeaders \ {n} # {} => own[n] > TTL]_vars

\* A leader that lost the lock to another node notices: its next renewal fails
\* and it steps down, unless Stop has ended its loop.
LostLockFenced ==
    \A n \in Nodes : []<>(Leads(n) => owner = n)

\* G-43, failover: as long as some node runs and reaches the store, the system
\* does not stay without a leader, whatever state the others left the lock in.
LeaderEmerges ==
    []<>(Nodes \subseteq stopped \cup cut \/ \E n \in Nodes : Leads(n))

=============================================================================
