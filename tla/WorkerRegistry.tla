--------------------------- MODULE WorkerRegistry ---------------------------
(***************************************************************************)
(* The worker registry (internal/workers): a cache of workers in the       *)
(* control plane's memory and the rows of the workers table it is warmed   *)
(* from after a restart.  Every operation changes both under the           *)
(* registry's mutex, except a heartbeat, whose row is written after it.    *)
(*                                                                         *)
(* Time is the number of heartbeat intervals since a worker's last beat,   *)
(* not told apart beyond UnhealthyThreshold.  Schedulable always changes   *)
(* with State: it is TRUE when READY and FALSE when DRAINING.              *)
(***************************************************************************)
EXTENDS Naturals

CONSTANTS
    Workers,
    SuspectedThreshold, UnhealthyThreshold, ConsecutiveBeatsToHeal,
    MaxEvents    \* bound on requests and faults after a worker's registration

ASSUME RegistryAssumption ==
    /\ MaxEvents \in Nat
    /\ ConsecutiveBeatsToHeal \in Nat
    /\ SuspectedThreshold \in Nat /\ UnhealthyThreshold \in Nat

VARIABLES
    known, cache,         \* the registered workers and their records in memory
    beats, partitioned,   \* what has no column: ConsecutiveBeats, IsPartitioned
    stored, repo,         \* the workers table
    drained,              \* workers that the last request about them drained (history)
    unsaved,              \* workers whose last such request is not in the table (history)
    events

requests == <<drained, unsaved>>
table == <<stored, repo, requests>>
registry == <<known, cache, beats, partitioned, table>>

Ages == 0..UnhealthyThreshold
Healths == {"HEALTHY", "SUSPECTED", "UNHEALTHY", "UNREACHABLE"}
Worker == [state : {"READY", "DRAINING"}, health : Healths, age : Ages]

RegistryTypeOK ==
    /\ known \subseteq Workers /\ cache \in [Workers -> Worker]
    /\ beats \in [Workers -> 0..ConsecutiveBeatsToHeal] /\ partitioned \subseteq Workers
    /\ stored \subseteq Workers /\ repo \in [Workers -> Worker]
    /\ drained \subseteq Workers /\ unsaved \subseteq Workers
    /\ events \in 0..MaxEvents

New == [state |-> "READY", health |-> "HEALTHY", age |-> 0]

RegistryInit ==
    /\ known = {} /\ cache = [w \in Workers |-> New]
    /\ beats = [w \in Workers |-> 0] /\ partitioned = {}
    /\ stored = {} /\ repo = [w \in Workers |-> New]
    /\ drained = {} /\ unsaved = {}
    /\ events = 0

Spend(n) == events + n <= MaxEvents /\ events' = events + n
Cost(free) == IF free THEN 0 ELSE 1

-----------------------------------------------------------------------------
(* The workers table.  A failing write is logged and otherwise ignored.     *)

Upsert(w, c, ok) ==
    /\ repo' = IF ok THEN [repo EXCEPT ![w] = c] ELSE repo
    /\ stored' = IF ok THEN stored \cup {w} ELSE stored

\* SetDrain updates a row and finds none to update if registering never saved one.
SetDrain(w, state, ok) ==
    /\ repo' = IF ok /\ w \in stored THEN [repo EXCEPT ![w].state = state] ELSE repo
    /\ UNCHANGED stored

\* What an operator or the worker asked for last, and whether the table has it.
Requested(w, drain, written) ==
    /\ drained' = IF drain THEN drained \cup {w} ELSE drained \ {w}
    /\ unsaved' = IF written THEN unsaved \ {w} ELSE unsaved \cup {w}

-----------------------------------------------------------------------------
(* Health (health.go)                                                       *)

EvaluateHealthTransition(missed) ==
    IF missed >= UnhealthyThreshold THEN "UNHEALTHY"
    ELSE IF missed >= SuspectedThreshold THEN "SUSPECTED" ELSE "HEALTHY"

\* Beats beyond ConsecutiveBeatsToHeal are not told apart.
OneMore(n) == IF n < ConsecutiveBeatsToHeal THEN n + 1 ELSE n

\* Mutant: beats count only while the worker is healthy.
ApplyHeartbeatSuccess_Idle(w) ==
    /\ beats' = [beats EXCEPT ![w] = IF cache[w].health = "HEALTHY" THEN OneMore(@) ELSE @]
    /\ cache' = [cache EXCEPT ![w].age = 0]
    /\ UNCHANGED partitioned

ApplyHeartbeatSuccess(w) ==
    LET heals == cache[w].health # "HEALTHY" /\ OneMore(beats[w]) >= ConsecutiveBeatsToHeal
    IN  /\ beats' = [beats EXCEPT ![w] = OneMore(@)]
        /\ cache' = [cache EXCEPT ![w] =
             [state |-> @.state, health |-> IF heals THEN "HEALTHY" ELSE @.health, age |-> 0]]
        /\ partitioned' = IF heals THEN partitioned \ {w} ELSE partitioned

-----------------------------------------------------------------------------
(* Operations                                                               *)

\* A worker that registers again keeps its beats and its partition mark, and is
\* no longer draining.
Register(w, ok) ==
    /\ Spend(Cost(w \notin known) + Cost(ok))
    /\ known' = known \cup {w}
    /\ cache' = [cache EXCEPT ![w] = New]
    /\ Upsert(w, New, ok)
    /\ Requested(w, FALSE, ok)
    /\ UNCHANGED <<beats, partitioned>>

\* HeartbeatAt under the mutex.  Health changes are not written to the table.
HeartbeatAt(w) ==
    /\ IF w \in known THEN ApplyHeartbeatSuccess(w)
                      ELSE UNCHANGED <<cache, beats, partitioned>>
    /\ UNCHANGED <<known, table>>

\* The row of a heartbeat, after the mutex: its last_beat_at only.
UpdateHeartbeat(w, ok) ==
    /\ repo' = IF ok /\ w \in stored THEN [repo EXCEPT ![w].age = 0] ELSE repo
    /\ UNCHANGED <<known, cache, beats, partitioned, stored, requests>>

SetHealthWithReason(w, health, ok) ==
    /\ w \in known
    /\ cache' = [cache EXCEPT ![w].health = health]
    /\ beats' = [beats EXCEPT ![w] = IF health # "HEALTHY" THEN 0 ELSE @]
    /\ Upsert(w, [cache[w] EXCEPT !.health = health], ok)
    /\ unsaved' = IF ok THEN unsaved \ {w} ELSE unsaved
    /\ UNCHANGED <<known, partitioned, drained>>

\* A worker whose partition healed is suspected until its beats show otherwise.
SetPartitioned(w, isCut) ==
    /\ Spend(1) /\ w \in known
    /\ partitioned' = IF isCut THEN partitioned \cup {w} ELSE partitioned \ {w}
    /\ cache' = [cache EXCEPT ![w].health =
                   IF isCut THEN "UNREACHABLE"
                   ELSE IF @ = "UNREACHABLE" THEN "SUSPECTED" ELSE @]
    /\ beats' = IF isCut THEN [beats EXCEPT ![w] = 0] ELSE beats
    /\ UNCHANGED <<known, table>>

Drain(w, ok) ==
    /\ Spend(1 + Cost(ok)) /\ w \in known
    /\ cache' = [cache EXCEPT ![w].state = "DRAINING"]
    /\ SetDrain(w, "DRAINING", ok)
    /\ Requested(w, TRUE, ok /\ w \in stored)
    /\ UNCHANGED <<known, beats, partitioned>>

Undrain(w, ok) ==
    /\ Spend(1 + Cost(ok)) /\ w \in known
    /\ cache' = [cache EXCEPT ![w].state = "READY"]
    /\ SetDrain(w, "READY", ok)
    /\ Requested(w, FALSE, ok /\ w \in stored)
    /\ UNCHANGED <<known, beats, partitioned>>

\* Mutant: a worker found in the table is taken as one that registers.
NewRegistry_Ready ==
    /\ known' = stored
    /\ cache' = [w \in Workers |-> New]
    /\ beats' = [w \in Workers |-> 0] /\ partitioned' = {}
    /\ drained' = drained \ unsaved /\ unsaved' = {}
    /\ UNCHANGED <<stored, repo>>

\* A new process warms its cache from the table.
NewRegistry ==
    /\ known' = stored
    /\ cache' = [w \in Workers |-> IF w \in stored THEN repo[w] ELSE New]
    /\ beats' = [w \in Workers |-> 0] /\ partitioned' = {}
    /\ drained' = drained \ unsaved /\ unsaved' = {}
    /\ UNCHANGED <<stored, repo>>

\* The scheduler's filter, for runtime workers with room.
Feasible == {w \in known : cache[w].state = "READY" /\ cache[w].health # "UNHEALTHY"}

-----------------------------------------------------------------------------
(* Properties                                                               *)

\* G-07: a worker that was drained is chosen for nothing, whatever beats,
\* verdicts, partition marks and restarts come between, until it is undrained or
\* registers again, which makes it ready (registry.go:100).  A drain that could not
\* be written, by itself or with a later verdict, is lost with the process.
DrainSurvives == drained \cap Feasible = {}

=============================================================================
