--------------------------- MODULE Delivery_proofs --------------------------
(* Idempotency, resolved deployments and exact build loads, for any requests, *)
(* keys, projects and build workers; and restores to a point in time, for any *)
(* writers, records and tables.                                               *)
EXTENDS Delivery, Backup, FiniteSetTheorems, TLAPS

Early == {"idle", "arrived", "wait"}
Charged == {"execute", "building"}
Inside == {"handle", "queued", "build", "execute", "building", "push", "store", "recordImage", "resolve", "start"}
Returned == {"ok", "failed"}
Positions == Early \cup Inside \cup Returned \cup {"done"}
Statuses == {"none", "in flight", "RUNNING", "FAILED"}

HandlerTypes ==
    /\ pc \in [Reqs -> Positions]
    /\ key \in [Reqs -> Keys \cup {NoKey}] /\ source \in [Reqs -> Reqs]
    /\ entries \in [Keys -> Reqs \cup {NoKey}]
    /\ answer \in [Reqs -> Answers]
    /\ record \in [Reqs -> Statuses]

\* The entry of a key is the one request with it that goes past the entry; the
\* answers to the others are copies of its answer.
EntriesOK ==
    /\ \A k \in Keys : entries[k] \in Reqs => key[entries[k]] = k /\ pc[entries[k]] \notin Early
    /\ \A r \in Reqs : pc[r] \in {"arrived", "wait"} => key[r] \in Keys
    /\ \A r \in Reqs : pc[r] = "wait" => entries[key[r]] \in Reqs
    /\ \A r \in Reqs : pc[r] \in Inside \cup Returned /\ key[r] \in Keys => entries[key[r]] = r
    /\ \A r \in Reqs : record[r] # "none" /\ key[r] \in Keys => entries[key[r]] = r
    /\ \A r \in Reqs : answer[r] # None => pc[r] = "done"
    /\ \A r \in Reqs : answer[r] # None /\ key[r] \in Keys =>
         entries[key[r]] \in Reqs /\ answer[r] = answer[entries[key[r]]]

\* Nothing is on record before the record is created.
FlightOK ==
    /\ \A r \in Reqs : pc[r] \in Early \cup {"handle", "queued"} => record[r] = "none"
    /\ NoneLeftInFlight

HandlerInv == HandlerTypes /\ EntriesOK /\ FlightOK

-----------------------------------------------------------------------------
(* What the steps of a handler have in common                               *)

\* A step inside CreateAndDeploy, or its return.
Works(r) ==
    \E p \in Inside \cup Returned, v \in Statuses :
      /\ pc[r] \in Inside
      /\ pc' = [pc EXCEPT ![r] = p]
      /\ record' = [record EXCEPT ![r] = v]
      /\ p \in {"handle", "queued"} => v = "none"
      /\ r \notin cancelled /\ p \in Returned => v # "in flight"
      /\ UNCHANGED <<key, source, entries, answer, cancelled>>

\* The answer of a request that went past the entry, by its handler.
Replies(r) ==
    \E a \in Answers :
      /\ pc[r] \in Inside \cup Returned /\ a # None
      /\ pc[r] \in Inside => record[r] = "none"
      /\ answer' = [answer EXCEPT ![r] = a]
      /\ pc' = [pc EXCEPT ![r] = "done"]
      /\ UNCHANGED <<key, source, entries, record, cancelled>>

LEMMA FailWorks ==
    ASSUME HandlerInv, NEW r \in Reqs, pc[r] \in Inside \ {"handle", "queued"}, Fail(r),
           UNCHANGED <<key, source, entries, answer, cancelled>>
    PROVE  Works(r)
<1> DEFINE v == IF r \in cancelled THEN record[r] ELSE "FAILED"
<1>1. v \in Statuses /\ (r \notin cancelled => v # "in flight")
  BY Zenon DEF HandlerInv, HandlerTypes, Statuses
<1>2. pc' = [pc EXCEPT ![r] = "failed"] /\ record' = [record EXCEPT ![r] = v]
  BY Zenon DEF Fail, Return, Goto, UpdateStatus
<1> HIDE DEF v
<1>3. "failed" \in Inside \cup Returned /\ "failed" \notin {"handle", "queued"}
  BY Zenon DEF Returned
<1> QED BY Zenon, <1>1, <1>2, <1>3 DEF Works

\* A move to a later position that leaves the record as it is.
LEMMA MoveWorks ==
    ASSUME HandlerInv, NEW r \in Reqs, NEW p \in Inside, pc[r] \in Inside, Goto(r, p),
           p \in {"handle", "queued"} => pc[r] = "handle",
           UNCHANGED <<record, key, source, entries, answer, cancelled>>
    PROVE  Works(r)
<1>1. record' = [record EXCEPT ![r] = record[r]] /\ record[r] \in Statuses
  BY Zenon DEF HandlerInv, HandlerTypes
<1>2. p \in {"handle", "queued"} => record[r] = "none"
  BY Zenon DEF HandlerInv, FlightOK
<1>3. p \notin Returned
  BY Zenon DEF Inside, Returned
<1> QED BY Zenon, <1>1, <1>2, <1>3 DEF Works, Goto

LEMMA StepWorks ==
    ASSUME HandlerInv, NEW r \in Reqs,
           \/ Standby(r) \/ Lock(r) \/ Create(r) \/ BuildFromSource(r) \/ Execute(r) \/ Built(r)
           \/ Push(r) \/ Store(r) \/ GetDigest(r) \/ UpdateImage(r) \/ Start(r)
    PROVE  Works(r)
<1>0. record[r] \in Statuses /\ record = [record EXCEPT ![r] = record[r]]
  BY Zenon DEF HandlerInv, HandlerTypes
<1>1. CASE Standby(r)
  <2>1. pc[r] = "handle" /\ record[r] = "none"
    BY Zenon, <1>1 DEF Standby, HandlerInv, FlightOK
  <2> QED BY Zenon, <1>0, <1>1, <2>1 DEF Standby, Goto, request, Works, Inside, Returned, Statuses
<1>2. CASE Lock(r)
  BY Zenon, <1>2, MoveWorks DEF Lock, request, Inside
<1>3. CASE Create(r)
  <2>1. pc[r] = "queued" /\ record[r] = "none" /\ UNCHANGED <<key, source, entries, answer, cancelled>>
    BY Zenon, <1>3 DEF Create, request, HandlerInv, FlightOK
  <2>2. CASE r \in cancelled
    BY Zenon, <1>0, <1>3, <2>1, <2>2 DEF Create, Return, Goto, Works, Inside, Returned
  <2>3. CASE r \notin cancelled
    <3>1. PICK p \in {"build", "resolve"} : Goto(r, p)
      BY Zenon, <1>3, <2>3 DEF Create
    <3>2. record' = [record EXCEPT ![r] = "in flight"]
      BY Zenon, <1>3, <2>3 DEF Create
    <3> QED BY Zenon, <2>1, <3>1, <3>2 DEF Goto, Works, Inside, Returned, Statuses
  <2> QED BY Zenon, <2>2, <2>3
<1>4. CASE BuildFromSource(r)
  <2>1. pc[r] = "build" /\ UNCHANGED <<key, source, entries, answer, cancelled>>
    BY Zenon, <1>4 DEF BuildFromSource, request
  <2>2. CASE Fail(r)
    BY Zenon, <2>1, <2>2, FailWorks DEF Inside
  <2>3. CASE Goto(r, "execute") /\ UNCHANGED <<record, lock>>
    BY Zenon, <2>1, <2>3, MoveWorks DEF Inside
  <2> QED BY Zenon, <1>4, <2>2, <2>3 DEF BuildFromSource
<1>5. CASE Execute(r)
  <2>1. pc[r] = "execute" /\ UNCHANGED <<key, source, entries, answer, cancelled>>
    BY Zenon, <1>5 DEF Execute, request
  <2>2. CASE Fail(r)
    BY Zenon, <2>1, <2>2, FailWorks DEF Inside
  <2>3. CASE Goto(r, "building") /\ UNCHANGED record
    BY Zenon, <2>1, <2>3, MoveWorks DEF Inside
  <2> QED BY Zenon, <1>5, <2>2, <2>3 DEF Execute
<1>6. CASE Built(r)
  <2>1. pc[r] = "building" /\ UNCHANGED <<key, source, entries, answer, cancelled>>
    BY Zenon, <1>6 DEF Built, request
  <2>2. CASE Fail(r)
    BY Zenon, <2>1, <2>2, FailWorks DEF Inside
  <2>3. CASE Goto(r, "push") /\ UNCHANGED record
    BY Zenon, <2>1, <2>3, MoveWorks DEF Inside
  <2> QED BY Zenon, <1>6, <2>2, <2>3 DEF Built
<1>7. CASE Push(r)
  <2>1. pc[r] = "push" /\ UNCHANGED <<key, source, entries, answer, cancelled>>
    BY Zenon, <1>7 DEF Push, request
  <2>2. CASE Fail(r)
    BY Zenon, <2>1, <2>2, FailWorks DEF Inside
  <2>3. CASE Goto(r, "store") /\ UNCHANGED record
    BY Zenon, <2>1, <2>3, MoveWorks DEF Inside
  <2> QED BY Zenon, <1>7, <2>2, <2>3 DEF Push
<1>8. CASE Store(r)
  BY Zenon, <1>8, MoveWorks DEF Store, request, Inside
<1>9. CASE GetDigest(r)
  <2>1. pc[r] = "resolve" /\ UNCHANGED <<key, source, entries, answer, cancelled>>
    BY Zenon, <1>9 DEF GetDigest, request
  <2>2. CASE Fail(r)
    BY Zenon, <2>1, <2>2, FailWorks DEF Inside
  <2>3. CASE UNCHANGED record /\ \E p \in {"recordImage", "start"} : Goto(r, p)
    BY Zenon, <2>1, <2>3, MoveWorks DEF Inside
  <2> QED BY Zenon, <1>9, <2>2, <2>3 DEF GetDigest
<1>10. CASE UpdateImage(r)
  BY Zenon, <1>10, MoveWorks DEF UpdateImage, request, Inside
<1>11. CASE Start(r)
  <2>1. pc[r] = "start" /\ UNCHANGED <<key, source, entries, answer, cancelled>>
    BY Zenon, <1>11 DEF Start, request
  <2>2. CASE Fail(r)
    BY Zenon, <2>1, <2>2, FailWorks DEF Inside
  <2>3. CASE Return(r, "ok") /\ UpdateStatus(r, "RUNNING")
    <3> DEFINE v == IF r \in cancelled THEN record[r] ELSE "RUNNING"
    <3>1. v \in Statuses /\ (r \notin cancelled => v # "in flight")
      BY Zenon, <1>0 DEF Statuses
    <3>2. pc' = [pc EXCEPT ![r] = "ok"] /\ record' = [record EXCEPT ![r] = v]
      BY Zenon, <2>3 DEF Return, Goto, UpdateStatus
    <3> HIDE DEF v
    <3> QED BY Zenon, <2>1, <3>1, <3>2 DEF Works, Inside, Returned
  <2> QED BY Zenon, <1>11, <2>2, <2>3 DEF Start
<1> QED BY Zenon, <1>1, <1>2, <1>3, <1>4, <1>5, <1>6, <1>7, <1>8, <1>9, <1>10, <1>11

-----------------------------------------------------------------------------
(* Each kind of step keeps the invariant                                    *)

LEMMA Sorts ==
    /\ \A x \in Inside \cup Returned : x \notin Early /\ x # "done" /\ x \in Positions
    /\ "done" \notin Early /\ "done" \in Positions
    /\ \A x \in Early : x \notin Returned
BY Zenon DEF Early, Inside, Returned, Positions

LEMMA WorksKeeps == ASSUME HandlerInv, NEW r \in Reqs, Works(r) PROVE HandlerInv'
<1> USE DEF HandlerInv
<1>1. PICK p \in Inside \cup Returned, v \in Statuses :
        /\ pc[r] \in Inside
        /\ pc' = [pc EXCEPT ![r] = p]
        /\ record' = [record EXCEPT ![r] = v]
        /\ p \in {"handle", "queued"} => v = "none"
        /\ r \notin cancelled /\ p \in Returned => v # "in flight"
        /\ UNCHANGED <<key, source, entries, answer, cancelled>>
  BY Zenon DEF Works
<1>2. HandlerTypes'
  BY Zenon, <1>1, Sorts DEF HandlerTypes
<1>3. /\ pc'[r] = p /\ record'[r] = v
      /\ \A q \in Reqs \ {r} : pc'[q] = pc[q] /\ record'[q] = record[q]
  BY Zenon, <1>1 DEF HandlerTypes
<1>4. EntriesOK'
  <2>1. key[r] \in Keys => entries[key[r]] = r
    BY Zenon, <1>1 DEF EntriesOK
  <2>2. answer[r] = None
    BY ZenonT(60), <1>1, Sorts DEF EntriesOK
  <2>3. ASSUME NEW k \in Keys, entries'[k] \in Reqs
        PROVE key'[entries'[k]] = k /\ pc'[entries'[k]] \notin Early
    <3>1. entries'[k] = entries[k] /\ key[entries[k]] = k /\ pc[entries[k]] \notin Early
      BY Zenon, <1>1, <2>3 DEF EntriesOK
    <3>2. CASE entries[k] = r
      BY ZenonT(60), <1>1, <1>3, <3>1, <3>2, Sorts
    <3>3. CASE entries[k] # r
      BY Zenon, <1>1, <1>3, <2>3, <3>1, <3>3
    <3> QED BY Zenon, <3>2, <3>3
  <2>4. ASSUME NEW q \in Reqs
        PROVE /\ pc'[q] \in {"arrived", "wait"} => key[q] \in Keys
              /\ pc'[q] = "wait" => entries[key[q]] \in Reqs
              /\ pc'[q] \in Inside \cup Returned /\ key[q] \in Keys => entries[key[q]] = q
              /\ record'[q] # "none" /\ key[q] \in Keys => entries[key[q]] = q
              /\ answer[q] # None => pc'[q] = "done"
    <3>1. CASE q = r
      BY Zenon, <1>1, <1>3, <2>1, <2>2, <3>1, Sorts DEF Early
    <3>2. CASE q # r
      BY <1>3, <3>2 DEF EntriesOK
    <3> QED BY Zenon, <3>1, <3>2
  <2>5. \A q \in Reqs : answer'[q] # None /\ key'[q] \in Keys =>
          entries'[key'[q]] \in Reqs /\ answer'[q] = answer'[entries'[key'[q]]]
    BY Zenon, <1>1 DEF EntriesOK
  <2> QED BY Zenon, <1>1, <2>3, <2>4, <2>5 DEF EntriesOK
<1>5. FlightOK'
  <2>1. ASSUME NEW q \in Reqs
        PROVE /\ pc'[q] \in Early \cup {"handle", "queued"} => record'[q] = "none"
              /\ q \notin cancelled /\ pc'[q] \in {"ok", "failed", "done"} => record'[q] # "in flight"
    <3>1. CASE q = r
      BY Zenon, <1>1, <1>3, <3>1, Sorts DEF Returned
    <3>2. CASE q # r
      BY Zenon, <1>3, <3>2 DEF FlightOK, NoneLeftInFlight
    <3> QED BY Zenon, <3>1, <3>2
  <2> QED BY Zenon, <1>1, <2>1 DEF FlightOK, NoneLeftInFlight
<1> QED BY Zenon, <1>2, <1>4, <1>5

LEMMA RepliesKeeps == ASSUME HandlerInv, NEW r \in Reqs, Replies(r) PROVE HandlerInv'
<1> USE DEF HandlerInv
<1>1. PICK a \in Answers :
        /\ pc[r] \in Inside \cup Returned /\ a # None
        /\ pc[r] \in Inside => record[r] = "none"
        /\ answer' = [answer EXCEPT ![r] = a]
        /\ pc' = [pc EXCEPT ![r] = "done"]
        /\ UNCHANGED <<key, source, entries, record, cancelled>>
  BY Zenon DEF Replies
<1>2. HandlerTypes'
  BY Zenon, <1>1, Sorts DEF HandlerTypes
<1>3. /\ pc'[r] = "done" /\ answer'[r] = a
      /\ \A q \in Reqs \ {r} : pc'[q] = pc[q] /\ answer'[q] = answer[q]
  BY Zenon, <1>1 DEF HandlerTypes
<1>4. EntriesOK'
  <2>1. key[r] \in Keys => entries[key[r]] = r
    BY Zenon, <1>1 DEF EntriesOK
  <2>2. answer[r] = None
    BY Zenon, <1>1, Sorts DEF EntriesOK
  <2>3. ASSUME NEW k \in Keys, entries'[k] \in Reqs
        PROVE key'[entries'[k]] = k /\ pc'[entries'[k]] \notin Early
    <3>1. entries'[k] = entries[k] /\ key[entries[k]] = k /\ pc[entries[k]] \notin Early
      BY Zenon, <1>1, <2>3 DEF EntriesOK
    <3>2. CASE entries[k] = r
      BY Zenon, <1>1, <1>3, <3>1, <3>2, Sorts
    <3>3. CASE entries[k] # r
      BY <1>1, <1>3, <2>3, <3>1, <3>3
    <3> QED BY Zenon, <3>2, <3>3
  <2>4. ASSUME NEW q \in Reqs
        PROVE /\ pc'[q] \in {"arrived", "wait"} => key[q] \in Keys
              /\ pc'[q] = "wait" => entries[key[q]] \in Reqs
              /\ pc'[q] \in Inside \cup Returned /\ key[q] \in Keys => entries[key[q]] = q
              /\ answer'[q] # None => pc'[q] = "done"
    <3>1. CASE q = r
      BY Zenon, <1>3, <2>1, <3>1, Sorts DEF Early
    <3>2. CASE q # r
      BY Zenon, <1>3, <3>2 DEF EntriesOK
    <3> QED BY Zenon, <3>1, <3>2
  <2>5. ASSUME NEW q \in Reqs, answer'[q] # None, key[q] \in Keys
        PROVE entries[key[q]] \in Reqs /\ answer'[q] = answer'[entries[key[q]]]
    <3>1. CASE q = r
      BY Zenon, <2>1, <2>5, <3>1
    <3>2. CASE q # r
      <4>1. answer[q] # None /\ entries[key[q]] \in Reqs /\ answer[q] = answer[entries[key[q]]]
        BY Zenon, <1>3, <2>5, <3>2 DEF EntriesOK
      <4>2. entries[key[q]] # r
        BY Zenon, <2>2, <4>1
      <4> QED BY Zenon, <1>3, <3>2, <4>1, <4>2
    <3> QED BY Zenon, <3>1, <3>2
  <2>6. \A q \in Reqs : record'[q] # "none" /\ key'[q] \in Keys => entries'[key'[q]] = q
    BY Zenon, <1>1 DEF EntriesOK
  <2> QED BY <1>1, <2>3, <2>4, <2>5, <2>6 DEF EntriesOK
<1>5. FlightOK'
  <2>1. r \notin cancelled => record[r] # "in flight"
    BY Zenon, <1>1 DEF FlightOK, NoneLeftInFlight, Returned
  <2>2. ASSUME NEW q \in Reqs
        PROVE /\ pc'[q] \in Early \cup {"handle", "queued"} => record[q] = "none"
              /\ q \notin cancelled /\ pc'[q] \in {"ok", "failed", "done"} => record[q] # "in flight"
    <3>1. CASE q = r
      BY Zenon, <1>3, <2>1, <3>1, Sorts
    <3>2. CASE q # r
      BY Zenon, <1>3, <3>2 DEF FlightOK, NoneLeftInFlight
    <3> QED BY Zenon, <3>1, <3>2
  <2> QED BY Zenon, <1>1, <2>2 DEF FlightOK, NoneLeftInFlight
<1> QED BY Zenon, <1>2, <1>4, <1>5

LEMMA ArriveKeeps ==
    ASSUME HandlerInv, NEW r \in Reqs, NEW k \in Keys \cup {NoKey}, NEW s \in Reqs, Arrive(r, k, s)
    PROVE  HandlerInv'
<1> USE DEF HandlerInv
<1> DEFINE p == IF k = NoKey THEN "handle" ELSE "arrived"
<1>1. /\ pc[r] = "idle" /\ key' = [key EXCEPT ![r] = k] /\ source' = [source EXCEPT ![r] = s]
      /\ pc' = [pc EXCEPT ![r] = p] /\ UNCHANGED <<entries, answer, record, cancelled>>
  BY Zenon DEF Arrive, Goto
<1>2. p \in Positions /\ ((p = "handle" /\ k \notin Keys) \/ (p = "arrived" /\ k \in Keys))
  <2>1. "handle" \in Positions /\ "arrived" \in Positions
    BY Zenon DEF Positions, Early, Inside
  <2> QED BY Zenon, <2>1, DeliveryAssumption
<1> HIDE DEF p
<1>3. HandlerTypes'
  BY Zenon, <1>1, <1>2 DEF HandlerTypes
<1>4. /\ pc'[r] = p /\ key'[r] = k
      /\ \A q \in Reqs \ {r} : pc'[q] = pc[q] /\ key'[q] = key[q]
  BY Zenon, <1>1 DEF HandlerTypes
<1>5. record[r] = "none" /\ answer[r] = None /\ pc[r] \in Early
  BY Zenon, <1>1 DEF FlightOK, EntriesOK, Early
<1>6. EntriesOK'
  <2>1. ASSUME NEW j \in Keys, entries[j] \in Reqs
        PROVE key'[entries[j]] = j /\ pc'[entries[j]] \notin Early
    BY Zenon, <1>4, <1>5, <2>1 DEF EntriesOK
  <2>2. ASSUME NEW q \in Reqs
        PROVE /\ pc'[q] \in {"arrived", "wait"} => key'[q] \in Keys
              /\ pc'[q] = "wait" => entries[key'[q]] \in Reqs
              /\ pc'[q] \in Inside \cup Returned /\ key'[q] \in Keys => entries[key'[q]] = q
              /\ record[q] # "none" /\ key'[q] \in Keys => entries[key'[q]] = q
              /\ answer[q] # None => pc'[q] = "done"
              /\ answer[q] # None /\ key'[q] \in Keys =>
                   entries[key'[q]] \in Reqs /\ answer[q] = answer[entries[key'[q]]]
    <3>1. CASE q = r
      BY Zenon, <1>2, <1>4, <1>5, <3>1 DEF Inside, Returned
    <3>2. CASE q # r
      BY <1>4, <3>2 DEF EntriesOK
    <3> QED BY Zenon, <3>1, <3>2
  <2> QED BY <1>1, <2>1, <2>2 DEF EntriesOK
<1>7. FlightOK'
  BY Zenon, <1>1, <1>2, <1>4, <1>5 DEF FlightOK, NoneLeftInFlight
<1> QED BY Zenon, <1>3, <1>6, <1>7

LEMMA GetOrReserveKeeps == ASSUME HandlerInv, NEW r \in Reqs, GetOrReserve(r) PROVE HandlerInv'
<1> USE DEF HandlerInv
<1>1. pc[r] = "arrived" /\ key[r] \in Keys /\ UNCHANGED <<key, source, answer, record, cancelled>>
  BY Zenon DEF GetOrReserve, request, EntriesOK
<1>2. pc[r] \in Early /\ record[r] = "none" /\ answer[r] = None
  BY Zenon, <1>1 DEF FlightOK, EntriesOK, Early
<1>3. CASE entries[key[r]] = NoKey
  <2>1. entries' = [entries EXCEPT ![key[r]] = r] /\ pc' = [pc EXCEPT ![r] = "handle"]
    BY Zenon, <1>3 DEF GetOrReserve, Goto
  <2>2. HandlerTypes'
    BY Zenon, <1>1, <2>1 DEF HandlerTypes, Positions, Inside
  <2>3. /\ pc'[r] = "handle" /\ \A q \in Reqs \ {r} : pc'[q] = pc[q]
        /\ entries'[key[r]] = r /\ \A k \in Keys \ {key[r]} : entries'[k] = entries[k]
    BY Zenon, <1>1, <2>1 DEF HandlerTypes
  <2>4. ASSUME NEW q \in Reqs, key[q] = key[r]
        PROVE /\ pc[q] # "wait" /\ pc[q] \notin Inside \cup Returned
              /\ record[q] = "none" /\ answer[q] = None
    BY <1>1, <1>3, <2>4, DeliveryAssumption DEF EntriesOK
  <2>5. EntriesOK'
    <3>1. ASSUME NEW k \in Keys, entries'[k] \in Reqs
          PROVE key[entries'[k]] = k /\ pc'[entries'[k]] \notin Early
      <4>1. CASE k = key[r]
        BY Zenon, <2>3, <4>1 DEF Early
      <4>2. CASE k # key[r]
        BY <1>2, <2>3, <3>1, <4>2 DEF EntriesOK
      <4> QED BY Zenon, <4>1, <4>2
    <3>2. ASSUME NEW q \in Reqs
          PROVE /\ pc'[q] \in {"arrived", "wait"} => key[q] \in Keys
                /\ pc'[q] = "wait" => entries'[key[q]] \in Reqs
                /\ pc'[q] \in Inside \cup Returned /\ key[q] \in Keys => entries'[key[q]] = q
                /\ record[q] # "none" /\ key[q] \in Keys => entries'[key[q]] = q
                /\ answer[q] # None => pc'[q] = "done"
                /\ answer[q] # None /\ key[q] \in Keys =>
                     entries'[key[q]] \in Reqs /\ answer[q] = answer[entries'[key[q]]]
      <4>1. CASE q = r
        BY Zenon, <1>1, <1>2, <2>3, <4>1
      <4>2. CASE q # r /\ key[q] = key[r]
        BY Zenon, <1>1, <2>3, <2>4, <4>2
      <4>3. CASE q # r /\ key[q] # key[r]
        <5>1. pc'[q] = pc[q] /\ (key[q] \in Keys => entries'[key[q]] = entries[key[q]])
          BY Zenon, <2>3, <4>3
        <5>2. pc[q] = "wait" => key[q] \in Keys
          BY Zenon DEF EntriesOK
        <5> QED BY Zenon, <5>1, <5>2 DEF EntriesOK
      <4> QED BY Zenon, <4>1, <4>2, <4>3
    <3> QED BY Zenon, <1>1, <3>1, <3>2 DEF EntriesOK
  <2>6. FlightOK'
    BY Zenon, <1>1, <1>2, <2>3 DEF FlightOK, NoneLeftInFlight
  <2> QED BY Zenon, <2>2, <2>5, <2>6
<1>4. CASE entries[key[r]] # NoKey
  <2>1. UNCHANGED entries /\ pc' = [pc EXCEPT ![r] = "wait"] /\ entries[key[r]] \in Reqs
    BY Zenon, <1>1, <1>4 DEF GetOrReserve, Goto, HandlerTypes
  <2>2. HandlerTypes'
    BY Zenon, <1>1, <2>1 DEF HandlerTypes, Positions, Early
  <2>3. pc'[r] = "wait" /\ \A q \in Reqs \ {r} : pc'[q] = pc[q]
    BY Zenon, <2>1 DEF HandlerTypes
  <2>4. EntriesOK'
    <3>1. \A k \in Keys : entries[k] \in Reqs => key[entries[k]] = k /\ pc'[entries[k]] \notin Early
      BY Zenon, <1>2, <2>3 DEF EntriesOK
    <3>2. ASSUME NEW q \in Reqs
          PROVE /\ pc'[q] \in {"arrived", "wait"} => key[q] \in Keys
                /\ pc'[q] = "wait" => entries[key[q]] \in Reqs
                /\ pc'[q] \in Inside \cup Returned /\ key[q] \in Keys => entries[key[q]] = q
                /\ answer[q] # None => pc'[q] = "done"
      <4>1. CASE q = r
        BY Zenon, <1>1, <1>2, <2>1, <2>3, <4>1 DEF Inside, Returned
      <4>2. CASE q # r
        BY Zenon, <2>3, <4>2 DEF EntriesOK
      <4> QED BY Zenon, <4>1, <4>2
    <3> QED BY Zenon, <1>1, <2>1, <3>1, <3>2 DEF EntriesOK
  <2>5. FlightOK'
    BY Zenon, <1>1, <1>2, <2>3 DEF FlightOK, NoneLeftInFlight
  <2> QED BY <2>2, <2>4, <2>5
<1> QED BY Zenon, <1>3, <1>4

LEMMA WaitKeeps == ASSUME HandlerInv, NEW r \in Reqs, WaitAndGet(r) PROVE HandlerInv'
<1> USE DEF HandlerInv
<1> DEFINE first == entries[key[r]]
<1>1. /\ pc[r] = "wait" /\ answer[first] # None
      /\ answer' = [answer EXCEPT ![r] = answer[first]] /\ pc' = [pc EXCEPT ![r] = "done"]
      /\ UNCHANGED <<key, source, entries, record, cancelled>>
  BY Zenon DEF WaitAndGet, Goto, request
<1>2. pc[r] \in Early /\ record[r] = "none" /\ answer[r] = None /\ key[r] \in Keys /\ first \in Reqs
  BY Zenon, <1>1 DEF FlightOK, EntriesOK, Early
<1>3. \A k \in Keys : entries[k] # r
  BY <1>2 DEF EntriesOK
<1>4. HandlerTypes'
  BY Zenon, <1>1, <1>2, Sorts DEF HandlerTypes
<1>5. /\ pc'[r] = "done" /\ answer'[r] = answer[first]
      /\ \A q \in Reqs \ {r} : pc'[q] = pc[q] /\ answer'[q] = answer[q]
  BY Zenon, <1>1 DEF HandlerTypes
<1>6. EntriesOK'
  <2>1. \A k \in Keys : entries[k] \in Reqs => key[entries[k]] = k /\ pc'[entries[k]] \notin Early
    BY Zenon, <1>3, <1>5 DEF EntriesOK
  <2>2. ASSUME NEW q \in Reqs
        PROVE /\ pc'[q] \in {"arrived", "wait"} => key[q] \in Keys
              /\ pc'[q] = "wait" => entries[key[q]] \in Reqs
              /\ pc'[q] \in Inside \cup Returned /\ key[q] \in Keys => entries[key[q]] = q
              /\ answer'[q] # None => pc'[q] = "done"
              /\ answer'[q] # None /\ key[q] \in Keys =>
                   entries[key[q]] \in Reqs /\ answer'[q] = answer'[entries[key[q]]]
    <3>1. CASE q = r
      BY Zenon, <1>2, <1>3, <1>5, <3>1, Sorts
    <3>2. CASE q # r
      BY <1>3, <1>5, <3>2 DEF EntriesOK
    <3> QED BY Zenon, <3>1, <3>2
  <2> QED BY <1>1, <2>1, <2>2 DEF EntriesOK
<1>7. FlightOK'
  BY Zenon, <1>1, <1>2, <1>5, Sorts DEF FlightOK, NoneLeftInFlight
<1> QED BY <1>4, <1>6, <1>7

LEMMA InitHandlers == DeliveryInit => HandlerInv
<1> SUFFICES ASSUME DeliveryInit PROVE HandlerInv
  BY Zenon
<1>1. HandlerTypes
  BY DEF DeliveryInit, HandlerTypes, Positions, Early, Statuses, Answers
<1>2. EntriesOK
  BY Zenon, DeliveryAssumption DEF DeliveryInit, EntriesOK, Inside, Returned
<1>3. FlightOK
  BY Zenon DEF DeliveryInit, FlightOK, NoneLeftInFlight
<1> QED BY Zenon, <1>1, <1>2, <1>3 DEF HandlerInv

\* Upsets leave the handlers where they are; a disconnect marks one.
LEMMA UpsetKeeps ==
    ASSUME HandlerInv, cancelled \subseteq cancelled',
           UNCHANGED <<pc, key, source, entries, answer, record>>
    PROVE  HandlerInv'
<1>1. HandlerTypes' /\ EntriesOK'
  BY Zenon DEF HandlerInv, HandlerTypes, EntriesOK
<1>2. FlightOK'
  BY Zenon DEF HandlerInv, FlightOK, NoneLeftInFlight
<1> QED BY Zenon, <1>1, <1>2 DEF HandlerInv

LEMMA RejectReplies == ASSUME HandlerInv, NEW r \in Reqs, Reject(r) \/ Respond(r) PROVE Replies(r)
<1>1. ASSUME NEW code \in {400, 202, 502}
      PROVE [code |-> code, by |-> r] \in Answers /\ [code |-> code, by |-> r] # None
  BY DEF Answers, None
<1>2. CASE Reject(r)
  <2>1. record[r] = "none" /\ pc[r] \in Inside
    BY Zenon, <1>2 DEF Reject, HandlerInv, FlightOK, Inside
  <2> DEFINE a == [code |-> 400, by |-> r]
  <2>2. answer' = [answer EXCEPT ![r] = a] /\ pc' = [pc EXCEPT ![r] = "done"]
        /\ UNCHANGED <<key, source, entries, record, cancelled>>
    BY Zenon, <1>2 DEF Reject, Complete, Goto, request
  <2>3. a \in Answers /\ a # None
    BY <1>1
  <2> HIDE DEF a
  <2> QED BY ZenonT(60), <2>1, <2>2, <2>3 DEF Replies
<1>3. CASE Respond(r)
  <2> DEFINE code == IF pc[r] = "ok" THEN 202 ELSE 502
  <2>1. code \in {400, 202, 502} /\ pc[r] \in Returned /\ pc[r] \notin Inside
    BY <1>3 DEF Respond, Returned, Inside
  <2> DEFINE a == [code |-> code, by |-> r]
  <2>2. answer' = [answer EXCEPT ![r] = a] /\ pc' = [pc EXCEPT ![r] = "done"]
        /\ UNCHANGED <<key, source, entries, record, cancelled>>
    BY Zenon, <1>3 DEF Respond, Complete, Goto, request
  <2> HIDE DEF code
  <2>3. a \in Answers /\ a # None
    BY <1>1, <2>1
  <2> HIDE DEF a
  <2> QED BY ZenonT(60), <2>1, <2>2, <2>3 DEF Replies
<1> QED BY Zenon, <1>2, <1>3

LEMMA HandlersInductive == DeliverySpec => []HandlerInv
<1>1. ASSUME HandlerInv, [DeliveryNext]_delivery PROVE HandlerInv'
  <2>1. CASE UNCHANGED delivery
    BY Zenon, <1>1, <2>1, UpsetKeeps DEF delivery
  <2>2. ASSUME NEW call \in Calls,
               IF call[2] = NoKey THEN HandleProjectWebhook(call[1], call[3])
                                  ELSE Arrive(call[1], call[2], call[3])
        PROVE HandlerInv'
    <3>1. call[1] \in Reqs /\ call[2] \in Keys \cup {NoKey} /\ call[3] \in Reqs
      BY Zenon, DeliveryAssumption
    <3>2. Arrive(call[1], call[2], call[3])
      BY Zenon, <2>2 DEF HandleProjectWebhook
    <3> QED BY Zenon, <1>1, <3>1, <3>2, ArriveKeeps
  <2>3. ASSUME NEW r \in Reqs, Step(r) PROVE HandlerInv'
    BY Zenon, <1>1, <2>3, GetOrReserveKeeps, WaitKeeps, RejectReplies, RepliesKeeps, StepWorks, WorksKeeps DEF Step
  <2>4. ASSUME NEW r \in Reqs, Reject(r) \/ Standby(r) PROVE HandlerInv'
    BY Zenon, <1>1, <2>4, RejectReplies, RepliesKeeps, StepWorks, WorksKeeps
  <2>5. ASSUME NEW r \in Reqs, Disconnect(r) PROVE HandlerInv'
    BY Zenon, <1>1, <2>5, UpsetKeeps DEF Disconnect, handlers, request
  <2>6. ASSUME NEW w \in BuildWorkers, UpsetBuilder(w) \/ DrainBuilder(w) PROVE HandlerInv'
    BY Zenon, <1>1, <2>6, UpsetKeeps DEF UpsetBuilder, DrainBuilder, handlers, request
  <2>7. CASE UpsetRegistry
    BY Zenon, <1>1, <2>7, UpsetKeeps DEF UpsetRegistry, handlers, request
  <2> QED BY Zenon, <1>1, <2>1, <2>2, <2>3, <2>4, <2>5, <2>6, <2>7 DEF DeliveryNext
<1> QED BY InitHandlers, <1>1, PTL DEF DeliverySpec

\* OncePerKey: of the requests with one key one deploys, and its answer is
\* everyone's.
THEOREM DeploysOnce == DeliverySpec => []OncePerKey
<1>1. HandlerInv => OncePerKey
  BY DEF HandlerInv, HandlerTypes, EntriesOK, OncePerKey
<1> QED BY HandlersInductive, <1>1, PTL

\* NoneLeftInFlight: every way out of CreateAndDeploy resolves the deployment.
THEOREM AllResolved == DeliverySpec => []NoneLeftInFlight
<1>1. HandlerInv => NoneLeftInFlight
  BY Zenon DEF HandlerInv, FlightOK
<1> QED BY HandlersInductive, <1>1, PTL

-----------------------------------------------------------------------------
(* Build loads                                                              *)

BuildsOn(w) == {r \in Reqs : pc[r] \in {"execute", "building"} /\ site[r] = w}

LoadInv ==
    /\ load \in [BuildWorkers -> Nat]
    /\ site \in [Reqs -> BuildWorkers \cup {NoBuilder}]
    /\ \A r \in Reqs : pc[r] \in Charged => site[r] \in BuildWorkers
    /\ LoadExact

\* Steps that begin and end no build.
LEMMA LoadSame ==
    ASSUME LoadInv, UNCHANGED <<load, site>>, \A r \in Reqs : pc'[r] \in Charged <=> pc[r] \in Charged
    PROVE  LoadInv'
<1>1. ASSUME NEW w \in BuildWorkers PROVE BuildsOn(w)' = BuildsOn(w)
  BY Zenon DEF BuildsOn, Charged
<1>2. LoadExact'
  BY Zenon, <1>1 DEF LoadInv, LoadExact, BuildsOn
<1> QED BY Zenon, <1>2 DEF LoadInv, Charged

LEMMA MoveSame ==
    ASSUME HandlerInv, LoadInv, NEW r \in Reqs, NEW p, pc' = [pc EXCEPT ![r] = p],
           pc[r] \in Charged <=> p \in Charged, UNCHANGED builds
    PROVE  LoadInv'
<1>1. \A q \in Reqs : pc'[q] \in Charged <=> pc[q] \in Charged
  BY Zenon DEF HandlerInv, HandlerTypes
<1> QED BY Zenon, <1>1, LoadSame DEF builds

LEMMA BuildsFinite ==
    ASSUME NEW w PROVE IsFiniteSet(BuildsOn(w)) /\ Cardinality(BuildsOn(w)) \in Nat
<1>1. IsFiniteSet(Reqs) /\ BuildsOn(w) \subseteq Reqs
  BY Zenon, BuildsAssumption DEF BuildsOn
<1> QED BY Zenon, <1>1, FS_Subset, FS_CardinalityType

\* Selecting a worker charges it for a build it did not have.
LEMMA SelectKeeps ==
    ASSUME HandlerInv, LoadInv, NEW r \in Reqs, pc[r] = "build", SelectWorker(r), Goto(r, "execute")
    PROVE  LoadInv'
<1>1. PICK w \in BuildWorkers : /\ load' = [load EXCEPT ![w] = load[w] + 1] /\ load[w] < Capacity
                                /\ site' = [site EXCEPT ![r] = w]
  BY Zenon DEF SelectWorker, Rank, FeasibleBuilders, UpdateWorkload
<1>2. /\ pc'[r] = "execute" /\ site'[r] = w /\ load'[w] = load[w] + 1 /\ load[w] \in Nat
      /\ \A q \in Reqs \ {r} : pc'[q] = pc[q] /\ site'[q] = site[q]
      /\ \A v \in BuildWorkers \ {w} : load'[v] = load[v]
      /\ load' \in [BuildWorkers -> Nat] /\ site' \in [Reqs -> BuildWorkers \cup {NoBuilder}]
  BY <1>1 DEF Goto, HandlerInv, HandlerTypes, LoadInv
<1>3. ASSUME NEW q \in Reqs, pc'[q] \in Charged PROVE site'[q] \in BuildWorkers
  BY <1>2, <1>3 DEF LoadInv
<1>4. BuildsOn(w)' = BuildsOn(w) \cup {r} /\ r \notin BuildsOn(w)
  BY <1>2 DEF BuildsOn
<1>5. Cardinality(BuildsOn(w)') = Cardinality(BuildsOn(w)) + 1
  BY Zenon, <1>4, BuildsFinite, FS_AddElement
<1>6. \A v \in BuildWorkers \ {w} : BuildsOn(v)' = BuildsOn(v)
  BY Zenon, <1>2 DEF BuildsOn
<1>7. ASSUME NEW v \in BuildWorkers
      PROVE load[v] = Cardinality(BuildsOn(v)) /\ load[v] <= Capacity /\ Capacity \in Nat
  BY Zenon, BuildsAssumption DEF LoadInv, LoadExact, BuildsOn
<1>8. ASSUME NEW v \in BuildWorkers PROVE load'[v] = Cardinality(BuildsOn(v)') /\ load'[v] <= Capacity
  <2>1. CASE v = w
    BY <1>1, <1>2, <1>5, <1>7, <2>1
  <2>2. CASE v # w
    BY Zenon, <1>2, <1>6, <1>7, <2>2
  <2> QED BY Zenon, <2>1, <2>2
<1>9. LoadExact'
  BY Zenon, <1>8 DEF LoadExact, BuildsOn
<1> QED BY Zenon, <1>2, <1>3, <1>9 DEF LoadInv

\* The deferred decrement gives back exactly what was charged.
LEMMA ReleaseKeeps ==
    ASSUME HandlerInv, LoadInv, NEW r \in Reqs, pc[r] \in Charged, ReleaseWorker(r),
           NEW p, p \notin Charged, Goto(r, p)
    PROVE  LoadInv'
<1>0. PICK w \in BuildWorkers : w = site[r]
  BY Zenon DEF LoadInv
<1>1. /\ load' = [load EXCEPT ![w] = IF load[w] = 0 THEN 0 ELSE load[w] - 1]
      /\ site' = [site EXCEPT ![r] = NoBuilder]
  BY Zenon, <1>0 DEF ReleaseWorker, UpdateWorkload
<1>2. r \in BuildsOn(w)
  BY Zenon, <1>0 DEF BuildsOn, Charged
<1>3. ASSUME NEW v \in BuildWorkers
      PROVE load[v] = Cardinality(BuildsOn(v)) /\ load[v] <= Capacity /\ Capacity \in Nat /\ load[v] \in Nat
  <2>1. load[v] = Cardinality(BuildsOn(v)) /\ load[v] <= Capacity
    BY Zenon DEF LoadInv, LoadExact, BuildsOn
  <2>2. load[v] \in Nat /\ Capacity \in Nat
    BY Zenon, BuildsAssumption DEF LoadInv
  <2> QED BY Zenon, <2>1, <2>2
<1>4. Cardinality(BuildsOn(w) \ {r}) = Cardinality(BuildsOn(w)) - 1
  BY Zenon, <1>2, BuildsFinite, FS_RemoveElement
<1>5. load[w] # 0
  <2>1. Cardinality(BuildsOn(w)) # 0
    <3>1. IsFiniteSet(BuildsOn(w)) /\ BuildsOn(w) # {}
      BY Zenon, <1>2, BuildsFinite
    <3> QED BY <3>1, FS_EmptySet, Zenon
  <2> QED BY Zenon, <1>0, <1>3, <2>1
<1>6. /\ pc'[r] = p /\ site'[r] = NoBuilder /\ load'[w] = load[w] - 1
      /\ \A q \in Reqs \ {r} : pc'[q] = pc[q] /\ site'[q] = site[q]
      /\ \A v \in BuildWorkers \ {w} : load'[v] = load[v]
      /\ load' \in [BuildWorkers -> Nat] /\ site' \in [Reqs -> BuildWorkers \cup {NoBuilder}]
  BY <1>0, <1>1, <1>5 DEF Goto, HandlerInv, HandlerTypes, LoadInv
<1>7. BuildsOn(w)' = BuildsOn(w) \ {r}
  BY Zenon, <1>6 DEF BuildsOn, Charged
<1>8. \A v \in BuildWorkers \ {w} : BuildsOn(v)' = BuildsOn(v)
  BY ZenonT(60), <1>0, <1>6, BuildsAssumption DEF BuildsOn, Charged
<1>9. ASSUME NEW v \in BuildWorkers PROVE load'[v] = Cardinality(BuildsOn(v)') /\ load'[v] <= Capacity
  <2>1. CASE v = w
    BY <1>0, <1>3, <1>4, <1>6, <1>7, <2>1
  <2>2. CASE v # w
    BY <1>3, <1>6, <1>8, <2>2
  <2> QED BY Zenon, <2>1, <2>2
<1>10. LoadExact'
  BY Zenon, <1>9 DEF LoadExact, BuildsOn
<1>11. \A q \in Reqs : pc'[q] \in Charged => site'[q] \in BuildWorkers
  BY Zenon, <1>6 DEF LoadInv
<1> QED BY Zenon, <1>6, <1>10, <1>11 DEF LoadInv

LEMMA LoadStep == ASSUME HandlerInv, LoadInv, [DeliveryNext]_delivery PROVE LoadInv'
<1>1. CASE UNCHANGED <<pc, load, site>>
  BY Zenon, <1>1, LoadSame
<1>2. ASSUME NEW r \in Reqs, BuildFromSource(r) PROVE LoadInv'
  <2>1. CASE SelectWorker(r) /\ Goto(r, "execute")
    BY Zenon, <1>2, <2>1, SelectKeeps DEF BuildFromSource
  <2>2. CASE Fail(r) /\ UNCHANGED builds
    BY Zenon, <1>2, <2>2, MoveSame DEF BuildFromSource, Fail, Return, Goto, Charged
  <2> QED BY Zenon, <1>2, <2>1, <2>2 DEF BuildFromSource
<1>3. ASSUME NEW r \in Reqs, Execute(r) PROVE LoadInv'
  <2>1. CASE Goto(r, "building") /\ UNCHANGED builds
    BY Zenon, <1>3, <2>1, MoveSame DEF Execute, Goto, Charged
  <2>2. CASE Fail(r) /\ ReleaseWorker(r)
    BY Zenon, <1>3, <2>2, ReleaseKeeps DEF Execute, Fail, Return, Charged
  <2> QED BY Zenon, <1>3, <2>1, <2>2 DEF Execute
<1>4. ASSUME NEW r \in Reqs, Built(r) PROVE LoadInv'
  <2>1. ReleaseWorker(r) /\ pc[r] \in Charged
    BY Zenon, <1>4 DEF Built, Charged
  <2>2. CASE Goto(r, "push")
    BY Zenon, <2>1, <2>2, ReleaseKeeps DEF Charged
  <2>3. CASE Fail(r)
    BY Zenon, <2>1, <2>3, ReleaseKeeps DEF Fail, Return, Charged
  <2> QED BY Zenon, <1>4, <2>2, <2>3 DEF Built
<1>5. ASSUME NEW r \in Reqs, UNCHANGED builds, pc[r] \notin Charged,
             \E p \in Positions \ Charged : Goto(r, p)
      PROVE LoadInv'
  BY Zenon, <1>5, MoveSame DEF Goto
<1>6. ASSUME NEW p \in Early \cup (Inside \ Charged) \cup Returned \cup {"done"}
      PROVE p \in Positions \ Charged
  BY Zenon DEF Positions, Charged, Early, Inside, Returned
<1>7. ASSUME NEW r \in Reqs,
             \/ GetOrReserve(r) \/ WaitAndGet(r) \/ Respond(r) \/ Reject(r) \/ Standby(r) \/ Lock(r) \/ Create(r)
      PROVE LoadInv'
  <2>1. UNCHANGED builds /\ pc[r] \notin Charged
    BY ZenonT(60), <1>7 DEF GetOrReserve, WaitAndGet, Respond, Reject, Standby, Lock, Create, Charged
  <2>2. \/ Goto(r, "handle") \/ Goto(r, "wait") \/ Goto(r, "done") \/ Goto(r, "failed") \/ Goto(r, "queued")
        \/ Goto(r, "build") \/ Goto(r, "resolve")
    BY Zenon, <1>7 DEF GetOrReserve, WaitAndGet, Respond, Reject, Standby, Lock, Create, Return
  <2> QED BY Zenon, <1>5, <2>1, <2>2 DEF Positions, Charged, Early, Inside, Returned
<1>8. ASSUME NEW r \in Reqs, Push(r) \/ Store(r) \/ GetDigest(r) \/ UpdateImage(r) \/ Start(r)
      PROVE LoadInv'
  <2>1. UNCHANGED builds /\ pc[r] \notin Charged
    BY ZenonT(60), <1>8 DEF Push, Store, GetDigest, UpdateImage, Start, Charged
  <2>2. \/ Goto(r, "store") \/ Goto(r, "recordImage") \/ Goto(r, "start") \/ Goto(r, "ok") \/ Goto(r, "failed")
    BY Zenon, <1>8 DEF Push, Store, GetDigest, UpdateImage, Start, Fail, Return
  <2> QED BY <1>5, <2>1, <2>2 DEF Positions, Charged, Early, Inside, Returned
<1>9. ASSUME NEW r \in Reqs, Disconnect(r) PROVE LoadInv'
  BY Zenon, <1>1, <1>9 DEF Disconnect, handlers, builds
<1>10. ASSUME NEW r \in Reqs, NEW k, NEW s, Arrive(r, k, s) PROVE LoadInv'
  <2>1. UNCHANGED builds /\ pc[r] \notin Charged /\ (Goto(r, "handle") \/ Goto(r, "arrived"))
    BY Zenon, <1>10 DEF Arrive, Charged
  <2> QED BY Zenon, <1>5, <2>1 DEF Positions, Charged, Early, Inside
<1>11. ASSUME NEW w \in BuildWorkers, UpsetBuilder(w) \/ DrainBuilder(w) PROVE LoadInv'
  BY Zenon, <1>1, <1>11 DEF UpsetBuilder, DrainBuilder, Kill, UnregisterWorker, DrainKilled, handlers
<1>12. CASE UpsetRegistry
  BY Zenon, <1>1, <1>12 DEF UpsetRegistry, handlers, builds
<1>13. CASE UNCHANGED delivery
  BY Zenon, <1>1, <1>13 DEF delivery, builds
<1>14. ASSUME NEW call \in Calls PROVE call[1] \in Reqs
  BY Zenon, DeliveryAssumption
<1> QED BY <1>2, <1>3, <1>4, <1>7, <1>8, <1>9, <1>10, <1>11, <1>12, <1>13, <1>14
        DEF DeliveryNext, HandleProjectWebhook, Step

\* LoadExact: builds that fail, are killed, find no client or are cancelled give
\* back what they were charged, once.
THEOREM LoadsExact == DeliverySpec => []LoadExact
<1>1. DeliveryInit => LoadInv
  <2> SUFFICES ASSUME DeliveryInit PROVE LoadInv
    OBVIOUS
  <2>1. \A w \in BuildWorkers : BuildsOn(w) = {}
    BY Zenon DEF DeliveryInit, BuildsOn
  <2>2. LoadExact
    BY <2>1, FS_EmptySet, BuildsAssumption DEF DeliveryInit, BuildsInit, LoadExact, BuildsOn
  <2> QED BY Zenon, <2>2 DEF DeliveryInit, BuildsInit, LoadInv, Charged
<1>2. LoadInv => LoadExact
  BY Zenon DEF LoadInv
<1> QED BY HandlersInductive, LoadStep, <1>1, <1>2, PTL DEF DeliverySpec

-----------------------------------------------------------------------------
(* Backup and restore                                                       *)

BackupTypes ==
    /\ repo \in [Records -> RecordWriters \cup {Absent}]
    /\ data \in [Records -> RecordWriters \cup {Absent}]
    /\ currentLSN \in Nat /\ clock \in Nat /\ archived \in Nat /\ writes \in Nat
    /\ baseLSN \in Nat /\ target \in Nat
    /\ lsn \in [RecordWriters -> Nat] /\ stamp \in [RecordWriters -> Nat]
    /\ walLog \in [RecordWriters -> Nat] /\ order \in [RecordWriters -> Nat]
    /\ step \in 0..7 /\ held \subseteq RecordWriters

\* Records are written before they are recorded, and recorded before they are
\* archived; what is drawn only grows.
Recorded ==
    \A w \in RecordWriters :
      /\ lsn[w] <= currentLSN /\ walLog[w] <= archived /\ order[w] <= writes
      /\ lsn[w] # 0 => order[w] # 0
      /\ stamp[w] # 0 => lsn[w] # 0
      /\ InArchive(w) => stamp[w] # 0

\* The writes of a record that did not overlap are archived in their order.
Serial ==
    \A v, w \in RecordWriters :
      RecordOf[v] = RecordOf[w] /\ RecordOf[w] \notin overlapped /\ order[v] # 0 /\ order[v] < order[w] =>
        InArchive(v) /\ (InArchive(w) => walLog[v] < walLog[w])

\* Where a backup stands, and what the repositories and its tables hold.
Phases == (taken \/ recovered => step = 0) /\ (recovered => taken)
Applied(r) == {w \in WritersOf(r) : order[w] # 0}
Stored == ~recovered => \A r \in Records : IsLast(repo[r], Applied(r))
Copied ==
    /\ \A w \in held : order[w] # 0
    /\ \A r \in Records : TableOf[r] \in read => IsLast(data[r], WritersOf(r) \cap held)

\* What came before a write the backup holds has drawn its LSN before the base.
Covered ==
    taken => \A v, w \in RecordWriters :
      RecordOf[v] = RecordOf[w] /\ RecordOf[w] \notin overlapped /\ order[v] # 0 /\ order[v] < order[w]
      /\ w \in held => lsn[v] <= baseLSN

BackupInv == BackupTypes /\ Recorded /\ Serial /\ Phases /\ Stored /\ Copied /\ Covered /\ PointInTime

-----------------------------------------------------------------------------

\* A set of natural numbers that is not empty has a least element ...
LEMMA LeastExists ==
    ASSUME NEW T \in SUBSET Nat, T # {}
    PROVE  \E x \in T : \A y \in T : x <= y
<1> DEFINE R == StrictSubsetOrdering(Nat)
<1> DEFINE S == {0..n : n \in T}
<1>1. IsWellFoundedOn(R, FiniteSubsetsOf(Nat))
  BY Zenon, FS_StrictSubsetOrderingWellFounded
<1>2. S # {}
  BY Zenon
<1>3. S \subseteq FiniteSubsetsOf(Nat)
  <2> SUFFICES ASSUME NEW n \in T PROVE 0..n \in FiniteSubsetsOf(Nat)
    BY Zenon
  <2>1. 0 \in Int /\ n \in Int /\ 0..n \in SUBSET Nat
    OBVIOUS
  <2>2. IsFiniteSet(0..n)
    BY Zenon, <2>1, FS_Interval
  <2> QED BY Zenon, <2>1, <2>2 DEF FiniteSubsetsOf
<1> HIDE DEF S
<1>4. PICK s \in S : \A t \in S : ~ (<<t, s>> \in R)
  BY Zenon, <1>1, <1>2, <1>3, WFMin
<1>5. PICK x \in T : s = 0..x
  BY Zenon, <1>4 DEF S
<1>6. ASSUME NEW y \in T, y < x PROVE FALSE
  <2>1. 0..y \in SUBSET Nat /\ 0..x \in SUBSET Nat /\ 0..y \subseteq 0..x /\ 0..y # 0..x
    BY <1>6
  <2>2. <<0..y, 0..x>> \in R
    BY Zenon, <2>1 DEF StrictSubsetOrdering
  <2>3. 0..y \in S
    BY Zenon DEF S
  <2> QED BY Zenon, <1>4, <1>5, <2>2, <2>3
<1>7. \A y \in T : x <= y
  BY <1>6
<1> QED BY Zenon, <1>7

\* ... and so some of the mutations replayed arrived first, and some last.
LEMMA EndsExist ==
    ASSUME NEW S, NEW f \in [S -> Nat], NEW b \in Nat, \A w \in S : f[w] <= b,
           NEW T \in SUBSET S, T # {}
    PROVE  /\ \E x \in T : \A w \in T : f[w] <= f[x]
           /\ \E x \in T : \A w \in T : f[x] <= f[w]
<1>1. \E x \in T : \A w \in T : f[w] <= f[x]
  <2> DEFINE D == {b - f[w] : w \in T}
  <2>0. \A w \in T : b - f[w] \in Nat
    OBVIOUS
  <2>1. D \in SUBSET Nat /\ D # {}
    BY Zenon, <2>0
  <2>2. PICK d \in D : \A y \in D : d <= y
    BY Zenon, <2>1, LeastExists
  <2>3. PICK x \in T : d = b - f[x]
    BY Zenon, <2>2
  <2>4. \A w \in T : b - f[x] <= b - f[w]
    BY Zenon, <2>2, <2>3
  <2>5. ASSUME NEW w \in T PROVE f[w] <= f[x]
    BY <2>4, <2>5
  <2> QED BY Zenon, <2>5
<1>2. \E x \in T : \A w \in T : f[x] <= f[w]
  <2> DEFINE D == {f[w] : w \in T}
  <2>1. D \in SUBSET Nat /\ D # {}
    BY Zenon
  <2>2. PICK d \in D : \A y \in D : d <= y
    BY Zenon, <2>1, LeastExists
  <2> QED BY Zenon, <2>2
<1> QED BY Zenon, <1>1, <1>2

LEMMA Orders == DOMAIN SnapshotOrder = 1..6 /\ Len(SnapshotOrder) = 6
BY DEF SnapshotOrder

LEMMA InitBackup == BackupInit => BackupInv
<1> SUFFICES ASSUME BackupInit PROVE BackupInv
  BY Zenon
<1>1. BackupTypes
  BY DEF BackupInit, BackupTypes, NoRows, NoTimes
<1>2. Recorded
  <2>1. \A w \in RecordWriters : lsn[w] = 0 /\ walLog[w] = 0 /\ order[w] = 0 /\ stamp[w] = 0
    BY Zenon DEF BackupInit, NoTimes
  <2>2. currentLSN = 0 /\ archived = 0 /\ writes = 0 /\ 0 <= 0
    BY DEF BackupInit
  <2> QED BY Zenon, <2>1, <2>2 DEF Recorded, InArchive
<1>3. \A w \in RecordWriters : ~(order[w] # 0)
  BY Zenon DEF BackupInit, NoTimes
<1>4. Serial /\ Covered
  BY Zenon, <1>3 DEF Serial, Covered
<1>5. Stored
  <2> SUFFICES ASSUME NEW r \in Records PROVE IsLast(repo[r], Applied(r))
    BY Zenon DEF Stored
  <2>1. Applied(r) = {}
    BY Zenon, <1>3 DEF Applied, WritersOf
  <2> QED BY Zenon, <2>1 DEF IsLast, BackupInit, NoRows
<1>6. Phases /\ Copied /\ PointInTime
  BY Zenon DEF BackupInit, Phases, Copied, PointInTime
<1> QED BY Zenon, <1>1, <1>2, <1>4, <1>5, <1>6 DEF BackupInv

\* Writes that have not changed place are the last of the same ones.
LEMMA LastKept ==
    ASSUME NEW row, NEW ws, \A w \in ws : order'[w] = order[w], IsLast(row, ws)
    PROVE  IsLast(row, ws)'
BY Zenon DEF IsLast

\* Steps that neither write nor read a table leave both copies as they are.
LEMMA CopiesStay ==
    ASSUME Stored, Copied, UNCHANGED <<repo, data, read, recovered, order, held>>
    PROVE  Stored' /\ Copied'
<1>1. ASSUME NEW row, NEW ws, IsLast(row, ws) PROVE IsLast(row, ws)'
  BY Zenon, <1>1, LastKept
<1>2. ASSUME NEW r \in Records, IsLast(repo[r], Applied(r)) PROVE IsLast(repo[r], Applied(r))'
  <2>1. PICK row, ws : row = repo[r] /\ ws = Applied(r)
    BY Zenon
  <2>2. IsLast(row, ws)' /\ repo'[r] = row /\ Applied(r)' = ws
    BY Zenon, <1>1, <1>2, <2>1 DEF Applied, WritersOf
  <2> QED BY Zenon, <2>2 DEF IsLast
<1>3. ASSUME NEW r \in Records, IsLast(data[r], WritersOf(r) \cap held)
      PROVE  IsLast(data[r], WritersOf(r) \cap held)'
  <2>1. PICK row, ws : row = data[r] /\ ws = WritersOf(r) \cap held
    BY Zenon
  <2>2. IsLast(row, ws)' /\ data'[r] = row /\ WritersOf(r) \cap held' = ws
    BY ZenonT(60), <1>1, <1>3, <2>1
  <2> QED BY Zenon, <2>2 DEF IsLast, WritersOf
<1> QED BY Zenon, <1>2, <1>3 DEF Stored, Copied

LEMMA ApplyKeeps ==
    ASSUME BackupInv, NEW u \in RecordWriters, Apply(u) PROVE BackupInv'
<1> USE DEF BackupInv
<1>1. /\ order[u] = 0 /\ ~recovered /\ ~recovered'
      /\ repo' = [repo EXCEPT ![RecordOf[u]] = u]
      /\ writes' = writes + 1 /\ order' = [order EXCEPT ![u] = writes + 1]
      /\ overlapped \subseteq overlapped'
      /\ (\E v \in WritersOf(RecordOf[u]) : order[v] # 0 /\ ~InArchive(v)) => RecordOf[u] \in overlapped'
      /\ UNCHANGED <<currentLSN, lsn, clock, stamp, archived, walLog, step, read, data, baseLSN,
                     taken, recovered, target, held>>
  BY Zenon DEF Apply, wal, base, restore
<1>2. /\ writes \in Nat /\ order \in [RecordWriters -> Nat] /\ u \notin held
      /\ \A w \in RecordWriters : order[w] <= writes
  BY Zenon, <1>1 DEF BackupTypes, Recorded, Copied
<1>3. /\ order' \in [RecordWriters -> Nat] /\ order'[u] = writes + 1 /\ order'[u] # 0
      /\ \A w \in RecordWriters : w # u => order'[w] = order[w]
      /\ \A w \in RecordWriters : order'[w] <= writes + 1
      /\ \A w \in RecordWriters : ~(writes + 1 < order'[w])
      /\ writes + 1 \in Nat
  BY <1>1, <1>2
<1>4. BackupTypes'
  BY Zenon, <1>1, <1>3, BackupAssumption DEF BackupTypes
<1>5. Recorded'
  BY Zenon, <1>1, <1>3 DEF Recorded, InArchive
<1>6. Serial'
  <2> SUFFICES ASSUME NEW v \in RecordWriters, NEW w \in RecordWriters,
                      RecordOf[v] = RecordOf[w], RecordOf[w] \notin overlapped',
                      order'[v] # 0, order'[v] < order'[w]
               PROVE  InArchive(v) /\ (InArchive(w) => walLog[v] < walLog[w])
    BY Zenon, <1>1 DEF Serial, InArchive
  <2>1. v # u
    BY Zenon, <1>3
  <2>2. CASE w = u
    <3>1. ~InArchive(u)
      BY Zenon, <1>1 DEF Recorded
    <3>2. InArchive(v)
      BY Zenon, <1>1, <1>3, <2>1, <2>2 DEF WritersOf
    <3> QED BY Zenon, <2>2, <3>1, <3>2
  <2>3. CASE w # u
    BY Zenon, <1>1, <1>3, <2>1, <2>3 DEF Serial
  <2> QED BY Zenon, <2>2, <2>3
<1>7. Stored'
  <2> SUFFICES ASSUME NEW r \in Records PROVE IsLast(repo[r], Applied(r))'
    BY Zenon DEF Stored
  <2>1. CASE r = RecordOf[u]
    <3>1. repo'[r] = u /\ u \in Applied(r)'
      BY Zenon, <1>1, <1>3, <2>1 DEF BackupTypes, Applied, WritersOf
    <3>2. \A w \in Applied(r)' : order'[w] <= order'[u]
      BY Zenon, <1>3 DEF Applied, WritersOf
    <3> QED BY Zenon, <3>1, <3>2 DEF IsLast
  <2>2. CASE r # RecordOf[u]
    <3>1. repo'[r] = repo[r] /\ Applied(r)' = Applied(r) /\ \A w \in Applied(r) : order'[w] = order[w]
      BY Zenon, <1>1, <1>3, <2>2 DEF BackupTypes, Applied, WritersOf
    <3>2. IsLast(repo[r], Applied(r))
      BY Zenon, <1>1 DEF Stored
    <3>3. PICK row, ws : row = repo[r] /\ ws = Applied(r)
      BY Zenon
    <3>4. IsLast(row, ws)'
      BY ZenonT(60), <3>1, <3>2, <3>3, LastKept
    <3> QED BY Zenon, <3>1, <3>3, <3>4 DEF IsLast
  <2> QED BY Zenon, <2>1, <2>2
<1>8. \A w \in held : order'[w] = order[w]
  BY Zenon, <1>2, <1>3 DEF BackupTypes
<1>9. Copied'
  <2>1. \A w \in held' : order'[w] # 0
    BY Zenon, <1>1, <1>8 DEF Copied
  <2>2. ASSUME NEW r \in Records, TableOf[r] \in read'
        PROVE  IsLast(data[r], WritersOf(r) \cap held)'
    <3>1. IsLast(data[r], WritersOf(r) \cap held)
      BY Zenon, <1>1, <2>2 DEF Copied
    <3> QED BY Zenon, <3>1, <1>1, <1>8 DEF IsLast, WritersOf
  <2> QED BY Zenon, <2>1, <2>2 DEF Copied
<1>10. Covered'
  BY Zenon, <1>1, <1>2, <1>3 DEF Covered
<1>11. Phases' /\ PointInTime'
  BY Zenon, <1>1 DEF Phases, PointInTime
<1> QED BY Zenon, <1>4, <1>5, <1>6, <1>7, <1>9, <1>10, <1>11

LEMMA RecordKeeps ==
    ASSUME BackupInv, NEW u \in RecordWriters, RecordMutation(u) PROVE BackupInv'
<1> USE DEF BackupInv
<1>1. /\ order[u] # 0 /\ ~recovered
      /\ UNCHANGED <<repo, twice, archived, walLog, step, read, data, baseLSN, taken, recovered, target,
                     writes, order, overlapped, held>>
  BY Zenon DEF RecordMutation, repositories, base, restore, written
<1>2. \/ /\ lsn[u] = 0 /\ currentLSN' = currentLSN + 1 /\ lsn' = [lsn EXCEPT ![u] = currentLSN + 1]
         /\ UNCHANGED <<clock, stamp>>
      \/ /\ lsn[u] # 0 /\ clock' = clock + 1 /\ stamp' = [stamp EXCEPT ![u] = clock + 1]
         /\ UNCHANGED <<currentLSN, lsn>>
  BY Zenon DEF RecordMutation
<1>3. BackupTypes' /\ Recorded'
  BY <1>1, <1>2 DEF BackupTypes, Recorded, InArchive
<1>4. \A w \in RecordWriters : lsn[w] # 0 => lsn'[w] = lsn[w]
  BY Zenon, <1>2 DEF BackupTypes
<1>5. Covered'
  <2> SUFFICES ASSUME taken, NEW v \in RecordWriters, NEW w \in RecordWriters,
                      RecordOf[v] = RecordOf[w], RecordOf[w] \notin overlapped,
                      order[v] # 0, order[v] < order[w], w \in held
               PROVE  lsn'[v] <= baseLSN
    BY Zenon, <1>1 DEF Covered
  <2>1. lsn[v] # 0
    BY Zenon DEF Serial, Recorded
  <2> QED BY Zenon, <1>4, <2>1 DEF Covered
<1>6. Serial' /\ Phases' /\ PointInTime'
  BY Zenon, <1>1 DEF Serial, Phases, PointInTime, InArchive
<1>7. Stored' /\ Copied'
  BY Zenon, <1>1, CopiesStay
<1> QED BY Zenon, <1>3, <1>5, <1>6, <1>7

LEMMA ArchiveKeeps ==
    ASSUME BackupInv, NEW u \in RecordWriters, ArchiveWAL(u) PROVE BackupInv'
<1> USE DEF BackupInv
<1>1. /\ stamp[u] # 0 /\ ~InArchive(u) /\ ~recovered
      /\ archived' = archived + 1 /\ walLog' = [walLog EXCEPT ![u] = archived + 1]
      /\ UNCHANGED <<repo, twice, currentLSN, lsn, clock, stamp, step, read, data, baseLSN, taken, recovered,
                     target, writes, order, overlapped, held>>
  BY Zenon DEF ArchiveWAL, repositories, base, restore, written
<1>2. archived \in Nat /\ walLog \in [RecordWriters -> Nat] /\ \A w \in RecordWriters : walLog[w] <= archived
  BY Zenon DEF BackupTypes, Recorded
<1>3. /\ walLog' \in [RecordWriters -> Nat] /\ archived' \in Nat /\ walLog'[u] = archived'
      /\ \A w \in RecordWriters : w # u => walLog'[w] = walLog[w]
      /\ \A w \in RecordWriters : walLog[w] < archived' /\ walLog'[w] <= archived'
  BY <1>1, <1>2
<1>4. BackupTypes'
  BY Zenon, <1>1, <1>3 DEF BackupTypes
<1>5. Recorded'
  BY Zenon, <1>1, <1>3 DEF Recorded, InArchive
<1>6. Serial'
  <2> SUFFICES ASSUME NEW v \in RecordWriters, NEW w \in RecordWriters,
                      RecordOf[v] = RecordOf[w], RecordOf[w] \notin overlapped,
                      order[v] # 0, order[v] < order[w]
               PROVE  walLog'[v] # 0 /\ (walLog'[w] # 0 => walLog'[v] < walLog'[w])
    BY Zenon, <1>1 DEF Serial, InArchive
  <2>1. InArchive(v) /\ (InArchive(w) => walLog[v] < walLog[w])
    BY Zenon DEF Serial
  <2>2. v # u /\ walLog'[v] = walLog[v]
    BY Zenon, <2>1, <1>1, <1>3
  <2>3. CASE w = u
    BY Zenon, <1>3, <2>1, <2>2, <2>3 DEF InArchive
  <2>4. CASE w # u
    BY Zenon, <1>3, <2>1, <2>2, <2>4 DEF InArchive
  <2> QED BY Zenon, <2>3, <2>4
<1>7. Stored' /\ Copied' /\ Covered'
  BY Zenon, <1>1, CopiesStay DEF Covered
<1>8. Phases' /\ PointInTime'
  BY Zenon, <1>1 DEF Phases, PointInTime
<1> QED BY Zenon, <1>4, <1>5, <1>6, <1>7, <1>8

LEMMA BeginKeeps == ASSUME BackupInv, BeginBaseBackup PROVE BackupInv'
<1> USE DEF BackupInv
<1>1. /\ step' = 1 /\ ~taken /\ ~recovered
      /\ UNCHANGED <<repo, twice, currentLSN, lsn, clock, stamp, archived, walLog, read, data, baseLSN, taken,
                     recovered, target, writes, order, overlapped, held>>
  BY Zenon DEF BeginBaseBackup, Phases, repositories, wal, restore, written
<1>2. BackupTypes'
  <2>1. 1 \in 0..7
    OBVIOUS
  <2> QED BY Zenon, <1>1, <2>1 DEF BackupTypes
<1>3. Recorded' /\ Serial' /\ Covered' /\ Phases' /\ PointInTime'
  BY Zenon, <1>1 DEF Recorded, Serial, Covered, Phases, PointInTime, InArchive
<1>4. Stored' /\ Copied'
  BY ZenonT(60), <1>1, CopiesStay
<1> QED BY Zenon, <1>2, <1>3, <1>4

LEMMA SnapshotKeeps == ASSUME BackupInv, SnapshotTable PROVE BackupInv'
<1> USE DEF BackupInv
<1>1. /\ step \in 1..6 /\ step' = step + 1
      /\ UNCHANGED <<repo, twice, currentLSN, lsn, clock, stamp, archived, walLog, baseLSN, taken,
                     recovered, target, writes, order, overlapped>>
  BY Zenon, Orders DEF SnapshotTable, repositories, wal, restore, written
<1>2. step' \in 0..7 /\ step # 0
  BY <1>1
<1>3. ~taken /\ ~recovered
  BY Zenon, <1>2 DEF Phases
<1>4. Recorded' /\ Serial' /\ Covered' /\ Phases' /\ PointInTime'
  BY Zenon, <1>1, <1>3 DEF Recorded, Serial, Covered, Phases, PointInTime, InArchive
<1>5. Stored'
  BY ZenonT(60), <1>1 DEF Stored, IsLast, Applied, WritersOf
<1>6. BackupTypes' /\ Copied'
  <2>1. CASE UNCHANGED <<read, data, held>>
    <3>1. BackupTypes'
      BY Zenon, <1>1, <1>2, <2>1 DEF BackupTypes
    <3>2. Copied'
      BY Zenon, <1>1, <2>1 DEF Copied, IsLast, WritersOf
    <3> QED BY Zenon, <3>1, <3>2
  <2>2. CASE /\ read' = read \cup {SnapshotOrder[step]}
             /\ data' = [r \in Records |-> IF TableOf[r] = SnapshotOrder[step] THEN repo[r] ELSE data[r]]
             /\ held' = held \cup {w \in RecordWriters :
                                     order[w] # 0 /\ TableOf[RecordOf[w]] = SnapshotOrder[step]}
    <3>1. BackupTypes'
      BY Zenon, <1>1, <1>2, <2>2 DEF BackupTypes
    <3>2. \A w \in held' : order'[w] # 0
      BY Zenon, <1>1, <2>2 DEF Copied
    <3>3. ASSUME NEW r \in Records, TableOf[r] \in read'
          PROVE  IsLast(data[r], WritersOf(r) \cap held)'
      <4>1. CASE TableOf[r] = SnapshotOrder[step]
        <5>1. data'[r] = repo[r] /\ WritersOf(r) \cap held' = Applied(r)
          BY Zenon, <2>2, <4>1 DEF Applied, WritersOf, Copied
        <5> QED BY Zenon, <1>1, <1>3, <5>1 DEF Stored, IsLast, WritersOf
      <4>2. CASE TableOf[r] # SnapshotOrder[step]
        <5>1. data'[r] = data[r] /\ WritersOf(r) \cap held' = WritersOf(r) \cap held /\ TableOf[r] \in read
          BY Zenon, <2>2, <3>3, <4>2 DEF WritersOf
        <5> QED BY Zenon, <1>1, <5>1 DEF Copied, IsLast, WritersOf
      <4> QED BY Zenon, <4>1, <4>2
    <3> QED BY Zenon, <3>1, <3>2, <3>3 DEF Copied
  <2> QED BY Zenon, <2>1, <2>2 DEF SnapshotTable
<1> QED BY Zenon, <1>4, <1>5, <1>6

LEMMA FinishKeeps == ASSUME BackupInv, FinishBaseBackup PROVE BackupInv'
<1> USE DEF BackupInv
<1>1. /\ step = 7 /\ step' = 0 /\ baseLSN' = currentLSN /\ taken' = TRUE
      /\ UNCHANGED <<repo, twice, currentLSN, lsn, clock, stamp, archived, walLog, read, data, recovered,
                     target, writes, order, overlapped, held>>
  <2>1. step = 6 + 1
    BY Zenon, Orders DEF FinishBaseBackup
  <2>2. step = 7
    BY <2>1
  <2> QED BY Zenon, <2>2 DEF FinishBaseBackup, repositories, wal, restore, written
<1>2. ~recovered
  <2>1. step # 0
    BY <1>1
  <2> QED BY Zenon, <2>1 DEF Phases
<1>3. BackupTypes'
  <2>1. 0 \in 0..7
    OBVIOUS
  <2> QED BY Zenon, <1>1, <2>1 DEF BackupTypes
<1>4. Covered'
  BY Zenon, <1>1 DEF Covered, Serial, Recorded
<1>5. Recorded' /\ Serial' /\ Phases' /\ PointInTime'
  BY Zenon, <1>1, <1>2 DEF Recorded, Serial, Phases, PointInTime, InArchive
<1>6. Stored' /\ Copied'
  BY ZenonT(60), <1>1, CopiesStay
<1> QED BY Zenon, <1>3, <1>4, <1>5, <1>6

\* The replay of a record ends in some row.
LEMMA RowExists ==
    ASSUME BackupInv, NEW r \in Records, NEW time \in Nat
    PROVE  \E row \in RecordWriters \cup {Absent} : Recreated(r, time, row)
<1> DEFINE R == Replay(r, time)
<1>1. BaseRow(r) \in RecordWriters \cup {Absent}
  BY Zenon DEF BackupInv, BackupTypes, BaseRow
<1>2. CASE R = {} \/ (TableOf[r] = "projects" /\ BaseRow(r) # Absent)
  BY Zenon, <1>1, <1>2 DEF Recreated
<1>3. CASE ~(R = {} \/ (TableOf[r] = "projects" /\ BaseRow(r) # Absent))
  <2>1. R \in SUBSET RecordWriters /\ R # {}
    BY Zenon, <1>3 DEF Replay, WritersOf
  <2>2. walLog \in [RecordWriters -> Nat] /\ archived \in Nat /\ \A w \in RecordWriters : walLog[w] <= archived
    BY Zenon DEF BackupInv, BackupTypes, Recorded
  <2>3. PICK f \in [RecordWriters -> Nat], b \in Nat : f = walLog /\ b = archived
    BY Zenon, <2>2
  <2>4. PICK S \in SUBSET RecordWriters : S = R
    BY Zenon, <2>1
  <2>5. /\ \E x \in S : \A w \in S : f[w] <= f[x]
        /\ \E x \in S : \A w \in S : f[x] <= f[w]
    BY ZenonT(60), <2>1, <2>2, <2>3, <2>4, EndsExist
  <2>6. /\ \E x \in R : \A w \in R : walLog[w] <= walLog[x]
        /\ \E x \in R : \A w \in R : walLog[x] <= walLog[w]
    BY Zenon, <2>3, <2>4, <2>5
  <2> HIDE DEF R
  <2> QED BY Zenon, <1>3, <2>1, <2>6 DEF Recreated, R
<1> QED BY Zenon, <1>2, <1>3

\* The writes due at a time are those the backup holds and those replayed.
DueAt(r, time) == (WritersOf(r) \cap held) \cup Replay(r, time)

LEMMA DueThen ==
    ASSUME BackupInv, NEW r \in Records, NEW time \in Nat, target' = time,
           UNCHANGED <<lsn, stamp, walLog, baseLSN, held>>
    PROVE  Due(r)' = DueAt(r, time)
<1>1. \A w \in RecordWriters : (lsn[w] > baseLSN) <=> ~(lsn[w] <= baseLSN)
  BY DEF BackupInv, BackupTypes
<1> QED BY Zenon, <1>1 DEF Due, DueAt, Missed, Replay, WritersOf, InArchive

\* The replay ends in the last of them, when none overlapped.
LEMMA LastRestored ==
    ASSUME BackupInv, taken, NEW r \in Records, NEW time \in Nat, TableOf[r] \in Restored \cap read,
           r \notin overlapped, TableOf[r] # "projects", NEW row, Recreated(r, time, row)
    PROVE  IsLast(row, DueAt(r, time))
<1> DEFINE R == Replay(r, time)
<1> DEFINE K == WritersOf(r) \cap held
<1>1. IsLast(data[r], K) /\ BaseRow(r) = data[r]
  BY Zenon DEF BackupInv, Copied, BaseRow
<1>2. CASE R = {}
  <2>1. row = data[r] /\ DueAt(r, time) = K
    BY Zenon, <1>1, <1>2 DEF Recreated, DueAt
  <2> QED BY Zenon, <1>1, <2>1
<1>3. CASE R # {}
  <2>1. row \in R /\ \A w \in R : walLog[w] <= walLog[row]
    BY Zenon, <1>3 DEF Recreated
  <2>2. \A w \in R : /\ w \in RecordWriters /\ RecordOf[w] = r /\ InArchive(w) /\ lsn[w] > baseLSN
                     /\ order[w] # 0
    BY Zenon DEF Replay, WritersOf, BackupInv, Recorded
  <2>3. ASSUME NEW w \in DueAt(r, time) PROVE ~(order[row] < order[w])
    <3>0. w \in RecordWriters /\ RecordOf[w] = r
      BY Zenon DEF DueAt, Replay, WritersOf
    <3>1. CASE w \in R
      <4> SUFFICES ASSUME order[row] < order[w] PROVE FALSE
        OBVIOUS
      <4>1. walLog[row] < walLog[w] /\ walLog[w] <= walLog[row]
        BY Zenon, <2>1, <2>2, <3>0, <3>1 DEF BackupInv, Serial
      <4>2. walLog[row] \in Nat /\ walLog[w] \in Nat
        BY Zenon, <2>1, <2>2, <3>0 DEF BackupInv, BackupTypes
      <4> QED BY <4>1, <4>2
    <3>2. CASE w \in held
      <4> SUFFICES ASSUME order[row] < order[w] PROVE FALSE
        OBVIOUS
      <4>1. lsn[row] <= baseLSN /\ lsn[row] > baseLSN
        BY Zenon, <2>1, <2>2, <3>0, <3>2 DEF BackupInv, Covered
      <4>2. lsn[row] \in Nat /\ baseLSN \in Nat
        BY Zenon, <2>1, <2>2 DEF BackupInv, BackupTypes
      <4> QED BY <4>1, <4>2
    <3> QED BY Zenon, <3>1, <3>2 DEF DueAt
  <2>4. ASSUME NEW w \in DueAt(r, time) PROVE order[w] <= order[row]
    <3>1. order[w] \in Nat /\ order[row] \in Nat
      BY Zenon, <2>1, <2>2 DEF BackupInv, BackupTypes, DueAt, Replay, WritersOf
    <3> QED BY <2>3, <3>1
  <2>5. row \in DueAt(r, time)
    BY Zenon, <2>1 DEF DueAt
  <2> QED BY Zenon, <2>4, <2>5 DEF IsLast
<1> QED BY Zenon, <1>2, <1>3

LEMMA RestoreKeeps == ASSUME BackupInv, NEW time \in Nat, Restore(time) PROVE BackupInv'
<1>1. /\ taken /\ ~recovered /\ recovered' = TRUE /\ target' = time
      /\ repo' = [r \in Records |-> CHOOSE row \in RecordWriters \cup {Absent} : Recreated(r, time, row)]
      /\ twice' = {r \in Records : TableOf[r] = "events" /\ BaseRow(r) # Absent /\ Replay(r, time) # {}}
      /\ UNCHANGED <<currentLSN, lsn, clock, stamp, archived, walLog, step, read, data, baseLSN, taken,
                     writes, order, overlapped, held>>
  BY Zenon DEF Restore, wal, base, written
<1>2. \A r \in Records : Recreated(r, time, repo'[r]) /\ repo'[r] \in RecordWriters \cup {Absent}
  BY Zenon, <1>1, RowExists
<1>3. BackupTypes'
  <2>1. repo' \in [Records -> RecordWriters \cup {Absent}]
    BY Zenon, <1>1, <1>2
  <2> QED BY Zenon, <1>1, <2>1 DEF BackupInv, BackupTypes
<1>4. Recorded' /\ Serial' /\ Covered' /\ Phases' /\ Stored'
  BY Zenon, <1>1 DEF BackupInv, Recorded, Serial, Covered, Phases, Stored, InArchive
<1>5. Copied'
  BY Zenon, <1>1 DEF BackupInv, Copied, IsLast, WritersOf
<1>6. ASSUME NEW r \in Records, TableOf[r] \in Restored \cap read
      PROVE  /\ r \notin overlapped' /\ TableOf[r] # "projects" => IsLast(repo[r], Due(r))'
             /\ TableOf[r] = "projects" => repo'[r] \in IF Due(r)' = {} THEN {Absent} ELSE Due(r)'
             /\ r \in twice' => \E w \in WritersOf(r) : w \in held /\ lsn[w] > baseLSN
  <2>1. Due(r)' = DueAt(r, time)
    BY Zenon, <1>1, DueThen
  <2>2. BaseRow(r) = data[r] /\ IsLast(data[r], WritersOf(r) \cap held)
    BY Zenon, <1>6 DEF BackupInv, Copied, BaseRow
  <2>3. r \notin overlapped' /\ TableOf[r] # "projects" => IsLast(repo[r], Due(r))'
    <3> SUFFICES ASSUME r \notin overlapped, TableOf[r] # "projects" PROVE IsLast(repo[r], Due(r))'
      BY Zenon, <1>1
    <3>1. PICK row : row = repo'[r]
      BY Zenon
    <3>2. IsLast(row, DueAt(r, time))
      BY Zenon, <1>1, <1>2, <1>6, <3>1, LastRestored
    <3> QED BY Zenon, <1>1, <2>1, <3>1, <3>2 DEF IsLast
  <2>4. TableOf[r] = "projects" => repo'[r] \in IF Due(r)' = {} THEN {Absent} ELSE Due(r)'
    BY Zenon, <1>2, <2>1, <2>2 DEF Recreated, DueAt, IsLast
  <2>5. ASSUME r \in twice' PROVE \E w \in WritersOf(r) : w \in held /\ lsn[w] > baseLSN
    <3>1. TableOf[r] = "events" /\ data[r] # Absent /\ Replay(r, time) # {}
      BY Zenon, <1>1, <2>2, <2>5
    <3>2. data[r] \in WritersOf(r) \cap held
      BY Zenon, <2>2, <3>1 DEF IsLast
    <3>3. PICK w \in Replay(r, time) : TRUE
      BY Zenon, <3>1
    <3>4. w = data[r] /\ lsn[w] > baseLSN
      BY Zenon, <3>1, <3>2, <3>3, BackupAssumption DEF Replay, WritersOf
    <3> QED BY Zenon, <3>2, <3>4
  <2> QED BY Zenon, <2>3, <2>4, <2>5
<1>7. PointInTime'
  BY Zenon, <1>1, <1>6 DEF PointInTime, WritersOf
<1> QED BY Zenon, <1>3, <1>4, <1>5, <1>7 DEF BackupInv

LEMMA StillBackup == ASSUME BackupInv, UNCHANGED backup PROVE BackupInv'
<1>1. UNCHANGED <<repo, twice, currentLSN, lsn, clock, stamp, archived, walLog, step, read, data, baseLSN,
                  taken, recovered, target, writes, order, overlapped, held>>
  BY Zenon DEF backup, repositories, wal, base, restore, written
<1>2. BackupTypes' /\ Recorded' /\ Serial' /\ Phases' /\ Covered'
  BY Zenon, <1>1 DEF BackupInv, BackupTypes, Recorded, Serial, Phases, Covered, InArchive
<1>3. Stored' /\ Copied'
  BY Zenon, <1>1, CopiesStay DEF BackupInv
<1>4. PointInTime'
  <2> SUFFICES ASSUME recovered, NEW r \in Records, TableOf[r] \in Restored \cap read
               PROVE  /\ r \notin overlapped /\ TableOf[r] # "projects" => IsLast(repo[r], Due(r))'
                      /\ TableOf[r] = "projects" => repo[r] \in IF Due(r)' = {} THEN {Absent} ELSE Due(r)'
                      /\ r \in twice => \E w \in WritersOf(r) : w \in held /\ lsn[w] > baseLSN
    BY Zenon, <1>1 DEF PointInTime, WritersOf
  <2>1. Due(r)' = Due(r)
    BY Zenon, <1>1 DEF Due, Missed, WritersOf, InArchive
  <2>2. /\ r \notin overlapped /\ TableOf[r] # "projects" => IsLast(repo[r], Due(r))
        /\ TableOf[r] = "projects" => repo[r] \in IF Due(r) = {} THEN {Absent} ELSE Due(r)
        /\ r \in twice => \E w \in WritersOf(r) : w \in held /\ lsn[w] > baseLSN
    BY Zenon DEF BackupInv, PointInTime
  <2>3. PICK row, ws : row = repo[r] /\ ws = Due(r)
    BY Zenon
  <2>4. IsLast(row, ws) => IsLast(row, ws)'
    BY Zenon, <1>1, LastKept
  <2>5. IsLast(repo[r], Due(r)) => IsLast(repo[r], Due(r))'
    BY Zenon, <1>1, <2>1, <2>3, <2>4 DEF IsLast
  <2> QED BY Zenon, <2>1, <2>2, <2>5
<1> QED BY Zenon, <1>2, <1>3, <1>4 DEF BackupInv

LEMMA StepBackup == BackupInv /\ [BackupNext]_backup => BackupInv'
<1>1. ASSUME BackupInv, NEW time \in 0..clock, Restore(time) PROVE BackupInv'
  <2>1. time \in Nat
    BY <1>1 DEF BackupInv, BackupTypes
  <2> QED BY Zenon, <1>1, <2>1, RestoreKeeps
<1> QED BY Zenon, <1>1, ApplyKeeps, RecordKeeps, ArchiveKeeps, BeginKeeps, SnapshotKeeps, FinishKeeps,
           StillBackup DEF BackupNext

\* Section 30, for any writers, records and tables: a restore brings every record
\* of a table the backup could read back to the last of the writes that are due.
THEOREM RestoreIsPointInTime == BackupSpec => []PointInTime
<1>1. BackupInv => PointInTime
  BY Zenon DEF BackupInv
<1> QED BY <1>1, InitBackup, StepBackup, PTL DEF BackupSpec
=============================================================================
