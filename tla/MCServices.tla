----------------------------- MODULE MCServices -----------------------------
(***************************************************************************)
(* The services around the deployment engine, for model checking in one    *)
(* run: delivery (API, builds, images), secrets, the audit log, the        *)
(* autoscaler, and backups.  They share no state, so that what one of them *)
(* may do does not depend on the others: a behaviour has one part active.  *)
(***************************************************************************)
EXTENDS Delivery, Secrets, Autoscaler, Backup, TLC

CONSTANTS r1, r2, r3, k1, p1, p2, w1, w2, w3, m1, m2, m3, m4, m5, d1, d2, d3

VARIABLES part, writing

\* Two duplicates of one build (the second may also come without the key), and a
\* deployment of the first one's image in the first one's project.
TheCalls == {<<r1, k1, r1>>, <<r2, k1, r2>>, <<r2, NoKey, r2>>, <<r3, NoKey, r1>>}
TheProjects == [r \in Reqs |-> IF r = r2 THEN p2 ELSE p1]

\* The first leaves the minimum and the tolerance to their defaults, the second has
\* its bounds swapped; users scale below the second one's floor and above its ceiling.
ThePolicies == {[min |-> 0, max |-> 5, tolerance |-> 0], [min |-> 3, max |-> 1, tolerance |-> 20]}

\* The third entry differs from the second in its details alone, which are joined
\* into the same text.
TheTexts == w1 :> w1 @@ w2 :> w2 @@ w3 :> w2

\* Two writers of a deployment, an event's, and two of a project.
TheRecords == m1 :> d1 @@ m2 :> d1 @@ m3 :> d2 @@ m4 :> d3 @@ m5 :> d3
TheTables == d1 :> "deployments" @@ d2 :> "events" @@ d3 :> "projects"

\* The writers that write while a backup is taken; of tables they do not write to
\* it makes no difference whether they can be read.
Scenarios == {{m1, m2}, {m1, m3}, {m4, m5}}
Only(ws) ==
    /\ \A w \in RecordWriters \ ws : order'[w] = 0
    /\ \A i \in DOMAIN SnapshotOrder :
         step' = i + 1 => \/ SnapshotOrder[i] \in read'
                          \/ \E w \in ws : TableOf[RecordOf[w]] = SnapshotOrder[i]

Init ==
    /\ part \in {"delivery", "secrets", "audit", "autoscaler", "backup"}
    /\ writing \in IF part = "backup" THEN Scenarios ELSE {{}}
    /\ DeliveryInit /\ SecretsInit /\ AutoscalerInit /\ BackupInit

Next ==
    /\ UNCHANGED <<part, writing>>
    /\ \/ part = "delivery" /\ DeliveryNext /\ UNCHANGED <<secrets, autoscaler, backup>>
       \/ part = "secrets" /\ SecretsNext /\ UNCHANGED <<delivery, autoscaler, backup>>
       \/ part = "audit" /\ AuditNext /\ UNCHANGED <<delivery, store, autoscaler, backup>>
       \/ part = "autoscaler" /\ AutoscalerNext /\ UNCHANGED <<delivery, secrets, backup>>
       \/ part = "backup" /\ BackupNext /\ Only(writing) /\ UNCHANGED <<delivery, secrets, autoscaler>>

parts == <<part, writing, delivery, secrets, autoscaler, backup>>

\* Requests are served fairly; nothing is required of the other parts.
Spec == Init /\ [][Next]_parts /\ DeliveryFairness

=============================================================================
