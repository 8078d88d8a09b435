------------------------------- MODULE Images -------------------------------
(***************************************************************************)
(* The image registry (internal/registry): pushes, the digests deployments *)
(* record, and garbage collection.                                         *)
(*                                                                         *)
(* Every build has a tag of its own, and its payload, hence its digest,    *)
(* contains the tag: an image is named by the request that built it.       *)
(***************************************************************************)
EXTENDS Builds

CONSTANTS
    NoImage,
    Referenced    \* what the digest provider was given; nothing in the program adds to it

ASSUME ImagesAssumption == NoImage \notin Reqs /\ Referenced \subseteq Reqs

VARIABLES
    stored,    \* images in the registry
    up,        \* available
    digest     \* the image digest recorded for each deployment and its release

images == <<stored, up, digest>>

ImagesTypeOK ==
    /\ stored \subseteq Reqs /\ up \in BOOLEAN
    /\ digest \in [Reqs -> Reqs \cup {NoImage}]

ImagesInit ==
    /\ stored = {} /\ up = TRUE
    /\ digest = [r \in Reqs |-> NoImage]

SetAvailable(available) ==
    /\ up # available /\ up' = available
    /\ UNCHANGED <<stored, digest>>

\* The second half of Push, which tested availability before it took the lock.
StoreImage(r) ==
    /\ stored' = stored \cup {r}
    /\ UNCHANGED <<up, digest>>

\* UpdateImage and the release record.
RecordImage(r, i) ==
    /\ digest' = [digest EXCEPT ![r] = i]
    /\ UNCHANGED <<stored, up>>

\* SelectCandidatesAndRun: what deployments recorded is not asked for.
GarbageCollect ==
    /\ stored' = stored \cap Referenced
    /\ UNCHANGED <<up, digest>>

=============================================================================
