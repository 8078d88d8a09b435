------------------------------ MODULE Secrets -------------------------------
(***************************************************************************)
(* One secret of a project (internal/secrets, internal/storage/            *)
(* secrets_repo.go and the API's secret handlers): requests that create or *)
(* rotate it, deployments that snapshot it and inject the snapshot into    *)
(* their instances, and the keys that encrypt it.  Values are encrypted    *)
(* with versioned data keys (DEKs), which the KMS wraps with master keys.  *)
(*                                                                         *)
(* A DEK is named by when it was generated, a master key by its number, a  *)
(* value by the request that wrote it.                                     *)
(***************************************************************************)
EXTENDS AuditLog, FiniteSets

CONSTANTS
    Writers, SecretDeps,
    NoValue,                 \* what an instance run without secrets has
    MaxMasters, MaxDEKs      \* bounds on key rotations

ASSUME SecretsAssumption ==
    /\ IsFiniteSet(Writers) /\ NoValue \notin Writers
    /\ MaxMasters \in Nat \ {0} /\ MaxDEKs \in Nat \ {0}

VARIABLES
    masters,       \* the KMS's keys are 1 .. masters, the last one is current
    wrapped,       \* wrappedDEKs: [dek, under] for each version
    keyIDs,        \* the master key recorded for each version
    deks,          \* how many DEKs were generated
    renewed,       \* versions whose DEK was generated again (history)
    rows,          \* the project's rows: [version, keyVersion, dek, value]
    snapshot,      \* the deployment's row, as a set
    writer,        \* [at, keyVer, blob, keyID, next] of each request
    reader,        \* [at, blob, keyID] of each deployment's injection in progress
    acked,         \* the version answered to each request, or 0
    asOf,          \* the latest version answered before the snapshot (history)
    seen           \* what the instances of each deployment were run with

provider == <<wrapped, keyIDs, deks, renewed>>
store == <<masters, provider, rows, snapshot, writer, reader, acked, asOf, seen>>
secrets == <<store, audit>>

MaxOf(S) == CHOOSE n \in S \cup {0} : \A m \in S : m <= n
Latest == {row \in rows : \A other \in rows : other.version <= row.version}

Blob == [dek : 1..MaxDEKs, under : 1..MaxMasters]

SecretsTypeOK ==
    /\ masters \in 1..MaxMasters
    /\ deks \in 1..MaxDEKs
    /\ \E n \in 1..deks : /\ wrapped \in [1..n -> Blob] /\ keyIDs \in [1..n -> 1..MaxMasters]
                          /\ renewed \subseteq 1..n
    /\ rows \subseteq [version : 1..Cardinality(Writers), keyVersion : 1..MaxDEKs,
                       dek : 1..MaxDEKs, value : Writers]
    /\ \A d \in SecretDeps : snapshot[d] \subseteq rows /\ seen[d] \subseteq Writers \cup {NoValue}
    /\ acked \in [Writers -> 0..Cardinality(Writers)]

FirstBlob == [dek |-> 1, under |-> 1]

Idle == [at |-> "idle", keyVer |-> 1, blob |-> FirstBlob, keyID |-> 1, next |-> 0]

SecretsInit ==
    /\ AuditInit
    /\ masters = 1
    /\ wrapped = <<FirstBlob>> /\ keyIDs = <<1>> /\ deks = 1 /\ renewed = {}
    /\ rows = {}
    /\ snapshot = [d \in SecretDeps |-> {}]
    /\ writer = [w \in Writers |-> Idle]
    /\ reader = [d \in SecretDeps |-> [at |-> "new", blob |-> FirstBlob, keyID |-> 1]]
    /\ acked = [w \in Writers |-> 0]
    /\ asOf = [d \in SecretDeps |-> 0]
    /\ seen = [d \in SecretDeps |-> {}]

-----------------------------------------------------------------------------
(* Keys.  The KMS may be unavailable at any time: what needs it may fail.   *)

\* Old master keys are kept.
RotateKey ==
    /\ masters < MaxMasters
    /\ masters' = masters + 1
    /\ UNCHANGED provider

\* The caller names the version, which may have a DEK already: it is overwritten.
GenerateAndWrapKey(version) ==
    LET blob == [dek |-> deks + 1, under |-> masters] IN
      /\ deks < MaxDEKs /\ deks' = deks + 1
      /\ IF version \in DOMAIN wrapped
           THEN /\ wrapped' = [wrapped EXCEPT ![version] = blob]
                /\ keyIDs' = [keyIDs EXCEPT ![version] = masters]
                /\ renewed' = renewed \cup {version}
           ELSE /\ wrapped' = Append(wrapped, blob) /\ keyIDs' = Append(keyIDs, masters)
                /\ UNCHANGED renewed
      /\ UNCHANGED masters

\* The loop over the versions, in the map's random order, stops at the first one
\* that fails: some of them stay under the old key.
ReWrapped(old, new, done) ==
    /\ wrapped' = [v \in DOMAIN wrapped |->
                     IF v \in done THEN [wrapped[v] EXCEPT !.under = new] ELSE wrapped[v]]
    /\ UNCHANGED <<masters, deks, renewed>>

\* Mutant: the key id is recorded for every version, re-wrapped or not.
ReWrapKeys_All(old, new) ==
    \E done \in SUBSET {v \in DOMAIN wrapped : keyIDs[v] = old} :
      /\ ReWrapped(old, new, done)
      /\ keyIDs' = [v \in DOMAIN keyIDs |-> IF keyIDs[v] = old THEN new ELSE keyIDs[v]]

ReWrapKeys(old, new) ==
    \E done \in SUBSET {v \in DOMAIN wrapped : keyIDs[v] = old} :
      /\ ReWrapped(old, new, done)
      /\ keyIDs' = [v \in DOMAIN keyIDs |-> IF v \in done THEN new ELSE keyIDs[v]]

KeyStep ==
    /\ \/ RotateKey
       \/ \E version \in 1..(Len(wrapped) + 1) : GenerateAndWrapKey(version)
       \/ \E old, new \in 1..masters : old # new /\ ReWrapKeys(old, new)
    /\ UNCHANGED <<rows, snapshot, writer, reader, acked, asOf, seen, audit>>

\* UnwrapKey: with the right master key the DEK, otherwise an error; always an
\* error while the KMS is unavailable.
Unwraps(blob, keyID) == keyID \in 1..masters /\ blob.under = keyID

-----------------------------------------------------------------------------
(* createSecret and rotateSecret, with SetSecret                            *)

WriterUnchanged == UNCHANGED <<masters, provider, snapshot, reader, asOf, seen>>

CurrentVersion(w) ==
    /\ writer[w].at = "idle"
    /\ writer' = [writer EXCEPT ![w].at = "getKey", ![w].keyVer = Len(wrapped)]
    /\ UNCHANGED <<rows, acked, audit>> /\ WriterUnchanged

\* GetKey reads the wrapped DEK and its key id under one lock, then asks the KMS.
GetKey(w) ==
    LET v == writer[w].keyVer IN
      /\ writer[w].at = "getKey"
      /\ writer' = [writer EXCEPT ![w].at = "unwrap", ![w].blob = wrapped[v], ![w].keyID = keyIDs[v]]
      /\ UNCHANGED <<rows, acked, audit>> /\ WriterUnchanged

UnwrapKey(w) ==
    /\ writer[w].at = "unwrap"
    /\ \/ /\ Unwraps(writer[w].blob, writer[w].keyID)
          /\ writer' = [writer EXCEPT ![w].at = "query"]
       \/ writer' = [writer EXCEPT ![w] = [Idle EXCEPT !.at = "failed"]]
    /\ UNCHANGED <<rows, acked, audit>> /\ WriterUnchanged

QueryVersion(w) ==
    /\ writer[w].at = "query"
    /\ writer' = [writer EXCEPT ![w].at = "insert", ![w].next = MaxOf({row.version : row \in rows}) + 1]
    /\ UNCHANGED <<rows, acked, audit>> /\ WriterUnchanged

NewRow(w) == [version |-> writer[w].next, keyVersion |-> writer[w].keyVer,
              dek |-> writer[w].blob.dek, value |-> w]

\* Mutant: without the unique index on (project, name, version).
Insert_Any(w) ==
    /\ writer[w].at = "insert"
    /\ rows' = rows \cup {NewRow(w)}
    /\ writer' = [writer EXCEPT ![w].at = "audit"]
    /\ UNCHANGED <<acked, audit>> /\ WriterUnchanged

\* The unique index refuses a version that a concurrent request has taken.
Insert(w) ==
    /\ writer[w].at = "insert"
    /\ IF \E row \in rows : row.version = writer[w].next
         THEN writer' = [writer EXCEPT ![w] = [Idle EXCEPT !.at = "failed"]] /\ UNCHANGED rows
         ELSE writer' = [writer EXCEPT ![w].at = "audit"] /\ rows' = rows \cup {NewRow(w)}
    /\ UNCHANGED <<acked, audit>> /\ WriterUnchanged

RecordAudit(w) ==
    /\ writer[w].at = "audit"
    /\ AppendEntry(w)
    /\ writer' = [writer EXCEPT ![w] = [Idle EXCEPT !.at = "done"]]
    /\ acked' = [acked EXCEPT ![w] = writer[w].next]
    /\ UNCHANGED rows /\ WriterUnchanged

-----------------------------------------------------------------------------
(* Deployments                                                              *)

ReaderUnchanged == UNCHANGED <<masters, provider, rows, writer, acked, audit>>

\* Mutant: the snapshot is of the first version.
SnapshotForDeployment_First(d) ==
    /\ reader[d].at = "new"
    /\ snapshot' = [snapshot EXCEPT ![d] = {row \in rows : row.version = 1}]
    /\ asOf' = [asOf EXCEPT ![d] = MaxOf({acked[w] : w \in Writers})]
    /\ reader' = [reader EXCEPT ![d].at = "ready"]
    /\ UNCHANGED seen /\ ReaderUnchanged

\* One statement, which takes the latest version of every name.  When it fails, the
\* deployment goes on without a snapshot; asOf tells nothing of it then.
SnapshotForDeployment(d) ==
    /\ reader[d].at = "new"
    /\ \/ /\ snapshot' = [snapshot EXCEPT ![d] = Latest]
          /\ asOf' = [asOf EXCEPT ![d] = MaxOf({acked[w] : w \in Writers})]
       \/ UNCHANGED <<snapshot, asOf>>
    /\ reader' = [reader EXCEPT ![d].at = "ready"]
    /\ UNCHANGED seen /\ ReaderUnchanged

\* InjectSecrets, for an instance that a deployment or a scale-up starts, reads the
\* snapshot ...
GetSecretsForDeployment(d) ==
    /\ reader[d].at = "ready"
    /\ \E row \in snapshot[d] :
         reader' = [reader EXCEPT ![d] = [at |-> "unwrap", blob |-> wrapped[row.keyVersion],
                                          keyID |-> keyIDs[row.keyVersion]]]
    /\ UNCHANGED <<snapshot, asOf, seen>> /\ ReaderUnchanged

\* ... and decrypts it; on an error the instance is run with the plain environment.
InjectSecrets(d) ==
    /\ reader[d].at = "unwrap"
    /\ \/ seen' = [seen EXCEPT ![d] = @ \cup {NoValue}]
       \/ \E row \in snapshot[d] :
            /\ Unwraps(reader[d].blob, reader[d].keyID) /\ reader[d].blob.dek = row.dek
            /\ seen' = [seen EXCEPT ![d] = @ \cup {row.value}]
    /\ reader' = [reader EXCEPT ![d] = [at |-> "ready", blob |-> FirstBlob, keyID |-> 1]]
    /\ UNCHANGED <<snapshot, asOf>> /\ ReaderUnchanged

\* Repairs and migrations run an instance again with the plain environment, and so
\* do the handlers when the snapshot is empty or cannot be read.
RunPlain(d) ==
    /\ reader[d].at # "new"
    /\ seen' = [seen EXCEPT ![d] = @ \cup {NoValue}]
    /\ UNCHANGED <<reader, snapshot, asOf>> /\ ReaderUnchanged

-----------------------------------------------------------------------------

SetSecret(w) ==
    CurrentVersion(w) \/ GetKey(w) \/ UnwrapKey(w) \/ QueryVersion(w) \/ Insert(w)

\* A secret is rotated by setting it again; neither handler asks whether it exists.
CreateSecret(w) == SetSecret(w) \/ RecordAudit(w)
RotateSecret(w) == SetSecret(w) \/ RecordAudit(w)

ReaderStep(d) ==
    SnapshotForDeployment(d) \/ GetSecretsForDeployment(d) \/ InjectSecrets(d) \/ RunPlain(d)

SecretsNext ==
    \/ KeyStep
    \/ \E w \in Writers : CreateSecret(w) \/ RotateSecret(w)
    \/ \E d \in SecretDeps : ReaderStep(d)

SecretsSpec == SecretsInit /\ [][SecretsNext]_secrets

-----------------------------------------------------------------------------
(* Properties                                                               *)

\* Gate G-37: master keys are rotated without downtime.  Every row, whatever was
\* rotated, re-wrapped or half re-wrapped since it was written, can be decrypted
\* when the KMS answers, and so can what a request in progress has already read,
\* unless a new DEK was generated for its version.
RowsReadable ==
    /\ \A row \in rows :
         /\ row.keyVersion \notin renewed => wrapped[row.keyVersion].dek = row.dek
         /\ wrapped[row.keyVersion].under = keyIDs[row.keyVersion]
    /\ \A v \in DOMAIN keyIDs : keyIDs[v] \in 1..masters
    /\ \A w \in Writers : writer[w].at = "unwrap" => writer[w].blob.under = writer[w].keyID
    /\ \A d \in SecretDeps : reader[d].at = "unwrap" => reader[d].blob.under = reader[d].keyID

\* Of concurrent requests to set one secret, those that are answered with success
\* have different versions, and each one's value is kept under its version.
NoLostVersion ==
    \A w \in Writers : acked[w] # 0 =>
      {row.value : row \in {row \in rows : row.version = acked[w]}} = {w}

\* SEC-04: of the instances of a deployment, whenever they are started and whatever
\* was rotated since, those that are given a value are given the same one, and it is
\* at least as new as any acknowledged before the deployment's snapshot was taken.
\* Repaired, migrated and unlucky instances are given none.
OneValuePerDeployment ==
    \A d \in SecretDeps :
      /\ \A x, y \in seen[d] \ {NoValue} : x = y
      /\ \A x \in seen[d] \ {NoValue} :
           \E row \in rows : row.value = x /\ row.version >= asOf[d]
      /\ asOf[d] > 0 => snapshot[d] # {}

=============================================================================
