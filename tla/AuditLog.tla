------------------------------ MODULE AuditLog ------------------------------
(***************************************************************************)
(* The hash-chained audit log (internal/observability/audit.go).           *)
(*                                                                         *)
(* An entry's fields (timestamp, event type, actor, resource, details) are *)
(* one value here.  ComputeHash joins them into a text with | & and =,     *)
(* which it does not escape: TextOf may give two of them one text.  The    *)
(* index before the text and the previous hash, of fixed length, after it  *)
(* can be told from it.  SHA-256 is injective: a hash is what it covers.   *)
(***************************************************************************)
EXTENDS Naturals, Sequences

CONSTANTS
    Fields,         \* what an entry may say
    TextOf,         \* the text each is joined into
    MaxEntries      \* bound on the log

ASSUME AuditAssumption == MaxEntries \in Nat

VARIABLES
    log,      \* the entries
    intact    \* FALSE once the text of an entry was changed, or one before the last deleted (history)

audit == <<log, intact>>

GenesisHash == <<>>

AuditInit == log = <<>> /\ intact = TRUE

ComputeHash(index, fields, prev) == <<index, TextOf[fields], prev>>

AppendEntry(fields) ==
    LET index == Len(log)
        prev  == IF index = 0 THEN GenesisHash ELSE log[index].hash
    IN  /\ log' = Append(log, [index |-> index, fields |-> fields, prev |-> prev,
                               hash |-> ComputeHash(index, fields, prev)])
        /\ UNCHANGED intact

\* Update and Delete are refused; what the log must notice is a change of its
\* storage, which the tests make with TamperEntryForTest and DeleteEntryForTest.
TamperEntry(i, fields) ==
    /\ intact
    /\ log' = [log EXCEPT ![i].fields = fields]
    /\ intact' = (TextOf[fields] = TextOf[log[i].fields])

DeleteEntry(i) ==
    /\ intact
    /\ log' = SubSeq(log, 1, i - 1) \o SubSeq(log, i + 1, Len(log))
    /\ intact' = (i = Len(log))

\* Mutant: entries are compared with their neighbours only.
VerifyChain_Links ==
    \A i \in DOMAIN log :
      log[i].prev = IF i = 1 THEN GenesisHash ELSE log[i - 1].hash

VerifyChain ==
    \A i \in DOMAIN log :
      LET e == log[i] IN
        /\ e.index = i - 1
        /\ e.prev = IF i = 1 THEN GenesisHash ELSE log[i - 1].hash
        /\ e.hash = ComputeHash(e.index, e.fields, e.prev)

\* A request that changes nothing else and is audited.
ListSecrets(fields) == Len(log) < MaxEntries /\ AppendEntry(fields)

\* The log by itself: requests and faults of the storage.
AuditNext ==
    \/ \E fields \in Fields : ListSecrets(fields)
    \/ \E i \in DOMAIN log : DeleteEntry(i) \/ \E fields \in Fields : TamperEntry(i, fields)

AuditSpec == AuditInit /\ [][AuditNext]_audit

-----------------------------------------------------------------------------
(* Properties                                                               *)

\* Gate G-40: VerifyChain accepts a log written by concurrent requests, and
\* refuses one with an entry changed or deleted, also after more was appended.
\* Not noticed are the deletion of the last entry and a change after which the
\* fields are still joined into the same text.
TamperEvident == VerifyChain <=> intact

=============================================================================
