------------------------------- MODULE Backup -------------------------------
(***************************************************************************)
(* Base backups, the WAL archive and point-in-time recovery (internal/     *)
(* storage/backup, the memory manager).  A writer writes a record in a     *)
(* repository and then has the mutation recorded; neither waits for a      *)
(* backup's table reads.  A payload is named by its writer, which writes   *)
(* once.  The first write of a record creates it, later ones update it; no *)
(* repository deletes.  One backup is taken and restored once.             *)
(***************************************************************************)
EXTENDS Naturals, Sequences

CONSTANTS
    RecordWriters,
    Records,
    RecordOf,         \* the record each writer writes
    TableOf,          \* the table each record is in
    Absent

SnapshotOrder == <<"projects", "deployments", "instances", "releases", "events", "workers">>
Restored == {"projects", "deployments", "instances", "releases", "events"}
Replayed == {"projects", "deployments", "instances", "events"}

ASSUME BackupAssumption ==
    /\ RecordOf \in [RecordWriters -> Records]
    /\ TableOf \in [Records -> {SnapshotOrder[i] : i \in DOMAIN SnapshotOrder}]
    /\ Absent \notin RecordWriters
    /\ \A v, w \in RecordWriters :
         RecordOf[v] = RecordOf[w] /\ TableOf[RecordOf[w]] = "events" => v = w

VARIABLES
    repo,             \* the payload of each record in the repositories
    twice,            \* events the repository lists twice
    currentLSN, lsn,  \* the LSN of each mutation, or 0
    clock, stamp,     \* its timestamp, or 0
    archived, walLog, \* its position in the archive, or 0
    step,             \* the next table the backup reads; 0 when none is being taken
    read, data,       \* the tables it could read, and their records
    baseLSN, taken,   \* whether there is a backup
    recovered,        \* whether it was restored
    target,           \* the restore's target time
    writes, order,    \* when each writer wrote (history)
    held,             \* the writes in the tables the backup read (history)
    overlapped        \* records written before the previous write was archived (history)

repositories == <<repo, twice>>
wal == <<currentLSN, lsn, clock, stamp, archived, walLog>>
base == <<step, read, data, baseLSN, taken>>
restore == <<recovered, target>>
written == <<writes, order, overlapped>>
backup == <<repositories, wal, base, restore, written, held>>

NoRows == [r \in Records |-> Absent]
NoTimes == [w \in RecordWriters |-> 0]

BackupInit ==
    /\ repo = NoRows /\ twice = {}
    /\ currentLSN = 0 /\ lsn = NoTimes /\ clock = 0 /\ stamp = NoTimes
    /\ archived = 0 /\ walLog = NoTimes
    /\ step = 0 /\ read = {} /\ data = NoRows /\ baseLSN = 0 /\ taken = FALSE
    /\ recovered = FALSE /\ target = 0
    /\ writes = 0 /\ order = NoTimes /\ held = {} /\ overlapped = {}

WritersOf(r) == {w \in RecordWriters : RecordOf[w] = r}
InArchive(w) == walLog[w] # 0

Apply(w) ==
    /\ order[w] = 0 /\ ~recovered
    /\ repo' = [repo EXCEPT ![RecordOf[w]] = w]
    /\ writes' = writes + 1 /\ order' = [order EXCEPT ![w] = writes + 1]
    /\ overlapped' = IF \E v \in WritersOf(RecordOf[w]) : order[v] # 0 /\ ~InArchive(v)
                       THEN overlapped \cup {RecordOf[w]} ELSE overlapped
    /\ UNCHANGED <<twice, wal, base, restore, held>>

\* RecordMutation draws the LSN and then the timestamp, without the manager's lock ...
RecordMutation(w) ==
    /\ order[w] # 0 /\ ~recovered
    /\ \/ /\ lsn[w] = 0
          /\ currentLSN' = currentLSN + 1 /\ lsn' = [lsn EXCEPT ![w] = currentLSN + 1]
          /\ UNCHANGED <<clock, stamp>>
       \/ /\ lsn[w] # 0 /\ stamp[w] = 0
          /\ clock' = clock + 1 /\ stamp' = [stamp EXCEPT ![w] = clock + 1]
          /\ UNCHANGED <<currentLSN, lsn>>
    /\ UNCHANGED <<repositories, archived, walLog, base, restore, written, held>>

\* ... and then waits for it, which a backup in progress holds.
ArchiveWAL(w) ==
    /\ stamp[w] # 0 /\ ~InArchive(w) /\ step = 0 /\ ~recovered
    /\ archived' = archived + 1 /\ walLog' = [walLog EXCEPT ![w] = archived + 1]
    /\ UNCHANGED <<repositories, currentLSN, lsn, clock, stamp, base, restore, written, held>>

BeginBaseBackup ==
    /\ step = 0 /\ ~taken
    /\ step' = 1
    /\ UNCHANGED <<repositories, wal, read, data, baseLSN, taken, restore, written, held>>

\* A table that cannot be read is left out of the backup; of those without records
\* it makes no difference.
SnapshotTable ==
    /\ step \in DOMAIN SnapshotOrder
    /\ step' = step + 1
    /\ \/ /\ read' = read \cup {SnapshotOrder[step]}
          /\ data' = [r \in Records |-> IF TableOf[r] = SnapshotOrder[step] THEN repo[r] ELSE data[r]]
          /\ held' = held \cup {w \in RecordWriters :
                                  order[w] # 0 /\ TableOf[RecordOf[w]] = SnapshotOrder[step]}
       \/ /\ \E r \in Records : TableOf[r] = SnapshotOrder[step]
          /\ UNCHANGED <<read, data, held>>
    /\ UNCHANGED <<repositories, wal, baseLSN, taken, restore, written>>

FinishBaseBackup ==
    /\ step = Len(SnapshotOrder) + 1
    /\ baseLSN' = currentLSN /\ taken' = TRUE /\ step' = 0
    /\ UNCHANGED <<repositories, wal, read, data, restore, written, held>>

\* The repositories whose table the backup has are wiped and filled from it; the
\* others, and the workers', are left as they are.
BaseRow(r) == IF TableOf[r] \in Restored \cap read THEN data[r] ELSE repo[r]

\* Mutant: the record that follows the base is skipped.
Replay_OffByOne(r, time) ==
    {w \in WritersOf(r) : InArchive(w) /\ TableOf[r] \in Replayed
                          /\ lsn[w] > baseLSN + 1 /\ stamp[w] <= time}

\* The mutations of a record that are replayed; replayRecord knows four tables.
Replay(r, time) ==
    {w \in WritersOf(r) : InArchive(w) /\ TableOf[r] \in Replayed
                          /\ lsn[w] > baseLSN /\ stamp[w] <= time}

\* What Create, called for each of them in the order of arrival, leaves of a
\* record: a project that exists is not created again, the others are overwritten.
Recreated(r, time, row) ==
    LET replay == Replay(r, time) IN
      IF replay = {} \/ (TableOf[r] = "projects" /\ BaseRow(r) # Absent) THEN row = BaseRow(r)
      ELSE /\ row \in replay
           /\ \A w \in replay : IF TableOf[r] = "projects" THEN walLog[row] <= walLog[w]
                                                           ELSE walLog[w] <= walLog[row]

\* The replay runs only when a target time is given; 0 stands for none.
Restore(time) ==
    /\ taken /\ ~recovered
    /\ repo' = [r \in Records |-> CHOOSE row \in RecordWriters \cup {Absent} : Recreated(r, time, row)]
    /\ twice' = {r \in Records : TableOf[r] = "events" /\ BaseRow(r) # Absent /\ Replay(r, time) # {}}
    /\ recovered' = TRUE /\ target' = time
    /\ UNCHANGED <<wal, base, written, held>>

BackupNext ==
    \/ \E w \in RecordWriters : Apply(w) \/ RecordMutation(w) \/ ArchiveWAL(w)
    \/ BeginBaseBackup \/ SnapshotTable \/ FinishBaseBackup
    \/ \E time \in 0..clock : Restore(time)

BackupSpec == BackupInit /\ [][BackupNext]_backup

-----------------------------------------------------------------------------
(* Properties                                                               *)

\* The writes a restore should bring back: those the backup read, and those
\* recorded up to the target time.  A write is missed that came after the read of
\* its table and drew its LSN before the base LSN.
Missed(w) == w \notin held /\ lsn[w] <= baseLSN
Due(r) ==
    {w \in WritersOf(r) :
       \/ w \in held
       \/ InArchive(w) /\ stamp[w] <= target /\ TableOf[r] \in Replayed /\ ~Missed(w)}

IsLast(row, ws) ==
    IF ws = {} THEN row = Absent ELSE row \in ws /\ \A w \in ws : order[w] <= order[row]

\* Section 30: after a restore every record of a table the backup could read is as
\* the last of the writes due left it, and what was recorded after the target time
\* and is not in the backup does not come back.  Excepted are records written again
\* before their last mutation was archived: the replay follows the order of arrival.
\* Of a project some version is kept, not always the last; and an event comes back
\* twice only if the backup read it before its mutation was recorded.
PointInTime ==
    recovered =>
      \A r \in Records : TableOf[r] \in Restored \cap read =>
        /\ r \notin overlapped /\ TableOf[r] # "projects" => IsLast(repo[r], Due(r))
        /\ TableOf[r] = "projects" => repo[r] \in IF Due(r) = {} THEN {Absent} ELSE Due(r)
        /\ r \in twice => \E w \in WritersOf(r) : w \in held /\ lsn[w] > baseLSN

=============================================================================
