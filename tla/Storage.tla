------------------------------ MODULE Storage ------------------------------
(***************************************************************************)
(* What the stores on shared servers do in more than one step:             *)
(*                                                                         *)
(*   - artifacts in S3 with their rows in PostgreSQL (persistence/s3.py),  *)
(*     and the scans that decide whether an artifact may be used           *)
(*     (artifacts/service.py);                                             *)
(*   - the session memory in Redis, whose scripts count what each tenant   *)
(*     uses (persistence/redis.py);                                        *)
(*   - the migrations that several replicas run when they start            *)
(*     (persistence/postgres.py).                                          *)
(*                                                                         *)
(* A put uploads the object, then inserts the row; a deletion removes the  *)
(* object, then the row.  Any task may stop between two of its steps.      *)
(* The bytes, checksums and encryption of an object are left out.          *)
(***************************************************************************)
EXTENDS Integers, Sequences, FiniteSets

CONSTANTS
  FileTasks,      \* numbers of puts, scans and deletions, each run once
  FileIds,
  FileQuota,      \* the tenant's limit of artifacts
  FileCrashes,    \* bound: tasks that die
  RedisSessions,  \* the sessions of one tenant
  RedisTtl,
  ItemLimit,      \* the tenant's limit of remembered messages
  TrimBatch,      \* expired sessions a script subtracts (256)
  RedisUntil,     \* bound: the clock
  Replicas,
  FilesOf         \* [Replicas -> how many migration files its release has]

ASSUME StorageConstants ==
  /\ FileIds # {} /\ FileQuota > 0 /\ IsFiniteSet(RedisSessions)
  /\ RedisTtl \in Nat \ {0} /\ TrimBatch \in Nat \ {0} /\ ItemLimit \in Nat \ {0}
  /\ \A r \in Replicas : FilesOf[r] \in Nat \ {0}

VARIABLES
  objects,     \* the ids that have an object in the bucket
  fileRows,    \* [FileIds -> the row], status "absent": none
  evidence,    \* the audit log: <<id, outcome>>
  fileTask,    \* [FileTasks -> the task]
  doubtful,    \* not read by the code: ids of which an answer was lost or a deletion began
  redisClock,
  lists,       \* [RedisSessions -> the session's list: items, and when it expires]
  sizes,       \* [RedisSessions -> items counted], the sizes hash
  scores,      \* [RedisSessions -> expiry in the sorted set; 0: not in it]
  usage,       \* the usage hash
  replica,     \* [Replicas -> where its start is, the migrations it read as applied]
  applied,     \* the migrations table
  executed     \* the migrations executed, in order

fileVars == <<objects, fileRows, evidence, fileTask, doubtful>>
redisVars == <<redisClock, lists, sizes, scores, usage>>
migrationVars == <<replica, applied, executed>>
storageVars == <<fileVars, redisVars, migrationVars>>

-----------------------------------------------------------------------------
NoRow == [status |-> "absent", expired |-> FALSE, first |-> "absent"]
NoFileTask == [at |-> "idle", id |-> CHOOSE i \in FileIds : TRUE, result |-> "none"]

StorageInit ==
  /\ objects = {} /\ fileRows = [i \in FileIds |-> NoRow] /\ evidence = {}
  /\ fileTask = [t \in FileTasks |-> NoFileTask] /\ doubtful = {}
  /\ redisClock = 1
  /\ lists = [s \in RedisSessions |-> [items |-> 0, expires |-> 0]]
  /\ sizes = [s \in RedisSessions |-> 0] /\ scores = [s \in RedisSessions |-> 0] /\ usage = 0
  /\ replica = [r \in Replicas |-> [at |-> "down", read |-> {}]]
  /\ applied = {} /\ executed = <<>>

Stored(id) == fileRows[id].status # "absent"
Usable(id) == Stored(id) /\ ~fileRows[id].expired
StoredIds == {i \in FileIds : Stored(i)}
\* Tasks are numbered in the order they begin.
FileBegins(t) == fileTask[t].at = "idle" /\ \A u \in FileTasks : u < t => fileTask[u].at # "idle"
FileAt(t, stage) == fileTask' = [fileTask EXCEPT ![t].at = stage]
FileEnds(t) == fileTask' = [fileTask EXCEPT ![t] = [NoFileTask EXCEPT !.at = "ended"]]

-----------------------------------------------------------------------------
(* Artifacts.                                                              *)

\* put: the quota is looked at before the upload.
StartPut(t) ==
  /\ FileBegins(t)
  /\ \E id \in FileIds :
       fileTask' = [fileTask EXCEPT ![t] =
         [NoFileTask EXCEPT !.id = id, !.at = IF Cardinality(StoredIds) < FileQuota THEN "upload" ELSE "ended"]]
  /\ UNCHANGED <<objects, fileRows, evidence, doubtful>>

\* IfNoneMatch: an object that is there refuses the upload, and stays.
MayUpload(id) == id \notin objects

\* An upload that fails may have reached the bucket; nothing cleans up after it.
Upload(t) ==
  LET id == fileTask[t].id IN
  /\ fileTask[t].at = "upload"
  /\ \/ /\ MayUpload(id)
        /\ objects' = objects \cup {id}
        /\ FileAt(t, "insert") \/ FileEnds(t)
     \/ FileEnds(t) /\ UNCHANGED objects
  /\ UNCHANGED <<fileRows, evidence, doubtful>>

\* postgres_quota_write: under the tenant's lock the quota is checked again and the row inserted;
\* its id is the primary key. The answer of a commit may be lost.
InsertRow(t) ==
  LET id == fileTask[t].id
      fits == ~Stored(id) /\ Cardinality(StoredIds) < FileQuota
  IN /\ fileTask[t].at = "insert"
     /\ \/ /\ fits
           /\ \E status \in {"pending_scan", "available"} :
                fileRows' = [fileRows EXCEPT ![id] = [status |-> status, expired |-> FALSE, first |-> status]]
           /\ \/ FileEnds(t) /\ UNCHANGED doubtful
              \/ FileAt(t, "undo") /\ doubtful' = doubtful \cup {id}
        \/ FileAt(t, "undo") /\ UNCHANGED <<fileRows, doubtful>>
     /\ UNCHANGED <<objects, evidence>>

\* Any failure of the insert takes the object away again.
UndoUpload(t) ==
  /\ fileTask[t].at = "undo"
  /\ objects' = objects \ {fileTask[t].id}
  /\ FileEnds(t)
  /\ UNCHANGED <<fileRows, evidence, doubtful>>

\* scan: the artifact must be waiting for one; its object is read and given to the scanner.
StartFileScan(t) ==
  /\ FileBegins(t)
  /\ \E id \in FileIds :
       /\ Usable(id)
       /\ fileTask' = [fileTask EXCEPT ![t] =
            [NoFileTask EXCEPT !.id = id,
               !.at = IF fileRows[id].status = "pending_scan" /\ id \in objects THEN "scanning" ELSE "ended"]]
  /\ UNCHANGED <<objects, fileRows, evidence, doubtful>>

ScanAnswers(t) ==
  /\ fileTask[t].at = "scanning"
  /\ \E outcome \in {"available", "quarantined"} :
       fileTask' = [fileTask EXCEPT ![t].at = "evidence", ![t].result = outcome]
  /\ UNCHANGED <<objects, fileRows, evidence, doubtful>>

\* The evidence is durable before the result is published.
AppendEvidence(t) ==
  /\ fileTask[t].at = "evidence"
  /\ evidence' = evidence \cup {<<fileTask[t].id, fileTask[t].result>>}
  /\ FileAt(t, "publish")
  /\ UNCHANGED <<objects, fileRows, doubtful>>

\* Mutant: whatever the status is by now.
StillUsable(id) == Usable(id)

\* set_status with expected_status: only while the artifact still waits.
StillPending(id) == Usable(id) /\ fileRows[id].status = "pending_scan"

Publish(t) ==
  LET id == fileTask[t].id IN
  /\ fileTask[t].at = "publish"
  /\ IF StillPending(id)
     THEN fileRows' = [fileRows EXCEPT ![id].status = fileTask[t].result] /\ UNCHANGED evidence
     ELSE evidence' = evidence \cup {<<id, "discarded">>} /\ UNCHANGED fileRows
  /\ FileEnds(t)
  /\ UNCHANGED <<objects, doubtful>>

\* delete, by a caller or by the purge of expired artifacts.
StartDelete(t) ==
  /\ FileBegins(t)
  /\ \E id \in StoredIds : fileTask' = [fileTask EXCEPT ![t] = [NoFileTask EXCEPT !.id = id, !.at = "remove"]]
  /\ UNCHANGED <<objects, fileRows, evidence, doubtful>>

RemoveObject(t) ==
  /\ fileTask[t].at = "remove"
  /\ objects' = objects \ {fileTask[t].id}
  /\ doubtful' = doubtful \cup {fileTask[t].id}
  /\ FileAt(t, "unlink")
  /\ UNCHANGED <<fileRows, evidence>>

RemoveRow(t) ==
  /\ fileTask[t].at = "unlink"
  /\ fileRows' = [fileRows EXCEPT ![fileTask[t].id] = NoRow]
  /\ FileEnds(t)
  /\ UNCHANGED <<objects, evidence, doubtful>>

FileExpires ==
  /\ \E id \in StoredIds : fileRows' = [fileRows EXCEPT ![id].expired = TRUE]
  /\ UNCHANGED <<objects, evidence, fileTask, doubtful>>

\* A task is cancelled or dies with its process: no handler runs.
FileCrash(t) ==
  /\ fileTask[t].at \notin {"idle", "ended", "died"}
  /\ Cardinality({u \in FileTasks : fileTask[u].at = "died"}) < FileCrashes
  /\ fileTask' = [fileTask EXCEPT ![t] = [NoFileTask EXCEPT !.at = "died"]]
  /\ UNCHANGED <<objects, fileRows, evidence, doubtful>>

ArtifactNext ==
  /\ \/ \E t \in FileTasks : \/ StartPut(t) \/ Upload(t) \/ InsertRow(t) \/ UndoUpload(t)
                             \/ StartFileScan(t) \/ ScanAnswers(t) \/ AppendEvidence(t) \/ Publish(t)
                             \/ StartDelete(t) \/ RemoveObject(t) \/ RemoveRow(t) \/ FileCrash(t)
     \/ FileExpires
  /\ UNCHANGED <<redisVars, migrationVars>>

-----------------------------------------------------------------------------
(* Session memory in Redis. A script runs alone; a list is gone once its   *)
(* time has come.                                                          *)

Remaining(s) == IF lists[s].expires > redisClock THEN lists[s].items ELSE 0

\* The expired sessions a script subtracts first: the TrimBatch with the lowest scores.
Trims ==
  LET due == {s \in RedisSessions : scores[s] > 0 /\ scores[s] <= redisClock} IN
  {g \in SUBSET due : /\ Cardinality(g) = TrimBatch \/ (g = due /\ Cardinality(due) < TrimBatch)
                      /\ \A a \in g, b \in due \ g : scores[a] <= scores[b]}

Trimmed(f, gone) == [s \in RedisSessions |-> IF s \in gone THEN 0 ELSE f[s]]
\* The items counted for some sessions, as many as their sizes sum up to.
ItemsOf(group) == UNION {{<<s, i>> : i \in 1..sizes[s]} : s \in group}
Counting(gone) == usage - Cardinality(ItemsOf(gone))

\* The script of append. n = 0 is how the usage is read: it trims, and writes nothing.
AppendScript(s, n) ==
  \E gone \in Trims :
    IF n = 0 \/ Counting(gone) + n > ItemLimit
    THEN /\ usage' = Counting(gone)
         /\ sizes' = Trimmed(sizes, gone) /\ scores' = Trimmed(scores, gone)
         /\ UNCHANGED lists
    ELSE /\ usage' = Counting(gone) + n
         /\ sizes' = [Trimmed(sizes, gone) EXCEPT ![s] = @ + n]
         /\ scores' = [Trimmed(scores, gone) EXCEPT ![s] = redisClock + RedisTtl]
         /\ lists' = [lists EXCEPT ![s] = [items |-> Remaining(s) + n, expires |-> redisClock + RedisTtl]]

DeleteScript(s) ==
  /\ usage' = usage - sizes[s]
  /\ sizes' = Trimmed(sizes, {s}) /\ scores' = Trimmed(scores, {s})
  /\ lists' = [lists EXCEPT ![s] = [items |-> 0, expires |-> 0]]

RedisNext ==
  /\ \/ /\ \E s \in RedisSessions : (\E n \in 0..2 : AppendScript(s, n)) \/ DeleteScript(s)
        /\ UNCHANGED redisClock
     \/ /\ redisClock < RedisUntil
        /\ redisClock' = redisClock + 1
        /\ UNCHANGED <<lists, sizes, scores, usage>>
  /\ UNCHANGED <<fileVars, migrationVars>>

-----------------------------------------------------------------------------
(* Migrations.                                                             *)

ReplicaAt(r, stage) == replica' = [replica EXCEPT ![r].at = stage]

\* pg_advisory_lock: one replica at a time, until it unlocks or its connection ends.
LockFree(r) == \A q \in Replicas : replica[q].at \notin {"reading", "migrating"}

StartPool(r) ==
  /\ replica[r].at = "down"
  /\ LockFree(r)
  /\ ReplicaAt(r, "reading")
  /\ UNCHANGED <<applied, executed>>

ReadApplied(r) ==
  /\ replica[r].at = "reading"
  /\ replica' = [replica EXCEPT ![r] = [at |-> "migrating", read |-> applied]]
  /\ UNCHANGED <<applied, executed>>

\* The file's row is written in the transaction that runs it.
Recorded(r, m) == applied \cup {m}

\* The files in order; a file whose row is there already would fail its transaction.
Migrate(r) ==
  LET left == {m \in 1..FilesOf[r] : m \notin replica[r].read} IN
  /\ replica[r].at = "migrating"
  /\ \/ \E m \in left \ applied :
          /\ \A k \in left : m <= k
          /\ executed' = Append(executed, m)
          /\ applied' = Recorded(r, m)
          /\ replica' = [replica EXCEPT ![r].read = @ \cup {m}]
     \/ left = {} /\ ReplicaAt(r, "ready") /\ UNCHANGED <<applied, executed>>

\* The server or the process is lost: the pool is closed and the lock is gone.
ReplicaFails(r) ==
  /\ replica[r].at \in {"reading", "migrating", "ready"}
  /\ replica' = [replica EXCEPT ![r] = [at |-> "down", read |-> {}]]
  /\ UNCHANGED <<applied, executed>>

MigrationNext ==
  /\ \E r \in Replicas : StartPool(r) \/ ReadApplied(r) \/ Migrate(r) \/ ReplicaFails(r)
  /\ UNCHANGED <<fileVars, redisVars>>

StorageNext == ArtifactNext \/ RedisNext \/ MigrationNext

StorageSpec == StorageInit /\ [][StorageNext]_storageVars

-----------------------------------------------------------------------------
\* The types of the three parts.
StorageTypeOK ==
  /\ objects \subseteq FileIds /\ doubtful \subseteq FileIds
  /\ \A i \in FileIds : fileRows[i].status \in {"absent", "pending_scan", "available", "quarantined"}
  /\ \A s \in RedisSessions : lists[s].items \in Nat /\ sizes[s] \in Nat
  /\ usage \in Int
  /\ \A r \in Replicas : replica[r].at \in {"down", "reading", "migrating", "ready"}

\* A row has its object, whatever puts of the same id, quota refusals, failing inserts, scans and
\* dying tasks overlap, until a deletion of it begins or the answer of its commit is lost (put:
\* the clean-up after a failed insert only removes what this put uploaded).
RowsHaveObjects == \A id \in FileIds : Stored(id) /\ id \notin doubtful => id \in objects

\* An artifact is made available, or quarantined, only by a scan whose evidence of that very
\* outcome is recorded, wherever a scan dies (ArtifactLifecycleService.scan).
EvidenceFirst ==
  \A id \in FileIds : fileRows[id].status # fileRows[id].first => <<id, fileRows[id].status>> \in evidence

\* Of overlapping scans one decides: what was decided is never decided again.
ScanStands ==
  \A id \in FileIds : fileRows[id].status \in {"available", "quarantined"} =>
    fileRows'[id].status \in {fileRows[id].status, "absent"}

\* What Redis holds for a tenant is within its limit, in whatever order sessions grow, expire, are
\* trimmed, come back or are deleted: every list is counted, and the count is the sum of the sizes.
MemoryCounted ==
  /\ usage = Cardinality(ItemsOf(RedisSessions))
  /\ usage <= ItemLimit
  /\ \A s \in RedisSessions : Remaining(s) <= sizes[s]

\* Replicas of different releases that start, fail and die together execute every migration once
\* and in order, and a replica is ready only when its release's migrations are all applied.
MigrationsOnce ==
  /\ \A i \in DOMAIN executed : executed[i] = i
  /\ \A r \in Replicas : replica[r].at = "ready" => 1..FilesOf[r] \subseteq applied

\* Stores that need several steps stay consistent between them: rows have objects, decisions have
\* evidence and stand, memory is counted, and migrations run once.
StorageSafe ==
    /\ [](StorageTypeOK /\ RowsHaveObjects /\ EvidenceFirst /\ MemoryCounted /\ MigrationsOnce)
    /\ [][ScanStands]_storageVars
=============================================================================
