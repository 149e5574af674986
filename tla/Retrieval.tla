----------------------------- MODULE Retrieval -----------------------------
(***************************************************************************)
(* The document stores behind retrieval: InMemoryRetriever                 *)
(* (retrieval/memory.py) and the pgvector, Chroma, Qdrant and FAISS stores *)
(* (retrieval/vector_stores.py).                                           *)
(*                                                                         *)
(* Ingesting a document cuts it into chunks, awaits their vectors and puts *)
(* them in the place of the chunks the document had.  The in-memory store  *)
(* does the last part under its lock, PostgreSQL in a transaction, FAISS   *)
(* under a lock with two files written after it, and Chroma and Qdrant     *)
(* ("remote") in three calls: list, delete, upsert.  Ingestions, deletions *)
(* and queries overlap.  The in-memory store also has documents given in   *)
(* the configuration, which the first query ingests.                       *)
(*                                                                         *)
(* A chunk is [tenant, doc, index, version]; its text and its vector are   *)
(* what identify it.  Scores and ranking are left out.                     *)
(***************************************************************************)
EXTENDS Integers, FiniteSets

CONSTANTS
  IndexTasks,    \* the numbers of ingestions, deletions and queries, each run once
  Sources,       \* the documents: [tenant, doc, version]
  ChunkCount,    \* [version -> number of chunks its text is cut into]
  Configured,    \* the in-memory store's source_documents, a set of Sources
  Backends,      \* the stores tried, out of "memory", "postgres", "remote", "faiss"
  IndexCrashes   \* bound: times the process dies

ASSUME IndexConstants ==
  /\ Configured \subseteq Sources /\ Backends \subseteq {"memory", "postgres", "remote", "faiss"}
  /\ \A s \in Sources : ChunkCount[s.version] \in Nat \ {0}

VARIABLES
  store,      \* which store it is
  chunks,     \* the chunks stored
  vectors,    \* in memory: [chunk id -> the chunk its vector was made of]
  pendingDocs,\* in memory: _pending
  disk,       \* FAISS: the chunks in the index file, and in the JSON file
  index,      \* FAISS: the chunks in the index
  indexTask,  \* [IndexTasks -> the task]
  removed,    \* not read by the code: <<tenant, doc>> that were deleted
  muddled     \* not read by the code: tasks on a document overlapped in three calls, or a
              \* process died between the two files

retrievalVars == <<store, chunks, vectors, pendingDocs, disk, index, indexTask, removed, muddled>>

-----------------------------------------------------------------------------
Owner(x) == <<x.tenant, x.doc>>

\* The chunker, and the identity it gives a chunk: the tenant is not in it.
Chunked(source) ==
  {[tenant |-> source.tenant, doc |-> source.doc, version |-> source.version, index |-> i] :
     i \in 1..ChunkCount[source.version]}
ChunksOfAll(sources) == UNION {Chunked(s) : s \in sources}
ChunkId(c) == <<c.doc, c.index>>
\* _storage_id, the point id of Qdrant and the primary key of pgvector have the tenant in them.
StorageId(c) == <<c.tenant, c.doc, c.index>>

IdleIndexTask == [at |-> "idle", does |-> "none", docs |-> {}, old |-> {}]

RetrievalInit ==
  /\ store \in Backends
  /\ chunks = {} /\ vectors = {} /\ disk = [index |-> {}, records |-> {}] /\ index = {}
  /\ pendingDocs = IF store = "memory" THEN Configured ELSE {}
  /\ indexTask = [t \in IndexTasks |-> IdleIndexTask]
  /\ removed = {} /\ muddled = FALSE

\* Tasks are numbered in the order they begin.
IndexBegins(t) == indexTask[t].at = "idle" /\ \A u \in IndexTasks : u < t => indexTask[u].at # "idle"
GoOn(t, stage) == indexTask' = [indexTask EXCEPT ![t].at = stage]
EndIndexTask(t) == indexTask' = [indexTask EXCEPT ![t] = [IdleIndexTask EXCEPT !.at = "ended"]]
ActiveTasks == {t \in IndexTasks : indexTask[t].at \notin {"idle", "ended", "died", "cancelled"}}
\* FAISS: the lock is held until both files are written.
IndexLocked == \E t \in IndexTasks : indexTask[t].at \in {"index file", "record file"}

-----------------------------------------------------------------------------
(* Ingestion.                                                              *)

\* The chunks are cut and their vectors awaited; nothing is locked meanwhile.
StartIngest(t) ==
  /\ IndexBegins(t)
  /\ \E s \in Sources :
       /\ indexTask' = [indexTask EXCEPT ![t] = [at |-> "embedding", does |-> "ingest", docs |-> {s}, old |-> {}]]
       /\ muddled' = (muddled \/ (store = "remote" /\ \E u \in ActiveTasks :
                                    \E d \in indexTask[u].docs : Owner(d) = Owner(s)))
  /\ UNCHANGED <<store, chunks, vectors, pendingDocs, disk, index, removed>>

\* An embedder that fails, or answers another number of vectors, ends the ingestion; a query puts
\* the configured documents it had taken back.
BackToPending(t) ==
  IF indexTask[t].does = "query" THEN pendingDocs \cup indexTask[t].docs ELSE pendingDocs

EmbedFails(t) ==
  /\ indexTask[t].at = "embedding"
  /\ pendingDocs' = BackToPending(t)
  /\ EndIndexTask(t)
  /\ UNCHANGED <<store, chunks, vectors, disk, index, removed, muddled>>

\* _ingest_pending catches Exception: a query that is cancelled, or whose run is past its deadline
\* (runtime.py:1045), takes the configured documents it had taken with it.
CancelQuery(t) ==
  /\ indexTask[t].at = "embedding" /\ indexTask[t].does = "query"
  /\ GoOn(t, "cancelled")
  /\ UNCHANGED <<store, chunks, vectors, pendingDocs, disk, index, removed, muddled>>

\* In memory, under the lock: the chunks of the same documents go, by their identities, and the
\* new ones come with their vectors.
Stale(docs) == {ChunkId(c) : c \in {x \in chunks : \E d \in docs : Owner(d) = Owner(x)}}
Without(ids) == {c \in chunks : ChunkId(c) \notin ids}

\* Mutant: only chunks that come again are replaced.
ReplaceSame(docs) == {c \in chunks : ChunkId(c) \notin {ChunkId(x) : x \in ChunksOfAll(docs)}}

Replaced(docs) == Without(Stale(docs))

WriteMemory(t) ==
  LET docs == indexTask[t].docs new == ChunksOfAll(docs) IN
  /\ store = "memory" /\ indexTask[t].at = "embedding"
  /\ chunks' = Replaced(docs) \cup new
  /\ vectors' = {v \in vectors : v.id \notin Stale(docs) \cup {ChunkId(c) : c \in new}}
                \cup {[id |-> ChunkId(c), of |-> c] : c \in new}
  /\ IF indexTask[t].does = "query" THEN GoOn(t, "search") ELSE EndIndexTask(t)
  /\ UNCHANGED <<store, pendingDocs, disk, index, removed, muddled>>

\* pgvector: one transaction deletes the documents' rows and inserts the new ones.
OthersOf(docs) == {c \in chunks : ~\E d \in docs : Owner(d) = Owner(c)}

WritePostgres(t) ==
  /\ store = "postgres" /\ indexTask[t].at = "embedding"
  /\ chunks' = OthersOf(indexTask[t].docs) \cup ChunksOfAll(indexTask[t].docs)
  /\ EndIndexTask(t)
  /\ UNCHANGED <<store, vectors, pendingDocs, disk, index, removed, muddled>>

\* Chroma and Qdrant: the document's ids are listed, deleted, and the new chunks put in.
ListOld(t) ==
  /\ store = "remote" /\ indexTask[t].at \in {"embedding", "listing"}
  /\ indexTask' = [indexTask EXCEPT ![t].at = "removing",
       ![t].old = {StorageId(c) : c \in {x \in chunks : \E d \in indexTask[t].docs : Owner(d) = Owner(x)}}]
  /\ UNCHANGED <<store, chunks, vectors, pendingDocs, disk, index, removed, muddled>>

RemoveOld(t) ==
  /\ indexTask[t].at = "removing"
  /\ chunks' = {c \in chunks : StorageId(c) \notin indexTask[t].old}
  /\ IF indexTask[t].does = "delete" THEN EndIndexTask(t) ELSE GoOn(t, "upsert")
  /\ removed' = IF indexTask[t].does = "delete" THEN removed \cup {Owner(d) : d \in indexTask[t].docs} ELSE removed
  /\ UNCHANGED <<store, vectors, pendingDocs, disk, index, muddled>>

Upsert(t) ==
  LET new == ChunksOfAll(indexTask[t].docs) IN
  /\ indexTask[t].at = "upsert"
  /\ chunks' = {c \in chunks : StorageId(c) \notin {StorageId(x) : x \in new}} \cup new
  /\ EndIndexTask(t)
  /\ UNCHANGED <<store, vectors, pendingDocs, disk, index, removed, muddled>>

\* FAISS: the records are replaced and the index rebuilt without a pause; then the index file and
\* the record file are written.
Rebuild(kept) == kept

WriteFaiss(t) ==
  LET kept == OthersOf(indexTask[t].docs) \cup ChunksOfAll(indexTask[t].docs) IN
  /\ store = "faiss" /\ indexTask[t].at = "embedding" /\ ~IndexLocked
  /\ chunks' = kept
  /\ index' = Rebuild(kept)
  /\ GoOn(t, "index file")
  /\ UNCHANGED <<store, vectors, pendingDocs, disk, removed, muddled>>

PersistIndex(t) ==
  /\ indexTask[t].at = "index file"
  /\ disk' = [disk EXCEPT !.index = index]
  /\ GoOn(t, "record file")
  /\ UNCHANGED <<store, chunks, vectors, pendingDocs, index, removed, muddled>>

PersistRecords(t) ==
  /\ indexTask[t].at = "record file"
  /\ disk' = [disk EXCEPT !.records = chunks]
  /\ EndIndexTask(t)
  /\ UNCHANGED <<store, chunks, vectors, pendingDocs, index, removed, muddled>>

-----------------------------------------------------------------------------
(* Deletion and queries.                                                   *)

\* In memory: the pending documents and the chunks of that tenant's document are selected, and
\* the chunks go by their identities.
DeleteMemory(t, s) ==
  LET ids == {ChunkId(c) : c \in {x \in chunks : Owner(x) = Owner(s)}} IN
  /\ pendingDocs' = {d \in pendingDocs : Owner(d) # Owner(s)}
  /\ chunks' = Without(ids)
  /\ vectors' = {v \in vectors : v.id \notin ids}
  /\ indexTask' = [indexTask EXCEPT ![t] = [IdleIndexTask EXCEPT !.at = "ended"]]
  /\ removed' = removed \cup {Owner(s)}
  /\ UNCHANGED <<disk, index, muddled>>

DeletePostgres(t, s) ==
  /\ chunks' = OthersOf({s})
  /\ indexTask' = [indexTask EXCEPT ![t] = [IdleIndexTask EXCEPT !.at = "ended"]]
  /\ removed' = removed \cup {Owner(s)}
  /\ UNCHANGED <<vectors, pendingDocs, disk, index, muddled>>

DeleteRemote(t, s) ==
  /\ indexTask' = [indexTask EXCEPT ![t] = [at |-> "listing", does |-> "delete", docs |-> {s}, old |-> {}]]
  /\ muddled' = (muddled \/ \E u \in ActiveTasks : \E d \in indexTask[u].docs : Owner(d) = Owner(s))
  /\ UNCHANGED <<chunks, vectors, pendingDocs, disk, index, removed>>

\* FAISS: nothing is rebuilt or written when nothing was removed.
DeleteFaiss(t, s) ==
  LET kept == OthersOf({s}) IN
  /\ ~IndexLocked
  /\ chunks' = kept
  /\ index' = IF kept = chunks THEN index ELSE Rebuild(kept)
  /\ indexTask' = [indexTask EXCEPT ![t] =
                     [at |-> IF kept = chunks THEN "ended" ELSE "index file", does |-> "delete", docs |-> {}, old |-> {}]]
  /\ removed' = removed \cup {Owner(s)}
  /\ UNCHANGED <<vectors, pendingDocs, disk, muddled>>

DeleteDocument(t) ==
  /\ IndexBegins(t)
  /\ \E s \in Sources : \/ store = "memory" /\ DeleteMemory(t, s)
                        \/ store = "postgres" /\ DeletePostgres(t, s)
                        \/ store = "remote" /\ DeleteRemote(t, s)
                        \/ store = "faiss" /\ DeleteFaiss(t, s)
  /\ UNCHANGED store

\* A query of the in-memory store first takes the pending documents, one query at a time, and
\* ingests them.
TakePending(t) ==
  /\ store = "memory" /\ IndexBegins(t)
  /\ ~\E u \in IndexTasks : indexTask[u].at = "embedding" /\ indexTask[u].does = "query"
  /\ indexTask' = [indexTask EXCEPT ![t] = [at |-> IF pendingDocs = {} THEN "search" ELSE "embedding",
                                            does |-> "query", docs |-> pendingDocs, old |-> {}]]
  /\ pendingDocs' = {}
  /\ UNCHANGED <<store, chunks, vectors, disk, index, removed, muddled>>

Search(t) ==
  /\ indexTask[t].at = "search" \/ (store # "memory" /\ IndexBegins(t))
  /\ EndIndexTask(t)
  /\ UNCHANGED <<store, chunks, vectors, pendingDocs, disk, index, removed, muddled>>

\* The process dies and starts again. In memory nothing is left but the configured documents;
\* FAISS reads its two files; the other stores keep what reached them.
IndexRestart ==
  /\ ActiveTasks # {}
  /\ Cardinality({t \in IndexTasks : indexTask[t].at = "died"}) < IndexCrashes
  /\ indexTask' = [t \in IndexTasks |->
                    IF t \in ActiveTasks THEN [IdleIndexTask EXCEPT !.at = "died"]
                    ELSE IF indexTask[t].at = "cancelled" THEN [IdleIndexTask EXCEPT !.at = "ended"] ELSE indexTask[t]]
  /\ chunks' = CASE store = "memory" -> {} [] store = "faiss" -> disk.records [] OTHER -> chunks
  /\ vectors' = {}
  /\ index' = disk.index
  /\ pendingDocs' = IF store = "memory" THEN Configured ELSE {}
  /\ muddled' = (muddled \/ (store = "remote" /\ \E t \in IndexTasks : indexTask[t].at \in {"removing", "upsert"})
                         \/ \E t \in IndexTasks : indexTask[t].at = "record file")
  /\ removed' = IF store = "memory" THEN {} ELSE removed
  /\ UNCHANGED <<store, disk>>

RetrievalNext ==
  \/ \E t \in IndexTasks : \/ StartIngest(t) \/ EmbedFails(t) \/ CancelQuery(t)
                           \/ WriteMemory(t) \/ WritePostgres(t)
                           \/ ListOld(t) \/ RemoveOld(t) \/ Upsert(t)
                           \/ WriteFaiss(t) \/ PersistIndex(t) \/ PersistRecords(t)
                           \/ DeleteDocument(t) \/ TakePending(t) \/ Search(t)
  \/ IndexRestart

RetrievalSpec == RetrievalInit /\ [][RetrievalNext]_retrievalVars

-----------------------------------------------------------------------------
\* The types of the stores and the tasks.
RetrievalTypeOK ==
  /\ store \in Backends
  /\ chunks \subseteq ChunksOfAll(Sources) /\ index \subseteq ChunksOfAll(Sources)
  /\ pendingDocs \subseteq Configured
  /\ \A t \in IndexTasks : indexTask[t].docs \subseteq Sources
  /\ \A v \in vectors : v.of \in ChunksOfAll(Sources)

\* What a store holds of a document is one version of it, whole, whatever ingestions, deletions
\* and restarts overlap; in the stores that take three calls, once the calls of one task are done
\* and when no other task was at the same document.
VersionsWhole ==
  store # "remote" \/ (~muddled /\ ActiveTasks = {}) =>
    \A c \in chunks :
      {x \in chunks : Owner(x) = Owner(c)} = Chunked([tenant |-> c.tenant, doc |-> c.doc, version |-> c.version])

\* In memory, each ingested chunk is scored by the vector of its own text, however replacements
\* and deletions overlap (ingest and delete keep _documents and _vectors together).
VectorsMatch ==
  store = "memory" => vectors = {[id |-> ChunkId(c), of |-> c] : c \in chunks}

\* A configured document is never lost by a failed or an overlapping query, only with a cancelled one: it is
\* pending, in the hands of a query, or was when the query was cancelled, in the store (perhaps in a newer
\* version) or was deleted (_ingest_pending).
ConfiguredKept ==
  store = "memory" =>
    \A s \in Configured : \/ s \in pendingDocs
                          \/ \E t \in IndexTasks : /\ indexTask[t].at \in {"embedding", "cancelled"}
                                                   /\ indexTask[t].does = "query" /\ s \in indexTask[t].docs
                          \/ \E c \in chunks : Owner(c) = Owner(s)
                          \/ Owner(s) \in removed

\* FAISS answers with the record of the vector it found: the index and the records agree at every
\* pause, and after a restart unless the process died between the two files.
IndexAligned == store = "faiss" /\ ~muddled => index = chunks

\* docs/rag.md:118: "Tenant deletion only removes chunks owned by that tenant."
OnlyOwnRemoved ==
  [][\A t \in IndexTasks, s \in Sources :
       store = "memory" /\ DeleteMemory(t, s) /\ indexTask[t].at = "idle" =>
         \A c \in chunks \ chunks' : c.tenant = s.tenant]_retrievalVars

\* A store holds whole documents with their own vectors and loses none it was configured with, but in a
\* cancelled query, whatever ingestions, deletions, queries and restarts overlap.
RetrievalSafe == RetrievalTypeOK /\ VersionsWhole /\ VectorsMatch /\ ConfiguredKept /\ IndexAligned
=============================================================================
