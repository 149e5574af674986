----------------------------- MODULE DataProofs -----------------------------
(***************************************************************************)
(* What is proved of the data an agent works with: retrieval, for every    *)
(* set of sources, backends and index tasks; stored files and records, for *)
(* every number of uploads, sweeps and crashes; and analytics, for every   *)
(* graph, query and policy that the configuration accepts.                 *)
(***************************************************************************)
EXTENDS Analytics, Retrieval, Storage, FiniteSetTheorems, TLAPS

-----------------------------------------------------------------------------
(* Retrieval.                                                              *)

\* Where chunks are found by identities that do not name the tenant, a document of the configuration or of an
\* ingestion must not share its id with another: the run retrieval_tenants shows what happens otherwise.
UniqueDocuments ==
  /\ \A a, b \in Sources : a.doc = b.doc => a.tenant = b.tenant
  /\ \A a, b \in Configured : Owner(a) = Owner(b) => a = b

OnePerOwner(docs) == \A a, b \in docs : Owner(a) = Owner(b) => a = b
HasOwner(docs, c) == \E d \in docs : Owner(d) = Owner(c)
WholeSet(held) ==
  \A c \in held : {x \in held : Owner(x) = Owner(c)} = Chunked([tenant |-> c.tenant, doc |-> c.doc, version |-> c.version])

TaskOk(r) ==
  /\ DOMAIN r = DOMAIN IdleIndexTask /\ r.docs \subseteq Sources /\ OnePerOwner(r.docs)
  /\ r.does = "query" => r.docs \subseteq Configured
  /\ r.at \in {"listing", "removing", "upsert"} => store = "remote"
  /\ r.at \in {"index file", "record file"} => store = "faiss"
IndexTypes ==
  /\ store \in Backends /\ muddled \in BOOLEAN
  /\ chunks \subseteq ChunksOfAll(Sources) /\ index \subseteq ChunksOfAll(Sources)
  /\ disk.index \subseteq ChunksOfAll(Sources) /\ disk.records \subseteq ChunksOfAll(Sources)
  /\ \A v \in vectors : v.of \in ChunksOfAll(Sources)
  /\ DOMAIN disk = {"index", "records"}
  /\ pendingDocs \subseteq Configured /\ DOMAIN indexTask = IndexTasks
  /\ \A t \in IndexTasks : TaskOk(indexTask[t])

\* Every version a store holds is whole, but for calls that overlapped; the FAISS files are read again.
WholeInv ==
  /\ (store = "remote" /\ muddled) \/ WholeSet(chunks)
  /\ store = "faiss" => WholeSet(disk.records)

\* A configured document is pending, with the query that took it (and was perhaps cancelled), in the store or deleted.
KeptInv ==
  store = "memory" =>
    \A s \in Configured : \/ s \in pendingDocs
                          \/ \E t \in IndexTasks : indexTask[t].at \in {"embedding", "cancelled"} /\ indexTask[t].does = "query"
                                                   /\ s \in indexTask[t].docs
                          \/ \E c \in chunks : Owner(c) = Owner(s)
                          \/ Owner(s) \in removed

\* One task at a time writes the two files of FAISS; between them only the record file is old.
FaissInv ==
  store = "faiss" =>
    /\ \A t, u \in IndexTasks :
         indexTask[t].at \in {"index file", "record file"} /\ indexTask[u].at \in {"index file", "record file"} => t = u
    /\ \A t \in IndexTasks : indexTask[t].at = "record file" => disk.index = index
    /\ ~muddled => /\ index = chunks
                   /\ \/ disk.index = disk.records
                      \/ \E t \in IndexTasks : indexTask[t].at = "record file"

\* In three calls: tasks that have not overlapped are at different documents, what is to be removed is what the
\* store has of them, and before the new chunks come it has none.
ApartInv ==
  store = "remote" /\ ~muddled =>
    /\ \A t, u \in ActiveTasks : \A d \in indexTask[t].docs, e \in indexTask[u].docs : Owner(d) = Owner(e) => t = u
    /\ \A t \in IndexTasks :
         /\ indexTask[t].at = "removing" =>
              indexTask[t].old = {StorageId(c) : c \in {x \in chunks : HasOwner(indexTask[t].docs, x)}}
         /\ indexTask[t].at = "upsert" => ~\E c \in chunks : HasOwner(indexTask[t].docs, c)

RetrievalInv == IndexTypes /\ WholeInv /\ VectorsMatch /\ KeptInv /\ FaissInv /\ ApartInv

\* A chunk has its document's owner and version.
LEMMA ChunkOf ==
  ASSUME NEW s, NEW c \in Chunked(s)
  PROVE  /\ c.tenant = s.tenant /\ c.doc = s.doc /\ c.version = s.version /\ Owner(c) = Owner(s)
         /\ Chunked([tenant |-> c.tenant, doc |-> c.doc, version |-> c.version]) = Chunked(s)
<1>1. PICK i \in 1..ChunkCount[s.version] :
        c = [tenant |-> s.tenant, doc |-> s.doc, version |-> s.version, index |-> i]
  BY DEF Chunked
<1>2. c.tenant = s.tenant /\ c.doc = s.doc /\ c.version = s.version BY <1>1
<1>3. Chunked([tenant |-> s.tenant, doc |-> s.doc, version |-> s.version]) = Chunked(s) BY DEF Chunked
<1> QED BY <1>2, <1>3 DEF Owner

LEMMA SourceOf == ASSUME NEW docs, NEW c \in ChunksOfAll(docs) PROVE \E s \in docs : c \in Chunked(s)
BY DEF ChunksOfAll

LEMMA HasChunk == ASSUME NEW s \in Sources PROVE \E c \in Chunked(s) : Owner(c) = Owner(s)
<1>1. 1 \in 1..ChunkCount[s.version] BY IndexConstants
<1>2. [tenant |-> s.tenant, doc |-> s.doc, version |-> s.version, index |-> 1] \in Chunked(s) BY <1>1 DEF Chunked
<1> QED BY <1>2, ChunkOf

LEMMA ChunksBelong ==
  ASSUME NEW docs, docs \subseteq Sources
  PROVE  ChunksOfAll(docs) \subseteq ChunksOfAll(Sources)
BY DEF ChunksOfAll

\* What is left of a store when documents go is whole.
LEMMA WholeRest ==
  ASSUME NEW held, NEW docs, WholeSet(held)
  PROVE  WholeSet({c \in held : ~HasOwner(docs, c)})
<1> DEFINE rest == {c \in held : ~HasOwner(docs, c)}
<1> SUFFICES ASSUME NEW c \in rest
             PROVE  {x \in rest : Owner(x) = Owner(c)} = Chunked([tenant |-> c.tenant, doc |-> c.doc, version |-> c.version])
  BY DEF WholeSet
<1>1. {x \in held : Owner(x) = Owner(c)} = Chunked([tenant |-> c.tenant, doc |-> c.doc, version |-> c.version])
  BY DEF WholeSet
<1>2. {x \in rest : Owner(x) = Owner(c)} = {x \in held : Owner(x) = Owner(c)} BY DEF HasOwner
<1> QED BY <1>1, <1>2

\* And it stays whole when those documents come again.
LEMMA WholeWritten ==
  ASSUME NEW held, NEW docs, WholeSet(held), OnePerOwner(docs)
  PROVE  WholeSet({c \in held : ~HasOwner(docs, c)} \cup ChunksOfAll(docs))
<1> DEFINE rest == {c \in held : ~HasOwner(docs, c)}
           all == rest \cup ChunksOfAll(docs)
<1> SUFFICES ASSUME NEW c \in all
             PROVE  {x \in all : Owner(x) = Owner(c)} = Chunked([tenant |-> c.tenant, doc |-> c.doc, version |-> c.version])
  BY DEF WholeSet
<1>1. ASSUME NEW x \in ChunksOfAll(docs) PROVE HasOwner(docs, x)
  <2>1. PICK s \in docs : x \in Chunked(s) BY SourceOf
  <2> QED BY <2>1, ChunkOf DEF HasOwner
<1>2. CASE c \in rest
  <2>1. {x \in rest : Owner(x) = Owner(c)} = Chunked([tenant |-> c.tenant, doc |-> c.doc, version |-> c.version])
    BY <1>2, WholeRest DEF WholeSet
  <2>2. {x \in all : Owner(x) = Owner(c)} = {x \in rest : Owner(x) = Owner(c)} BY <1>1, <1>2 DEF HasOwner
  <2> QED BY <2>1, <2>2
<1>3. CASE c \in ChunksOfAll(docs)
  <2>1. PICK s \in docs : c \in Chunked(s) BY <1>3, SourceOf
  <2>2. Owner(c) = Owner(s)
        /\ Chunked([tenant |-> c.tenant, doc |-> c.doc, version |-> c.version]) = Chunked(s)
    BY <2>1, ChunkOf
  <2>3. ASSUME NEW x \in all, Owner(x) = Owner(c) PROVE x \in Chunked(s)
    <3>1. x \in ChunksOfAll(docs) BY <2>1, <2>2, <2>3 DEF HasOwner
    <3>2. PICK d \in docs : x \in Chunked(d) BY <3>1, SourceOf
    <3>3. Owner(d) = Owner(s) BY <2>2, <2>3, <3>2, ChunkOf
    <3> QED BY <3>2, <3>3 DEF OnePerOwner
  <2>4. ASSUME NEW x \in Chunked(s) PROVE x \in all /\ Owner(x) = Owner(c)
    BY <2>1, <2>2, ChunkOf DEF ChunksOfAll
  <2> QED BY <2>2, <2>3, <2>4
<1> QED BY <1>2, <1>3

\* Where ids are unique, a chunk's identity tells its document.
LEMMA IdentityTells ==
  ASSUME UniqueDocuments, NEW c \in ChunksOfAll(Sources), NEW x \in ChunksOfAll(Sources), ChunkId(c) = ChunkId(x)
  PROVE  Owner(c) = Owner(x)
<1>1. PICK a \in Sources : c \in Chunked(a) BY SourceOf
<1>2. PICK b \in Sources : x \in Chunked(b) BY SourceOf
<1>3. c.doc = x.doc BY DEF ChunkId
<1>4. c.doc = a.doc /\ x.doc = b.doc /\ c.tenant = a.tenant /\ x.tenant = b.tenant BY <1>1, <1>2, ChunkOf
<1>5. a.tenant = b.tenant BY <1>3, <1>4 DEF UniqueDocuments
<1> QED BY <1>3, <1>4, <1>5 DEF Owner

\* So chunks that go by their identities are those of the documents.
LEMMA ByIdentity ==
  ASSUME IndexTypes, UniqueDocuments, NEW docs
  PROVE  /\ \A c \in chunks : ChunkId(c) \in Stale(docs) <=> HasOwner(docs, c)
         /\ Without(Stale(docs)) = OthersOf(docs)
<1>1. \A c \in chunks : ChunkId(c) \in Stale(docs) <=> \E d \in docs : Owner(d) = Owner(c)
  BY IdentityTells DEF Stale, IndexTypes
<1> QED BY <1>1 DEF Without, OthersOf, HasOwner

LEMMA OthersAre == \A docs : OthersOf(docs) = {c \in chunks : ~HasOwner(docs, c)}
BY DEF OthersOf, HasOwner

\* A task that is set: the others stay, and the types hold when its own do.
LEMMA TaskSet ==
  ASSUME IndexTypes, NEW t \in IndexTasks, NEW r, indexTask' = [indexTask EXCEPT ![t] = r]
  PROVE  /\ DOMAIN indexTask' = IndexTasks /\ indexTask'[t] = r
         /\ \A u \in IndexTasks \ {t} : indexTask'[u] = indexTask[u]
BY DEF IndexTypes

LEMMA IndexTaskGoes ==
  ASSUME IndexTypes, NEW t \in IndexTasks, NEW next, GoOn(t, next)
  PROVE  /\ DOMAIN indexTask' = IndexTasks /\ DOMAIN indexTask'[t] = DOMAIN IdleIndexTask
         /\ indexTask'[t].at = next /\ indexTask'[t].does = indexTask[t].does
         /\ indexTask'[t].docs = indexTask[t].docs /\ indexTask'[t].old = indexTask[t].old
         /\ \A u \in IndexTasks \ {t} : indexTask'[u] = indexTask[u]
BY DEF IndexTypes, TaskOk, GoOn, IdleIndexTask

LEMMA IndexTaskEnds ==
  ASSUME IndexTypes, NEW t \in IndexTasks, EndIndexTask(t)
  PROVE  /\ DOMAIN indexTask' = IndexTasks /\ DOMAIN indexTask'[t] = DOMAIN IdleIndexTask
         /\ indexTask'[t].at = "ended" /\ indexTask'[t].does = "none" /\ indexTask'[t].docs = {}
         /\ \A u \in IndexTasks \ {t} : indexTask'[u] = indexTask[u]
BY DEF IndexTypes, EndIndexTask, IdleIndexTask

\* Steps that leave what is stored as it is: only the task, the documents waiting and the muddle are told.
LEMMA NothingStored ==
  ASSUME RetrievalInv, UNCHANGED <<store, chunks, vectors, disk, index>>, NEW t \in IndexTasks,
         DOMAIN indexTask' = IndexTasks, \A u \in IndexTasks \ {t} : indexTask'[u] = indexTask[u],
         TaskOk(indexTask'[t]), muddled' \in {muddled, TRUE}, pendingDocs' \subseteq Configured,
         indexTask[t].at \notin {"index file", "record file"}, indexTask'[t].at \notin {"index file", "record file"}
  PROVE  IndexTypes' /\ WholeInv' /\ VectorsMatch' /\ FaissInv'
<1>1. \A r : TaskOk(r)' <=> TaskOk(r) BY DEF TaskOk
<1>2. \A u \in IndexTasks : TaskOk(indexTask'[u]) BY DEF RetrievalInv, IndexTypes
<1>3. IndexTypes' BY <1>1, <1>2 DEF RetrievalInv, IndexTypes, TaskOk
<1>4. WholeInv' BY DEF RetrievalInv, IndexTypes, WholeInv, WholeSet
<1>5. VectorsMatch' BY DEF RetrievalInv, VectorsMatch
<1>6. FaissInv' BY DEF RetrievalInv, IndexTypes, FaissInv
<1> QED BY <1>3, <1>4, <1>5, <1>6

LEMMA StartIngestKeeps == ASSUME RetrievalInv, NEW t \in IndexTasks, StartIngest(t) PROVE RetrievalInv'
<1>1. IndexTypes BY DEF RetrievalInv
<1>2. PICK s \in Sources :
        /\ indexTask' = [indexTask EXCEPT ![t] = [at |-> "embedding", does |-> "ingest", docs |-> {s}, old |-> {}]]
        /\ muddled' = (muddled \/ (store = "remote" /\ \E u \in ActiveTasks :
                                     \E d \in indexTask[u].docs : Owner(d) = Owner(s)))
  BY DEF StartIngest
<1>3. indexTask[t].at = "idle" /\ UNCHANGED <<store, chunks, vectors, pendingDocs, disk, index, removed>>
  BY DEF StartIngest, IndexBegins
<1>4. /\ DOMAIN indexTask' = IndexTasks /\ \A u \in IndexTasks \ {t} : indexTask'[u] = indexTask[u]
      /\ indexTask'[t] = [at |-> "embedding", does |-> "ingest", docs |-> {s}, old |-> {}]
  BY <1>1, <1>2, TaskSet
<1>5. TaskOk(indexTask'[t]) BY <1>4 DEF TaskOk, IdleIndexTask, OnePerOwner
<1>6. muddled' \in {muddled, TRUE} /\ pendingDocs' \subseteq Configured BY <1>1, <1>2, <1>3 DEF IndexTypes
<1>7. IndexTypes' /\ WholeInv' /\ VectorsMatch' /\ FaissInv'
  <2>1. indexTask[t].at \notin {"index file", "record file"} /\ indexTask'[t].at \notin {"index file", "record file"}
    BY <1>3, <1>4
  <2> QED BY <1>3, <1>4, <1>5, <1>6, <2>1, NothingStored
<1>8. KeptInv' BY <1>3, <1>4 DEF RetrievalInv, KeptInv
<1>9. ApartInv'
  <2> SUFFICES ASSUME store = "remote", ~muddled' PROVE ApartInv' BY <1>3 DEF ApartInv
  <2>1. ~muddled /\ ~\E u \in ActiveTasks : \E d \in indexTask[u].docs : Owner(d) = Owner(s) BY <1>2
  <2>2. \A u \in IndexTasks \ {t} : u \in ActiveTasks' <=> u \in ActiveTasks BY <1>4 DEF ActiveTasks
  <2>3. ActiveTasks' \subseteq IndexTasks BY DEF ActiveTasks
  <2>4. ASSUME NEW u \in ActiveTasks', NEW v \in ActiveTasks', NEW d \in indexTask'[u].docs, NEW e \in indexTask'[v].docs,
               Owner(d) = Owner(e)
        PROVE  u = v
    BY <1>4, <2>1, <2>2, <2>3, <2>4 DEF RetrievalInv, ApartInv
  <2>5. ASSUME NEW u \in IndexTasks
        PROVE /\ indexTask'[u].at = "removing" =>
                   indexTask'[u].old = {StorageId(c) : c \in {x \in chunks : HasOwner(indexTask'[u].docs, x)}}
              /\ indexTask'[u].at = "upsert" => ~\E c \in chunks : HasOwner(indexTask'[u].docs, c)
    BY <1>4, <2>1 DEF RetrievalInv, ApartInv
  <2> QED BY <1>3, <2>4, <2>5 DEF ApartInv, HasOwner
<1> QED BY <1>7, <1>8, <1>9 DEF RetrievalInv

\* A task that ends, or is at no other documents than before, overlaps nothing new.
LEMMA ApartStays ==
  ASSUME RetrievalInv, UNCHANGED <<store, chunks, muddled>>, NEW t \in IndexTasks,
         DOMAIN indexTask' = IndexTasks, \A u \in IndexTasks \ {t} : indexTask'[u] = indexTask[u],
         store = "remote" => /\ indexTask'[t].docs \subseteq indexTask[t].docs
                             /\ indexTask'[t].at \notin {"removing", "upsert"}
                             /\ t \in ActiveTasks' => t \in ActiveTasks
  PROVE  ApartInv'
<1> SUFFICES ASSUME store = "remote", ~muddled PROVE ApartInv' BY DEF ApartInv
<1>1. \A u \in IndexTasks : indexTask'[u].docs \subseteq indexTask[u].docs /\ (u \in ActiveTasks' => u \in ActiveTasks)
  BY DEF ActiveTasks
<1>2. ActiveTasks' \subseteq IndexTasks BY DEF ActiveTasks
<1>3. ASSUME NEW u \in ActiveTasks', NEW v \in ActiveTasks', NEW d \in indexTask'[u].docs, NEW e \in indexTask'[v].docs,
             Owner(d) = Owner(e)
      PROVE  u = v
  BY <1>1, <1>2, <1>3 DEF RetrievalInv, ApartInv
<1>4. ASSUME NEW u \in IndexTasks
      PROVE /\ indexTask'[u].at = "removing" =>
                 indexTask'[u].old = {StorageId(c) : c \in {x \in chunks : HasOwner(indexTask'[u].docs, x)}}
            /\ indexTask'[u].at = "upsert" => ~\E c \in chunks : HasOwner(indexTask'[u].docs, c)
  BY DEF RetrievalInv, ApartInv
<1> QED BY <1>3, <1>4 DEF ApartInv, HasOwner

LEMMA EmbedFailsKeeps == ASSUME RetrievalInv, NEW t \in IndexTasks, EmbedFails(t) PROVE RetrievalInv'
<1>1. IndexTypes BY DEF RetrievalInv
<1>2. /\ indexTask[t].at = "embedding" /\ pendingDocs' = BackToPending(t) /\ EndIndexTask(t)
      /\ UNCHANGED <<store, chunks, vectors, disk, index, removed, muddled>>
  BY DEF EmbedFails
<1>3. /\ DOMAIN indexTask' = IndexTasks /\ DOMAIN indexTask'[t] = DOMAIN IdleIndexTask
      /\ indexTask'[t].at = "ended" /\ indexTask'[t].does = "none" /\ indexTask'[t].docs = {}
      /\ \A u \in IndexTasks \ {t} : indexTask'[u] = indexTask[u]
  BY <1>1, <1>2, IndexTaskEnds
<1>4. TaskOk(indexTask'[t]) BY <1>3 DEF TaskOk, OnePerOwner
<1>5. pendingDocs' \subseteq Configured BY <1>1, <1>2 DEF BackToPending, IndexTypes, TaskOk
<1>6. IndexTypes' /\ WholeInv' /\ VectorsMatch' /\ FaissInv'
  BY <1>2, <1>3, <1>4, <1>5, NothingStored
<1>7. KeptInv'
  <2> SUFFICES ASSUME store = "memory", NEW s \in Configured
               PROVE  \/ s \in pendingDocs'
                      \/ \E u \in IndexTasks : indexTask'[u].at \in {"embedding", "cancelled"} /\ indexTask'[u].does = "query"
                                               /\ s \in indexTask'[u].docs
                      \/ \E c \in chunks : Owner(c) = Owner(s)
                      \/ Owner(s) \in removed
    BY <1>2 DEF KeptInv
  <2>1. CASE s \in pendingDocs BY <1>2, <2>1 DEF BackToPending
  <2>2. CASE \E u \in IndexTasks : indexTask[u].at \in {"embedding", "cancelled"} /\ indexTask[u].does = "query" /\ s \in indexTask[u].docs
    <3>1. PICK u \in IndexTasks : indexTask[u].at \in {"embedding", "cancelled"} /\ indexTask[u].does = "query" /\ s \in indexTask[u].docs
      BY <2>2
    <3>2. CASE u = t BY <1>2, <3>1, <3>2 DEF BackToPending
    <3>3. CASE u # t BY <1>3, <3>1, <3>3
    <3> QED BY <3>2, <3>3
  <2> QED BY <2>1, <2>2 DEF RetrievalInv, KeptInv
<1>8. ApartInv' BY <1>2, <1>3, ApartStays DEF ActiveTasks
<1> QED BY <1>6, <1>7, <1>8 DEF RetrievalInv

LEMMA CancelQueryKeeps == ASSUME RetrievalInv, NEW t \in IndexTasks, CancelQuery(t) PROVE RetrievalInv'
<1>1. IndexTypes BY DEF RetrievalInv
<1>2. /\ indexTask[t].at = "embedding" /\ indexTask[t].does = "query" /\ GoOn(t, "cancelled")
      /\ UNCHANGED <<store, chunks, vectors, pendingDocs, disk, index, removed, muddled>>
  BY DEF CancelQuery
<1>3. /\ DOMAIN indexTask' = IndexTasks /\ DOMAIN indexTask'[t] = DOMAIN IdleIndexTask
      /\ indexTask'[t].at = "cancelled" /\ indexTask'[t].does = indexTask[t].does /\ indexTask'[t].docs = indexTask[t].docs
      /\ \A u \in IndexTasks \ {t} : indexTask'[u] = indexTask[u]
  BY <1>1, <1>2 DEF GoOn, IndexTypes, TaskOk, IdleIndexTask
<1>4. TaskOk(indexTask'[t]) BY <1>1, <1>3 DEF IndexTypes, TaskOk
<1>5. pendingDocs' \subseteq Configured BY <1>1, <1>2 DEF IndexTypes
<1>6. IndexTypes' /\ WholeInv' /\ VectorsMatch' /\ FaissInv' BY <1>2, <1>3, <1>4, <1>5, NothingStored
<1>7. KeptInv' BY <1>2, <1>3 DEF RetrievalInv, KeptInv
<1>8. ApartInv' BY <1>2, <1>3, ApartStays DEF ActiveTasks
<1> QED BY <1>6, <1>7, <1>8 DEF RetrievalInv

LEMMA SearchKeeps == ASSUME RetrievalInv, NEW t \in IndexTasks, Search(t) PROVE RetrievalInv'
<1>1. IndexTypes BY DEF RetrievalInv
<1>2. /\ indexTask[t].at \in {"search", "idle"} /\ EndIndexTask(t)
      /\ UNCHANGED <<store, chunks, vectors, pendingDocs, disk, index, removed, muddled>>
  BY DEF Search, IndexBegins
<1>3. /\ DOMAIN indexTask' = IndexTasks /\ DOMAIN indexTask'[t] = DOMAIN IdleIndexTask
      /\ indexTask'[t].at = "ended" /\ indexTask'[t].does = "none" /\ indexTask'[t].docs = {}
      /\ \A u \in IndexTasks \ {t} : indexTask'[u] = indexTask[u]
  BY <1>1, <1>2, IndexTaskEnds
<1>4. TaskOk(indexTask'[t]) BY <1>3 DEF TaskOk, OnePerOwner
<1>5. pendingDocs' \subseteq Configured BY <1>1, <1>2 DEF IndexTypes
<1>6. IndexTypes' /\ WholeInv' /\ VectorsMatch' /\ FaissInv'
  BY <1>2, <1>3, <1>4, <1>5, NothingStored
<1>7. KeptInv' BY <1>2, <1>3 DEF RetrievalInv, KeptInv
<1>8. ApartInv' BY <1>2, <1>3, ApartStays DEF ActiveTasks
<1> QED BY <1>6, <1>7, <1>8 DEF RetrievalInv

LEMMA TakePendingKeeps ==
  ASSUME RetrievalInv, UniqueDocuments, NEW t \in IndexTasks, TakePending(t) PROVE RetrievalInv'
<1>1. IndexTypes BY DEF RetrievalInv
<1>2. /\ store = "memory" /\ indexTask[t].at = "idle" /\ pendingDocs' = {}
      /\ indexTask' = [indexTask EXCEPT ![t] = [at |-> IF pendingDocs = {} THEN "search" ELSE "embedding",
                                                does |-> "query", docs |-> pendingDocs, old |-> {}]]
      /\ UNCHANGED <<store, chunks, vectors, disk, index, removed, muddled>>
  BY DEF TakePending, IndexBegins
<1>3. /\ DOMAIN indexTask' = IndexTasks /\ \A u \in IndexTasks \ {t} : indexTask'[u] = indexTask[u]
      /\ indexTask'[t] = [at |-> IF pendingDocs = {} THEN "search" ELSE "embedding",
                          does |-> "query", docs |-> pendingDocs, old |-> {}]
  BY <1>1, <1>2, TaskSet
<1>4. TaskOk(indexTask'[t])
  <2>1. pendingDocs \subseteq Configured /\ pendingDocs \subseteq Sources BY <1>1, IndexConstants DEF IndexTypes
  <2>2. OnePerOwner(pendingDocs) BY <2>1 DEF UniqueDocuments, OnePerOwner
  <2> QED BY <1>3, <2>1, <2>2 DEF TaskOk, IdleIndexTask
<1>5. indexTask'[t].at \notin {"index file", "record file"} BY <1>3
<1>6. IndexTypes' /\ WholeInv' /\ VectorsMatch' /\ FaissInv'
  BY <1>2, <1>3, <1>4, <1>5, NothingStored
<1>7. KeptInv' BY <1>2, <1>3 DEF RetrievalInv, KeptInv
<1>8. ApartInv' BY <1>2 DEF ApartInv
<1> QED BY <1>6, <1>7, <1>8 DEF RetrievalInv

LEMMA ListOldKeeps == ASSUME RetrievalInv, NEW t \in IndexTasks, ListOld(t) PROVE RetrievalInv'
<1> DEFINE ids == {StorageId(c) : c \in {x \in chunks : HasOwner(indexTask[t].docs, x)}}
<1>1. IndexTypes BY DEF RetrievalInv
<1>2. /\ store = "remote" /\ indexTask[t].at \in {"embedding", "listing"}
      /\ indexTask' = [indexTask EXCEPT ![t] = [indexTask[t] EXCEPT !.at = "removing", !.old = ids]]
      /\ UNCHANGED <<store, chunks, vectors, pendingDocs, disk, index, removed, muddled>>
  <2>1. /\ store = "remote" /\ indexTask[t].at \in {"embedding", "listing"}
        /\ indexTask' = [indexTask EXCEPT ![t].at = "removing", ![t].old = ids]
        /\ UNCHANGED <<store, chunks, vectors, pendingDocs, disk, index, removed, muddled>>
    BY DEF ListOld, HasOwner
  <2> HIDE DEF ids
  <2> QED BY <1>1, <2>1 DEF IndexTypes
<1> HIDE DEF ids
<1>3. /\ DOMAIN indexTask' = IndexTasks /\ \A u \in IndexTasks \ {t} : indexTask'[u] = indexTask[u]
      /\ indexTask'[t] = [indexTask[t] EXCEPT !.at = "removing", !.old = ids]
  BY <1>1, <1>2, TaskSet
<1>4. DOMAIN indexTask[t] = {"at", "does", "docs", "old"} BY <1>1 DEF IndexTypes, TaskOk, IdleIndexTask
<1>5. /\ indexTask'[t].at = "removing" /\ indexTask'[t].does = indexTask[t].does /\ indexTask'[t].old = ids
      /\ indexTask'[t].docs = indexTask[t].docs /\ DOMAIN indexTask'[t] = DOMAIN IdleIndexTask
  BY <1>3, <1>4 DEF IdleIndexTask
<1>6. TaskOk(indexTask'[t]) BY <1>1, <1>2, <1>5 DEF TaskOk, IndexTypes
<1>7. pendingDocs' \subseteq Configured BY <1>1, <1>2 DEF IndexTypes
<1>8. IndexTypes' /\ WholeInv' /\ VectorsMatch' /\ FaissInv'
  BY <1>2, <1>3, <1>5, <1>6, <1>7, NothingStored
<1>9. KeptInv' BY <1>2 DEF KeptInv
<1>10. ApartInv'
  <2> SUFFICES ASSUME ~muddled PROVE ApartInv' BY <1>2 DEF ApartInv
  <2>1. ActiveTasks' = ActiveTasks BY <1>2, <1>3, <1>5 DEF ActiveTasks
  <2>2. ActiveTasks \subseteq IndexTasks /\ \A u \in IndexTasks : indexTask'[u].docs = indexTask[u].docs
    BY <1>3, <1>5 DEF ActiveTasks
  <2>3. ASSUME NEW u \in ActiveTasks', NEW v \in ActiveTasks', NEW d \in indexTask'[u].docs, NEW e \in indexTask'[v].docs,
               Owner(d) = Owner(e)
        PROVE  u = v
    BY <1>2, <2>1, <2>2, <2>3 DEF RetrievalInv, ApartInv
  <2>4. ASSUME NEW u \in IndexTasks
        PROVE /\ indexTask'[u].at = "removing" =>
                   indexTask'[u].old = {StorageId(c) : c \in {x \in chunks : HasOwner(indexTask'[u].docs, x)}}
              /\ indexTask'[u].at = "upsert" => ~\E c \in chunks : HasOwner(indexTask'[u].docs, c)
    <3>1. CASE u = t BY <1>5, <3>1 DEF ids
    <3>2. CASE u # t BY <1>2, <1>3, <3>2 DEF RetrievalInv, ApartInv
    <3> QED BY <3>1, <3>2
  <2> QED BY <1>2, <2>3, <2>4 DEF ApartInv, HasOwner
<1> QED BY <1>8, <1>9, <1>10 DEF RetrievalInv

\* In memory the new chunks take the place of their documents' old ones, and so do their vectors.
LEMMA WriteMemoryKeeps ==
  ASSUME RetrievalInv, UniqueDocuments, NEW t \in IndexTasks, WriteMemory(t) PROVE RetrievalInv'
<1> DEFINE docs == indexTask[t].docs
           new == ChunksOfAll(docs)
<1>1. IndexTypes BY DEF RetrievalInv
<1>2. /\ store = "memory" /\ indexTask[t].at = "embedding"
      /\ chunks' = Replaced(docs) \cup new
      /\ vectors' = {v \in vectors : v.id \notin Stale(docs) \cup {ChunkId(c) : c \in new}}
                    \cup {[id |-> ChunkId(c), of |-> c] : c \in new}
      /\ GoOn(t, "search") \/ EndIndexTask(t)
      /\ UNCHANGED <<store, pendingDocs, disk, index, removed, muddled>>
  BY DEF WriteMemory
<1>3. docs \subseteq Sources /\ OnePerOwner(docs) /\ TaskOk(indexTask[t]) BY <1>1 DEF IndexTypes, TaskOk
<1>4. chunks' = {c \in chunks : ~HasOwner(docs, c)} \cup new BY <1>1, <1>2, ByIdentity, OthersAre DEF Replaced
<1>5. new \subseteq ChunksOfAll(Sources) BY <1>3, ChunksBelong
<1>6. ASSUME NEW x \in new PROVE HasOwner(docs, x)
  <2>1. PICK s \in docs : x \in Chunked(s) BY SourceOf
  <2> QED BY <2>1, ChunkOf DEF HasOwner
<1>7. /\ DOMAIN indexTask' = IndexTasks /\ \A u \in IndexTasks \ {t} : indexTask'[u] = indexTask[u]
      /\ indexTask'[t].at \in {"search", "ended"} /\ TaskOk(indexTask'[t])
  <2>1. CASE GoOn(t, "search")
    <3>1. /\ DOMAIN indexTask' = IndexTasks /\ DOMAIN indexTask'[t] = DOMAIN IdleIndexTask
          /\ indexTask'[t].at = "search" /\ indexTask'[t].does = indexTask[t].does
          /\ indexTask'[t].docs = indexTask[t].docs
          /\ \A u \in IndexTasks \ {t} : indexTask'[u] = indexTask[u]
      BY <1>1, <2>1, IndexTaskGoes
    <3> QED BY <1>3, <3>1 DEF TaskOk
  <2>2. CASE EndIndexTask(t)
    <3>1. /\ DOMAIN indexTask' = IndexTasks /\ DOMAIN indexTask'[t] = DOMAIN IdleIndexTask
          /\ indexTask'[t].at = "ended" /\ indexTask'[t].does = "none" /\ indexTask'[t].docs = {}
          /\ \A u \in IndexTasks \ {t} : indexTask'[u] = indexTask[u]
      BY <1>1, <2>2, IndexTaskEnds
    <3> QED BY <3>1 DEF TaskOk, OnePerOwner
  <2> QED BY <1>2, <2>1, <2>2
<1>8. IndexTypes'
  <2>1. \A r : TaskOk(r)' <=> TaskOk(r) BY <1>2 DEF TaskOk
  <2>2. \A u \in IndexTasks : TaskOk(indexTask'[u]) BY <1>1, <1>7 DEF IndexTypes
  <2>3. \A v \in vectors' : v.of \in ChunksOfAll(Sources) BY <1>1, <1>2, <1>5 DEF IndexTypes
  <2>4. chunks' \subseteq ChunksOfAll(Sources) BY <1>1, <1>4, <1>5 DEF IndexTypes
  <2> HIDE DEF docs, new
  <2> QED BY <1>1, <1>2, <1>7, <2>1, <2>2, <2>3, <2>4 DEF IndexTypes
<1>9. WholeInv'
  <2>1. WholeSet(chunks) BY <1>2 DEF RetrievalInv, WholeInv
  <2>2. WholeSet(chunks') BY <1>3, <1>4, <2>1, WholeWritten
  <2> QED BY <1>2, <2>2 DEF WholeInv, WholeSet
<1>10. VectorsMatch'
  <2>1. vectors = {[id |-> ChunkId(c), of |-> c] : c \in chunks} BY <1>2 DEF RetrievalInv, VectorsMatch
  <2>2. ASSUME NEW c \in chunks
        PROVE  ChunkId(c) \notin Stale(docs) \cup {ChunkId(x) : x \in new} <=> ~HasOwner(docs, c)
    <3>1. ASSUME NEW x \in new, ChunkId(c) = ChunkId(x) PROVE HasOwner(docs, c)
      <4>1. Owner(c) = Owner(x) BY <1>1, <1>5, <3>1, IdentityTells DEF IndexTypes
      <4> QED BY <1>6, <4>1 DEF HasOwner
    <3> QED BY <1>1, <3>1, ByIdentity
  <2>3. {v \in vectors : v.id \notin Stale(docs) \cup {ChunkId(c) : c \in new}}
          = {[id |-> ChunkId(c), of |-> c] : c \in {x \in chunks : ~HasOwner(docs, x)}}
    <3> DEFINE gone == Stale(docs) \cup {ChunkId(c) : c \in new}
    <3>1. \A c \in chunks : ChunkId(c) \notin gone <=> ~HasOwner(docs, c) BY <2>2
    <3> HIDE DEF gone
    <3>2. \A c \in chunks : [id |-> ChunkId(c), of |-> c].id = ChunkId(c) OBVIOUS
    <3>3. {v \in vectors : v.id \notin gone} = {[id |-> ChunkId(c), of |-> c] : c \in {x \in chunks : ~HasOwner(docs, x)}}
      BY <2>1, <3>1, <3>2
    <3> QED BY <3>3 DEF gone
  <2> HIDE DEF docs, new
  <2>4. vectors' = {[id |-> ChunkId(c), of |-> c] : c \in chunks'} BY <1>2, <1>4, <2>3
  <2> QED BY <2>4 DEF VectorsMatch, ChunkId
<1>11. KeptInv'
  <2>1. ASSUME NEW d \in docs PROVE \E c \in chunks' : Owner(c) = Owner(d)
    <3>1. PICK c \in Chunked(d) : Owner(c) = Owner(d) BY <1>3, HasChunk
    <3>2. c \in new BY <3>1 DEF ChunksOfAll
    <3> QED BY <1>4, <3>1, <3>2
  <2> SUFFICES ASSUME NEW s \in Configured
               PROVE  \/ s \in pendingDocs
                      \/ \E u \in IndexTasks : indexTask'[u].at \in {"embedding", "cancelled"} /\ indexTask'[u].does = "query"
                                               /\ s \in indexTask'[u].docs
                      \/ \E c \in chunks' : Owner(c) = Owner(s)
                      \/ Owner(s) \in removed
    BY <1>2 DEF KeptInv, Owner
  <2>2. CASE \E u \in IndexTasks : indexTask[u].at \in {"embedding", "cancelled"} /\ indexTask[u].does = "query" /\ s \in indexTask[u].docs
    <3>1. PICK u \in IndexTasks : indexTask[u].at \in {"embedding", "cancelled"} /\ indexTask[u].does = "query" /\ s \in indexTask[u].docs
      BY <2>2
    <3>2. CASE u = t BY <2>1, <3>1, <3>2
    <3>3. CASE u # t BY <1>7, <3>1, <3>3
    <3> QED BY <3>2, <3>3
  <2>3. CASE \E c \in chunks : Owner(c) = Owner(s)
    <3>1. PICK c \in chunks : Owner(c) = Owner(s) BY <2>3
    <3>2. CASE HasOwner(docs, c)
      <4>1. PICK d \in docs : Owner(d) = Owner(c) BY <3>2 DEF HasOwner
      <4> QED BY <2>1, <3>1, <4>1
    <3>3. CASE ~HasOwner(docs, c) BY <1>4, <3>1, <3>3
    <3> QED BY <3>2, <3>3
  <2> QED BY <1>2, <2>2, <2>3 DEF RetrievalInv, KeptInv
<1>12. FaissInv' /\ ApartInv' BY <1>2 DEF FaissInv, ApartInv
<1> QED BY <1>8, <1>9, <1>10, <1>11, <1>12 DEF RetrievalInv

\* In PostgreSQL it is one statement each.
LEMMA WritePostgresKeeps == ASSUME RetrievalInv, NEW t \in IndexTasks, WritePostgres(t) PROVE RetrievalInv'
<1> DEFINE docs == indexTask[t].docs
<1>1. IndexTypes BY DEF RetrievalInv
<1>2. /\ store = "postgres" /\ chunks' = OthersOf(docs) \cup ChunksOfAll(docs) /\ EndIndexTask(t)
      /\ UNCHANGED <<store, vectors, pendingDocs, disk, index, removed, muddled>>
  BY DEF WritePostgres
<1>3. docs \subseteq Sources /\ OnePerOwner(docs) BY <1>1 DEF IndexTypes, TaskOk
<1>4. chunks' = {c \in chunks : ~HasOwner(docs, c)} \cup ChunksOfAll(docs) BY <1>2, OthersAre
<1>5. chunks' \subseteq ChunksOfAll(Sources) BY <1>1, <1>3, <1>4, ChunksBelong DEF IndexTypes
<1>6. WholeSet(chunks')
  <2>1. WholeSet(chunks) BY <1>2 DEF RetrievalInv, WholeInv
  <2> QED BY <1>3, <1>4, <2>1, WholeWritten
<1>7. /\ DOMAIN indexTask' = IndexTasks /\ DOMAIN indexTask'[t] = DOMAIN IdleIndexTask
      /\ indexTask'[t].at = "ended" /\ indexTask'[t].does = "none" /\ indexTask'[t].docs = {}
      /\ \A u \in IndexTasks \ {t} : indexTask'[u] = indexTask[u]
  BY <1>1, <1>2, IndexTaskEnds
<1>8. IndexTypes'
  <2>1. \A r : TaskOk(r)' <=> TaskOk(r) BY <1>2 DEF TaskOk
  <2>2. TaskOk(indexTask'[t]) BY <1>7 DEF TaskOk, OnePerOwner
  <2>3. \A u \in IndexTasks : TaskOk(indexTask'[u]) BY <1>1, <1>7, <2>2 DEF IndexTypes
  <2> HIDE DEF docs
  <2> QED BY <1>1, <1>2, <1>5, <1>7, <2>1, <2>3 DEF IndexTypes
<1>9. WholeInv' BY <1>2, <1>6 DEF WholeInv, WholeSet
<1>10. VectorsMatch' /\ KeptInv' /\ FaissInv' /\ ApartInv' BY <1>2 DEF VectorsMatch, KeptInv, FaissInv, ApartInv
<1> QED BY <1>8, <1>9, <1>10 DEF RetrievalInv

\* A storage id names the owner.
LEMMA StorageTells == ASSUME NEW c, NEW x, StorageId(c) = StorageId(x) PROVE Owner(c) = Owner(x)
BY DEF StorageId, Owner

\* In three calls: what is removed is what the store has of the task's documents, and of no others.
LEMMA RemoveOldKeeps == ASSUME RetrievalInv, NEW t \in IndexTasks, RemoveOld(t) PROVE RetrievalInv'
<1> DEFINE docs == indexTask[t].docs
<1>1. IndexTypes BY DEF RetrievalInv
<1>2. /\ indexTask[t].at = "removing" /\ chunks' = {c \in chunks : StorageId(c) \notin indexTask[t].old}
      /\ GoOn(t, "upsert") \/ EndIndexTask(t)
      /\ UNCHANGED <<store, vectors, pendingDocs, disk, index, muddled>>
  BY DEF RemoveOld
<1>3. store = "remote" /\ TaskOk(indexTask[t]) BY <1>1, <1>2 DEF IndexTypes, TaskOk
<1>4. /\ DOMAIN indexTask' = IndexTasks /\ \A u \in IndexTasks \ {t} : indexTask'[u] = indexTask[u]
      /\ indexTask'[t].at \in {"upsert", "ended"} /\ indexTask'[t].docs \subseteq docs /\ TaskOk(indexTask'[t])
  <2>1. CASE GoOn(t, "upsert")
    <3>1. /\ DOMAIN indexTask' = IndexTasks /\ DOMAIN indexTask'[t] = DOMAIN IdleIndexTask
          /\ indexTask'[t].at = "upsert" /\ indexTask'[t].does = indexTask[t].does /\ indexTask'[t].docs = docs
          /\ \A u \in IndexTasks \ {t} : indexTask'[u] = indexTask[u]
      BY <1>1, <2>1, IndexTaskGoes
    <3> QED BY <1>3, <3>1 DEF TaskOk
  <2>2. CASE EndIndexTask(t)
    <3>1. /\ DOMAIN indexTask' = IndexTasks /\ DOMAIN indexTask'[t] = DOMAIN IdleIndexTask
          /\ indexTask'[t].at = "ended" /\ indexTask'[t].does = "none" /\ indexTask'[t].docs = {}
          /\ \A u \in IndexTasks \ {t} : indexTask'[u] = indexTask[u]
      BY <1>1, <2>2, IndexTaskEnds
    <3> QED BY <3>1 DEF TaskOk, OnePerOwner
  <2> QED BY <1>2, <2>1, <2>2
<1>5. IndexTypes'
  <2>1. \A r : TaskOk(r)' <=> TaskOk(r) BY <1>2 DEF TaskOk
  <2>2. \A u \in IndexTasks : TaskOk(indexTask'[u]) BY <1>1, <1>4 DEF IndexTypes
  <2>3. chunks' \subseteq ChunksOfAll(Sources) BY <1>1, <1>2 DEF IndexTypes
  <2> QED BY <1>1, <1>2, <1>4, <2>1, <2>2, <2>3 DEF IndexTypes
<1>6. ASSUME ~muddled PROVE chunks' = {c \in chunks : ~HasOwner(docs, c)}
  <2>1. indexTask[t].old = {StorageId(c) : c \in {x \in chunks : HasOwner(docs, x)}}
    BY <1>2, <1>3, <1>6 DEF RetrievalInv, ApartInv
  <2>2. \A c \in chunks : StorageId(c) \in indexTask[t].old <=> HasOwner(docs, c)
    BY <2>1, StorageTells DEF HasOwner
  <2> QED BY <1>2, <2>2
<1>7. WholeInv'
  <2>1. muddled \/ WholeSet(chunks') BY <1>3, <1>6, WholeRest DEF RetrievalInv, WholeInv
  <2> QED BY <1>2, <1>3, <2>1 DEF WholeInv, WholeSet
<1>8. VectorsMatch' /\ KeptInv' /\ FaissInv' BY <1>2, <1>3 DEF VectorsMatch, KeptInv, FaissInv
<1>9. ApartInv'
  <2> SUFFICES ASSUME ~muddled PROVE ApartInv' BY <1>2 DEF ApartInv
  <2>1. \A u \in IndexTasks : /\ indexTask'[u].docs \subseteq indexTask[u].docs
                              /\ u \in ActiveTasks' => u \in ActiveTasks
    BY <1>2, <1>4 DEF ActiveTasks
  <2>2. t \in ActiveTasks /\ ActiveTasks' \subseteq IndexTasks BY <1>2 DEF ActiveTasks
  <2>3. \A u, v \in ActiveTasks : \A d \in indexTask[u].docs, e \in indexTask[v].docs : Owner(d) = Owner(e) => u = v
    BY <1>3 DEF RetrievalInv, ApartInv
  <2>4. ASSUME NEW u \in ActiveTasks', NEW v \in ActiveTasks', NEW d \in indexTask'[u].docs, NEW e \in indexTask'[v].docs,
               Owner(d) = Owner(e)
        PROVE  u = v
    BY <2>1, <2>2, <2>3, <2>4
  <2>5. ASSUME NEW u \in IndexTasks
        PROVE /\ indexTask'[u].at = "removing" =>
                   indexTask'[u].old = {StorageId(c) : c \in {x \in chunks' : HasOwner(indexTask'[u].docs, x)}}
              /\ indexTask'[u].at = "upsert" => ~\E c \in chunks' : HasOwner(indexTask'[u].docs, c)
    <3>1. CASE u = t BY <1>4, <1>6, <3>1 DEF HasOwner
    <3>2. CASE u # t
      <4>1. indexTask'[u] = indexTask[u] BY <1>4, <3>2
      <4>2. CASE indexTask[u].at = "removing"
        <5>1. u \in ActiveTasks BY <4>2 DEF ActiveTasks
        <5>2. \A c \in chunks : HasOwner(indexTask[u].docs, c) => ~HasOwner(docs, c)
          BY <2>2, <2>3, <3>2, <5>1 DEF HasOwner
        <5>3. {x \in chunks' : HasOwner(indexTask[u].docs, x)} = {x \in chunks : HasOwner(indexTask[u].docs, x)}
          BY <1>6, <5>2
        <5> QED BY <1>3, <4>1, <4>2, <5>3 DEF RetrievalInv, ApartInv
      <4>3. CASE indexTask[u].at # "removing"
        BY <1>3, <1>6, <4>1, <4>3 DEF RetrievalInv, ApartInv
      <4> QED BY <4>2, <4>3
    <3> QED BY <3>1, <3>2
  <2> QED BY <1>2, <2>4, <2>5 DEF ApartInv, HasOwner, Owner, StorageId
<1> QED BY <1>5, <1>7, <1>8, <1>9 DEF RetrievalInv

\* The new chunks come where there are none of their documents.
LEMMA UpsertKeeps == ASSUME RetrievalInv, NEW t \in IndexTasks, Upsert(t) PROVE RetrievalInv'
<1> DEFINE docs == indexTask[t].docs
           new == ChunksOfAll(docs)
<1>1. IndexTypes BY DEF RetrievalInv
<1>2. /\ indexTask[t].at = "upsert"
      /\ chunks' = {c \in chunks : StorageId(c) \notin {StorageId(x) : x \in new}} \cup new
      /\ EndIndexTask(t)
      /\ UNCHANGED <<store, vectors, pendingDocs, disk, index, removed, muddled>>
  BY DEF Upsert
<1>3. store = "remote" /\ docs \subseteq Sources /\ OnePerOwner(docs) BY <1>1, <1>2 DEF IndexTypes, TaskOk
<1>4. /\ DOMAIN indexTask' = IndexTasks /\ DOMAIN indexTask'[t] = DOMAIN IdleIndexTask
      /\ indexTask'[t].at = "ended" /\ indexTask'[t].does = "none" /\ indexTask'[t].docs = {}
      /\ \A u \in IndexTasks \ {t} : indexTask'[u] = indexTask[u]
  BY <1>1, <1>2, IndexTaskEnds
<1>5. new \subseteq ChunksOfAll(Sources) BY <1>3, ChunksBelong
<1>6. ASSUME NEW x \in new PROVE HasOwner(docs, x)
  <2>1. PICK s \in docs : x \in Chunked(s) BY SourceOf
  <2> QED BY <2>1, ChunkOf DEF HasOwner
<1>7. IndexTypes'
  <2>1. \A r : TaskOk(r)' <=> TaskOk(r) BY <1>2 DEF TaskOk
  <2>2. TaskOk(indexTask'[t]) BY <1>4 DEF TaskOk, OnePerOwner
  <2>3. \A u \in IndexTasks : TaskOk(indexTask'[u]) BY <1>1, <1>4, <2>2 DEF IndexTypes
  <2>4. chunks' \subseteq ChunksOfAll(Sources) BY <1>1, <1>2, <1>5 DEF IndexTypes
  <2> HIDE DEF docs, new
  <2> QED BY <1>1, <1>2, <1>4, <2>1, <2>3, <2>4 DEF IndexTypes
<1>8. ASSUME ~muddled PROVE chunks' = chunks \cup new /\ chunks = {c \in chunks : ~HasOwner(docs, c)}
  <2>1. ~\E c \in chunks : HasOwner(docs, c) BY <1>2, <1>3, <1>8 DEF RetrievalInv, ApartInv
  <2>2. \A c \in chunks, x \in new : StorageId(c) # StorageId(x) BY <1>6, <2>1, StorageTells DEF HasOwner
  <2> HIDE DEF docs, new
  <2>3. chunks' = chunks \cup new BY <1>2, <2>2
  <2> QED BY <2>1, <2>3
<1>9. WholeInv'
  <2>1. ASSUME ~muddled PROVE WholeSet(chunks')
    <3>1. WholeSet(chunks) BY <2>1 DEF RetrievalInv, WholeInv
    <3>2. chunks' = {c \in chunks : ~HasOwner(docs, c)} \cup ChunksOfAll(docs) BY <1>8, <2>1
    <3> QED BY <1>3, <3>1, <3>2, WholeWritten
  <2> QED BY <1>2, <1>3, <2>1 DEF WholeInv, WholeSet
<1>10. VectorsMatch' /\ KeptInv' /\ FaissInv' BY <1>2, <1>3 DEF VectorsMatch, KeptInv, FaissInv
<1>11. ApartInv'
  <2> SUFFICES ASSUME ~muddled PROVE ApartInv' BY <1>2 DEF ApartInv
  <2>1. \A u \in IndexTasks : /\ indexTask'[u].docs \subseteq indexTask[u].docs
                              /\ u \in ActiveTasks' => u \in ActiveTasks
    BY <1>2, <1>4 DEF ActiveTasks
  <2>2. t \in ActiveTasks /\ ActiveTasks' \subseteq IndexTasks BY <1>2 DEF ActiveTasks
  <2>3. \A u, v \in ActiveTasks : \A d \in indexTask[u].docs, e \in indexTask[v].docs : Owner(d) = Owner(e) => u = v
    BY <1>3 DEF RetrievalInv, ApartInv
  <2>4. ASSUME NEW u \in ActiveTasks', NEW v \in ActiveTasks', NEW d \in indexTask'[u].docs, NEW e \in indexTask'[v].docs,
               Owner(d) = Owner(e)
        PROVE  u = v
    BY <2>1, <2>2, <2>3, <2>4
  <2>5. ASSUME NEW u \in IndexTasks, indexTask'[u].at \in {"removing", "upsert"}
        PROVE /\ indexTask'[u].at = "removing" =>
                   indexTask'[u].old = {StorageId(c) : c \in {x \in chunks' : HasOwner(indexTask'[u].docs, x)}}
              /\ indexTask'[u].at = "upsert" => ~\E c \in chunks' : HasOwner(indexTask'[u].docs, c)
    <3>1. u # t /\ indexTask'[u] = indexTask[u] BY <1>4, <2>5
    <3>2. u \in ActiveTasks BY <2>5, <3>1 DEF ActiveTasks
    <3>3. \A x \in new : ~HasOwner(indexTask[u].docs, x)
      BY <1>6, <2>2, <2>3, <3>1, <3>2 DEF HasOwner
    <3>4. {x \in chunks' : HasOwner(indexTask[u].docs, x)} = {x \in chunks : HasOwner(indexTask[u].docs, x)}
      BY <1>8, <3>3
    <3> QED BY <1>3, <3>1, <3>4 DEF RetrievalInv, ApartInv
  <2> QED BY <1>2, <2>4, <2>5 DEF ApartInv, HasOwner, Owner, StorageId
<1> QED BY <1>7, <1>9, <1>10, <1>11 DEF RetrievalInv

\* FAISS: records and index change at once, under the lock.
LEMMA FaissChanges ==
  ASSUME RetrievalInv, NEW t \in IndexTasks, store = "faiss", ~IndexLocked, WholeSet(chunks'), index' = chunks',
         chunks' \subseteq ChunksOfAll(Sources), TaskOk(indexTask'[t]), indexTask'[t].at = "index file",
         DOMAIN indexTask' = IndexTasks, \A u \in IndexTasks \ {t} : indexTask'[u] = indexTask[u],
         UNCHANGED <<store, vectors, pendingDocs, disk, muddled>>
  PROVE  RetrievalInv'
<1>1. IndexTypes'
  <2>1. \A r : TaskOk(r)' <=> TaskOk(r) BY DEF TaskOk
  <2>2. \A u \in IndexTasks : TaskOk(indexTask'[u]) BY DEF RetrievalInv, IndexTypes
  <2> QED BY <2>1, <2>2 DEF RetrievalInv, IndexTypes
<1>2. WholeInv' BY DEF RetrievalInv, WholeInv, WholeSet
<1>3. VectorsMatch' /\ KeptInv' /\ ApartInv' BY DEF VectorsMatch, KeptInv, ApartInv
<1>4. FaissInv'
  <2>1. \A u \in IndexTasks : indexTask[u].at \notin {"index file", "record file"} BY DEF IndexLocked
  <2>2. \A u \in IndexTasks : /\ indexTask'[u].at \in {"index file", "record file"} => u = t
                              /\ indexTask'[u].at # "record file"
    BY <2>1
  <2>3. ~muddled => disk.index = disk.records BY <2>1 DEF RetrievalInv, FaissInv
  <2> QED BY <2>2, <2>3 DEF FaissInv
<1> QED BY <1>1, <1>2, <1>3, <1>4 DEF RetrievalInv

LEMMA WriteFaissKeeps == ASSUME RetrievalInv, NEW t \in IndexTasks, WriteFaiss(t) PROVE RetrievalInv'
<1> DEFINE docs == indexTask[t].docs
<1>1. IndexTypes BY DEF RetrievalInv
<1>2. /\ store = "faiss" /\ ~IndexLocked /\ chunks' = OthersOf(docs) \cup ChunksOfAll(docs)
      /\ index' = OthersOf(docs) \cup ChunksOfAll(docs) /\ GoOn(t, "index file")
      /\ UNCHANGED <<store, vectors, pendingDocs, disk, removed, muddled>>
  BY DEF WriteFaiss, Rebuild
<1>3. docs \subseteq Sources /\ OnePerOwner(docs) /\ TaskOk(indexTask[t]) BY <1>1 DEF IndexTypes, TaskOk
<1>4. chunks' = {c \in chunks : ~HasOwner(docs, c)} \cup ChunksOfAll(docs) /\ index' = chunks' BY <1>2, OthersAre
<1>5. chunks' \subseteq ChunksOfAll(Sources) BY <1>1, <1>3, <1>4, ChunksBelong DEF IndexTypes
<1>6. WholeSet(chunks')
  <2>1. WholeSet(chunks) BY <1>2 DEF RetrievalInv, WholeInv
  <2> QED BY <1>3, <1>4, <2>1, WholeWritten
<1>7. /\ DOMAIN indexTask' = IndexTasks /\ DOMAIN indexTask'[t] = DOMAIN IdleIndexTask
      /\ indexTask'[t].at = "index file" /\ indexTask'[t].does = indexTask[t].does /\ indexTask'[t].docs = docs
      /\ \A u \in IndexTasks \ {t} : indexTask'[u] = indexTask[u]
  BY <1>1, <1>2, IndexTaskGoes
<1>8. TaskOk(indexTask'[t]) BY <1>2, <1>3, <1>7 DEF TaskOk
<1> HIDE DEF docs
<1> QED BY <1>2, <1>4, <1>5, <1>6, <1>7, <1>8, FaissChanges

LEMMA PersistIndexKeeps == ASSUME RetrievalInv, NEW t \in IndexTasks, PersistIndex(t) PROVE RetrievalInv'
<1>1. IndexTypes BY DEF RetrievalInv
<1>2. /\ indexTask[t].at = "index file" /\ disk' = [disk EXCEPT !.index = index] /\ GoOn(t, "record file")
      /\ UNCHANGED <<store, chunks, vectors, pendingDocs, index, removed, muddled>>
  BY DEF PersistIndex
<1>3. store = "faiss" /\ TaskOk(indexTask[t]) BY <1>1, <1>2 DEF IndexTypes, TaskOk
<1>4. /\ DOMAIN indexTask' = IndexTasks /\ DOMAIN indexTask'[t] = DOMAIN IdleIndexTask
      /\ indexTask'[t].at = "record file" /\ indexTask'[t].does = indexTask[t].does
      /\ indexTask'[t].docs = indexTask[t].docs
      /\ \A u \in IndexTasks \ {t} : indexTask'[u] = indexTask[u]
  BY <1>1, <1>2, IndexTaskGoes
<1>5. DOMAIN disk' = {"index", "records"} /\ disk'.index = index /\ disk'.records = disk.records
  BY <1>1, <1>2 DEF IndexTypes
<1>6. IndexTypes'
  <2>1. \A r : TaskOk(r)' <=> TaskOk(r) BY <1>2 DEF TaskOk
  <2>2. TaskOk(indexTask'[t]) BY <1>3, <1>4 DEF TaskOk
  <2>3. \A u \in IndexTasks : TaskOk(indexTask'[u]) BY <1>1, <1>4, <2>2 DEF IndexTypes
  <2> QED BY <1>1, <1>2, <1>4, <1>5, <2>1, <2>3 DEF IndexTypes
<1>7. WholeInv' BY <1>2, <1>5 DEF RetrievalInv, WholeInv, WholeSet
<1>8. VectorsMatch' /\ KeptInv' /\ ApartInv' BY <1>2, <1>3 DEF VectorsMatch, KeptInv, ApartInv
<1>9. FaissInv'
  <2>1. \A u \in IndexTasks : indexTask[u].at \in {"index file", "record file"} => u = t
    BY <1>2, <1>3 DEF RetrievalInv, FaissInv
  <2>2. ~muddled => index = chunks BY <1>3 DEF RetrievalInv, FaissInv
  <2> QED BY <1>2, <1>4, <1>5, <2>1, <2>2 DEF FaissInv
<1> QED BY <1>6, <1>7, <1>8, <1>9 DEF RetrievalInv

LEMMA PersistRecordsKeeps == ASSUME RetrievalInv, NEW t \in IndexTasks, PersistRecords(t) PROVE RetrievalInv'
<1>1. IndexTypes BY DEF RetrievalInv
<1>2. /\ indexTask[t].at = "record file" /\ disk' = [disk EXCEPT !.records = chunks] /\ EndIndexTask(t)
      /\ UNCHANGED <<store, chunks, vectors, pendingDocs, index, removed, muddled>>
  BY DEF PersistRecords
<1>3. store = "faiss" BY <1>1, <1>2 DEF IndexTypes, TaskOk
<1>4. /\ DOMAIN indexTask' = IndexTasks /\ DOMAIN indexTask'[t] = DOMAIN IdleIndexTask
      /\ indexTask'[t].at = "ended" /\ indexTask'[t].does = "none" /\ indexTask'[t].docs = {}
      /\ \A u \in IndexTasks \ {t} : indexTask'[u] = indexTask[u]
  BY <1>1, <1>2, IndexTaskEnds
<1>5. DOMAIN disk' = {"index", "records"} /\ disk'.index = disk.index /\ disk'.records = chunks
  BY <1>1, <1>2 DEF IndexTypes
<1>6. IndexTypes'
  <2>1. \A r : TaskOk(r)' <=> TaskOk(r) BY <1>2 DEF TaskOk
  <2>2. TaskOk(indexTask'[t]) BY <1>4 DEF TaskOk, OnePerOwner
  <2>3. \A u \in IndexTasks : TaskOk(indexTask'[u]) BY <1>1, <1>4, <2>2 DEF IndexTypes
  <2> QED BY <1>1, <1>2, <1>4, <1>5, <2>1, <2>3 DEF IndexTypes
<1>7. WholeInv' BY <1>2, <1>3, <1>5 DEF RetrievalInv, WholeInv, WholeSet
<1>8. VectorsMatch' /\ KeptInv' /\ ApartInv' BY <1>2, <1>3 DEF VectorsMatch, KeptInv, ApartInv
<1>9. FaissInv'
  <2>1. \A u \in IndexTasks : indexTask[u].at \in {"index file", "record file"} => u = t
    BY <1>2, <1>3 DEF RetrievalInv, FaissInv
  <2>2. disk.index = index /\ (~muddled => index = chunks) BY <1>2, <1>3 DEF RetrievalInv, FaissInv
  <2> QED BY <1>2, <1>4, <1>5, <2>1, <2>2 DEF FaissInv
<1> QED BY <1>6, <1>7, <1>8, <1>9 DEF RetrievalInv

\* A deletion that is done at once, in a store without files.
LEMMA DeletedAtOnce ==
  ASSUME RetrievalInv, NEW t \in IndexTasks, NEW s \in Sources, store \in {"memory", "postgres", "faiss"},
         chunks' = OthersOf({s}), indexTask' = [indexTask EXCEPT ![t] = [IdleIndexTask EXCEPT !.at = "ended"]],
         pendingDocs' \subseteq Configured, vectors' \subseteq vectors, UNCHANGED <<store, disk, index, muddled>>
  PROVE  /\ IndexTypes' /\ WholeInv' /\ \A u \in IndexTasks \ {t} : indexTask'[u] = indexTask[u]
         /\ DOMAIN indexTask' = IndexTasks /\ indexTask'[t].at = "ended"
<1>1. IndexTypes BY DEF RetrievalInv
<1>2. EndIndexTask(t) BY DEF EndIndexTask
<1>3. /\ DOMAIN indexTask' = IndexTasks /\ DOMAIN indexTask'[t] = DOMAIN IdleIndexTask
      /\ indexTask'[t].at = "ended" /\ indexTask'[t].does = "none" /\ indexTask'[t].docs = {}
      /\ \A u \in IndexTasks \ {t} : indexTask'[u] = indexTask[u]
  BY <1>1, <1>2, IndexTaskEnds
<1>4. chunks' = {c \in chunks : ~HasOwner({s}, c)} BY OthersAre
<1>5. IndexTypes'
  <2>1. \A r : TaskOk(r)' <=> TaskOk(r) BY DEF TaskOk
  <2>2. TaskOk(indexTask'[t]) BY <1>3 DEF TaskOk, OnePerOwner
  <2>3. \A u \in IndexTasks : TaskOk(indexTask'[u]) BY <1>1, <1>3, <2>2 DEF IndexTypes
  <2>4. chunks' \subseteq ChunksOfAll(Sources) BY <1>1, <1>4 DEF IndexTypes
  <2> QED BY <1>1, <1>3, <2>1, <2>3, <2>4 DEF IndexTypes
<1>6. WholeInv'
  <2>1. WholeSet(chunks) BY DEF RetrievalInv, WholeInv
  <2>2. WholeSet(chunks') BY <1>4, <2>1, WholeRest
  <2> QED BY <2>2 DEF RetrievalInv, WholeInv, WholeSet
<1> QED BY <1>3, <1>5, <1>6

LEMMA DeleteMemoryKeeps ==
  ASSUME RetrievalInv, UniqueDocuments, NEW t \in IndexTasks, NEW s \in Sources, store = "memory",
         DeleteMemory(t, s), indexTask[t].at = "idle", UNCHANGED store
  PROVE  RetrievalInv'
<1>1. IndexTypes BY DEF RetrievalInv
<1>2. /\ pendingDocs' = {d \in pendingDocs : Owner(d) # Owner(s)} /\ chunks' = Without(Stale({s}))
      /\ vectors' = {v \in vectors : v.id \notin Stale({s})}
      /\ indexTask' = [indexTask EXCEPT ![t] = [IdleIndexTask EXCEPT !.at = "ended"]]
      /\ removed' = removed \cup {Owner(s)} /\ UNCHANGED <<store, disk, index, muddled>>
  <2>1. {ChunkId(c) : c \in {x \in chunks : Owner(x) = Owner(s)}} = Stale({s}) BY DEF Stale
  <2> QED BY <2>1 DEF DeleteMemory
<1>3. chunks' = OthersOf({s}) /\ \A c \in chunks : ChunkId(c) \in Stale({s}) <=> HasOwner({s}, c)
  BY <1>1, <1>2, ByIdentity
<1>4. chunks' = {c \in chunks : ~HasOwner({s}, c)} BY <1>3, OthersAre
<1>5. pendingDocs' \subseteq Configured /\ vectors' \subseteq vectors BY <1>1, <1>2 DEF IndexTypes
<1>6. /\ IndexTypes' /\ WholeInv' /\ \A u \in IndexTasks \ {t} : indexTask'[u] = indexTask[u]
      /\ DOMAIN indexTask' = IndexTasks /\ indexTask'[t].at = "ended"
  BY <1>2, <1>3, <1>5, DeletedAtOnce
<1>7. VectorsMatch'
  <2>1. vectors = {[id |-> ChunkId(c), of |-> c] : c \in chunks} BY DEF RetrievalInv, VectorsMatch
  <2> DEFINE gone == Stale({s})
  <2>2. \A c \in chunks : ChunkId(c) \notin gone <=> ~HasOwner({s}, c) BY <1>3
  <2>3. \A c \in chunks : [id |-> ChunkId(c), of |-> c].id = ChunkId(c) OBVIOUS
  <2>4. vectors' = {v \in vectors : v.id \notin gone} BY <1>2
  <2> HIDE DEF gone
  <2>5. vectors' = {[id |-> ChunkId(c), of |-> c] : c \in {x \in chunks : ~HasOwner({s}, x)}}
    BY <2>1, <2>2, <2>3, <2>4
  <2> QED BY <1>4, <2>5 DEF VectorsMatch, ChunkId
<1>8. KeptInv'
  <2> SUFFICES ASSUME NEW d \in Configured
               PROVE  \/ d \in pendingDocs'
                      \/ \E u \in IndexTasks : indexTask'[u].at \in {"embedding", "cancelled"} /\ indexTask'[u].does = "query"
                                               /\ d \in indexTask'[u].docs
                      \/ \E c \in chunks' : Owner(c) = Owner(d)
                      \/ Owner(d) \in removed'
    BY DEF KeptInv, Owner
  <2>1. CASE Owner(d) = Owner(s) BY <1>2, <2>1
  <2>2. CASE Owner(d) # Owner(s)
    <3>1. CASE \E u \in IndexTasks : indexTask[u].at \in {"embedding", "cancelled"} /\ indexTask[u].does = "query" /\ d \in indexTask[u].docs
      BY <1>6, <3>1
    <3>2. CASE \E c \in chunks : Owner(c) = Owner(d) BY <1>4, <2>2, <3>2 DEF HasOwner
    <3> QED BY <1>2, <2>2, <3>1, <3>2 DEF RetrievalInv, KeptInv
  <2> QED BY <2>1, <2>2
<1>9. FaissInv' /\ ApartInv' BY <1>2 DEF FaissInv, ApartInv
<1> QED BY <1>6, <1>7, <1>8, <1>9 DEF RetrievalInv

LEMMA DeletePostgresKeeps ==
  ASSUME RetrievalInv, NEW t \in IndexTasks, NEW s \in Sources, store = "postgres", DeletePostgres(t, s), UNCHANGED store
  PROVE  RetrievalInv'
<1>1. pendingDocs' \subseteq Configured BY DEF RetrievalInv, IndexTypes, DeletePostgres
<1>2. IndexTypes' /\ WholeInv' BY <1>1, DeletedAtOnce DEF DeletePostgres
<1>3. VectorsMatch' /\ KeptInv' /\ FaissInv' /\ ApartInv' BY DEF VectorsMatch, KeptInv, FaissInv, ApartInv
<1> QED BY <1>2, <1>3 DEF RetrievalInv

LEMMA DeleteRemoteKeeps ==
  ASSUME RetrievalInv, NEW t \in IndexTasks, NEW s \in Sources, store = "remote", DeleteRemote(t, s),
         indexTask[t].at = "idle", UNCHANGED store
  PROVE  RetrievalInv'
<1>1. IndexTypes BY DEF RetrievalInv
<1>2. /\ indexTask' = [indexTask EXCEPT ![t] = [at |-> "listing", does |-> "delete", docs |-> {s}, old |-> {}]]
      /\ muddled' = (muddled \/ \E u \in ActiveTasks : \E d \in indexTask[u].docs : Owner(d) = Owner(s))
      /\ UNCHANGED <<store, chunks, vectors, pendingDocs, disk, index, removed>>
  BY DEF DeleteRemote
<1>3. /\ DOMAIN indexTask' = IndexTasks /\ \A u \in IndexTasks \ {t} : indexTask'[u] = indexTask[u]
      /\ indexTask'[t] = [at |-> "listing", does |-> "delete", docs |-> {s}, old |-> {}]
  BY <1>1, <1>2, TaskSet
<1>4. TaskOk(indexTask'[t]) BY <1>3 DEF TaskOk, IdleIndexTask, OnePerOwner
<1>5. muddled' \in {muddled, TRUE} /\ pendingDocs' \subseteq Configured BY <1>1, <1>2 DEF IndexTypes
<1>6. indexTask[t].at \notin {"index file", "record file"} /\ indexTask'[t].at \notin {"index file", "record file"}
  BY <1>3
<1>7. IndexTypes' /\ WholeInv' /\ VectorsMatch' /\ FaissInv' BY <1>2, <1>3, <1>4, <1>5, <1>6, NothingStored
<1>8. KeptInv' BY DEF KeptInv
<1>9. ApartInv'
  <2> SUFFICES ASSUME ~muddled' PROVE ApartInv' BY DEF ApartInv
  <2>1. ~muddled /\ ~\E u \in ActiveTasks : \E d \in indexTask[u].docs : Owner(d) = Owner(s) BY <1>2
  <2>2. \A u \in IndexTasks \ {t} : u \in ActiveTasks' <=> u \in ActiveTasks BY <1>3 DEF ActiveTasks
  <2>3. ActiveTasks' \subseteq IndexTasks BY DEF ActiveTasks
  <2>4. ASSUME NEW u \in ActiveTasks', NEW v \in ActiveTasks', NEW d \in indexTask'[u].docs, NEW e \in indexTask'[v].docs,
               Owner(d) = Owner(e)
        PROVE  u = v
    BY <1>3, <2>1, <2>2, <2>3, <2>4 DEF RetrievalInv, ApartInv
  <2>5. ASSUME NEW u \in IndexTasks
        PROVE /\ indexTask'[u].at = "removing" =>
                   indexTask'[u].old = {StorageId(c) : c \in {x \in chunks : HasOwner(indexTask'[u].docs, x)}}
              /\ indexTask'[u].at = "upsert" => ~\E c \in chunks : HasOwner(indexTask'[u].docs, c)
    BY <1>3, <2>1 DEF RetrievalInv, ApartInv
  <2> QED BY <1>2, <2>4, <2>5 DEF ApartInv, HasOwner
<1> QED BY <1>7, <1>8, <1>9 DEF RetrievalInv

LEMMA DeleteFaissKeeps ==
  ASSUME RetrievalInv, NEW t \in IndexTasks, NEW s \in Sources, store = "faiss", DeleteFaiss(t, s),
         indexTask[t].at = "idle", UNCHANGED store
  PROVE  RetrievalInv'
<1>1. IndexTypes BY DEF RetrievalInv
<1>2. /\ ~IndexLocked /\ chunks' = OthersOf({s})
      /\ index' = IF OthersOf({s}) = chunks THEN index ELSE OthersOf({s})
      /\ indexTask' = [indexTask EXCEPT ![t] =
           [at |-> IF OthersOf({s}) = chunks THEN "ended" ELSE "index file", does |-> "delete", docs |-> {}, old |-> {}]]
      /\ UNCHANGED <<store, vectors, pendingDocs, disk, muddled>>
  BY DEF DeleteFaiss, Rebuild
<1>3. chunks' = {c \in chunks : ~HasOwner({s}, c)} BY <1>2, OthersAre
<1>4. chunks' \subseteq ChunksOfAll(Sources) BY <1>1, <1>3 DEF IndexTypes
<1>5. WholeSet(chunks')
  <2>1. WholeSet(chunks) BY DEF RetrievalInv, WholeInv
  <2> QED BY <1>3, <2>1, WholeRest
<1>6. /\ DOMAIN indexTask' = IndexTasks /\ \A u \in IndexTasks \ {t} : indexTask'[u] = indexTask[u]
      /\ indexTask'[t] = [at |-> IF OthersOf({s}) = chunks THEN "ended" ELSE "index file",
                          does |-> "delete", docs |-> {}, old |-> {}]
  BY <1>1, <1>2, TaskSet
<1>7. TaskOk(indexTask'[t])
  <2> DEFINE next == IF OthersOf({s}) = chunks THEN "ended" ELSE "index file"
  <2>1. next \in {"ended", "index file"} OBVIOUS
  <2>2. indexTask'[t] = [at |-> next, does |-> "delete", docs |-> {}, old |-> {}] BY <1>6
  <2> HIDE DEF next
  <2>3. DOMAIN indexTask'[t] = DOMAIN IdleIndexTask BY <2>2 DEF IdleIndexTask
  <2>4. indexTask'[t].docs = {} /\ indexTask'[t].does = "delete" /\ indexTask'[t].at = next BY <2>2
  <2> QED BY <2>1, <2>3, <2>4 DEF TaskOk, OnePerOwner
<1>8. CASE OthersOf({s}) = chunks
  <2>1. UNCHANGED <<store, chunks, vectors, disk, index>> BY <1>2, <1>8
  <2>2. indexTask[t].at \notin {"index file", "record file"} /\ indexTask'[t].at \notin {"index file", "record file"}
    BY <1>6, <1>8
  <2>3. muddled' \in {muddled, TRUE} /\ pendingDocs' \subseteq Configured BY <1>1, <1>2 DEF IndexTypes
  <2>4. IndexTypes' /\ WholeInv' /\ VectorsMatch' /\ FaissInv' BY <1>6, <1>7, <2>1, <2>2, <2>3, NothingStored
  <2> QED BY <2>4 DEF RetrievalInv, KeptInv, ApartInv
<1>9. CASE OthersOf({s}) # chunks BY <1>2, <1>4, <1>5, <1>6, <1>7, <1>9, FaissChanges
<1> QED BY <1>8, <1>9

LEMMA DeleteDocumentKeeps ==
  ASSUME RetrievalInv, store = "memory" => UniqueDocuments, NEW t \in IndexTasks, DeleteDocument(t)
  PROVE  RetrievalInv'
<1>1. indexTask[t].at = "idle" /\ UNCHANGED store BY DEF DeleteDocument, IndexBegins
<1>2. PICK s \in Sources : \/ store = "memory" /\ DeleteMemory(t, s)
                           \/ store = "postgres" /\ DeletePostgres(t, s)
                           \/ store = "remote" /\ DeleteRemote(t, s)
                           \/ store = "faiss" /\ DeleteFaiss(t, s)
  BY DEF DeleteDocument
<1> QED BY <1>1, <1>2, DeleteMemoryKeeps, DeletePostgresKeeps, DeleteRemoteKeeps, DeleteFaissKeeps

\* What is left after a restart: nothing in memory, the two files of FAISS, what reached the other stores.
LEMMA IndexRestartKeeps == ASSUME RetrievalInv, IndexRestart PROVE RetrievalInv'
<1> DEFINE died == [IdleIndexTask EXCEPT !.at = "died"]
           ended == [IdleIndexTask EXCEPT !.at = "ended"]
<1>1. IndexTypes BY DEF RetrievalInv
<1>2. /\ indexTask' = [t \in IndexTasks |-> IF t \in ActiveTasks THEN died
                                            ELSE IF indexTask[t].at = "cancelled" THEN ended ELSE indexTask[t]]
      /\ chunks' = CASE store = "memory" -> {} [] store = "faiss" -> disk.records [] OTHER -> chunks
      /\ vectors' = {} /\ index' = disk.index
      /\ pendingDocs' = IF store = "memory" THEN Configured ELSE {}
      /\ muddled' = (muddled \/ (store = "remote" /\ \E t \in IndexTasks : indexTask[t].at \in {"removing", "upsert"})
                             \/ \E t \in IndexTasks : indexTask[t].at = "record file")
      /\ UNCHANGED <<store, disk>>
  BY DEF IndexRestart
<1>3. died.at = "died" /\ TaskOk(died) /\ ended.at = "ended" /\ TaskOk(ended) BY DEF IdleIndexTask, TaskOk, OnePerOwner
<1>4. \A t \in IndexTasks : /\ indexTask'[t].at \in {"idle", "ended", "died"} /\ TaskOk(indexTask'[t])
  BY <1>1, <1>2, <1>3 DEF IndexTypes, ActiveTasks
<1>5. store \in {"memory", "postgres", "remote", "faiss"} BY <1>1, IndexConstants DEF IndexTypes
<1>6. /\ store = "memory" => chunks' = {}
      /\ store = "faiss" => chunks' = disk.records
      /\ store \in {"postgres", "remote"} => chunks' = chunks
  BY <1>2
<1>7. IndexTypes'
  <2>1. \A r : TaskOk(r)' <=> TaskOk(r) BY <1>2 DEF TaskOk
  <2>2. chunks' \subseteq ChunksOfAll(Sources) /\ index' \subseteq ChunksOfAll(Sources)
    BY <1>1, <1>2, <1>5, <1>6 DEF IndexTypes
  <2>3. DOMAIN indexTask' = IndexTasks BY <1>2
  <2>4. muddled' \in BOOLEAN /\ pendingDocs' \subseteq Configured BY <1>1, <1>2 DEF IndexTypes
  <2> QED BY <1>1, <1>2, <1>4, <2>1, <2>2, <2>3, <2>4 DEF IndexTypes
<1>8. WholeInv'
  <2>1. (store = "remote" /\ muddled') \/ WholeSet(chunks')
    BY <1>1, <1>2, <1>5, <1>6 DEF RetrievalInv, WholeInv, WholeSet, IndexTypes
  <2> QED BY <1>2, <2>1 DEF RetrievalInv, WholeInv, WholeSet
<1>9. VectorsMatch' BY <1>2, <1>6 DEF VectorsMatch
<1>10. KeptInv' BY <1>2 DEF KeptInv
<1>11. FaissInv'
  <2> SUFFICES ASSUME store = "faiss" PROVE FaissInv' BY <1>2 DEF FaissInv
  <2>1. ~muddled' => disk.index = disk.records BY <1>2 DEF RetrievalInv, FaissInv
  <2> QED BY <1>2, <1>4, <1>6, <2>1 DEF FaissInv
<1>12. ApartInv'
  <2>1. ActiveTasks' = {} BY <1>4 DEF ActiveTasks
  <2> QED BY <1>4, <2>1 DEF ApartInv
<1> QED BY <1>7, <1>8, <1>9, <1>10, <1>11, <1>12 DEF RetrievalInv

LEMMA RetrievalBegins == ASSUME RetrievalInit PROVE RetrievalInv
<1>1. \A t \in IndexTasks : indexTask[t] = IdleIndexTask BY DEF RetrievalInit
<1>2. TaskOk(IdleIndexTask) BY DEF TaskOk, IdleIndexTask, OnePerOwner
<1>3. IndexTypes BY <1>1, <1>2 DEF RetrievalInit, IndexTypes
<1>4. WholeInv /\ VectorsMatch /\ KeptInv BY DEF RetrievalInit, WholeInv, WholeSet, VectorsMatch, KeptInv
<1>5. IdleIndexTask.at = "idle" BY DEF IdleIndexTask
<1>6. FaissInv BY <1>1, <1>5 DEF RetrievalInit, FaissInv
<1>7. ActiveTasks = {} BY <1>1, <1>5 DEF ActiveTasks
<1>8. ApartInv BY <1>1, <1>5, <1>7 DEF ApartInv
<1> QED BY <1>3, <1>4, <1>6, <1>8 DEF RetrievalInv

LEMMA RetrievalStep ==
  ASSUME RetrievalInv, store = "memory" => UniqueDocuments, [RetrievalNext]_retrievalVars
  PROVE  RetrievalInv'
<1>1. CASE UNCHANGED retrievalVars
  <2>1. \A r : TaskOk(r)' <=> TaskOk(r) BY <1>1 DEF retrievalVars, TaskOk
  <2>2. IndexTypes' BY <1>1, <2>1 DEF retrievalVars, RetrievalInv, IndexTypes
  <2>3. WholeInv' /\ VectorsMatch' /\ KeptInv' BY <1>1 DEF retrievalVars, RetrievalInv, WholeInv, WholeSet, VectorsMatch, KeptInv
  <2>4. FaissInv' /\ ApartInv' BY <1>1 DEF retrievalVars, RetrievalInv, FaissInv, ApartInv, ActiveTasks
  <2> QED BY <2>2, <2>3, <2>4 DEF RetrievalInv
<1>2. CASE IndexRestart BY <1>2, IndexRestartKeeps
<1>3. ASSUME NEW t \in IndexTasks,
             \/ StartIngest(t) \/ EmbedFails(t) \/ CancelQuery(t) \/ WriteMemory(t) \/ WritePostgres(t) \/ ListOld(t) \/ RemoveOld(t)
             \/ Upsert(t) \/ WriteFaiss(t) \/ PersistIndex(t) \/ PersistRecords(t)
             \/ DeleteDocument(t) \/ TakePending(t) \/ Search(t)
      PROVE  RetrievalInv'
  <2>1. WriteMemory(t) \/ TakePending(t) => store = "memory" BY DEF WriteMemory, TakePending
  <2> QED BY <1>3, <2>1, StartIngestKeeps, EmbedFailsKeeps, CancelQueryKeeps, WriteMemoryKeeps, WritePostgresKeeps, ListOldKeeps,
             RemoveOldKeeps, UpsertKeeps, WriteFaissKeeps, PersistIndexKeeps, PersistRecordsKeeps,
             DeleteDocumentKeeps, TakePendingKeeps, SearchKeeps
<1> QED BY <1>1, <1>2, <1>3 DEF RetrievalNext

LEMMA RetrievalHolds == ASSUME RetrievalInv PROVE RetrievalSafe
<1>1. RetrievalTypeOK BY DEF RetrievalInv, IndexTypes, TaskOk, RetrievalTypeOK
<1>2. VersionsWhole BY DEF RetrievalInv, WholeInv, WholeSet, VersionsWhole
<1>3. ConfiguredKept BY DEF RetrievalInv, KeptInv, ConfiguredKept
<1>4. IndexAligned BY DEF RetrievalInv, FaissInv, IndexAligned
<1> QED BY <1>1, <1>2, <1>3, <1>4 DEF RetrievalInv, RetrievalSafe

\* Whatever overlaps or dies, a store holds whole documents with their own vectors, the FAISS index and records
\* agree, and a configured document is lost only with a cancelled query; in memory, if no two tenants use the same document id.
THEOREM RetrievalIsSafe ==
  ASSUME "memory" \in Backends => UniqueDocuments
  PROVE  RetrievalSpec => []RetrievalSafe
<1>1. ASSUME RetrievalInv, [RetrievalNext]_retrievalVars PROVE RetrievalInv'
  BY <1>1, RetrievalStep DEF RetrievalInv, IndexTypes
<1> QED BY <1>1, RetrievalBegins, RetrievalHolds, PTL DEF RetrievalSpec

-----------------------------------------------------------------------------
(* Storage: artifacts.                                                     *)

FileStages == {"idle", "upload", "insert", "undo", "scanning", "evidence", "publish", "remove", "unlink", "ended", "died"}
FileTaskType == [at : FileStages, id : FileIds, result : {"none", "available", "quarantined"}]
RowType ==
  [status : {"absent", "pending_scan", "available", "quarantined"}, expired : BOOLEAN,
   first : {"absent", "pending_scan", "available", "quarantined"}]
FileTypes ==
  /\ objects \subseteq FileIds /\ doubtful \subseteq FileIds
  /\ fileRows \in [FileIds -> RowType] /\ fileTask \in [FileTasks -> FileTaskType]

\* A put that has uploaded, and may take its object away again, is the only one of its id and the id has no row.
HasUpload(t) == fileTask[t].at \in {"insert", "undo"} /\ fileTask[t].id \notin doubtful
UploadsAlone ==
  \A t \in FileTasks : HasUpload(t) =>
    /\ fileTask[t].id \in objects /\ ~Stored(fileTask[t].id)
    /\ \A u \in FileTasks : HasUpload(u) /\ fileTask[u].id = fileTask[t].id => u = t

\* What is about to be published has its evidence.
PublishEvident ==
  \A t \in FileTasks : fileTask[t].at = "publish" =>
    fileTask[t].result \in {"available", "quarantined"} /\ <<fileTask[t].id, fileTask[t].result>> \in evidence
ResultKnown == \A t \in FileTasks : fileTask[t].at = "evidence" => fileTask[t].result \in {"available", "quarantined"}

ArtifactsInv == FileTypes /\ UploadsAlone /\ PublishEvident /\ ResultKnown /\ RowsHaveObjects /\ EvidenceFirst

LEMMA NoFileTaskType == NoFileTask \in FileTaskType /\ NoFileTask.at = "idle"
<1>1. (CHOOSE i \in FileIds : TRUE) \in FileIds BY StorageConstants
<1> QED BY <1>1 DEF NoFileTask, FileTaskType, FileStages

\* A task that is set, goes on or ends: the others stay.
LEMMA FileTaskSet ==
  ASSUME FileTypes, NEW t \in FileTasks, NEW r \in FileTaskType, fileTask' = [fileTask EXCEPT ![t] = r]
  PROVE  /\ fileTask' \in [FileTasks -> FileTaskType] /\ fileTask'[t] = r
         /\ \A u \in FileTasks \ {t} : fileTask'[u] = fileTask[u]
BY DEF FileTypes

LEMMA FileTaskGoes ==
  ASSUME FileTypes, NEW t \in FileTasks, NEW next \in FileStages, FileAt(t, next)
  PROVE  /\ fileTask' \in [FileTasks -> FileTaskType]
         /\ fileTask'[t].at = next /\ fileTask'[t].id = fileTask[t].id /\ fileTask'[t].result = fileTask[t].result
         /\ \A u \in FileTasks \ {t} : fileTask'[u] = fileTask[u]
BY DEF FileTypes, FileTaskType, FileAt

LEMMA FileTaskEnds ==
  ASSUME FileTypes, NEW t \in FileTasks, FileEnds(t)
  PROVE  /\ fileTask' \in [FileTasks -> FileTaskType] /\ fileTask'[t].at = "ended"
         /\ \A u \in FileTasks \ {t} : fileTask'[u] = fileTask[u]
<1>1. [NoFileTask EXCEPT !.at = "ended"] \in FileTaskType /\ [NoFileTask EXCEPT !.at = "ended"].at = "ended"
  BY NoFileTaskType DEF FileTaskType, FileStages
<1> QED BY <1>1, FileTaskSet DEF FileEnds

\* Steps that leave objects and rows as they are.
LEMMA QuietFiles ==
  ASSUME ArtifactsInv, NEW t \in FileTasks, UNCHANGED <<objects, fileRows, doubtful>>, evidence \subseteq evidence',
         fileTask' \in [FileTasks -> FileTaskType], \A u \in FileTasks \ {t} : fileTask'[u] = fileTask[u],
         fileTask'[t].at \in {"insert", "undo"} =>
           fileTask[t].at \in {"insert", "undo"} /\ fileTask'[t].id = fileTask[t].id,
         fileTask'[t].at \in {"evidence", "publish"} => fileTask'[t].result \in {"available", "quarantined"},
         fileTask'[t].at = "publish" => <<fileTask'[t].id, fileTask'[t].result>> \in evidence'
  PROVE  ArtifactsInv'
<1>1. FileTypes' BY DEF ArtifactsInv, FileTypes
<1>2. UploadsAlone'
  <2>1. \A u \in FileTasks : HasUpload(u)' => HasUpload(u) /\ fileTask'[u].id = fileTask[u].id BY DEF HasUpload
  <2> QED BY <2>1 DEF ArtifactsInv, UploadsAlone, Stored
<1>3. PublishEvident' /\ ResultKnown' BY DEF ArtifactsInv, PublishEvident, ResultKnown
<1>4. RowsHaveObjects' BY DEF ArtifactsInv, RowsHaveObjects, Stored
<1>5. EvidenceFirst' BY DEF ArtifactsInv, EvidenceFirst
<1> QED BY <1>1, <1>2, <1>3, <1>4, <1>5 DEF ArtifactsInv

LEMMA StartPutKeeps == ASSUME ArtifactsInv, NEW t \in FileTasks, StartPut(t) PROVE ArtifactsInv'
<1>1. PICK id \in FileIds :
        fileTask' = [fileTask EXCEPT ![t] =
          [NoFileTask EXCEPT !.id = id, !.at = IF Cardinality(StoredIds) < FileQuota THEN "upload" ELSE "ended"]]
  BY DEF StartPut
<1> DEFINE next == IF Cardinality(StoredIds) < FileQuota THEN "upload" ELSE "ended"
           r == [NoFileTask EXCEPT !.id = id, !.at = next]
<1>2. next \in {"upload", "ended"} OBVIOUS
<1>3. fileTask' = [fileTask EXCEPT ![t] = r] BY <1>1
<1> HIDE DEF next
<1>4. r \in FileTaskType /\ r.at \in {"upload", "ended"} BY <1>2, NoFileTaskType DEF FileTaskType, FileStages
<1> HIDE DEF r
<1>5. /\ fileTask' \in [FileTasks -> FileTaskType] /\ fileTask'[t] = r
      /\ \A u \in FileTasks \ {t} : fileTask'[u] = fileTask[u]
  BY <1>3, <1>4, FileTaskSet DEF ArtifactsInv
<1>6. UNCHANGED <<objects, fileRows, doubtful, evidence>> BY DEF StartPut
<1> QED BY <1>4, <1>5, <1>6, QuietFiles

LEMMA StartFileScanKeeps == ASSUME ArtifactsInv, NEW t \in FileTasks, StartFileScan(t) PROVE ArtifactsInv'
<1>1. PICK id \in FileIds :
        fileTask' = [fileTask EXCEPT ![t] =
          [NoFileTask EXCEPT !.id = id,
             !.at = IF fileRows[id].status = "pending_scan" /\ id \in objects THEN "scanning" ELSE "ended"]]
  BY DEF StartFileScan
<1> DEFINE next == IF fileRows[id].status = "pending_scan" /\ id \in objects THEN "scanning" ELSE "ended"
           r == [NoFileTask EXCEPT !.id = id, !.at = next]
<1>2. next \in {"scanning", "ended"} OBVIOUS
<1>3. fileTask' = [fileTask EXCEPT ![t] = r] BY <1>1
<1> HIDE DEF next
<1>4. r \in FileTaskType /\ r.at \in {"scanning", "ended"} BY <1>2, NoFileTaskType DEF FileTaskType, FileStages
<1> HIDE DEF r
<1>5. /\ fileTask' \in [FileTasks -> FileTaskType] /\ fileTask'[t] = r
      /\ \A u \in FileTasks \ {t} : fileTask'[u] = fileTask[u]
  BY <1>3, <1>4, FileTaskSet DEF ArtifactsInv
<1>6. UNCHANGED <<objects, fileRows, doubtful, evidence>> BY DEF StartFileScan
<1> QED BY <1>4, <1>5, <1>6, QuietFiles

LEMMA StartDeleteKeeps == ASSUME ArtifactsInv, NEW t \in FileTasks, StartDelete(t) PROVE ArtifactsInv'
<1>1. PICK id \in StoredIds : fileTask' = [fileTask EXCEPT ![t] = [NoFileTask EXCEPT !.id = id, !.at = "remove"]]
  BY DEF StartDelete
<1> DEFINE r == [NoFileTask EXCEPT !.id = id, !.at = "remove"]
<1>2. r \in FileTaskType /\ r.at = "remove" BY NoFileTaskType DEF FileTaskType, FileStages, StoredIds
<1>3. fileTask' = [fileTask EXCEPT ![t] = r] BY <1>1
<1> HIDE DEF r
<1>4. /\ fileTask' \in [FileTasks -> FileTaskType] /\ fileTask'[t] = r
      /\ \A u \in FileTasks \ {t} : fileTask'[u] = fileTask[u]
  BY <1>2, <1>3, FileTaskSet DEF ArtifactsInv
<1>5. UNCHANGED <<objects, fileRows, doubtful, evidence>> BY DEF StartDelete
<1> QED BY <1>2, <1>4, <1>5, QuietFiles

LEMMA ScanAnswersKeeps == ASSUME ArtifactsInv, NEW t \in FileTasks, ScanAnswers(t) PROVE ArtifactsInv'
<1>1. PICK outcome \in {"available", "quarantined"} :
        fileTask' = [fileTask EXCEPT ![t].at = "evidence", ![t].result = outcome]
  BY DEF ScanAnswers
<1> DEFINE r == [fileTask[t] EXCEPT !.at = "evidence", !.result = outcome]
<1>2. fileTask[t] \in FileTaskType BY DEF ArtifactsInv, FileTypes
<1>3. r \in FileTaskType /\ r.at = "evidence" /\ r.result = outcome BY <1>2 DEF FileTaskType, FileStages
<1>4. fileTask' = [fileTask EXCEPT ![t] = r] BY <1>1 DEF ArtifactsInv, FileTypes
<1> HIDE DEF r
<1>5. /\ fileTask' \in [FileTasks -> FileTaskType] /\ fileTask'[t] = r
      /\ \A u \in FileTasks \ {t} : fileTask'[u] = fileTask[u]
  BY <1>3, <1>4, FileTaskSet DEF ArtifactsInv
<1>6. UNCHANGED <<objects, fileRows, doubtful, evidence>> BY DEF ScanAnswers
<1> QED BY <1>3, <1>5, <1>6, QuietFiles

LEMMA AppendEvidenceKeeps == ASSUME ArtifactsInv, NEW t \in FileTasks, AppendEvidence(t) PROVE ArtifactsInv'
<1>1. /\ fileTask' \in [FileTasks -> FileTaskType]
      /\ fileTask'[t].at = "publish" /\ fileTask'[t].id = fileTask[t].id /\ fileTask'[t].result = fileTask[t].result
      /\ \A u \in FileTasks \ {t} : fileTask'[u] = fileTask[u]
  BY FileTaskGoes DEF AppendEvidence, ArtifactsInv, FileStages
<1>2. /\ evidence' = evidence \cup {<<fileTask[t].id, fileTask[t].result>>}
      /\ UNCHANGED <<objects, fileRows, doubtful>> /\ fileTask[t].at = "evidence"
  BY DEF AppendEvidence
<1>3. fileTask[t].result \in {"available", "quarantined"} BY <1>2 DEF ArtifactsInv, ResultKnown
<1> QED BY <1>1, <1>2, <1>3, QuietFiles

\* An upload finds no object, so no other put of the id has one.
LEMMA UploadKeeps == ASSUME ArtifactsInv, NEW t \in FileTasks, Upload(t) PROVE ArtifactsInv'
<1> DEFINE id == fileTask[t].id
<1>1. /\ fileTask[t].at = "upload"
      /\ \/ id \notin objects /\ objects' = objects \cup {id} /\ (FileAt(t, "insert") \/ FileEnds(t))
         \/ FileEnds(t) /\ UNCHANGED objects
      /\ UNCHANGED <<fileRows, evidence, doubtful>>
  BY DEF Upload, MayUpload
<1>2. id \in FileIds BY DEF ArtifactsInv, FileTypes, FileTaskType
<1>3. /\ fileTask' \in [FileTasks -> FileTaskType] /\ \A u \in FileTasks \ {t} : fileTask'[u] = fileTask[u]
      /\ \/ fileTask'[t].at = "insert" /\ fileTask'[t].id = id /\ id \notin objects /\ objects' = objects \cup {id}
         \/ fileTask'[t].at = "ended" /\ objects' \in {objects, objects \cup {id}}
  BY <1>1, FileTaskGoes, FileTaskEnds DEF ArtifactsInv, FileStages
<1>4. FileTypes' BY <1>1, <1>2, <1>3 DEF ArtifactsInv, FileTypes
<1>5. objects \subseteq objects' BY <1>3
<1>6. UploadsAlone'
  <2>1. \A u \in FileTasks \ {t} : (HasUpload(u)' <=> HasUpload(u)) /\ fileTask'[u].id = fileTask[u].id
    BY <1>1, <1>3 DEF HasUpload
  <2>2. CASE fileTask'[t].at = "ended"
    <3>1. ~HasUpload(t)' BY <2>2 DEF HasUpload
    <3> QED BY <1>1, <1>5, <2>1, <3>1 DEF ArtifactsInv, UploadsAlone, Stored
  <2>3. CASE fileTask'[t].at = "insert"
    <3>1. fileTask'[t].id = id /\ id \notin objects /\ id \in objects' BY <1>3, <2>3
    <3>2. \A u \in FileTasks \ {t} : HasUpload(u) => fileTask[u].id # id BY <3>1 DEF ArtifactsInv, UploadsAlone
    <3>3. HasUpload(t)' => fileRows[id].status = "absent"
      BY <1>1, <1>2, <3>1 DEF ArtifactsInv, RowsHaveObjects, HasUpload, Stored
    <3>4. ASSUME NEW u \in FileTasks, HasUpload(u)'
          PROVE  /\ fileTask'[u].id \in objects' /\ fileRows[fileTask'[u].id].status = "absent"
                 /\ \A v \in FileTasks : HasUpload(v)' /\ fileTask'[v].id = fileTask'[u].id => v = u
      <4>1. CASE u = t BY <2>1, <3>1, <3>2, <3>3, <3>4, <4>1
      <4>2. CASE u # t
        <5>1. HasUpload(u) /\ fileTask'[u] = fileTask[u] BY <1>3, <2>1, <3>4, <4>2
        <5>2. fileTask[u].id # id BY <3>2, <4>2, <5>1
        <5> QED BY <1>5, <2>1, <3>1, <5>1, <5>2 DEF ArtifactsInv, UploadsAlone, Stored
      <4> QED BY <4>1, <4>2
    <3> QED BY <1>1, <3>4 DEF UploadsAlone, Stored
  <2> QED BY <1>3, <2>2, <2>3
<1>7. PublishEvident' /\ ResultKnown' BY <1>1, <1>3 DEF ArtifactsInv, PublishEvident, ResultKnown
<1>8. RowsHaveObjects' BY <1>1, <1>5 DEF ArtifactsInv, RowsHaveObjects, Stored
<1>9. EvidenceFirst' BY <1>1 DEF ArtifactsInv, EvidenceFirst
<1> QED BY <1>4, <1>6, <1>7, <1>8, <1>9 DEF ArtifactsInv

\* The row is inserted for an object that is there.
LEMMA InsertRowKeeps == ASSUME ArtifactsInv, NEW t \in FileTasks, InsertRow(t) PROVE ArtifactsInv'
<1> DEFINE id == fileTask[t].id
<1>1. fileTask[t].at = "insert" /\ UNCHANGED <<objects, evidence>> BY DEF InsertRow
<1>2. id \in FileIds BY DEF ArtifactsInv, FileTypes, FileTaskType
<1>3. CASE FileAt(t, "undo") /\ UNCHANGED <<fileRows, doubtful>>
  <2>1. /\ fileTask' \in [FileTasks -> FileTaskType]
        /\ fileTask'[t].at = "undo" /\ fileTask'[t].id = fileTask[t].id
        /\ \A u \in FileTasks \ {t} : fileTask'[u] = fileTask[u]
    BY <1>3, FileTaskGoes DEF ArtifactsInv, FileStages
  <2> QED BY <1>1, <1>3, <2>1, QuietFiles
<1>4. CASE \E given \in {"pending_scan", "available"} :
             /\ fileRows' = [fileRows EXCEPT ![id] = [status |-> given, expired |-> FALSE, first |-> given]]
             /\ \/ FileEnds(t) /\ UNCHANGED doubtful
                \/ FileAt(t, "undo") /\ doubtful' = doubtful \cup {id}
  <2>1. PICK given \in {"pending_scan", "available"} :
             /\ fileRows' = [fileRows EXCEPT ![id] = [status |-> given, expired |-> FALSE, first |-> given]]
             /\ \/ FileEnds(t) /\ UNCHANGED doubtful
                \/ FileAt(t, "undo") /\ doubtful' = doubtful \cup {id}
    BY <1>4
  <2>2. /\ fileTask' \in [FileTasks -> FileTaskType] /\ \A u \in FileTasks \ {t} : fileTask'[u] = fileTask[u]
        /\ \/ fileTask'[t].at = "ended" /\ doubtful' = doubtful
           \/ fileTask'[t].at = "undo" /\ fileTask'[t].id = id /\ doubtful' = doubtful \cup {id}
    BY <2>1, FileTaskGoes, FileTaskEnds DEF ArtifactsInv, FileStages
  <2>3. /\ fileRows' \in [FileIds -> RowType] /\ fileRows'[id].status = given /\ fileRows'[id].first = given
        /\ \A i \in FileIds \ {id} : fileRows'[i] = fileRows[i]
    <3>1. [status |-> given, expired |-> FALSE, first |-> given] \in RowType BY DEF RowType
    <3> QED BY <1>2, <2>1, <3>1 DEF ArtifactsInv, FileTypes
  <2>4. FileTypes' BY <1>1, <1>2, <2>2, <2>3 DEF ArtifactsInv, FileTypes
  <2>5. ~HasUpload(t)' BY <2>2 DEF HasUpload
  <2>6. \A u \in FileTasks \ {t} : HasUpload(u)' => HasUpload(u) /\ fileTask'[u].id = fileTask[u].id /\ fileTask[u].id # id
    <3> SUFFICES ASSUME NEW u \in FileTasks \ {t}, HasUpload(u)'
                 PROVE HasUpload(u) /\ fileTask'[u].id = fileTask[u].id /\ fileTask[u].id # id
      OBVIOUS
    <3>1. HasUpload(u) /\ fileTask'[u].id = fileTask[u].id /\ fileTask[u].id \notin doubtful' BY <2>2 DEF HasUpload
    <3>2. CASE id \in doubtful' BY <3>1, <3>2
    <3>3. CASE id \notin doubtful'
      <4>1. HasUpload(t) BY <1>1, <2>2, <3>3 DEF HasUpload
      <4> QED BY <3>1, <4>1 DEF ArtifactsInv, UploadsAlone
    <3> QED BY <3>2, <3>3
  <2>7. UploadsAlone'
    <3> HIDE DEF id
    <3>1. \A u \in FileTasks : HasUpload(u)' => fileTask[u].id \in FileIds \ {id} BY <2>5, <2>6 DEF ArtifactsInv, FileTypes, FileTaskType
    <3> QED BY <1>1, <2>3, <2>5, <2>6, <3>1 DEF ArtifactsInv, UploadsAlone, Stored
  <2>8. PublishEvident' /\ ResultKnown' BY <1>1, <2>2 DEF ArtifactsInv, PublishEvident, ResultKnown
  <2>9. RowsHaveObjects'
    <3>1. id \notin doubtful' => id \in objects BY <1>1, <2>2 DEF ArtifactsInv, UploadsAlone, HasUpload
    <3>2. doubtful \subseteq doubtful' BY <2>2
    <3> HIDE DEF id
    <3> QED BY <1>1, <2>3, <3>1, <3>2 DEF ArtifactsInv, RowsHaveObjects, Stored
  <2>10. EvidenceFirst' BY <1>1, <2>3 DEF ArtifactsInv, EvidenceFirst
  <2> QED BY <2>4, <2>7, <2>8, <2>9, <2>10 DEF ArtifactsInv
<1> QED BY <1>3, <1>4 DEF InsertRow

\* A put takes away only what it uploaded.
LEMMA UndoUploadKeeps == ASSUME ArtifactsInv, NEW t \in FileTasks, UndoUpload(t) PROVE ArtifactsInv'
<1> DEFINE id == fileTask[t].id
<1>1. /\ fileTask[t].at = "undo" /\ objects' = objects \ {id} /\ FileEnds(t)
      /\ UNCHANGED <<fileRows, evidence, doubtful>>
  BY DEF UndoUpload
<1>2. /\ fileTask' \in [FileTasks -> FileTaskType] /\ fileTask'[t].at = "ended"
      /\ \A u \in FileTasks \ {t} : fileTask'[u] = fileTask[u]
  BY <1>1, FileTaskEnds DEF ArtifactsInv
<1>3. id \notin doubtful => HasUpload(t) BY <1>1 DEF HasUpload
<1>4. FileTypes' BY <1>1, <1>2 DEF ArtifactsInv, FileTypes
<1>5. UploadsAlone'
  <2>1. ~HasUpload(t)' BY <1>2 DEF HasUpload
  <2>2. \A u \in FileTasks : HasUpload(u)' => HasUpload(u) /\ u # t /\ fileTask'[u] = fileTask[u]
    BY <1>1, <1>2, <2>1 DEF HasUpload
  <2>3. \A u \in FileTasks : HasUpload(u) /\ u # t => fileTask[u].id # id
    BY <1>3 DEF ArtifactsInv, UploadsAlone, HasUpload
  <2> QED BY <1>1, <2>2, <2>3 DEF ArtifactsInv, UploadsAlone, Stored
<1>6. RowsHaveObjects' BY <1>1, <1>3 DEF ArtifactsInv, RowsHaveObjects, UploadsAlone, Stored
<1>7. PublishEvident' /\ ResultKnown' /\ EvidenceFirst'
  BY <1>1, <1>2 DEF ArtifactsInv, PublishEvident, ResultKnown, EvidenceFirst
<1> QED BY <1>4, <1>5, <1>6, <1>7 DEF ArtifactsInv

LEMMA PublishKeeps == ASSUME ArtifactsInv, NEW t \in FileTasks, Publish(t) PROVE ArtifactsInv'
<1> DEFINE id == fileTask[t].id
<1>1. /\ fileTask[t].at = "publish" /\ FileEnds(t) /\ UNCHANGED <<objects, doubtful>>
      /\ \/ StillPending(id) /\ fileRows' = [fileRows EXCEPT ![id].status = fileTask[t].result] /\ UNCHANGED evidence
         \/ evidence' = evidence \cup {<<id, "discarded">>} /\ UNCHANGED fileRows
  BY DEF Publish
<1>2. /\ fileTask' \in [FileTasks -> FileTaskType] /\ fileTask'[t].at = "ended"
      /\ \A u \in FileTasks \ {t} : fileTask'[u] = fileTask[u]
  BY <1>1, FileTaskEnds DEF ArtifactsInv
<1>3. CASE UNCHANGED fileRows BY <1>1, <1>2, <1>3, QuietFiles
<1>4. CASE StillPending(id) /\ fileRows' = [fileRows EXCEPT ![id].status = fileTask[t].result] /\ UNCHANGED evidence
  <2>1. id \in FileIds /\ fileTask[t].result \in {"available", "quarantined"} /\ <<id, fileTask[t].result>> \in evidence
    BY <1>1 DEF ArtifactsInv, FileTypes, FileTaskType, PublishEvident
  <2>2. fileRows[id] \in RowType /\ fileRows[id].status = "pending_scan" BY <1>4, <2>1 DEF ArtifactsInv, FileTypes, StillPending
  <2>3. /\ fileRows' \in [FileIds -> RowType] /\ fileRows'[id].status = fileTask[t].result
        /\ \A i \in FileIds \ {id} : fileRows'[i] = fileRows[i]
    BY <1>4, <2>1, <2>2 DEF ArtifactsInv, FileTypes, RowType
  <2>4. FileTypes' BY <1>1, <1>2, <2>3 DEF ArtifactsInv, FileTypes
  <2>5. \A i \in FileIds : fileRows'[i].status = "absent" <=> fileRows[i].status = "absent" BY <2>1, <2>2, <2>3
  <2>6. \A u \in FileTasks : HasUpload(u)' => HasUpload(u) /\ fileTask'[u] = fileTask[u] /\ fileTask[u].id \in FileIds
    BY <1>1, <1>2 DEF HasUpload, ArtifactsInv, FileTypes, FileTaskType
  <2>7. UploadsAlone' BY <1>1, <2>5, <2>6 DEF ArtifactsInv, UploadsAlone, Stored
  <2>8. RowsHaveObjects' BY <1>1, <2>5 DEF ArtifactsInv, RowsHaveObjects, Stored
  <2>9. PublishEvident' /\ ResultKnown' BY <1>2, <1>4 DEF ArtifactsInv, PublishEvident, ResultKnown
  <2>10. EvidenceFirst' BY <1>4, <2>1, <2>3 DEF ArtifactsInv, EvidenceFirst
  <2> QED BY <2>4, <2>7, <2>8, <2>9, <2>10 DEF ArtifactsInv
<1> QED BY <1>1, <1>3, <1>4

\* From here on the id is doubtful: nothing is said of its object any more.
LEMMA RemoveObjectKeeps == ASSUME ArtifactsInv, NEW t \in FileTasks, RemoveObject(t) PROVE ArtifactsInv'
<1> DEFINE id == fileTask[t].id
<1>1. /\ objects' = objects \ {id} /\ doubtful' = doubtful \cup {id} /\ FileAt(t, "unlink")
      /\ UNCHANGED <<fileRows, evidence>>
  BY DEF RemoveObject
<1>2. /\ fileTask' \in [FileTasks -> FileTaskType] /\ fileTask'[t].at = "unlink" /\ id \in FileIds
      /\ \A u \in FileTasks \ {t} : fileTask'[u] = fileTask[u]
  BY <1>1, FileTaskGoes DEF ArtifactsInv, FileTypes, FileStages, FileTaskType
<1>3. FileTypes' BY <1>1, <1>2 DEF ArtifactsInv, FileTypes
<1>4. \A u \in FileTasks : HasUpload(u)' => HasUpload(u) /\ fileTask'[u] = fileTask[u] /\ fileTask[u].id # id
  BY <1>1, <1>2 DEF HasUpload
<1>5. UploadsAlone' BY <1>1, <1>4 DEF ArtifactsInv, UploadsAlone, Stored
<1>6. RowsHaveObjects' BY <1>1 DEF ArtifactsInv, RowsHaveObjects, Stored
<1>7. PublishEvident' /\ ResultKnown' /\ EvidenceFirst'
  BY <1>1, <1>2 DEF ArtifactsInv, PublishEvident, ResultKnown, EvidenceFirst
<1> QED BY <1>3, <1>5, <1>6, <1>7 DEF ArtifactsInv

LEMMA RemoveRowKeeps == ASSUME ArtifactsInv, NEW t \in FileTasks, RemoveRow(t) PROVE ArtifactsInv'
<1> DEFINE id == fileTask[t].id
<1>1. /\ fileRows' = [fileRows EXCEPT ![id] = NoRow] /\ FileEnds(t) /\ UNCHANGED <<objects, evidence, doubtful>>
  BY DEF RemoveRow
<1>2. /\ fileTask' \in [FileTasks -> FileTaskType] /\ fileTask'[t].at = "ended" /\ id \in FileIds
      /\ \A u \in FileTasks \ {t} : fileTask'[u] = fileTask[u]
  BY <1>1, FileTaskEnds DEF ArtifactsInv, FileTypes, FileTaskType
<1>3. /\ fileRows' \in [FileIds -> RowType] /\ fileRows'[id].status = "absent" /\ fileRows'[id].first = "absent"
      /\ \A i \in FileIds \ {id} : fileRows'[i] = fileRows[i]
  BY <1>1, <1>2 DEF ArtifactsInv, FileTypes, NoRow, RowType
<1>4. FileTypes' BY <1>1, <1>2, <1>3 DEF ArtifactsInv, FileTypes
<1>5. \A u \in FileTasks : HasUpload(u)' => HasUpload(u) /\ fileTask'[u] = fileTask[u] /\ fileTask[u].id \in FileIds
  BY <1>1, <1>2 DEF HasUpload, ArtifactsInv, FileTypes, FileTaskType
<1>6. \A i \in FileIds : fileRows'[i].status = "absent" \/ fileRows'[i] = fileRows[i] BY <1>3
<1>7. UploadsAlone' BY <1>1, <1>5, <1>6 DEF ArtifactsInv, UploadsAlone, Stored
<1>8. RowsHaveObjects' BY <1>1, <1>6 DEF ArtifactsInv, RowsHaveObjects, Stored
<1>9. PublishEvident' /\ ResultKnown' BY <1>1, <1>2 DEF ArtifactsInv, PublishEvident, ResultKnown
<1>10. EvidenceFirst' BY <1>1, <1>3 DEF ArtifactsInv, EvidenceFirst
<1> QED BY <1>4, <1>7, <1>8, <1>9, <1>10 DEF ArtifactsInv

LEMMA FileExpiresKeeps == ASSUME ArtifactsInv, FileExpires PROVE ArtifactsInv'
<1>1. PICK id \in StoredIds : fileRows' = [fileRows EXCEPT ![id].expired = TRUE] BY DEF FileExpires
<1>2. UNCHANGED <<objects, evidence, fileTask, doubtful>> BY DEF FileExpires
<1>3. /\ fileRows' \in [FileIds -> RowType]
      /\ \A i \in FileIds : fileRows'[i].status = fileRows[i].status /\ fileRows'[i].first = fileRows[i].first
  BY <1>1 DEF ArtifactsInv, FileTypes, StoredIds, RowType
<1>4. FileTypes' BY <1>2, <1>3 DEF ArtifactsInv, FileTypes
<1>5. \A u \in FileTasks : (HasUpload(u)' <=> HasUpload(u)) /\ fileTask[u].id \in FileIds
  BY <1>2 DEF HasUpload, ArtifactsInv, FileTypes, FileTaskType
<1>6. UploadsAlone' BY <1>2, <1>3, <1>5 DEF ArtifactsInv, UploadsAlone, Stored
<1>7. PublishEvident' /\ ResultKnown' BY <1>2 DEF ArtifactsInv, PublishEvident, ResultKnown
<1>8. RowsHaveObjects' /\ EvidenceFirst' BY <1>2, <1>3 DEF ArtifactsInv, RowsHaveObjects, EvidenceFirst, Stored
<1> QED BY <1>4, <1>6, <1>7, <1>8 DEF ArtifactsInv

LEMMA FileCrashKeeps == ASSUME ArtifactsInv, NEW t \in FileTasks, FileCrash(t) PROVE ArtifactsInv'
<1> DEFINE r == [NoFileTask EXCEPT !.at = "died"]
<1>1. fileTask' = [fileTask EXCEPT ![t] = r] /\ UNCHANGED <<objects, fileRows, evidence, doubtful>> BY DEF FileCrash
<1>2. r \in FileTaskType /\ r.at = "died" BY NoFileTaskType DEF FileTaskType, FileStages
<1> HIDE DEF r
<1>3. /\ fileTask' \in [FileTasks -> FileTaskType] /\ fileTask'[t] = r
      /\ \A u \in FileTasks \ {t} : fileTask'[u] = fileTask[u]
  BY <1>1, <1>2, FileTaskSet DEF ArtifactsInv
<1> QED BY <1>1, <1>2, <1>3, QuietFiles

LEMMA FilesStep == ASSUME ArtifactsInv, ArtifactNext PROVE ArtifactsInv' /\ ScanStands
<1>1. ArtifactsInv'
  BY StartPutKeeps, UploadKeeps, InsertRowKeeps, UndoUploadKeeps, StartFileScanKeeps, ScanAnswersKeeps,
     AppendEvidenceKeeps, PublishKeeps, StartDeleteKeeps, RemoveObjectKeeps, RemoveRowKeeps, FileCrashKeeps,
     FileExpiresKeeps DEF ArtifactNext
<1>2. ScanStands
  <2> SUFFICES ASSUME NEW i \in FileIds, fileRows[i].status \in {"available", "quarantined"}
               PROVE  fileRows'[i].status \in {fileRows[i].status, "absent"}
    BY DEF ScanStands
  <2>1. fileRows \in [FileIds -> RowType] BY DEF ArtifactsInv, FileTypes
  <2>2. CASE UNCHANGED fileRows BY <2>2
  <2>3. ASSUME NEW t \in FileTasks, InsertRow(t) PROVE fileRows'[i].status \in {fileRows[i].status, "absent"}
    BY <2>1, <2>3 DEF InsertRow, Stored
  <2>4. ASSUME NEW t \in FileTasks, Publish(t) PROVE fileRows'[i].status \in {fileRows[i].status, "absent"}
    BY <2>1, <2>4 DEF Publish, StillPending
  <2>5. ASSUME NEW t \in FileTasks, RemoveRow(t) PROVE fileRows'[i].status \in {fileRows[i].status, "absent"}
    BY <2>1, <2>5 DEF RemoveRow, NoRow
  <2>6. CASE FileExpires BY <2>1, <2>6 DEF FileExpires, RowType, StoredIds
  <2> QED BY <2>2, <2>3, <2>4, <2>5, <2>6 DEF ArtifactNext, StartPut, Upload, UndoUpload, StartFileScan, ScanAnswers,
             AppendEvidence, StartDelete, RemoveObject, FileCrash
<1> QED BY <1>1, <1>2

-----------------------------------------------------------------------------
(* Storage: session memory.                                                *)

ItemPlaces(f, group) == UNION {{<<s, i>> : i \in 1..f[s]} : s \in group}

RedisTypes ==
  /\ redisClock \in Nat /\ usage \in Int
  /\ lists \in [RedisSessions -> [items : Nat, expires : Nat]]
  /\ sizes \in [RedisSessions -> Nat] /\ scores \in [RedisSessions -> Nat]

\* A session with a score is in the sorted set until its list expires; one without has no list any more.
ScoresExpire ==
  \A s \in RedisSessions : /\ scores[s] > 0 => lists[s].expires = scores[s]
                           /\ scores[s] = 0 => lists[s].expires <= redisClock
ListsCounted == \A s \in RedisSessions : Remaining(s) <= sizes[s]

RedisInv == RedisTypes /\ ScoresExpire /\ ListsCounted /\ usage = Cardinality(ItemPlaces(sizes, RedisSessions)) /\ usage <= ItemLimit

\* A session's places, and those of some sessions, are finitely many.
LEMMA ItemPlacesFinite ==
  ASSUME NEW f \in [RedisSessions -> Nat], NEW group \in SUBSET RedisSessions
  PROVE  IsFiniteSet(ItemPlaces(f, group)) /\ Cardinality(ItemPlaces(f, group)) \in Nat
<1> DEFINE placesOf(s) == {<<s, i>> : i \in 1..f[s]}
           rows == {placesOf(s) : s \in group}
           rowOf == [s \in group |-> placesOf(s)]
<1>1. IsFiniteSet(group) BY StorageConstants, FS_Subset
<1>2. rowOf \in Surjection(group, rows) BY DEF Surjection
<1>3. IsFiniteSet(rows)
  <2> HIDE DEF rows, rowOf
  <2> QED BY <1>1, <1>2, FS_Surjection
<1>4. ASSUME NEW s \in group PROVE IsFiniteSet(placesOf(s))
  <2> DEFINE place == [i \in 1..f[s] |-> <<s, i>>]
  <2>1. IsFiniteSet(1..f[s]) BY FS_Interval
  <2>2. place \in Surjection(1..f[s], placesOf(s)) BY DEF Surjection
  <2> HIDE DEF place, placesOf
  <2> QED BY <2>1, <2>2, FS_Surjection
<1>5. \A r \in rows : IsFiniteSet(r) BY <1>4
<1>6. IsFiniteSet(UNION rows)
  <2> HIDE DEF rows
  <2> QED BY <1>3, <1>5, FS_UNION
<1>7. UNION rows = ItemPlaces(f, group) BY DEF ItemPlaces
<1> QED BY <1>6, <1>7, FS_CardinalityType

\* A count is the sum of what goes and what stays.
LEMMA ItemPlacesSplit ==
  ASSUME NEW f \in [RedisSessions -> Nat], NEW gone \in SUBSET RedisSessions
  PROVE  /\ ItemPlaces(Trimmed(f, gone), RedisSessions) = ItemPlaces(f, RedisSessions \ gone)
         /\ Cardinality(ItemPlaces(f, RedisSessions)) =
              Cardinality(ItemPlaces(f, gone)) + Cardinality(ItemPlaces(f, RedisSessions \ gone))
<1>1. \A x : x \in ItemPlaces(f, gone) <=> \E s \in gone : \E i \in 1..f[s] : x = <<s, i>> BY DEF ItemPlaces
<1>2. \A x : x \in ItemPlaces(f, RedisSessions \ gone) <=> \E s \in RedisSessions \ gone : \E i \in 1..f[s] : x = <<s, i>>
  BY DEF ItemPlaces
<1>3. \A x : x \in ItemPlaces(f, RedisSessions) <=> \E s \in RedisSessions : \E i \in 1..f[s] : x = <<s, i>> BY DEF ItemPlaces
<1>4. \A x : x \in ItemPlaces(Trimmed(f, gone), RedisSessions) <=>
               \E s \in RedisSessions : \E i \in 1..Trimmed(f, gone)[s] : x = <<s, i>>
  BY DEF ItemPlaces
<1>5. \A s \in RedisSessions : /\ s \in gone => 1..Trimmed(f, gone)[s] = {}
                               /\ s \notin gone => Trimmed(f, gone)[s] = f[s]
  BY DEF Trimmed
<1>6. ItemPlaces(Trimmed(f, gone), RedisSessions) = ItemPlaces(f, RedisSessions \ gone) BY <1>2, <1>4, <1>5
<1>7. ItemPlaces(f, RedisSessions) = ItemPlaces(f, gone) \cup ItemPlaces(f, RedisSessions \ gone) BY <1>1, <1>2, <1>3
<1>8. ItemPlaces(f, gone) \cap ItemPlaces(f, RedisSessions \ gone) = {} BY <1>1, <1>2
<1>9. /\ IsFiniteSet(ItemPlaces(f, gone)) /\ Cardinality(ItemPlaces(f, gone)) \in Nat
      /\ IsFiniteSet(ItemPlaces(f, RedisSessions \ gone)) /\ Cardinality(ItemPlaces(f, RedisSessions \ gone)) \in Nat
  <2>1. RedisSessions \ gone \in SUBSET RedisSessions OBVIOUS
  <2> QED BY <2>1, ItemPlacesFinite
<1>10. Cardinality(ItemPlaces(f, RedisSessions)) =
         Cardinality(ItemPlaces(f, gone)) + Cardinality(ItemPlaces(f, RedisSessions \ gone)) - Cardinality({})
  BY <1>7, <1>8, <1>9, FS_Union
<1> QED BY <1>6, <1>9, <1>10, FS_EmptySet

LEMMA ItemPlacesGrowOne ==
  ASSUME NEW f \in [RedisSessions -> Nat], NEW s \in RedisSessions
  PROVE  Cardinality(ItemPlaces([f EXCEPT ![s] = f[s] + 1], RedisSessions)) = Cardinality(ItemPlaces(f, RedisSessions)) + 1
<1> DEFINE g == [f EXCEPT ![s] = f[s] + 1]
           x == <<s, f[s] + 1>>
<1>1. \A p : p \in ItemPlaces(f, RedisSessions) <=> \E r \in RedisSessions : \E i \in 1..f[r] : p = <<r, i>> BY DEF ItemPlaces
<1>2. \A p : p \in ItemPlaces(g, RedisSessions) <=> \E r \in RedisSessions : \E i \in 1..g[r] : p = <<r, i>> BY DEF ItemPlaces
<1>3. g[s] = f[s] + 1 /\ \A r \in RedisSessions \ {s} : g[r] = f[r] OBVIOUS
<1>4. f[s] \in Nat /\ 1..g[s] = 1..f[s] \cup {f[s] + 1} BY <1>3
<1> HIDE DEF g
<1>5. ItemPlaces(g, RedisSessions) = ItemPlaces(f, RedisSessions) \cup {x} BY <1>1, <1>2, <1>3, <1>4
<1>6. x \notin ItemPlaces(f, RedisSessions) BY <1>1, <1>4
<1>7. IsFiniteSet(ItemPlaces(f, RedisSessions)) BY ItemPlacesFinite
<1> HIDE DEF x
<1>8. Cardinality(ItemPlaces(g, RedisSessions)) = Cardinality(ItemPlaces(f, RedisSessions)) + 1
  BY <1>5, <1>6, <1>7, FS_AddElement
<1> QED BY <1>8 DEF g

LEMMA ItemPlacesGrow ==
  ASSUME NEW f \in [RedisSessions -> Nat], NEW s \in RedisSessions, NEW n \in 0..2
  PROVE  Cardinality(ItemPlaces([f EXCEPT ![s] = f[s] + n], RedisSessions)) = Cardinality(ItemPlaces(f, RedisSessions)) + n
<1> DEFINE once == [f EXCEPT ![s] = f[s] + 1]
<1>1. f[s] \in Nat /\ Cardinality(ItemPlaces(f, RedisSessions)) \in Nat BY ItemPlacesFinite
<1>2. CASE n = 0
  <2>1. f[s] + n = f[s] BY <1>1, <1>2
  <2>2. [f EXCEPT ![s] = f[s]] = f OBVIOUS
  <2>3. Cardinality(ItemPlaces(f, RedisSessions)) + n = Cardinality(ItemPlaces(f, RedisSessions)) BY <1>1, <1>2
  <2> QED BY <2>1, <2>2, <2>3
<1>3. CASE n = 1 BY <1>3, ItemPlacesGrowOne
<1>4. CASE n = 2
  <2>1. once \in [RedisSessions -> Nat] /\ once[s] = f[s] + 1 BY <1>1
  <2>2. [once EXCEPT ![s] = once[s] + 1] = [f EXCEPT ![s] = f[s] + n] BY <1>1, <1>4, <2>1
  <2> HIDE DEF once
  <2>3. Cardinality(ItemPlaces([once EXCEPT ![s] = once[s] + 1], RedisSessions)) = Cardinality(ItemPlaces(once, RedisSessions)) + 1
    BY <2>1, ItemPlacesGrowOne
  <2>4. Cardinality(ItemPlaces(once, RedisSessions)) = Cardinality(ItemPlaces(f, RedisSessions)) + 1 BY ItemPlacesGrowOne DEF once
  <2> QED BY <1>1, <1>4, <2>2, <2>3, <2>4
<1> QED BY <1>2, <1>3, <1>4

\* Only sessions that have expired are trimmed, or the one that is deleted: its list is gone.
LEMMA TrimKeeps ==
  ASSUME RedisInv, NEW gone \in Trims
  PROVE  /\ gone \in SUBSET RedisSessions
         /\ Counting(gone) = Cardinality(ItemPlaces(Trimmed(sizes, gone), RedisSessions))
         /\ Counting(gone) \in Nat /\ Counting(gone) <= usage
         /\ Trimmed(sizes, gone) \in [RedisSessions -> Nat] /\ Trimmed(scores, gone) \in [RedisSessions -> Nat]
         /\ \A s \in RedisSessions :
              /\ Remaining(s) <= Trimmed(sizes, gone)[s]
              /\ Trimmed(scores, gone)[s] > 0 => lists[s].expires = Trimmed(scores, gone)[s]
              /\ Trimmed(scores, gone)[s] = 0 => lists[s].expires <= redisClock
<1>1. gone \in SUBSET RedisSessions /\ \A s \in gone : scores[s] > 0 /\ scores[s] <= redisClock BY DEF Trims
<1>2. sizes \in [RedisSessions -> Nat] /\ scores \in [RedisSessions -> Nat] BY DEF RedisInv, RedisTypes
<1>3. Trimmed(sizes, gone) \in [RedisSessions -> Nat] /\ Trimmed(scores, gone) \in [RedisSessions -> Nat]
  BY <1>2 DEF Trimmed
<1>4. ItemsOf(gone) = ItemPlaces(sizes, gone) BY DEF ItemsOf, ItemPlaces
<1>5. RedisSessions \ gone \in SUBSET RedisSessions OBVIOUS
<1>6. Cardinality(ItemPlaces(sizes, gone)) \in Nat /\ Cardinality(ItemPlaces(sizes, RedisSessions \ gone)) \in Nat
  BY <1>1, <1>2, <1>5, ItemPlacesFinite
<1>7. /\ Counting(gone) = Cardinality(ItemPlaces(Trimmed(sizes, gone), RedisSessions))
      /\ Counting(gone) \in Nat /\ Counting(gone) <= usage
  BY <1>1, <1>2, <1>4, <1>6, ItemPlacesSplit DEF Counting, RedisInv
<1>8. ASSUME NEW s \in RedisSessions
      PROVE /\ Remaining(s) <= Trimmed(sizes, gone)[s]
            /\ Trimmed(scores, gone)[s] > 0 => lists[s].expires = Trimmed(scores, gone)[s]
            /\ Trimmed(scores, gone)[s] = 0 => lists[s].expires <= redisClock
  <2>1. CASE s \in gone
    <3>1. Trimmed(sizes, gone)[s] = 0 /\ Trimmed(scores, gone)[s] = 0 BY <2>1 DEF Trimmed
    <3>2. lists[s].expires = scores[s] /\ scores[s] <= redisClock BY <1>1, <2>1 DEF RedisInv, ScoresExpire
    <3>3. Remaining(s) = 0 BY <1>2, <3>2 DEF Remaining, RedisInv, RedisTypes
    <3> QED BY <3>1, <3>2, <3>3
  <2>2. CASE s \notin gone
    <3>1. Trimmed(sizes, gone)[s] = sizes[s] /\ Trimmed(scores, gone)[s] = scores[s] BY <2>2 DEF Trimmed
    <3> QED BY <3>1 DEF RedisInv, ScoresExpire, ListsCounted
  <2> QED BY <2>1, <2>2
<1> QED BY <1>1, <1>3, <1>7, <1>8

LEMMA AppendScriptKeeps ==
  ASSUME RedisInv, NEW s \in RedisSessions, NEW n \in 0..2, AppendScript(s, n), UNCHANGED redisClock
  PROVE  RedisInv'
<1>1. PICK gone \in Trims :
        IF n = 0 \/ Counting(gone) + n > ItemLimit
        THEN /\ usage' = Counting(gone)
             /\ sizes' = Trimmed(sizes, gone) /\ scores' = Trimmed(scores, gone)
             /\ UNCHANGED lists
        ELSE /\ usage' = Counting(gone) + n
             /\ sizes' = [Trimmed(sizes, gone) EXCEPT ![s] = @ + n]
             /\ scores' = [Trimmed(scores, gone) EXCEPT ![s] = redisClock + RedisTtl]
             /\ lists' = [lists EXCEPT ![s] = [items |-> Remaining(s) + n, expires |-> redisClock + RedisTtl]]
  BY DEF AppendScript
<1> DEFINE fewer == Trimmed(sizes, gone)
           known == Trimmed(scores, gone)
<1>2. /\ Counting(gone) = Cardinality(ItemPlaces(fewer, RedisSessions))
      /\ Counting(gone) \in Nat /\ Counting(gone) <= usage
      /\ fewer \in [RedisSessions -> Nat] /\ known \in [RedisSessions -> Nat]
      /\ \A r \in RedisSessions :
           /\ Remaining(r) <= fewer[r]
           /\ known[r] > 0 => lists[r].expires = known[r]
           /\ known[r] = 0 => lists[r].expires <= redisClock
  BY TrimKeeps
<1>3. /\ redisClock \in Nat /\ usage \in Int /\ lists \in [RedisSessions -> [items : Nat, expires : Nat]]
      /\ usage <= ItemLimit /\ ItemLimit \in Nat /\ RedisTtl \in Nat \ {0}
  BY StorageConstants DEF RedisInv, RedisTypes
<1> HIDE DEF fewer, known
<1>4. CASE n = 0 \/ Counting(gone) + n > ItemLimit
  <2>1. usage' = Counting(gone) /\ sizes' = fewer /\ scores' = known /\ lists' = lists /\ redisClock' = redisClock
    BY <1>1, <1>4 DEF fewer, known
  <2>2. RedisTypes' BY <1>2, <1>3, <2>1 DEF RedisTypes
  <2>3. ScoresExpire' /\ ListsCounted' BY <1>2, <2>1 DEF ScoresExpire, ListsCounted, Remaining
  <2>4. usage' = Cardinality(ItemPlaces(sizes', RedisSessions)) /\ usage' <= ItemLimit BY <1>2, <1>3, <2>1
  <2> QED BY <2>2, <2>3, <2>4 DEF RedisInv, ItemPlaces
<1>5. CASE ~(n = 0 \/ Counting(gone) + n > ItemLimit)
  <2>1. /\ usage' = Counting(gone) + n /\ redisClock' = redisClock
        /\ sizes' = [fewer EXCEPT ![s] = fewer[s] + n]
        /\ scores' = [known EXCEPT ![s] = redisClock + RedisTtl]
        /\ lists' = [lists EXCEPT ![s] = [items |-> Remaining(s) + n, expires |-> redisClock + RedisTtl]]
    BY <1>1, <1>5 DEF fewer, known
  <2>2. Remaining(s) \in Nat BY <1>3 DEF Remaining
  <2>3. RedisTypes'
    <3>1. usage' \in Int BY <1>2, <2>1
    <3>2. sizes' \in [RedisSessions -> Nat] BY <1>2, <2>1
    <3>3. scores' \in [RedisSessions -> Nat] BY <1>2, <1>3, <2>1
    <3>4. lists' \in [RedisSessions -> [items : Nat, expires : Nat]] BY <1>3, <2>1, <2>2
    <3> QED BY <1>3, <2>1, <3>1, <3>2, <3>3, <3>4 DEF RedisTypes
  <2>4. /\ lists'[s].items = Remaining(s) + n /\ lists'[s].expires = redisClock + RedisTtl
        /\ scores'[s] = redisClock + RedisTtl /\ sizes'[s] = fewer[s] + n
        /\ \A r \in RedisSessions \ {s} : lists'[r] = lists[r] /\ scores'[r] = known[r] /\ sizes'[r] = fewer[r]
    BY <1>2, <1>3, <2>1
  <2>5. ScoresExpire' BY <1>2, <1>3, <2>1, <2>4 DEF ScoresExpire
  <2>6. ListsCounted'
    <3> SUFFICES ASSUME NEW r \in RedisSessions
                 PROVE  (IF lists'[r].expires > redisClock THEN lists'[r].items ELSE 0) <= sizes'[r]
      BY <2>1 DEF ListsCounted, Remaining
    <3>1. CASE r = s
      <4>1. lists'[r].expires > redisClock BY <1>3, <2>4, <3>1
      <4>2. Remaining(s) <= fewer[s] /\ fewer[s] \in Nat BY <1>2
      <4> QED BY <2>2, <2>4, <3>1, <4>1, <4>2
    <3>2. CASE r # s
      <4>1. lists'[r] = lists[r] /\ sizes'[r] = fewer[r] /\ Remaining(r) <= fewer[r] BY <1>2, <2>4, <3>2
      <4> QED BY <4>1 DEF Remaining
    <3> QED BY <3>1, <3>2
  <2>7. usage' = Cardinality(ItemPlaces(sizes', RedisSessions)) /\ usage' <= ItemLimit
    <3>1. Cardinality(ItemPlaces(sizes', RedisSessions)) = Cardinality(ItemPlaces(fewer, RedisSessions)) + n
      BY <1>2, <2>1, ItemPlacesGrow
    <3> QED BY <1>2, <1>3, <1>5, <2>1, <3>1
  <2> QED BY <2>3, <2>5, <2>6, <2>7 DEF RedisInv, ItemPlaces
<1> QED BY <1>4, <1>5

LEMMA DeleteScriptKeeps ==
  ASSUME RedisInv, NEW s \in RedisSessions, DeleteScript(s), UNCHANGED redisClock PROVE RedisInv'
<1>1. /\ usage' = usage - sizes[s] /\ sizes' = Trimmed(sizes, {s}) /\ scores' = Trimmed(scores, {s})
      /\ lists' = [lists EXCEPT ![s] = [items |-> 0, expires |-> 0]] /\ redisClock' = redisClock
  BY DEF DeleteScript
<1>2. RedisTypes BY DEF RedisInv
<1>3. sizes \in [RedisSessions -> Nat] /\ scores \in [RedisSessions -> Nat] /\ {s} \in SUBSET RedisSessions
      /\ lists \in [RedisSessions -> [items : Nat, expires : Nat]] /\ redisClock \in Nat /\ usage \in Int
  BY <1>2 DEF RedisTypes
<1>4. /\ sizes' \in [RedisSessions -> Nat] /\ scores' \in [RedisSessions -> Nat]
      /\ sizes'[s] = 0 /\ scores'[s] = 0 /\ \A r \in RedisSessions \ {s} : sizes'[r] = sizes[r] /\ scores'[r] = scores[r]
  BY <1>1, <1>3 DEF Trimmed
<1>5. /\ lists' \in [RedisSessions -> [items : Nat, expires : Nat]]
      /\ lists'[s].items = 0 /\ lists'[s].expires = 0 /\ \A r \in RedisSessions \ {s} : lists'[r] = lists[r]
  BY <1>1, <1>3
<1>6. RedisTypes'
  <2>1. usage' \in Int /\ redisClock' = redisClock BY <1>1, <1>3
  <2> QED BY <1>3, <1>4, <1>5, <2>1 DEF RedisTypes
<1>7. ScoresExpire'
  <2>1. ASSUME NEW r \in RedisSessions
        PROVE  /\ scores'[r] > 0 => lists'[r].expires = scores'[r]
               /\ scores'[r] = 0 => lists'[r].expires <= redisClock
    <3>1. CASE r = s BY <1>3, <1>4, <1>5, <3>1
    <3>2. CASE r # s
      <4>1. scores'[r] = scores[r] /\ lists'[r] = lists[r] BY <1>4, <1>5, <3>2
      <4> QED BY <4>1 DEF RedisInv, ScoresExpire
    <3> QED BY <3>1, <3>2
  <2>2. redisClock' = redisClock BY <1>1
  <2> QED BY <2>1, <2>2 DEF ScoresExpire
<1>8. ListsCounted'
  <2>1. ASSUME NEW r \in RedisSessions
        PROVE  (IF lists'[r].expires > redisClock THEN lists'[r].items ELSE 0) <= sizes'[r]
    <3>1. CASE r = s BY <1>3, <1>4, <1>5, <3>1
    <3>2. CASE r # s
      <4>1. sizes'[r] = sizes[r] /\ lists'[r] = lists[r] BY <1>4, <1>5, <3>2
      <4> QED BY <4>1 DEF RedisInv, ListsCounted, Remaining
    <3> QED BY <3>1, <3>2
  <2>2. redisClock' = redisClock BY <1>1
  <2> QED BY <2>1, <2>2 DEF ListsCounted, Remaining
<1>9. usage' = Cardinality(ItemPlaces(sizes', RedisSessions)) /\ usage' <= ItemLimit
  <2>1. Cardinality(ItemPlaces(sizes, {s})) = sizes[s]
    <3> DEFINE place == [i \in 1..sizes[s] |-> <<s, i>>]
    <3>1. \A p : p \in ItemPlaces(sizes, {s}) <=> \E i \in 1..sizes[s] : p = <<s, i>> BY DEF ItemPlaces
    <3>2. place \in [1..sizes[s] -> ItemPlaces(sizes, {s})] BY <3>1
    <3>3. \A i, j \in 1..sizes[s] : place[i] = place[j] => i = j OBVIOUS
    <3>4. \A p \in ItemPlaces(sizes, {s}) : \E i \in 1..sizes[s] : place[i] = p BY <3>1
    <3>5. place \in Bijection(1..sizes[s], ItemPlaces(sizes, {s}))
      BY <3>2, <3>3, <3>4 DEF Bijection, Injection, Surjection, IsInjective
    <3>6. IsFiniteSet(1..sizes[s]) /\ Cardinality(1..sizes[s]) = sizes[s] BY <1>3, FS_Interval
    <3> HIDE DEF place
    <3> QED BY <3>5, <3>6, FS_Bijection DEF ExistsBijection
  <2>2. RedisSessions \ {s} \in SUBSET RedisSessions OBVIOUS
  <2>3. Cardinality(ItemPlaces(sizes, RedisSessions \ {s})) \in Nat BY <1>3, <2>2, ItemPlacesFinite
  <2>4. usage = sizes[s] + Cardinality(ItemPlaces(sizes, RedisSessions \ {s}))
    BY <1>3, <2>1, ItemPlacesSplit DEF RedisInv
  <2>5. ItemPlaces(sizes', RedisSessions) = ItemPlaces(sizes, RedisSessions \ {s}) BY <1>1, <1>3, ItemPlacesSplit
  <2>6. sizes[s] \in Nat /\ ItemLimit \in Nat /\ usage <= ItemLimit BY <1>3, StorageConstants DEF RedisInv
  <2> QED BY <1>1, <2>3, <2>4, <2>5, <2>6
<1> QED BY <1>6, <1>7, <1>8, <1>9 DEF RedisInv, ItemPlaces

LEMMA RedisStep == ASSUME RedisInv, RedisNext PROVE RedisInv'
<1>1. CASE \E s \in RedisSessions : \E n \in 0..2 : AppendScript(s, n) /\ UNCHANGED redisClock BY <1>1, AppendScriptKeeps
<1>2. CASE \E s \in RedisSessions : DeleteScript(s) /\ UNCHANGED redisClock BY <1>2, DeleteScriptKeeps
<1>3. CASE redisClock' = redisClock + 1 /\ UNCHANGED <<lists, sizes, scores, usage>>
  <2>1. RedisTypes' BY <1>3 DEF RedisInv, RedisTypes
  <2>2. ScoresExpire' BY <1>3 DEF RedisInv, RedisTypes, ScoresExpire
  <2>3. ListsCounted' BY <1>3 DEF RedisInv, RedisTypes, ListsCounted, Remaining
  <2> QED BY <1>3, <2>1, <2>2, <2>3 DEF RedisInv, ItemPlaces
<1> QED BY <1>1, <1>2, <1>3 DEF RedisNext

-----------------------------------------------------------------------------
(* Storage: migrations.                                                    *)

MigrationTypes ==
  /\ replica \in [Replicas -> [at : {"down", "reading", "migrating", "ready"}, read : SUBSET Nat]]
  /\ executed \in Seq(Nat) /\ applied = 1..Len(executed)

\* Who holds the lock knows what is applied; nobody else writes.
LockHeld ==
  /\ \A r, q \in Replicas :
       replica[r].at \in {"reading", "migrating"} /\ replica[q].at \in {"reading", "migrating"} => r = q
  /\ \A r \in Replicas : replica[r].at = "migrating" => replica[r].read = applied

MigrationInv == MigrationTypes /\ LockHeld /\ MigrationsOnce

LEMMA ReplicaSet ==
  ASSUME MigrationTypes, NEW r \in Replicas, NEW now \in [at : {"down", "reading", "migrating", "ready"}, read : SUBSET Nat],
         replica' = [replica EXCEPT ![r] = now]
  PROVE  /\ replica' \in [Replicas -> [at : {"down", "reading", "migrating", "ready"}, read : SUBSET Nat]]
         /\ replica'[r] = now /\ \A q \in Replicas \ {r} : replica'[q] = replica[q]
BY DEF MigrationTypes

LEMMA MigrateKeeps == ASSUME MigrationInv, NEW r \in Replicas, Migrate(r) PROVE MigrationInv'
<1> DEFINE left == {m \in 1..FilesOf[r] : m \notin replica[r].read}
           n == Len(executed)
<1>1. /\ executed \in Seq(Nat) /\ n \in Nat /\ applied = 1..n /\ FilesOf[r] \in Nat \ {0}
      /\ replica \in [Replicas -> [at : {"down", "reading", "migrating", "ready"}, read : SUBSET Nat]]
  BY StorageConstants DEF MigrationInv, MigrationTypes
<1>2. replica[r].at = "migrating" /\ replica[r].read = applied BY DEF MigrationInv, LockHeld, Migrate
<1>3. \A q \in Replicas \ {r} : replica[q].at \notin {"reading", "migrating"} BY <1>2 DEF MigrationInv, LockHeld
<1>4. CASE left = {} /\ ReplicaAt(r, "ready") /\ UNCHANGED <<applied, executed>>
  <2>1. replica' = [replica EXCEPT ![r] = [replica[r] EXCEPT !.at = "ready"]] BY <1>1, <1>4 DEF ReplicaAt
  <2>2. /\ [replica[r] EXCEPT !.at = "ready"] \in [at : {"down", "reading", "migrating", "ready"}, read : SUBSET Nat]
        /\ [replica[r] EXCEPT !.at = "ready"].at = "ready"
    BY <1>1
  <2>3. /\ replica' \in [Replicas -> [at : {"down", "reading", "migrating", "ready"}, read : SUBSET Nat]]
        /\ replica'[r].at = "ready" /\ \A q \in Replicas \ {r} : replica'[q] = replica[q]
    BY <2>1, <2>2, ReplicaSet DEF MigrationInv
  <2>4. MigrationTypes' BY <1>4, <2>3 DEF MigrationInv, MigrationTypes
  <2>5. LockHeld' BY <1>3, <2>3 DEF LockHeld
  <2>6. 1..FilesOf[r] \subseteq applied BY <1>2, <1>4
  <2>7. MigrationsOnce' BY <1>4, <2>3, <2>6 DEF MigrationInv, MigrationsOnce
  <2> QED BY <2>4, <2>5, <2>7 DEF MigrationInv
<1>5. ASSUME NEW m \in left \ applied, \A k \in left : m <= k,
             executed' = Append(executed, m), applied' = applied \cup {m},
             replica' = [replica EXCEPT ![r].read = @ \cup {m}]
      PROVE  MigrationInv'
  <2>1. m \in Nat /\ m > n /\ m <= FilesOf[r] BY <1>1, <1>5
  <2>2. n + 1 \in left BY <1>1, <1>2, <2>1
  <2>3. m = n + 1 BY <1>1, <1>5, <2>1, <2>2
  <2>4. executed' \in Seq(Nat) /\ Len(executed') = n + 1 /\ executed'[n + 1] = m /\ \A i \in 1..n : executed'[i] = executed[i]
    BY <1>1, <1>5, <2>1
  <2>5. applied' = 1..Len(executed') BY <1>1, <1>5, <2>3, <2>4
  <2> DEFINE now == [replica[r] EXCEPT !.read = @ \cup {m}]
  <2>6. now \in [at : {"down", "reading", "migrating", "ready"}, read : SUBSET Nat] /\ now.at = "migrating" /\ now.read = applied'
    BY <1>1, <1>2, <1>5, <2>1
  <2>7. replica' = [replica EXCEPT ![r] = now] BY <1>1, <1>5
  <2> HIDE DEF now
  <2>8. /\ replica' \in [Replicas -> [at : {"down", "reading", "migrating", "ready"}, read : SUBSET Nat]]
        /\ replica'[r] = now /\ \A q \in Replicas \ {r} : replica'[q] = replica[q]
    BY <2>6, <2>7, ReplicaSet DEF MigrationInv
  <2>9. MigrationTypes' BY <2>4, <2>5, <2>8 DEF MigrationTypes
  <2>10. LockHeld' BY <1>3, <2>6, <2>8 DEF LockHeld
  <2>11. \A i \in DOMAIN executed' : executed'[i] = i
    <3>1. DOMAIN executed' = 1..n + 1 /\ DOMAIN executed = 1..n BY <1>1, <2>4
    <3>2. \A i \in 1..n : executed[i] = i BY <3>1 DEF MigrationInv, MigrationsOnce
    <3> QED BY <1>1, <2>3, <2>4, <3>1, <3>2
  <2>12. \A q \in Replicas : replica'[q].at = "ready" => 1..FilesOf[q] \subseteq applied'
    BY <1>5, <2>6, <2>8 DEF MigrationInv, MigrationsOnce
  <2> QED BY <2>9, <2>10, <2>11, <2>12 DEF MigrationInv, MigrationsOnce
<1> QED BY <1>4, <1>5 DEF Migrate, Recorded

LEMMA MigrationStep == ASSUME MigrationInv, MigrationNext PROVE MigrationInv'
<1>1. ASSUME NEW r \in Replicas, StartPool(r) PROVE MigrationInv'
  <2>1. replica' = [replica EXCEPT ![r] = [replica[r] EXCEPT !.at = "reading"]]
    BY <1>1 DEF StartPool, ReplicaAt, MigrationInv, MigrationTypes
  <2>2. /\ [replica[r] EXCEPT !.at = "reading"] \in [at : {"down", "reading", "migrating", "ready"}, read : SUBSET Nat]
        /\ [replica[r] EXCEPT !.at = "reading"].at = "reading"
    BY DEF MigrationInv, MigrationTypes
  <2>3. /\ replica' \in [Replicas -> [at : {"down", "reading", "migrating", "ready"}, read : SUBSET Nat]]
        /\ replica'[r].at = "reading" /\ \A q \in Replicas \ {r} : replica'[q] = replica[q]
    BY <2>1, <2>2, ReplicaSet DEF MigrationInv
  <2>4. \A q \in Replicas : replica[q].at \notin {"reading", "migrating"} BY <1>1 DEF StartPool, LockFree
  <2>5. UNCHANGED <<applied, executed>> BY <1>1 DEF StartPool
  <2> QED BY <2>3, <2>4, <2>5 DEF MigrationInv, MigrationTypes, LockHeld, MigrationsOnce
<1>2. ASSUME NEW r \in Replicas, ReadApplied(r) PROVE MigrationInv'
  <2>1. replica[r].at = "reading" /\ replica' = [replica EXCEPT ![r] = [at |-> "migrating", read |-> applied]]
        /\ UNCHANGED <<applied, executed>>
    BY <1>2 DEF ReadApplied
  <2>2. [at |-> "migrating", read |-> applied] \in [at : {"down", "reading", "migrating", "ready"}, read : SUBSET Nat]
    BY DEF MigrationInv, MigrationTypes
  <2>3. /\ replica' \in [Replicas -> [at : {"down", "reading", "migrating", "ready"}, read : SUBSET Nat]]
        /\ replica'[r] = [at |-> "migrating", read |-> applied] /\ \A q \in Replicas \ {r} : replica'[q] = replica[q]
    BY <2>1, <2>2, ReplicaSet DEF MigrationInv
  <2>4. \A q \in Replicas \ {r} : replica[q].at \notin {"reading", "migrating"} BY <2>1 DEF MigrationInv, LockHeld
  <2> QED BY <2>1, <2>3, <2>4 DEF MigrationInv, MigrationTypes, LockHeld, MigrationsOnce
<1>3. ASSUME NEW r \in Replicas, ReplicaFails(r) PROVE MigrationInv'
  <2>1. replica' = [replica EXCEPT ![r] = [at |-> "down", read |-> {}]] /\ UNCHANGED <<applied, executed>>
    BY <1>3 DEF ReplicaFails
  <2>2. [at |-> "down", read |-> {}] \in [at : {"down", "reading", "migrating", "ready"}, read : SUBSET Nat] OBVIOUS
  <2>3. /\ replica' \in [Replicas -> [at : {"down", "reading", "migrating", "ready"}, read : SUBSET Nat]]
        /\ replica'[r] = [at |-> "down", read |-> {}] /\ \A q \in Replicas \ {r} : replica'[q] = replica[q]
    BY <2>1, <2>2, ReplicaSet DEF MigrationInv
  <2> QED BY <2>1, <2>3 DEF MigrationInv, MigrationTypes, LockHeld, MigrationsOnce
<1> QED BY <1>1, <1>2, <1>3, MigrateKeeps DEF MigrationNext

-----------------------------------------------------------------------------
(* Storage: together.                                                      *)

StorageInv == ArtifactsInv /\ RedisInv /\ MigrationInv

LEMMA StorageBegins == ASSUME StorageInit PROVE StorageInv
<1>1. ArtifactsInv
  <2>1. \A t \in FileTasks : fileTask[t] = NoFileTask BY DEF StorageInit
  <2>2. FileTypes BY NoFileTaskType DEF StorageInit, FileTypes, NoRow, RowType
  <2>3. UploadsAlone /\ PublishEvident /\ ResultKnown
    BY <2>1, NoFileTaskType DEF UploadsAlone, HasUpload, PublishEvident, ResultKnown
  <2>4. RowsHaveObjects /\ EvidenceFirst BY DEF StorageInit, RowsHaveObjects, EvidenceFirst, Stored, NoRow
  <2> QED BY <2>2, <2>3, <2>4 DEF ArtifactsInv
<1>2. RedisInv
  <2>1. ItemPlaces(sizes, RedisSessions) = {} BY DEF StorageInit, ItemPlaces
  <2>2. Cardinality(ItemPlaces(sizes, RedisSessions)) = 0 BY <2>1, FS_EmptySet
  <2>3. RedisTypes /\ ScoresExpire /\ ListsCounted BY DEF StorageInit, RedisTypes, ScoresExpire, ListsCounted, Remaining
  <2> QED BY <2>2, <2>3, StorageConstants DEF StorageInit, RedisInv
<1>3. MigrationInv
  <2>1. executed = <<>> /\ applied = {} /\ \A r \in Replicas : replica[r] = [at |-> "down", read |-> {}] BY DEF StorageInit
  <2>2. MigrationTypes BY <2>1 DEF StorageInit, MigrationTypes
  <2>3. LockHeld /\ MigrationsOnce BY <2>1 DEF LockHeld, MigrationsOnce
  <2> QED BY <2>2, <2>3 DEF MigrationInv
<1> QED BY <1>1, <1>2, <1>3 DEF StorageInv

LEMMA FilesSame == ASSUME ArtifactsInv, UNCHANGED fileVars PROVE ArtifactsInv' /\ ScanStands
<1>1. FileTypes' BY DEF fileVars, ArtifactsInv, FileTypes
<1>2. UploadsAlone' BY DEF fileVars, ArtifactsInv, UploadsAlone, HasUpload, Stored
<1>3. PublishEvident' /\ ResultKnown' BY DEF fileVars, ArtifactsInv, PublishEvident, ResultKnown
<1>4. RowsHaveObjects' /\ EvidenceFirst' BY DEF fileVars, ArtifactsInv, RowsHaveObjects, EvidenceFirst, Stored
<1>5. ScanStands BY DEF fileVars, ScanStands
<1> QED BY <1>1, <1>2, <1>3, <1>4, <1>5 DEF ArtifactsInv

LEMMA RedisSame == ASSUME RedisInv, UNCHANGED redisVars PROVE RedisInv'
BY DEF redisVars, RedisInv, RedisTypes, ScoresExpire, ListsCounted, Remaining, ItemPlaces

LEMMA MigrationsSame == ASSUME MigrationInv, UNCHANGED migrationVars PROVE MigrationInv'
BY DEF migrationVars, MigrationInv, MigrationTypes, LockHeld, MigrationsOnce

LEMMA StorageStep == ASSUME StorageInv, [StorageNext]_storageVars PROVE StorageInv' /\ [ScanStands]_storageVars
<1>1. CASE ArtifactNext
  <2>1. UNCHANGED redisVars /\ UNCHANGED migrationVars BY <1>1 DEF ArtifactNext
  <2> QED BY <1>1, <2>1, FilesStep, RedisSame, MigrationsSame DEF StorageInv
<1>2. CASE RedisNext
  <2>1. UNCHANGED fileVars /\ UNCHANGED migrationVars BY <1>2 DEF RedisNext
  <2> QED BY <1>2, <2>1, FilesSame, RedisStep, MigrationsSame DEF StorageInv
<1>3. CASE MigrationNext
  <2>1. UNCHANGED fileVars /\ UNCHANGED redisVars BY <1>3 DEF MigrationNext
  <2> QED BY <1>3, <2>1, FilesSame, RedisSame, MigrationStep DEF StorageInv
<1>4. CASE UNCHANGED storageVars
  <2>1. UNCHANGED fileVars /\ UNCHANGED redisVars /\ UNCHANGED migrationVars BY <1>4 DEF storageVars
  <2> QED BY <2>1, FilesSame, RedisSame, MigrationsSame DEF StorageInv
<1> QED BY <1>1, <1>2, <1>3, <1>4 DEF StorageNext

LEMMA StorageHolds ==
  ASSUME StorageInv
  PROVE  StorageTypeOK /\ RowsHaveObjects /\ EvidenceFirst /\ MemoryCounted /\ MigrationsOnce
<1>1. StorageTypeOK
  <2>1. objects \subseteq FileIds /\ doubtful \subseteq FileIds
        /\ \A i \in FileIds : fileRows[i].status \in {"absent", "pending_scan", "available", "quarantined"}
    BY DEF StorageInv, ArtifactsInv, FileTypes, RowType
  <2>2. (\A s \in RedisSessions : lists[s].items \in Nat /\ sizes[s] \in Nat) /\ usage \in Int
    BY DEF StorageInv, RedisInv, RedisTypes
  <2>3. \A r \in Replicas : replica[r].at \in {"down", "reading", "migrating", "ready"}
    BY DEF StorageInv, MigrationInv, MigrationTypes
  <2> QED BY <2>1, <2>2, <2>3 DEF StorageTypeOK
<1>2. MemoryCounted
  <2>1. ItemsOf(RedisSessions) = ItemPlaces(sizes, RedisSessions) BY DEF ItemsOf, ItemPlaces
  <2> QED BY <2>1 DEF StorageInv, RedisInv, ListsCounted, MemoryCounted
<1> QED BY <1>1, <1>2 DEF StorageInv, ArtifactsInv, MigrationInv

\* Wherever a put, scan, deletion or start stops, and however they overlap: a row has its object until a deletion
\* begins or an answer is lost, a decision has its evidence and stands, what Redis holds of a tenant is counted and
\* within its limit, and every migration is executed once and in order.
THEOREM StorageIsSafe == StorageSpec => StorageSafe
<1>1. StorageSpec => []StorageInv BY StorageBegins, StorageStep, PTL DEF StorageSpec
<1>2. StorageSpec => [](StorageTypeOK /\ RowsHaveObjects /\ EvidenceFirst /\ MemoryCounted /\ MigrationsOnce)
  BY <1>1, StorageHolds, PTL
<1>3. StorageSpec => [][ScanStands]_storageVars BY <1>1, StorageStep, PTL DEF StorageSpec
<1> QED BY <1>2, <1>3, PTL DEF StorageSafe

-----------------------------------------------------------------------------
(* Analytics: graphs.                                                      *)

\* A node has a result once it is completed, and never before; a graph is completed with all its nodes.
GraphSound(s) ==
  /\ s \in GraphStates
  /\ \A n \in GraphNodes : s.nodes[n] = "completed" <=> s.results[n] # Nothing
  /\ s.status = "completed" => \A n \in GraphNodes : s.nodes[n] = "completed"

DriveStages == {"idle", "locking", "waves", "nodes", "failing", "raised", "completed"}
DriveStates ==
  [at : DriveStages, copy : GraphStates, active : SUBSET GraphNodes, tries : [GraphNodes -> Nat], error : BOOLEAN]
RunningIn(r) == {n \in r.active : r.copy.nodes[n] = "running"}

\* A drive in the lock works on a copy that is running, and its active nodes found their dependencies done.
DriveSound(r) ==
  /\ r \in DriveStates /\ GraphSound(r.copy)
  /\ r.at \in Holding => r.copy.status = "running"
  /\ r.at # "nodes" => r.active = {}
  /\ \A n \in r.active : \A m \in NodeDeps[n] : r.copy.nodes[m] = "completed"
  /\ Cardinality(RunningIn(r)) <= MaxParallel

\* A copy is not ahead of the store, and has its results if it has its version.
Behind(copy, s) == copy.version <= s.version /\ (copy.version = s.version => copy.results = s.results)

KeysAlone ==
  \A d, x \in Drives : DriveProcess[d] = DriveProcess[x] =>
    \A n \in Running(d), m \in Running(x) : NodeKey[n] = NodeKey[m] /\ NodeKey[n] # "" => n = m /\ d = x

GraphInv ==
  /\ drive \in [Drives -> DriveStates] /\ \A d \in Drives : DriveSound(drive[d])
  /\ KeysAlone
  /\ stored = Nothing => \A d \in Drives : drive[d] = IdleDrive
  /\ stored # Nothing =>
       /\ GraphSound(stored) /\ (stored.version = 0 => stored.results = Fresh.results)
       /\ \A d \in Drives : Behind(drive[d].copy, stored)

LEMMA FreshSound == GraphSound(Fresh)
BY DEF Fresh, GraphSound, GraphStates, NodeStatus

LEMMA IdleIs ==
  IdleDrive \in DriveStates /\ IdleDrive.at = "idle" /\ IdleDrive.active = {} /\ IdleDrive.copy = Fresh
<1> DEFINE none == [n \in GraphNodes |-> 0]
<1>1. none \in [GraphNodes -> Nat] OBVIOUS
<1>2. IdleDrive = [at |-> "idle", copy |-> Fresh, active |-> {}, tries |-> none, error |-> FALSE] BY DEF IdleDrive
<1> HIDE DEF none
<1> QED BY <1>1, <1>2, FreshSound DEF DriveStates, DriveStages, GraphSound

LEMMA IdleSound ==
  ASSUME NEW end \in {"idle", "raised", "completed"}
  PROVE  /\ DriveSound([IdleDrive EXCEPT !.at = end]) /\ RunningIn([IdleDrive EXCEPT !.at = end]) = {}
         /\ [IdleDrive EXCEPT !.at = end].copy = Fresh
<1> DEFINE r == [IdleDrive EXCEPT !.at = end]
<1>1. r \in DriveStates /\ r.at = end /\ r.active = {} /\ r.copy = Fresh BY IdleIs DEF DriveStates, DriveStages
<1> HIDE DEF r
<1>2. RunningIn(r) = {} BY <1>1 DEF RunningIn
<1>3. Cardinality(RunningIn(r)) = 0 BY <1>2, FS_EmptySet
<1>4. GraphSound(r.copy) /\ r.at \notin Holding BY <1>1, FreshSound DEF Holding
<1>5. DriveSound(r) BY <1>1, <1>3, <1>4, AnalyticsAssumption DEF DriveSound
<1> QED BY <1>1, <1>2, <1>5 DEF r

\* What a step of a drive leaves behind: the store's next state s, and the drive as r.
Fits(d, r) ==
  \/ RunningIn(r) \subseteq Running(d)
  \/ \E n \in GraphNodes : RunningIn(r) \subseteq Running(d) \cup {n} /\ ~KeyHeld(d, n)

LEMMA KeysStayAlone ==
  ASSUME GraphInv, NEW d \in Drives, NEW r, drive' = [drive EXCEPT ![d] = r], Fits(d, r)
  PROVE  KeysAlone'
<1>1. \A x \in Drives \ {d} : Running(x)' = Running(x) BY DEF Running, GraphInv
<1>2. Running(d)' = RunningIn(r) BY DEF Running, RunningIn, GraphInv
<1>3. CASE RunningIn(r) \subseteq Running(d)
  <2>1. \A x \in Drives : Running(x)' \subseteq Running(x) BY <1>1, <1>2, <1>3
  <2> QED BY <2>1 DEF KeysAlone, GraphInv
<1>4. ASSUME NEW n \in GraphNodes, RunningIn(r) \subseteq Running(d) \cup {n}, ~KeyHeld(d, n) PROVE KeysAlone'
  <2>1. \A x \in Drives : DriveProcess[x] = DriveProcess[d] => \A m \in Running(x) : NodeKey[n] = "" \/ NodeKey[m] # NodeKey[n]
    BY <1>4 DEF KeyHeld
  <2>2. \A x \in Drives : Running(x)' \subseteq Running(x) \cup (IF x = d THEN {n} ELSE {}) BY <1>1, <1>2, <1>4
  <2> SUFFICES ASSUME NEW a \in Drives, NEW x \in Drives, DriveProcess[a] = DriveProcess[x],
                      NEW p \in Running(a)', NEW m \in Running(x)', NodeKey[p] = NodeKey[m], NodeKey[p] # ""
               PROVE  p = m /\ a = x
    BY DEF KeysAlone
  <2>3. p \in Running(a) \/ (a = d /\ p = n) BY <2>2
  <2>4. m \in Running(x) \/ (x = d /\ m = n) BY <2>2
  <2>5. CASE p \in Running(a) /\ m \in Running(x) BY <2>5 DEF GraphInv, KeysAlone
  <2>6. CASE a = d /\ p = n /\ m \in Running(x) BY <2>1, <2>6
  <2>7. CASE x = d /\ m = n /\ p \in Running(a) BY <2>1, <2>7
  <2>8. CASE a = d /\ p = n /\ x = d /\ m = n BY <2>8
  <2> QED BY <2>3, <2>4, <2>5, <2>6, <2>7, <2>8
<1> QED BY <1>3, <1>4 DEF Fits

LEMMA GraphMoves ==
  ASSUME GraphInv, NEW d \in Drives, NEW r, drive' = [drive EXCEPT ![d] = r], DriveSound(r), Fits(d, r),
         stored # Nothing, stored' # Nothing, GraphSound(stored'),
         stored'.version = 0 => stored'.results = Fresh.results,
         stored' = stored \/ stored'.version > stored.version, Behind(r.copy, stored')
  PROVE  GraphInv'
<1>1. drive' \in [Drives -> DriveStates] /\ drive'[d] = r /\ \A x \in Drives \ {d} : drive'[x] = drive[x]
  BY DEF GraphInv, DriveSound
<1>2. \A x \in Drives : DriveSound(drive'[x]) BY <1>1 DEF GraphInv
<1>3. ASSUME NEW x \in Drives \ {d} PROVE Behind(drive'[x].copy, stored')
  <2>1. Behind(drive[x].copy, stored) /\ drive[x].copy \in GraphStates /\ stored \in GraphStates /\ stored' \in GraphStates
    BY DEF GraphInv, DriveSound, GraphSound
  <2>2. drive[x].copy.version \in Nat /\ stored.version \in Nat /\ stored'.version \in Nat BY <2>1 DEF GraphStates
  <2> QED BY <1>1, <2>1, <2>2 DEF Behind
<1>4. KeysAlone' BY KeysStayAlone
<1> QED BY <1>1, <1>2, <1>3, <1>4 DEF GraphInv

Goes(d, next, copy) ==
  next.at \in {"raised", "completed"} \/ (DriveSound([next EXCEPT !.copy = copy]) /\ Fits(d, [next EXCEPT !.copy = copy]))

\* A save that finds the version it read makes the next one; one that does not leaves the store.
LEMMA CheckpointKeeps ==
  ASSUME GraphInv, NEW d \in Drives, NEW copy, NEW then, NEW otherwise, Checkpoint(d, copy, then, otherwise),
         stored # Nothing, GraphSound(copy), copy.version = drive[d].copy.version,
         then.at \in DriveStages, otherwise.at \in DriveStages,
         \A n \in GraphNodes : drive[d].copy.results[n] # Nothing => copy.results[n] = drive[d].copy.results[n],
         Goes(d, then, [copy EXCEPT !.version = @ + 1]), Goes(d, otherwise, copy)
  PROVE  GraphInv' /\ ResultsKept
<1> DEFINE saved == [copy EXCEPT !.version = @ + 1]
<1>1. stored \in GraphStates /\ copy \in GraphStates /\ Behind(drive[d].copy, stored) BY DEF GraphInv, GraphSound
<1>2. GraphSound(saved) /\ saved.version = copy.version + 1 /\ saved.results = copy.results
  BY <1>1 DEF GraphSound, GraphStates
<1>3. copy.version \in Nat /\ stored.version \in Nat BY <1>1 DEF GraphStates
<1>4. saved # Nothing BY <1>2, AnalyticsAssumption DEF GraphSound
<1>5. ASSUME NEW next, NEW held, GraphSound(held), next.at \in DriveStages, Goes(d, next, held),
             drive' = [drive EXCEPT ![d] = With(next, held)],
             stored' # Nothing, GraphSound(stored'), stored'.version = 0 => stored'.results = Fresh.results,
             stored' = stored \/ stored'.version > stored.version, Behind(held, stored')
      PROVE  GraphInv'
  <2>1. CASE next.at \in {"raised", "completed"}
    <3> DEFINE r == [IdleDrive EXCEPT !.at = next.at]
    <3>1. drive' = [drive EXCEPT ![d] = r] BY <1>5, <2>1 DEF With
    <3>2. DriveSound(r) /\ RunningIn(r) = {} /\ r.copy = Fresh BY <2>1, IdleSound
    <3>3. Behind(r.copy, stored')
      <4>1. stored'.version \in Nat BY <1>5 DEF GraphSound, GraphStates
      <4>2. Fresh.version = 0 BY DEF Fresh
      <4> QED BY <1>5, <3>2, <4>1, <4>2 DEF Behind
    <3> HIDE DEF r
    <3> QED BY <1>5, <3>1, <3>2, <3>3, GraphMoves DEF Fits
  <2>2. CASE next.at \notin {"raised", "completed"}
    <3> DEFINE r == [next EXCEPT !.copy = held]
    <3>1. drive' = [drive EXCEPT ![d] = r] BY <1>5, <2>2 DEF With
    <3>2. DriveSound(r) /\ Fits(d, r) BY <1>5, <2>2 DEF Goes
    <3>3. DOMAIN r = DOMAIN IdleDrive BY <3>2 DEF DriveSound, DriveStates, IdleDrive
    <3>4. DOMAIN next = DOMAIN r OBVIOUS
    <3>5. "copy" \in DOMAIN next BY <3>3, <3>4 DEF IdleDrive
    <3>6. r.copy = held BY <3>5
    <3> HIDE DEF r
    <3> QED BY <1>5, <3>1, <3>2, <3>6, GraphMoves
  <2> QED BY <2>1, <2>2
<1>6. CASE Saves(copy)
  <2>1. stored' = saved /\ drive' = [drive EXCEPT ![d] = With(then, saved)] BY <1>6 DEF Checkpoint
  <2>2. saved.version > stored.version /\ saved.version # 0 BY <1>2, <1>3, <1>6 DEF Saves
  <2>3. Behind(saved, saved) BY <1>2, <1>3 DEF Behind
  <2>4. Goes(d, then, saved) OBVIOUS
  <2> HIDE DEF saved
  <2>5. GraphInv' BY <1>2, <1>4, <1>5, <2>1, <2>2, <2>3, <2>4
  <2>6. ResultsKept
    <3>1. stored.results = drive[d].copy.results BY <1>1, <1>6 DEF Behind, Saves
    <3> QED BY <1>2, <2>1, <3>1 DEF ResultsKept
  <2> QED BY <2>5, <2>6
<1>7. CASE ~Saves(copy)
  <2>1. stored' = stored /\ drive' = [drive EXCEPT ![d] = With(otherwise, copy)] BY <1>7 DEF Checkpoint
  <2>2. Behind(copy, stored) BY <1>1, <1>3, <1>7 DEF Behind, Saves
  <2>3. GraphInv' BY <1>5, <2>1, <2>2 DEF GraphInv
  <2> QED BY <2>1, <2>3 DEF ResultsKept
<1> QED BY <1>6, <1>7

\* A drive that is under way has a graph in the store.
LEMMA UnderWay ==
  ASSUME GraphInv, NEW d \in Drives, drive[d].at # "idle"
  PROVE  stored # Nothing /\ GraphSound(stored) /\ Behind(drive[d].copy, stored)
BY DEF GraphInv, IdleDrive

LEMMA DriveIs ==
  ASSUME GraphInv, NEW d \in Drives
  PROVE  /\ drive[d] \in DriveStates /\ DriveSound(drive[d]) /\ drive[d].copy \in GraphStates
         /\ Running(d) = RunningIn(drive[d]) /\ IsFiniteSet(Running(d)) /\ Cardinality(Running(d)) \in Nat
<1>1. drive[d] \in DriveStates /\ DriveSound(drive[d]) /\ drive[d].copy \in GraphStates
  BY DEF GraphInv, DriveSound, GraphSound
<1>2. Running(d) = RunningIn(drive[d]) BY DEF Running, RunningIn
<1>3. Running(d) \subseteq GraphNodes BY <1>1 DEF Running, DriveStates
<1>4. IsFiniteSet(Running(d)) BY <1>3, FS_Subset, AnalyticsAssumption
<1> QED BY <1>1, <1>2, <1>4, FS_CardinalityType

\* A step of a drive that saves nothing.
LEMMA DriveMoves ==
  ASSUME GraphInv, NEW d \in Drives, NEW r, drive' = [drive EXCEPT ![d] = r], DriveSound(r), Fits(d, r),
         stored # Nothing, UNCHANGED stored, Behind(r.copy, stored)
  PROVE  GraphInv' /\ ResultsKept
<1>1. GraphSound(stored') /\ (stored'.version = 0 => stored'.results = Fresh.results) BY DEF GraphInv
<1>2. GraphInv' BY <1>1, GraphMoves
<1> QED BY <1>2 DEF ResultsKept

\* A drive that runs nothing keeps within every bound.
LEMMA Quiet ==
  ASSUME NEW d \in Drives, NEW r, r \in DriveStates, GraphSound(r.copy), r.active = {},
         r.at \in Holding => r.copy.status = "running"
  PROVE  DriveSound(r) /\ Fits(d, r)
<1>1. RunningIn(r) = {} BY DEF RunningIn
<1>2. Cardinality(RunningIn(r)) = 0 BY <1>1, FS_EmptySet
<1> QED BY <1>1, <1>2, AnalyticsAssumption DEF DriveSound, Fits

LEMMA RunGraphKeeps == ASSUME GraphInv, NEW d \in Drives, RunGraph(d) PROVE GraphInv' /\ ResultsKept
<1> DEFINE r == [drive[d] EXCEPT !.at = "locking"]
<1>1. stored = Nothing /\ stored' = Fresh /\ drive' = [drive EXCEPT ![d].at = "locking"] BY DEF RunGraph
<1>2. drive[d] = IdleDrive /\ \A x \in Drives : drive[x] = IdleDrive BY <1>1 DEF GraphInv
<1>3. drive[d] \in DriveStates /\ IdleDrive.copy = Fresh /\ IdleDrive.active = {} BY <1>2 DEF GraphInv, IdleDrive
<1>4. drive' = [drive EXCEPT ![d] = r] BY <1>1
<1>5. r \in DriveStates /\ r.copy = Fresh /\ r.active = {} /\ r.at = "locking" BY <1>2, <1>3 DEF DriveStates, DriveStages
<1> HIDE DEF r
<1>6. DriveSound(r) /\ Fits(d, r) BY <1>5, FreshSound, Quiet DEF Holding
<1>7. stored' # Nothing /\ GraphSound(stored') BY <1>1, FreshSound, AnalyticsAssumption DEF GraphSound
<1>8. \A x \in Drives : drive'[x].copy = Fresh BY <1>2, <1>3, <1>4, <1>5 DEF GraphInv
<1>9. \A x \in Drives : Behind(drive'[x].copy, stored') BY <1>1, <1>8 DEF Behind, Fresh
<1>10. drive' \in [Drives -> DriveStates] /\ \A x \in Drives : DriveSound(drive'[x]) BY <1>4, <1>5, <1>6 DEF GraphInv
<1>11. KeysAlone' BY <1>4, <1>6, KeysStayAlone
<1>12. GraphInv' BY <1>1, <1>7, <1>9, <1>10, <1>11 DEF GraphInv
<1> QED BY <1>1, <1>12 DEF ResultsKept

LEMMA ResumeGraphKeeps == ASSUME GraphInv, NEW d \in Drives, ResumeGraph(d) PROVE GraphInv' /\ ResultsKept
<1> DEFINE status == IF stored.status = "running" THEN "pending" ELSE stored.status
           nodes == [n \in GraphNodes |-> IF stored.nodes[n] = "running" THEN "pending" ELSE stored.nodes[n]]
           copy == [stored EXCEPT !.status = status, !.nodes = nodes]
           r == [drive[d] EXCEPT !.at = "locking", !.copy = copy]
<1>1. drive[d].at = "idle" /\ stored # Nothing /\ UNCHANGED stored BY DEF ResumeGraph
<1>2. stored \in GraphStates /\ GraphSound(stored) BY <1>1 DEF GraphInv, GraphSound
<1>3. drive' = [drive EXCEPT ![d] = r]
  <2>1. drive' = [drive EXCEPT ![d].at = "locking", ![d].copy = copy] BY DEF ResumeGraph
  <2> HIDE DEF copy
  <2> QED BY <2>1
<1>4. /\ nodes \in [GraphNodes -> NodeStatus] /\ status \in NodeStatus
      /\ \A n \in GraphNodes : nodes[n] = "completed" <=> stored.nodes[n] = "completed"
      /\ status = "completed" <=> stored.status = "completed"
  BY <1>2 DEF GraphStates, NodeStatus
<1> HIDE DEF status, nodes
<1>5. /\ copy \in GraphStates /\ copy.version = stored.version /\ copy.results = stored.results
      /\ copy.nodes = nodes /\ copy.status = status
  BY <1>2, <1>4 DEF GraphStates
<1> HIDE DEF copy
<1>6. GraphSound(copy) BY <1>2, <1>4, <1>5 DEF GraphSound
<1>7. drive[d] \in DriveStates /\ drive[d].active = {} BY <1>1, DriveIs DEF DriveSound
<1>8. r \in DriveStates /\ r.at = "locking" /\ r.copy = copy /\ r.active = {} BY <1>5, <1>7 DEF DriveStates, DriveStages
<1> HIDE DEF r
<1>9. DriveSound(r) /\ Fits(d, r) BY <1>6, <1>8, Quiet DEF Holding
<1>10. Behind(r.copy, stored)
  <2>1. stored.version \in Nat BY <1>2 DEF GraphStates
  <2> QED BY <1>5, <1>8, <2>1 DEF Behind
<1> QED BY <1>1, <1>3, <1>9, <1>10, DriveMoves

\* A drive that raises is over.
LEMMA RaisedGoes == ASSUME NEW d \in Drives, NEW copy PROVE Goes(d, Raised(d), copy) /\ Raised(d).at = "raised" /\ Raised(d).at \in DriveStages
BY DEF Goes, Raised, IdleDrive, DriveStages

LEMMA TakeLockKeeps == ASSUME GraphInv, NEW d \in Drives, TakeLock(d) PROVE GraphInv' /\ ResultsKept
<1> DEFINE copy == [drive[d].copy EXCEPT !.status = "running"]
           then == [drive[d] EXCEPT !.at = "waves"]
           saved == [copy EXCEPT !.version = @ + 1]
           r == [then EXCEPT !.copy = saved]
<1>1. drive[d].at = "locking" /\ Checkpoint(d, copy, then, Raised(d)) BY DEF TakeLock
<1>2. drive[d] \in DriveStates /\ GraphSound(drive[d].copy) /\ drive[d].active = {} /\ drive[d].copy \in GraphStates
  BY <1>1, DriveIs DEF DriveSound
<1>3. /\ GraphSound(copy) /\ copy.version = drive[d].copy.version /\ copy.results = drive[d].copy.results
      /\ copy.status = "running" /\ copy \in GraphStates
  BY <1>2 DEF GraphSound, GraphStates, NodeStatus
<1> HIDE DEF copy
<1>4. then.at = "waves" /\ then \in DriveStates /\ then.active = {} BY <1>2 DEF DriveStates, DriveStages
<1>5. GraphSound(saved) /\ saved.status = "running" /\ saved \in GraphStates BY <1>3 DEF GraphSound, GraphStates
<1> HIDE DEF saved, then
<1>6. r \in DriveStates /\ r.copy = saved /\ r.active = {} BY <1>4, <1>5 DEF DriveStates
<1>7. DriveSound(r) /\ Fits(d, r) BY <1>5, <1>6, Quiet
<1>8. Goes(d, then, saved) /\ then.at \in DriveStages BY <1>4, <1>7 DEF Goes, DriveStages
<1> HIDE DEF r
<1> QED BY <1>1, <1>3, <1>8, UnderWay, RaisedGoes, CheckpointKeeps DEF saved

LEMMA NextWaveKeeps == ASSUME GraphInv, NEW d \in Drives, NextWave(d) PROVE GraphInv' /\ ResultsKept
<1> DEFINE copy == drive[d].copy
<1>1. drive[d].at = "waves" BY DEF NextWave
<1>2. /\ drive[d] \in DriveStates /\ GraphSound(copy) /\ drive[d].active = {} /\ copy \in GraphStates /\ copy.status = "running"
      /\ stored # Nothing /\ Behind(copy, stored)
  BY <1>1, DriveIs, UnderWay DEF DriveSound, Holding
<1>3. CASE Incomplete(copy) = {}
  <2> DEFINE whole == [copy EXCEPT !.status = "completed"]
             then == [drive[d] EXCEPT !.at = "completed"]
  <2>1. Checkpoint(d, whole, then, Raised(d)) BY <1>3 DEF NextWave
  <2>2. \A n \in GraphNodes : copy.nodes[n] = "completed" BY <1>3 DEF Incomplete
  <2> HIDE DEF copy
  <2>3. GraphSound(whole) /\ whole.version = copy.version /\ whole.results = copy.results
    BY <1>2, <2>2 DEF GraphSound, GraphStates, NodeStatus
  <2>4. then.at = "completed" BY <1>2 DEF DriveStates
  <2>5. Goes(d, then, [whole EXCEPT !.version = @ + 1]) /\ then.at \in DriveStages BY <2>4 DEF Goes, DriveStages
  <2> HIDE DEF whole, then
  <2> QED BY <1>2, <2>1, <2>3, <2>5, RaisedGoes, CheckpointKeeps DEF copy
<1>4. CASE Incomplete(copy) # {}
  <2>1. UNCHANGED stored BY <1>4 DEF NextWave
  <2>2. CASE drive' = [drive EXCEPT ![d] = [@ EXCEPT !.at = "failing"]]
    <3> DEFINE r == [drive[d] EXCEPT !.at = "failing"]
    <3>1. drive' = [drive EXCEPT ![d] = r] BY <2>2
    <3>2. r \in DriveStates /\ r.copy = copy /\ r.active = {} BY <1>2 DEF DriveStates, DriveStages
    <3> HIDE DEF r, copy
    <3>3. DriveSound(r) /\ Fits(d, r) BY <1>2, <3>2, Quiet
    <3> QED BY <1>2, <2>1, <3>1, <3>2, <3>3, DriveMoves
  <2>3. CASE drive' = [drive EXCEPT ![d] = [@ EXCEPT !.at = "nodes", !.active = Runnable(copy), !.error = FALSE]]
    <3> DEFINE r == [drive[d] EXCEPT !.at = "nodes", !.active = Runnable(copy), !.error = FALSE]
    <3>1. drive' = [drive EXCEPT ![d] = r] BY <2>3
    <3> HIDE DEF copy
    <3>2. Runnable(copy) \subseteq GraphNodes BY DEF Runnable
    <3>3. r \in DriveStates /\ r.copy = copy /\ r.active = Runnable(copy) /\ r.at = "nodes"
      BY <1>2, <3>2 DEF DriveStates, DriveStages, copy
    <3> HIDE DEF r
    <3>4. RunningIn(r) = {} BY <3>3 DEF RunningIn, Runnable
    <3>5. Cardinality(RunningIn(r)) = 0 BY <3>4, FS_EmptySet
    <3>6. DriveSound(r) /\ Fits(d, r) BY <1>2, <3>3, <3>4, <3>5, AnalyticsAssumption DEF DriveSound, Fits, Runnable
    <3> QED BY <1>2, <2>1, <3>1, <3>3, <3>6, DriveMoves
  <2> QED BY <1>4, <2>2, <2>3 DEF NextWave
<1> QED BY <1>3, <1>4

\* What a drive says while its nodes run.
LEMMA NodesRun ==
  ASSUME GraphInv, NEW d \in Drives, drive[d].at = "nodes"
  PROVE  /\ drive[d] \in DriveStates /\ DriveSound(drive[d]) /\ GraphSound(drive[d].copy)
         /\ drive[d].copy \in GraphStates /\ drive[d].copy.status = "running" /\ drive[d].active \subseteq GraphNodes
         /\ Running(d) = RunningIn(drive[d]) /\ stored # Nothing /\ Behind(drive[d].copy, stored)
BY DriveIs, UnderWay DEF DriveSound, Holding, DriveStates

\* A drive whose running nodes are some of those that ran before.
LEMMA FewerRun ==
  ASSUME GraphInv, NEW d \in Drives, NEW r, r \in DriveStates, GraphSound(r.copy), r.copy.status = "running", r.at = "nodes",
         RunningIn(r) \subseteq Running(d), \A n \in r.active : \A m \in NodeDeps[n] : r.copy.nodes[m] = "completed"
  PROVE  DriveSound(r) /\ Fits(d, r)
<1>1. IsFiniteSet(Running(d)) /\ Cardinality(Running(d)) \in Nat /\ Cardinality(Running(d)) <= MaxParallel
  BY DriveIs DEF DriveSound
<1>2. Cardinality(RunningIn(r)) <= Cardinality(Running(d)) /\ IsFiniteSet(RunningIn(r)) BY <1>1, FS_Subset
<1>3. Cardinality(RunningIn(r)) \in Nat BY <1>2, FS_CardinalityType
<1>4. Cardinality(RunningIn(r)) <= MaxParallel BY <1>1, <1>2, <1>3, AnalyticsAssumption
<1> QED BY <1>4 DEF DriveSound, Fits

LEMMA StartNodeKeeps ==
  ASSUME GraphInv, NEW d \in Drives, NEW n \in GraphNodes, StartNode(d, n)
  PROVE  GraphInv' /\ ResultsKept
<1> DEFINE old == drive[d].copy
           copy == [old EXCEPT !.nodes[n] = "running"]
           saved == [copy EXCEPT !.version = @ + 1]
           then == [drive[d] EXCEPT !.tries[n] = 1]
           otherwise == [drive[d] EXCEPT !.active = @ \ {n}, !.error = TRUE]
           r == [then EXCEPT !.copy = saved]
           s == [otherwise EXCEPT !.copy = copy]
<1>1. /\ drive[d].at = "nodes" /\ n \in drive[d].active /\ old.nodes[n] = "pending"
      /\ Cardinality(Running(d)) < MaxParallel /\ ~KeyHeld(d, n)
  BY DEF StartNode
<1>2. Checkpoint(d, copy, then, otherwise) BY DEF StartNode
<1>3. /\ drive[d] \in DriveStates /\ GraphSound(old) /\ old \in GraphStates /\ old.status = "running"
      /\ drive[d].active \subseteq GraphNodes /\ stored # Nothing
      /\ \A k \in drive[d].active : \A m \in NodeDeps[k] : old.nodes[m] = "completed"
  BY <1>1, NodesRun DEF DriveSound
<1>4. Running(d) = {k \in drive[d].active : old.nodes[k] = "running"} BY DEF Running
<1> HIDE DEF old
<1>5. /\ copy \in GraphStates /\ copy.version = old.version /\ copy.results = old.results /\ copy.status = "running"
      /\ copy.nodes[n] = "running" /\ \A m \in GraphNodes \ {n} : copy.nodes[m] = old.nodes[m]
  BY <1>3 DEF GraphStates, NodeStatus
<1> HIDE DEF copy
<1>6. GraphSound(copy) BY <1>1, <1>3, <1>5 DEF GraphSound
<1>7. /\ saved \in GraphStates /\ saved.nodes = copy.nodes /\ saved.results = copy.results /\ saved.status = "running"
      /\ GraphSound(saved)
  BY <1>5, <1>6 DEF GraphStates, GraphSound
<1> HIDE DEF saved
<1>8. then \in DriveStates /\ then.at = "nodes" /\ then.active = drive[d].active BY <1>1, <1>3 DEF DriveStates
<1>9. otherwise \in DriveStates /\ otherwise.at = "nodes" /\ otherwise.active = drive[d].active \ {n}
  BY <1>1, <1>3 DEF DriveStates
<1> HIDE DEF then, otherwise
<1>10. r \in DriveStates /\ r.copy = saved /\ r.at = "nodes" /\ r.active = drive[d].active BY <1>7, <1>8 DEF DriveStates
<1>11. s \in DriveStates /\ s.copy = copy /\ s.at = "nodes" /\ s.active = drive[d].active \ {n} BY <1>5, <1>9 DEF DriveStates
<1>12. \A k \in drive[d].active : \A m \in NodeDeps[k] : copy.nodes[m] = "completed"
  BY <1>1, <1>3, <1>5, AnalyticsAssumption
<1>13. DriveSound(r) /\ Fits(d, r)
  <2>1. RunningIn(r) = Running(d) \cup {n} BY <1>1, <1>3, <1>4, <1>5, <1>7, <1>10 DEF RunningIn
  <2>2. n \notin Running(d) BY <1>1, <1>4
  <2>3. IsFiniteSet(Running(d)) /\ Cardinality(Running(d)) \in Nat BY DriveIs
  <2>4. Cardinality(RunningIn(r)) = Cardinality(Running(d)) + 1 BY <2>1, <2>2, <2>3, FS_AddElement
  <2>5. Cardinality(RunningIn(r)) <= MaxParallel BY <1>1, <2>3, <2>4, AnalyticsAssumption
  <2>6. Fits(d, r) BY <1>1, <2>1 DEF Fits
  <2> QED BY <1>7, <1>10, <1>12, <2>5, <2>6 DEF DriveSound
<1>14. RunningIn(s) \subseteq Running(d) BY <1>3, <1>4, <1>5, <1>11 DEF RunningIn
<1>15. DriveSound(s) /\ Fits(d, s) BY <1>5, <1>6, <1>11, <1>12, <1>14, FewerRun
<1>16. Goes(d, then, saved) /\ Goes(d, otherwise, copy) BY <1>13, <1>15 DEF Goes
<1>17. then.at \in DriveStages /\ otherwise.at \in DriveStages BY <1>8, <1>9 DEF DriveStages
<1> HIDE DEF r, s
<1> QED BY <1>2, <1>3, <1>5, <1>6, <1>16, <1>17, CheckpointKeeps DEF saved, old

LEMMA RetryNodeKeeps ==
  ASSUME GraphInv, NEW d \in Drives, NEW n \in GraphNodes, RetryNode(d, n)
  PROVE  GraphInv' /\ ResultsKept
<1> DEFINE r == [drive[d] EXCEPT !.tries[n] = @ + 1]
<1>1. drive[d].at = "nodes" /\ drive' = [drive EXCEPT ![d].tries[n] = @ + 1] /\ UNCHANGED stored BY DEF RetryNode
<1>2. /\ drive[d] \in DriveStates /\ DriveSound(drive[d]) /\ GraphSound(drive[d].copy) /\ drive[d].copy.status = "running"
      /\ Running(d) = RunningIn(drive[d]) /\ stored # Nothing /\ Behind(drive[d].copy, stored)
  BY <1>1, NodesRun
<1>3. drive' = [drive EXCEPT ![d] = r] BY <1>1
<1>4. r \in DriveStates /\ r.copy = drive[d].copy /\ r.active = drive[d].active /\ r.at = "nodes" BY <1>1, <1>2 DEF DriveStates
<1> HIDE DEF r
<1>5. RunningIn(r) \subseteq Running(d) BY <1>2, <1>4 DEF RunningIn
<1>6. DriveSound(r) /\ Fits(d, r) BY <1>2, <1>4, <1>5, FewerRun DEF DriveSound
<1> QED BY <1>1, <1>2, <1>3, <1>4, <1>6, DriveMoves

LEMMA InputsRefusedKeeps ==
  ASSUME GraphInv, NEW d \in Drives, NEW n \in GraphNodes, InputsRefused(d, n)
  PROVE  GraphInv' /\ ResultsKept
<1> DEFINE r == [drive[d] EXCEPT !.active = @ \ {n}, !.error = TRUE]
<1>1. /\ drive[d].at = "nodes" /\ UNCHANGED stored
      /\ drive' = [drive EXCEPT ![d].active = @ \ {n}, ![d].error = TRUE]
  BY DEF InputsRefused
<1>2. /\ drive[d] \in DriveStates /\ DriveSound(drive[d]) /\ GraphSound(drive[d].copy) /\ drive[d].copy.status = "running"
      /\ Running(d) = RunningIn(drive[d]) /\ stored # Nothing /\ Behind(drive[d].copy, stored)
  BY <1>1, NodesRun
<1>3. drive' = [drive EXCEPT ![d] = r] BY <1>1
<1>4. r \in DriveStates /\ r.copy = drive[d].copy /\ r.active = drive[d].active \ {n} /\ r.at = "nodes"
  BY <1>1, <1>2 DEF DriveStates
<1> HIDE DEF r
<1>5. RunningIn(r) \subseteq Running(d) BY <1>2, <1>4 DEF RunningIn
<1>6. DriveSound(r) /\ Fits(d, r) BY <1>2, <1>4, <1>5, FewerRun DEF DriveSound
<1> QED BY <1>1, <1>2, <1>3, <1>4, <1>6, DriveMoves

LEMMA EndNodeKeeps ==
  ASSUME GraphInv, NEW d \in Drives, NEW n \in GraphNodes, EndNode(d, n)
  PROVE  GraphInv' /\ ResultsKept
<1> DEFINE old == drive[d].copy
           over == [drive[d] EXCEPT !.active = @ \ {n}]
           failed == [over EXCEPT !.error = TRUE]
           done == [old EXCEPT !.nodes[n] = "completed", !.results[n] = d]
           lost == [old EXCEPT !.nodes[n] = "failed"]
<1>1. drive[d].at = "nodes" /\ n \in Running(d) BY DEF EndNode
<1>2. /\ drive[d] \in DriveStates /\ GraphSound(old) /\ old \in GraphStates /\ old.status = "running"
      /\ drive[d].active \subseteq GraphNodes /\ stored # Nothing
      /\ \A k \in drive[d].active : \A m \in NodeDeps[k] : old.nodes[m] = "completed"
  BY <1>1, NodesRun DEF DriveSound
<1>3. Running(d) = {k \in drive[d].active : old.nodes[k] = "running"} BY DEF Running
<1>4. old.nodes[n] = "running" /\ old.results[n] = Nothing BY <1>1, <1>2, <1>3 DEF GraphSound
<1>5. Checkpoint(d, done, over, failed) \/ Checkpoint(d, lost, failed, failed) BY DEF EndNode
<1> HIDE DEF old
<1>6. /\ over \in DriveStates /\ over.at = "nodes" /\ over.active = drive[d].active \ {n}
      /\ failed \in DriveStates /\ failed.at = "nodes" /\ failed.active = drive[d].active \ {n}
  BY <1>1, <1>2 DEF DriveStates
<1> HIDE DEF over, failed
<1>7. ASSUME NEW next, next \in DriveStates, next.at = "nodes", next.active = drive[d].active \ {n},
             NEW copy, GraphSound(copy), copy.status = "running",
             \A m \in GraphNodes : m = n \/ copy.nodes[m] = old.nodes[m], copy.nodes[n] # "running"
      PROVE  Goes(d, next, copy)
  <2> DEFINE r == [next EXCEPT !.copy = copy]
  <2>1. copy \in GraphStates BY <1>7 DEF GraphSound
  <2>2. r \in DriveStates /\ r.copy = copy /\ r.at = "nodes" /\ r.active = drive[d].active \ {n} BY <1>7, <2>1 DEF DriveStates
  <2> HIDE DEF r
  <2>3. RunningIn(r) \subseteq Running(d) BY <1>2, <1>3, <1>7, <2>2 DEF RunningIn
  <2>4. \A k \in r.active : \A m \in NodeDeps[k] : r.copy.nodes[m] = "completed"
    BY <1>2, <1>4, <1>7, <2>2, AnalyticsAssumption
  <2>5. DriveSound(r) /\ Fits(d, r) BY <1>7, <2>2, <2>3, <2>4, FewerRun
  <2> QED BY <2>5 DEF Goes, r
<1>8. ASSUME NEW copy \in {done, lost}
      PROVE  /\ GraphSound(copy) /\ copy.status = "running" /\ copy.version = old.version
             /\ \A m \in GraphNodes : m = n \/ (copy.nodes[m] = old.nodes[m] /\ copy.results[m] = old.results[m])
             /\ copy.nodes[n] # "running"
  <2>1. CASE copy = done
    <3>1. /\ copy \in GraphStates /\ copy.status = "running" /\ copy.version = old.version
          /\ copy.nodes[n] = "completed" /\ copy.results[n] = d
          /\ \A m \in GraphNodes \ {n} : copy.nodes[m] = old.nodes[m] /\ copy.results[m] = old.results[m]
      BY <1>2, <2>1 DEF GraphStates, NodeStatus
    <3> QED BY <1>2, <3>1, AnalyticsAssumption DEF GraphSound
  <2>2. CASE copy = lost
    <3>1. /\ copy \in GraphStates /\ copy.status = "running" /\ copy.version = old.version
          /\ copy.nodes[n] = "failed" /\ copy.results = old.results
          /\ \A m \in GraphNodes \ {n} : copy.nodes[m] = old.nodes[m]
      BY <1>2, <2>2 DEF GraphStates, NodeStatus
    <3> QED BY <1>2, <1>4, <3>1 DEF GraphSound
  <2> QED BY <1>8, <2>1, <2>2
<1>9. ASSUME NEW copy \in {done, lost}, NEW then \in {over, failed}, Checkpoint(d, copy, then, failed)
      PROVE  GraphInv' /\ ResultsKept
  <2> DEFINE saved == [copy EXCEPT !.version = @ + 1]
  <2> HIDE DEF done, lost
  <2>1. /\ GraphSound(copy) /\ copy.status = "running" /\ copy.version = old.version
        /\ \A m \in GraphNodes : m = n \/ (copy.nodes[m] = old.nodes[m] /\ copy.results[m] = old.results[m])
        /\ copy.nodes[n] # "running"
    BY <1>8, <1>9
  <2>2. /\ GraphSound(saved) /\ saved.status = "running" /\ saved.nodes = copy.nodes
    BY <2>1 DEF GraphSound, GraphStates
  <2> HIDE DEF saved
  <2>3. Goes(d, then, saved) /\ Goes(d, failed, copy) BY <1>6, <1>7, <1>9, <2>1, <2>2
  <2>4. then.at \in DriveStages /\ failed.at \in DriveStages BY <1>6, <1>9 DEF DriveStages
  <2>5. \A m \in GraphNodes : old.results[m] # Nothing => copy.results[m] = old.results[m] BY <1>4, <2>1
  <2> QED BY <1>2, <1>9, <2>1, <2>3, <2>4, <2>5, CheckpointKeeps DEF saved, old
<1> QED BY <1>5, <1>9

LEMMA EndWaveKeeps == ASSUME GraphInv, NEW d \in Drives, EndWave(d) PROVE GraphInv' /\ ResultsKept
<1> DEFINE next == IF drive[d].error THEN "failing" ELSE "waves"
           r == [drive[d] EXCEPT !.at = next]
<1>1. drive[d].at = "nodes" /\ drive[d].active = {} /\ UNCHANGED stored BY DEF EndWave
<1>2. drive' = [drive EXCEPT ![d] = r] BY DEF EndWave
<1>3. /\ drive[d] \in DriveStates /\ GraphSound(drive[d].copy) /\ drive[d].copy.status = "running"
      /\ stored # Nothing /\ Behind(drive[d].copy, stored)
  BY <1>1, NodesRun
<1>4. next \in {"failing", "waves"} OBVIOUS
<1> HIDE DEF next
<1>5. r \in DriveStates /\ r.copy = drive[d].copy /\ r.active = {} BY <1>1, <1>3, <1>4 DEF DriveStates, DriveStages
<1> HIDE DEF r
<1>6. DriveSound(r) /\ Fits(d, r) BY <1>3, <1>5, Quiet
<1> QED BY <1>1, <1>2, <1>3, <1>5, <1>6, DriveMoves

LEMMA FailGraphKeeps == ASSUME GraphInv, NEW d \in Drives, FailGraph(d) PROVE GraphInv' /\ ResultsKept
<1> DEFINE copy == [drive[d].copy EXCEPT !.status = "failed"]
<1>1. drive[d].at = "failing" /\ Checkpoint(d, copy, Raised(d), Raised(d)) BY DEF FailGraph
<1>2. GraphSound(drive[d].copy) BY DriveIs DEF DriveSound
<1>3. GraphSound(copy) /\ copy.version = drive[d].copy.version /\ copy.results = drive[d].copy.results
  BY <1>2 DEF GraphSound, GraphStates, NodeStatus
<1> HIDE DEF copy
<1> QED BY <1>1, <1>3, UnderWay, RaisedGoes, CheckpointKeeps

LEMMA StopGraphKeeps == ASSUME GraphInv, NEW d \in Drives, StopGraph(d) PROVE GraphInv' /\ ResultsKept
<1> DEFINE old == drive[d].copy
           stopped == [n \in GraphNodes |-> IF n \in Running(d) THEN "failed" ELSE old.nodes[n]]
           ended == [n \in GraphNodes |-> IF stopped[n] \in {"pending", "running"} THEN "cancelled" ELSE stopped[n]]
           timedOut == [old EXCEPT !.status = "failed", !.nodes = ended]
           cancelled == [old EXCEPT !.status = "cancelled", !.nodes = stopped]
<1>1. drive[d].at \in {"waves", "nodes"} BY DEF StopGraph
<1>2. Checkpoint(d, timedOut, Raised(d), Raised(d)) \/ Checkpoint(d, cancelled, Raised(d), Raised(d)) BY DEF StopGraph
<1>3. GraphSound(old) /\ old \in GraphStates BY DriveIs DEF DriveSound
<1>4. \A n \in Running(d) : old.nodes[n] = "running" BY DEF Running
<1> HIDE DEF old
<1>5. /\ stopped \in [GraphNodes -> NodeStatus]
      /\ \A n \in GraphNodes : stopped[n] = "completed" <=> old.nodes[n] = "completed"
  BY <1>3, <1>4 DEF GraphStates, NodeStatus
<1> HIDE DEF stopped
<1>6. /\ ended \in [GraphNodes -> NodeStatus]
      /\ \A n \in GraphNodes : ended[n] = "completed" <=> old.nodes[n] = "completed"
  BY <1>5 DEF NodeStatus
<1> HIDE DEF ended
<1>7. GraphSound(timedOut) /\ timedOut.version = old.version /\ timedOut.results = old.results
  BY <1>3, <1>6 DEF GraphSound, GraphStates, NodeStatus
<1>8. GraphSound(cancelled) /\ cancelled.version = old.version /\ cancelled.results = old.results
  BY <1>3, <1>5 DEF GraphSound, GraphStates, NodeStatus
<1> HIDE DEF timedOut, cancelled
<1>9. stored # Nothing BY <1>1, UnderWay
<1>10. ASSUME NEW copy \in {timedOut, cancelled}, Checkpoint(d, copy, Raised(d), Raised(d)) PROVE GraphInv' /\ ResultsKept
  <2>1. GraphSound(copy) /\ copy.version = old.version /\ copy.results = old.results BY <1>7, <1>8, <1>10
  <2> QED BY <1>9, <1>10, <2>1, RaisedGoes, CheckpointKeeps DEF old
<1> QED BY <1>2, <1>10

LEMMA ProcessDiesKeeps == ASSUME GraphInv, NEW p, ProcessDies(p) PROVE GraphInv' /\ ResultsKept
<1> DEFINE r == [IdleDrive EXCEPT !.at = "raised"]
<1>1. PICK x \in Drives : DriveProcess[x] = p /\ drive[x].at \in Holding \cup {"locking"} BY DEF ProcessDies
<1>2. stored # Nothing /\ UNCHANGED stored BY <1>1, UnderWay DEF Holding, ProcessDies
<1>3. drive' = [d \in Drives |-> IF DriveProcess[d] = p /\ drive[d].at # "idle" THEN r ELSE drive[d]]
  BY DEF ProcessDies, Raised
<1>4. DriveSound(r) /\ RunningIn(r) = {} /\ r.copy = Fresh BY IdleSound
<1> HIDE DEF r
<1>5. \A d \in Drives : drive'[d] = r \/ drive'[d] = drive[d] BY <1>3
<1>6. Behind(Fresh, stored)
  <2>1. stored.version \in Nat /\ (stored.version = 0 => stored.results = Fresh.results)
    BY <1>2 DEF GraphInv, GraphSound, GraphStates
  <2> QED BY <2>1 DEF Behind, Fresh
<1>7. drive' \in [Drives -> DriveStates] /\ \A d \in Drives : DriveSound(drive'[d]) BY <1>3, <1>4 DEF GraphInv, DriveSound
<1>8. \A d \in Drives : Behind(drive'[d].copy, stored) BY <1>2, <1>4, <1>5, <1>6 DEF GraphInv
<1>9. \A d \in Drives : Running(d)' \subseteq Running(d)
  <2> SUFFICES ASSUME NEW d \in Drives PROVE Running(d)' \subseteq Running(d) OBVIOUS
  <2>1. Running(d)' = RunningIn(drive'[d]) BY DEF Running, RunningIn
  <2>2. Running(d) = RunningIn(drive[d]) BY DEF Running, RunningIn
  <2> QED BY <1>4, <1>5, <2>1, <2>2
<1>10. KeysAlone' BY <1>9 DEF KeysAlone, GraphInv
<1>11. GraphInv' BY <1>2, <1>7, <1>8, <1>10 DEF GraphInv
<1> QED BY <1>2, <1>11 DEF ResultsKept

LEMMA GraphKeeps == ASSUME GraphInv, GraphNext PROVE GraphInv' /\ ResultsKept
<1>1. ASSUME NEW d \in Drives, NEW n \in GraphNodes,
             StartNode(d, n) \/ RetryNode(d, n) \/ InputsRefused(d, n) \/ EndNode(d, n)
      PROVE  GraphInv' /\ ResultsKept
  BY <1>1, StartNodeKeeps, RetryNodeKeeps, InputsRefusedKeeps, EndNodeKeeps
<1>2. ASSUME NEW d \in Drives, RunGraph(d) \/ ResumeGraph(d) \/ TakeLock(d) \/ NextWave(d)
      PROVE  GraphInv' /\ ResultsKept
  BY <1>2, RunGraphKeeps, ResumeGraphKeeps, TakeLockKeeps, NextWaveKeeps
<1>3. ASSUME NEW d \in Drives, EndWave(d) \/ FailGraph(d) \/ StopGraph(d) \/ ProcessDies(DriveProcess[d])
      PROVE  GraphInv' /\ ResultsKept
  BY <1>3, EndWaveKeeps, FailGraphKeeps, StopGraphKeeps, ProcessDiesKeeps
<1> QED BY <1>1, <1>2, <1>3 DEF GraphNext

LEMMA GraphStays == ASSUME GraphInv, UNCHANGED graphVars PROVE GraphInv' /\ ResultsKept
<1>1. drive' = drive /\ stored' = stored BY DEF graphVars
<1>2. KeysAlone'
  <2>1. \A d \in Drives : Running(d)' \subseteq Running(d) BY <1>1 DEF Running
  <2> QED BY <2>1 DEF KeysAlone, GraphInv
<1>3. GraphInv' BY <1>1, <1>2 DEF GraphInv
<1> QED BY <1>1, <1>3 DEF ResultsKept

\* What GraphInv says of the properties.
LEMMA GraphSays ==
  ASSUME GraphInv
  PROVE  /\ stored \in GraphStates \cup {Nothing} /\ \A d \in Drives : drive[d].active \subseteq GraphNodes
         /\ InputsPresent /\ CompletedWhole /\ KeysExclusive
<1>1. \A d \in Drives : DriveSound(drive[d]) /\ drive[d] \in DriveStates /\ Running(d) = RunningIn(drive[d])
  BY DriveIs
<1>2. stored \in GraphStates \cup {Nothing} /\ \A d \in Drives : drive[d].active \subseteq GraphNodes
  BY <1>1 DEF GraphInv, GraphSound, DriveStates
<1>3. InputsPresent
  <2> SUFFICES ASSUME NEW d \in Drives, NEW n \in Running(d), NEW m \in NodeDeps[n] PROVE drive[d].copy.results[m] # Nothing
    BY DEF InputsPresent
  <2>1. n \in drive[d].active /\ n \in GraphNodes BY <1>2 DEF Running
  <2>2. m \in GraphNodes BY <2>1, AnalyticsAssumption
  <2>3. drive[d].copy.nodes[m] = "completed" BY <1>1, <2>1 DEF DriveSound
  <2> QED BY <1>1, <2>2, <2>3 DEF DriveSound, GraphSound
<1>4. CompletedWhole BY DEF CompletedWhole, GraphInv, GraphSound
<1>5. KeysExclusive BY <1>1 DEF KeysExclusive, GraphInv, KeysAlone, DriveSound
<1> QED BY <1>2, <1>3, <1>4, <1>5

-----------------------------------------------------------------------------
(* Analytics: governed queries.                                            *)

QuestionSteps == {"idle", "denied", "looking", "waiting", "querying", "answered", "refused", "failed"}
RowsOf(auth) == Seq({auth})

\* Rows are the caller's, within the quota once they are answered; what is under way was audited.
QuestionSound(q) ==
  /\ DOMAIN question[q] = {"at", "rows"} /\ question[q].at \in QuestionSteps
  /\ question[q].at \in {"looking", "waiting", "querying", "answered"} => q \in audited
  /\ question[q].at = "answered" => question[q].rows \in RowsOf(Questions[q].auth) /\ Within(question[q].rows)

QueryInv ==
  /\ DOMAIN question = DOMAIN Questions /\ question = [q \in DOMAIN Questions |-> question[q]]
  /\ \A q \in DOMAIN Questions : QuestionSound(q)
  /\ \A k \in DOMAIN rowsCache : rowsCache[k] \in RowsOf(k.auth)
  /\ audited \subseteq DOMAIN Questions /\ queryClock \in 0..QueryUntil
  /\ PoolsBounded

LEMMA PoolIs ==
  ASSUME NEW q \in DOMAIN Questions
  PROVE  /\ IsFiniteSet(Querying(Questions[q].tenant, Questions[q].purpose))
         /\ Cardinality(Querying(Questions[q].tenant, Questions[q].purpose)) \in Nat
<1>1. Querying(Questions[q].tenant, Questions[q].purpose) \subseteq DOMAIN Questions BY DEF Querying
<1> QED BY <1>1, FS_Subset, FS_CardinalityType, AnalyticsAssumption

\* A question moves, and none begins to query but where its pool is free.
LEMMA QuestionMoves ==
  ASSUME QueryInv, NEW q \in DOMAIN Questions, NEW r, question' = [question EXCEPT ![q] = r], QuestionSound(q)',
         audited \subseteq audited', audited' \subseteq DOMAIN Questions, UNCHANGED queryClock,
         r.at = "querying" => PoolFree(q),
         \A k \in DOMAIN rowsCache' : rowsCache'[k] \in RowsOf(k.auth)
  PROVE  QueryInv'
<1>1. /\ DOMAIN question' = DOMAIN Questions /\ question'[q] = r
      /\ \A x \in DOMAIN Questions \ {q} : question'[x] = question[x]
  BY DEF QueryInv
<1>2. question' = [x \in DOMAIN Questions |-> question'[x]] BY DEF QueryInv
<1>3. \A x \in DOMAIN Questions \ {q} : QuestionSound(x)' BY <1>1 DEF QueryInv, QuestionSound, Within
<1>4. PoolsBounded'
  <2> SUFFICES ASSUME NEW x \in DOMAIN Questions
               PROVE  Cardinality(Querying(Questions[x].tenant, Questions[x].purpose))' <= Policy.concurrency
    BY DEF PoolsBounded
  <2> DEFINE pool == Querying(Questions[x].tenant, Questions[x].purpose)
  <2>1. IsFiniteSet(pool) /\ Cardinality(pool) \in Nat /\ Cardinality(pool) <= Policy.concurrency
    BY PoolIs DEF QueryInv, PoolsBounded
  <2>2. CASE r.at = "querying" /\ Questions[q].tenant = Questions[x].tenant /\ Questions[q].purpose = Questions[x].purpose
    <3>1. pool' \subseteq pool \cup {q} BY <1>1 DEF Querying
    <3>2. Cardinality(pool) < Policy.concurrency BY <2>2 DEF PoolFree
    <3>3. IsFiniteSet(pool \cup {q}) /\ Cardinality(pool \cup {q}) \in Nat /\ Cardinality(pool \cup {q}) <= Cardinality(pool) + 1
      <4> HIDE DEF pool
      <4>1. IsFiniteSet(pool \cup {q}) /\ Cardinality(pool \cup {q}) = (IF q \in pool THEN Cardinality(pool) ELSE Cardinality(pool) + 1)
        BY <2>1, FS_AddElement
      <4> QED BY <2>1, <4>1
    <3>4. IsFiniteSet(pool') /\ Cardinality(pool') <= Cardinality(pool \cup {q}) BY <3>1, <3>3, FS_Subset
    <3>5. Cardinality(pool') \in Nat BY <3>4, FS_CardinalityType
    <3> HIDE DEF pool
    <3>6. Cardinality(pool') <= Policy.concurrency BY <2>1, <3>2, <3>3, <3>4, <3>5, AnalyticsAssumption
    <3> QED BY <3>6 DEF pool
  <2>3. CASE ~(r.at = "querying" /\ Questions[q].tenant = Questions[x].tenant /\ Questions[q].purpose = Questions[x].purpose)
    <3>1. pool' \subseteq pool BY <1>1, <2>3 DEF Querying
    <3>2. IsFiniteSet(pool') /\ Cardinality(pool') <= Cardinality(pool) BY <2>1, <3>1, FS_Subset
    <3>3. Cardinality(pool') \in Nat BY <3>2, FS_CardinalityType
    <3> HIDE DEF pool
    <3>4. Cardinality(pool') <= Policy.concurrency BY <2>1, <3>2, <3>3, AnalyticsAssumption
    <3> QED BY <3>4 DEF pool
  <2> QED BY <2>2, <2>3
<1> QED BY <1>1, <1>2, <1>3, <1>4 DEF QueryInv

LEMMA AskQueryKeeps == ASSUME QueryInv, NEW q \in DOMAIN Questions, AskQuery(q) PROVE QueryInv'
<1>1. QuestionSound(q) /\ UNCHANGED <<rowsCache, queryClock>> BY DEF QueryInv, AskQuery
<1>2. CASE question' = [question EXCEPT ![q].at = "looking"] /\ audited' = audited \cup {q}
  <2> DEFINE r == [question[q] EXCEPT !.at = "looking"]
  <2>1. question' = [question EXCEPT ![q] = r] BY <1>2
  <2>2. DOMAIN r = {"at", "rows"} /\ r.at = "looking" BY <1>1 DEF QuestionSound
  <2>3. question'[q] = r BY <2>1 DEF QueryInv
  <2> HIDE DEF r
  <2>4. QuestionSound(q)' BY <1>2, <2>2, <2>3 DEF QuestionSound, QuestionSteps
  <2>5. audited \subseteq audited' /\ audited' \subseteq DOMAIN Questions /\ UNCHANGED queryClock
        /\ \A k \in DOMAIN rowsCache' : rowsCache'[k] \in RowsOf(k.auth)
    BY <1>1, <1>2 DEF QueryInv
  <2> QED BY <2>1, <2>2, <2>4, <2>5, QuestionMoves
<1>3. CASE question' = [question EXCEPT ![q].at = "denied"] /\ UNCHANGED audited
  <2> DEFINE r == [question[q] EXCEPT !.at = "denied"]
  <2>1. question' = [question EXCEPT ![q] = r] BY <1>3
  <2>2. DOMAIN r = {"at", "rows"} /\ r.at = "denied" BY <1>1 DEF QuestionSound
  <2>3. question'[q] = r BY <2>1 DEF QueryInv
  <2> HIDE DEF r
  <2>4. QuestionSound(q)' BY <1>3, <2>2, <2>3 DEF QuestionSound, QuestionSteps
  <2>5. audited \subseteq audited' /\ audited' \subseteq DOMAIN Questions /\ UNCHANGED queryClock
        /\ \A k \in DOMAIN rowsCache' : rowsCache'[k] \in RowsOf(k.auth)
    BY <1>1, <1>3 DEF QueryInv
  <2> QED BY <2>1, <2>2, <2>4, <2>5, QuestionMoves
<1> QED BY <1>2, <1>3 DEF AskQuery

\* What is answered is measured first.
LEMMA AnswerKeeps ==
  ASSUME QueryInv, NEW q \in DOMAIN Questions, q \in audited, NEW rows \in RowsOf(Questions[q].auth), Answer(q, rows),
         UNCHANGED <<audited, queryClock>>, \A k \in DOMAIN rowsCache' : rowsCache'[k] \in RowsOf(k.auth)
  PROVE  QueryInv'
<1> DEFINE r == IF Within(rows) THEN [at |-> "answered", rows |-> rows] ELSE [at |-> "refused", rows |-> Nothing]
<1>1. question' = [question EXCEPT ![q] = r] BY DEF Answer
<1>2. question'[q] = r BY <1>1 DEF QueryInv
<1>3. DOMAIN r = {"at", "rows"} /\ r.at \in {"answered", "refused"} /\ (r.at = "answered" => r.rows = rows /\ Within(rows))
  OBVIOUS
<1> HIDE DEF r
<1>4. QuestionSound(q)' BY <1>2, <1>3 DEF QuestionSound, QuestionSteps, Within
<1>5. audited \subseteq audited' /\ audited' \subseteq DOMAIN Questions BY DEF QueryInv
<1> QED BY <1>1, <1>3, <1>4, <1>5, QuestionMoves

LEMMA QuestionGoes ==
  ASSUME QueryInv, NEW q \in DOMAIN Questions, NEW at \in {"waiting", "querying", "failed"},
         question' = [question EXCEPT ![q].at = at], at = "querying" => PoolFree(q), q \in audited,
         UNCHANGED <<rowsCache, audited, queryClock>>
  PROVE  QueryInv'
<1> DEFINE r == [question[q] EXCEPT !.at = at]
<1>1. question' = [question EXCEPT ![q] = r] OBVIOUS
<1>2. DOMAIN r = {"at", "rows"} /\ r.at = at BY DEF QueryInv, QuestionSound
<1>3. question'[q] = r BY <1>1 DEF QueryInv
<1> HIDE DEF r
<1>4. QuestionSound(q)' BY <1>2, <1>3 DEF QuestionSound, QuestionSteps
<1>5. audited \subseteq audited' /\ audited' \subseteq DOMAIN Questions /\ \A k \in DOMAIN rowsCache' : rowsCache'[k] \in RowsOf(k.auth)
  BY DEF QueryInv
<1> QED BY <1>1, <1>2, <1>4, <1>5, QuestionMoves

LEMMA LookUpKeeps == ASSUME QueryInv, NEW q \in DOMAIN Questions, LookUp(q) PROVE QueryInv'
<1>1. q \in audited /\ UNCHANGED <<rowsCache, audited, queryClock>> BY DEF QueryInv, QuestionSound, LookUp
<1>2. CASE RowsKey(q) \in DOMAIN rowsCache
  <2>1. rowsCache[RowsKey(q)] \in RowsOf(Questions[q].auth) BY <1>2 DEF QueryInv, RowsKey
  <2>2. Answer(q, rowsCache[RowsKey(q)]) BY <1>2 DEF LookUp
  <2> QED BY <1>1, <2>1, <2>2, AnswerKeeps DEF QueryInv
<1>3. CASE RowsKey(q) \notin DOMAIN rowsCache
  <2>1. question' = [question EXCEPT ![q].at = "waiting"] BY <1>3 DEF LookUp
  <2> QED BY <1>1, <2>1, QuestionGoes
<1> QED BY <1>2, <1>3

LEMMA StartQueryKeeps == ASSUME QueryInv, NEW q \in DOMAIN Questions, StartQuery(q) PROVE QueryInv'
<1>1. q \in audited BY DEF QueryInv, QuestionSound, StartQuery
<1> QED BY <1>1, QuestionGoes DEF StartQuery

LEMMA EndQueryKeeps == ASSUME QueryInv, NEW q \in DOMAIN Questions, EndQuery(q) PROVE QueryInv'
<1>1. q \in audited /\ UNCHANGED <<audited, queryClock>> BY DEF QueryInv, QuestionSound, EndQuery
<1>2. ASSUME NEW n \in 0..Policy.maxRows + 1, Answer(q, [i \in 1..n |-> Questions[q].auth]),
             rowsCache' = [k \in DOMAIN rowsCache \cup {RowsKey(q)} |->
                             IF k = RowsKey(q) THEN [i \in 1..n |-> Questions[q].auth] ELSE rowsCache[k]]
      PROVE  QueryInv'
  <2> DEFINE rows == [i \in 1..n |-> Questions[q].auth]
  <2>1. n \in Nat BY AnalyticsAssumption
  <2>2. rows \in RowsOf(Questions[q].auth) BY <2>1 DEF RowsOf
  <2> HIDE DEF rows
  <2>3. RowsKey(q).auth = Questions[q].auth BY DEF RowsKey
  <2>4. \A k \in DOMAIN rowsCache' : rowsCache'[k] \in RowsOf(k.auth)
    <3>1. DOMAIN rowsCache' = DOMAIN rowsCache \cup {RowsKey(q)} BY <1>2
    <3>2. \A k \in DOMAIN rowsCache' : rowsCache'[k] = IF k = RowsKey(q) THEN rows ELSE rowsCache[k] BY <1>2 DEF rows
    <3> QED BY <2>2, <2>3, <3>1, <3>2 DEF QueryInv
  <2> QED BY <1>1, <1>2, <2>2, <2>4, AnswerKeeps DEF rows
<1>3. CASE question' = [question EXCEPT ![q].at = "failed"] /\ UNCHANGED rowsCache BY <1>1, <1>3, QuestionGoes
<1> QED BY <1>2, <1>3 DEF EndQuery

LEMMA QueryStays == ASSUME QueryInv, UNCHANGED <<question, rowsCache, audited>>, queryClock' \in 0..QueryUntil PROVE QueryInv'
<1>1. \A t, p : Querying(t, p)' = Querying(t, p) BY DEF Querying
<1>2. PoolsBounded' BY <1>1 DEF PoolsBounded, QueryInv
<1> QED BY <1>2 DEF QueryInv, QuestionSound, Within

LEMMA QueryKeeps == ASSUME QueryInv, QueryNext PROVE QueryInv'
<1>1. ASSUME NEW q \in DOMAIN Questions, AskQuery(q) \/ LookUp(q) \/ StartQuery(q) \/ EndQuery(q) PROVE QueryInv'
  BY <1>1, AskQueryKeeps, LookUpKeeps, StartQueryKeeps, EndQueryKeeps
<1>2. CASE QueryTick
  <2>1. queryClock' \in 0..QueryUntil BY <1>2, AnalyticsAssumption DEF QueryTick, QueryInv
  <2> QED BY <1>2, <2>1, QueryStays DEF QueryTick
<1> QED BY <1>1, <1>2 DEF QueryNext

LEMMA QuerySays == ASSUME QueryInv PROVE AnswersGoverned /\ RowsOfTheCaller /\ PoolsBounded
<1>1. ASSUME NEW q \in DOMAIN Questions, question[q].at = "answered"
      PROVE  q \in audited /\ question[q].rows \in RowsOf(Questions[q].auth) /\ Len(question[q].rows) <= Policy.maxRows
  BY <1>1 DEF QueryInv, QuestionSound, Within
<1>2. AnswersGoverned BY <1>1 DEF AnswersGoverned
<1>3. RowsOfTheCaller
  <2> SUFFICES ASSUME NEW q \in DOMAIN Questions, question[q].at = "answered", NEW i \in 1..Len(question[q].rows)
               PROVE  question[q].rows[i] = Questions[q].auth
    BY DEF RowsOfTheCaller
  <2> DEFINE auth == Questions[q].auth
             rows == question[q].rows
  <2>1. rows \in Seq({auth}) BY <1>1 DEF RowsOf
  <2> HIDE DEF auth, rows
  <2>2. \A k \in 1..Len(rows) : rows[k] \in {auth} BY <2>1
  <2> QED BY <2>2 DEF auth, rows
<1> QED BY <1>2, <1>3 DEF QueryInv

-----------------------------------------------------------------------------
(* Analytics: metric queries and predictions.                              *)

LEMMA DefaultsAgree ==
  ASSUME NEW q \in SemanticQueries, NEW f \in Defaults(q), NEW g \in Defaults(q), f.field = g.field
  PROVE  f = g
<1>1. PICK m \in q.models : f \in SemanticModels[m].defaults BY DEF Defaults, ModelsOf
<1>2. PICK n \in q.models : g \in SemanticModels[n].defaults BY DEF Defaults, ModelsOf
<1> QED BY <1>1, <1>2, AnalyticsAssumption

\* The defaults come first, so the first filter on a default's field is the default.
LEMMA WhereEnforces ==
  ASSUME NEW q \in SemanticQueries, Plain(q) => KeepsDefaults(q), NEW f \in Defaults(q)
  PROVE  f \in Where(q) /\ \A g \in Where(q) : g.field = f.field => g = f
<1> DEFINE places == EffectiveFilters(q)
           own == [at |-> 0, filter |-> f]
<1>1. own \in places /\ own.at = 0 /\ own.filter = f BY DEF EffectiveFilters
<1>2. \A p \in places : \/ p.at = 0 /\ p.filter \in Defaults(q)
                        \/ \E i \in 1..Len(q.filters) : p.at = i /\ p.filter = q.filters[i]
  BY DEF EffectiveFilters
<1>3. Len(q.filters) \in Nat BY AnalyticsAssumption
<1> HIDE DEF places, own
<1>4. CASE Plain(q)
  <2>1. Where(q) = {p.filter : p \in places} BY <1>4 DEF Where, places
  <2>2. f \in Where(q) BY <1>1, <2>1
  <2>3. ASSUME NEW g \in Where(q), g.field = f.field PROVE g = f
    <3>1. PICK p \in places : g = p.filter BY <2>1
    <3>2. CASE p.filter \in Defaults(q) BY <2>3, <3>1, <3>2, DefaultsAgree
    <3>3. CASE \E i \in 1..Len(q.filters) : p.filter = q.filters[i] BY <1>4, <2>3, <3>1, <3>3 DEF KeepsDefaults
    <3> QED BY <1>2, <3>2, <3>3
  <2> QED BY <2>2, <2>3
<1>5. CASE ~Plain(q)
  <2>1. Where(q) = {p.filter : p \in {x \in places : \A y \in places : y.filter.field = x.filter.field => x.at <= y.at}}
    BY <1>5 DEF Where, FirstOnField, places
  <2>2. \A y \in places : own.at <= y.at BY <1>1, <1>2, <1>3
  <2>3. f \in Where(q) BY <1>1, <2>1, <2>2
  <2>4. ASSUME NEW g \in Where(q), g.field = f.field PROVE g = f
    <3>1. PICK p \in places : g = p.filter /\ \A y \in places : y.filter.field = p.filter.field => p.at <= y.at BY <2>1
    <3>2. p.at <= 0 BY <1>1, <2>4, <3>1
    <3>3. p.filter \in Defaults(q) BY <1>2, <1>3, <3>2
    <3> QED BY <2>4, <3>1, <3>3, DefaultsAgree
  <2> QED BY <2>3, <2>4
<1> QED BY <1>4, <1>5

CompileInv ==
  /\ compiled = Nothing \/ compiled.query \in SemanticQueries
  /\ DefaultsEnforced /\ JoinsGoverned

LEMMA CompileKeeps ==
  ASSUME CompileInv, NEW q \in SemanticQueries, NEW path \in JoinPaths(q), Compile(q, path)
  PROVE  CompileInv'
<1>1. CASE ~Compilable(q, path)
  <2>1. compiled' = [query |-> q, ok |-> FALSE, where |-> {}, joins |-> {}] BY <1>1 DEF Compile
  <2> QED BY <2>1 DEF CompileInv, DefaultsEnforced, JoinsGoverned
<1>2. CASE Compilable(q, path)
  <2> DEFINE joins == {path[i] : i \in 1..Len(path)}
  <2>1. compiled' = [query |-> q, ok |-> TRUE, where |-> Where(q), joins |-> joins] BY <1>2 DEF Compile
  <2>2. compiled'.query = q /\ compiled'.where = Where(q) /\ compiled'.joins = joins
    <3> HIDE DEF joins
    <3> QED BY <2>1
  <2>3. DefaultsEnforced'
    <3>1. Plain(q) => KeepsDefaults(q) BY <1>2 DEF Compilable
    <3>2. \A m \in ModelsOf(q) : m.defaults \subseteq Defaults(q) BY DEF Defaults
    <3> HIDE DEF joins
    <3> QED BY <2>2, <3>1, <3>2, WhereEnforces DEF DefaultsEnforced
  <2>4. PICK n \in 0..Cardinality(q.models) : path \in [1..n -> SemanticJoins] BY DEF JoinPaths
  <2>5. /\ \A i \in 1..Len(path) : path[i] \in JoinsFrom(q, Reached(q, path, i - 1))
        /\ \A i \in 1..Len(path) : path[i].left \in Reached(q, path, Len(path))
    BY DEF JoinPaths, Reached
  <2>6. Plain(q) => \A i \in 1..Len(path) : FALSE
    <3>1. \A i : q.base \in Reached(q, path, i) BY DEF Reached
    <3> QED BY <2>5, <3>1 DEF Plain, JoinsFrom
  <2>7. \A j \in joins : j.tags \subseteq Caller.tags
    <3>1. ASSUME NEW i \in 1..Len(path) PROVE path[i].tags \subseteq Caller.tags
      BY <1>2, <2>6 DEF Compilable, SafeJoins, JoinAllowed
    <3> QED BY <3>1
  <2>8. q.models \ {q.base} \subseteq UNION {{j.left, j.right} : j \in joins}
    <3>1. CASE Plain(q) BY <3>1 DEF Plain
    <3>2. CASE ~Plain(q)
      <4>1. q.models \subseteq Reached(q, path, Len(path)) BY <1>2, <3>2 DEF Compilable
      <4>2. ASSUME NEW m \in q.models \ {q.base} PROVE \E j \in joins : m \in {j.left, j.right}
        <5>1. m \in UNION {{path[i].left, path[i].right} : i \in 1..Len(path)} BY <4>1, <4>2 DEF Reached
        <5> QED BY <5>1
      <4> QED BY <4>2
    <3> QED BY <3>1, <3>2
  <2>9. \A m \in ModelsOf(q) : Rank[m.sensitivity] <= Rank[Caller.sensitivity] /\ m.tags \subseteq Caller.tags
    BY <1>2 DEF Compilable, Accessible
  <2> HIDE DEF joins
  <2>10. JoinsGoverned' BY <2>2, <2>7, <2>8, <2>9 DEF JoinsGoverned
  <2> QED BY <2>2, <2>3, <2>10 DEF CompileInv
<1> QED BY <1>1, <1>2

ServiceInv ==
  /\ prediction # Nothing => DOMAIN prediction = {"request", "at", "status", "from", "outputs"}
  /\ ServedAsAsked

LEMMA ServiceKeeps == ASSUME ServiceInv, ServiceNext PROVE ServiceInv'
<1>1. ASSUME NEW r \in Predictions, AskService(r) PROVE ServiceInv'
  <2>1. prediction' = [request |-> r, at |-> 1, status |-> "trying", from |-> Nothing, outputs |-> 0] BY <1>1 DEF AskService
  <2> QED BY <2>1 DEF ServiceInv, ServedAsAsked
<1>2. CASE TryService
  <2> DEFINE r == prediction.request
             next == IF prediction.at < Len(r.candidates) THEN [prediction EXCEPT !.at = @ + 1]
                     ELSE [prediction EXCEPT !.status = "failed"]
             found == ResolvedVersions(r.candidates[prediction.at])
  <2>1. prediction.status = "trying" /\ DOMAIN prediction = {"request", "at", "status", "from", "outputs"}
    BY <1>2 DEF TryService, ServiceInv
  <2>2. \/ prediction' = next
        \/ \E v \in LatestOf(found), outputs \in 0..r.inputs :
             /\ MayServe(r, v)
             /\ prediction' = IF SameBatch(r, outputs)
                              THEN [prediction EXCEPT !.status = "answered", !.outputs = outputs, !.from = v]
                              ELSE next
    BY <1>2 DEF TryService
  <2>3. CASE prediction' = next
    <3>1. DOMAIN next = {"request", "at", "status", "from", "outputs"} /\ next.status # "answered" BY <2>1
    <3> HIDE DEF next
    <3> QED BY <2>3, <3>1 DEF ServiceInv, ServedAsAsked
  <2>4. ASSUME NEW v \in LatestOf(found), NEW outputs \in 0..r.inputs, MayServe(r, v), SameBatch(r, outputs),
               prediction' = [prediction EXCEPT !.status = "answered", !.outputs = outputs, !.from = v]
        PROVE  ServiceInv'
    <3>1. /\ DOMAIN prediction' = {"request", "at", "status", "from", "outputs"} /\ prediction'.request = r
          /\ prediction'.at = prediction.at /\ prediction'.outputs = outputs /\ prediction'.from = v
      BY <2>1, <2>4
    <3>2. outputs = r.inputs /\ (v.drifted => r.allowDrifted) BY <2>4 DEF SameBatch, MayServe
    <3>3. \A w \in ModelVersions :
            w.name = r.candidates[prediction.at].name /\ w.enabled /\ r.candidates[prediction.at].version \in {0, w.version}
              => w.version <= v.version
      BY <2>4 DEF LatestOf, ResolvedVersions
    <3> HIDE DEF next, found, r
    <3> QED BY <3>1, <3>2, <3>3 DEF ServiceInv, ServedAsAsked
  <2> QED BY <2>2, <2>3, <2>4
<1> QED BY <1>1, <1>2 DEF ServiceNext

AnalyticsInv == GraphInv /\ QueryInv /\ CompileInv /\ ServiceInv

LEMMA AnalyticsStarts == AnalyticsInit => AnalyticsInv
<1> SUFFICES ASSUME AnalyticsInit PROVE AnalyticsInv OBVIOUS
<1>1. GraphInv
  <2>1. stored = Nothing /\ drive = [d \in Drives |-> IdleDrive] BY DEF AnalyticsInit
  <2>2. RunningIn(IdleDrive) = {} BY IdleIs DEF RunningIn
  <2>3. DriveSound(IdleDrive)
    <3>1. Cardinality(RunningIn(IdleDrive)) = 0 BY <2>2, FS_EmptySet
    <3> QED BY <3>1, IdleIs, FreshSound, AnalyticsAssumption DEF DriveSound, Holding
  <2>4. \A d \in Drives : Running(d) = {} BY <2>1, <2>2 DEF Running, RunningIn
  <2>5. KeysAlone BY <2>4 DEF KeysAlone
  <2> QED BY <2>1, <2>3, <2>5 DEF GraphInv, DriveSound
<1>2. QueryInv
  <2>1. /\ question = [q \in DOMAIN Questions |-> [at |-> "idle", rows |-> Nothing]]
        /\ rowsCache = [k \in {} |-> Nothing] /\ audited = {} /\ queryClock = 0
    BY DEF AnalyticsInit
  <2>2. ASSUME NEW q \in DOMAIN Questions PROVE QuestionSound(q) /\ question[q].at = "idle"
    BY <2>1 DEF QuestionSound, QuestionSteps
  <2>3. PoolsBounded
    <3>1. \A t, p : Querying(t, p) = {} BY <2>2 DEF Querying
    <3>2. \A t, p : Cardinality(Querying(t, p)) = 0 BY <3>1, FS_EmptySet
    <3> QED BY <3>2, AnalyticsAssumption DEF PoolsBounded
  <2>4. queryClock \in 0..QueryUntil BY <2>1, AnalyticsAssumption
  <2> QED BY <2>1, <2>2, <2>3, <2>4 DEF QueryInv
<1>3. CompileInv BY DEF AnalyticsInit, CompileInv, DefaultsEnforced, JoinsGoverned
<1>4. ServiceInv BY DEF AnalyticsInit, ServiceInv, ServedAsAsked
<1> QED BY <1>1, <1>2, <1>3, <1>4 DEF AnalyticsInv

LEMMA CompileStays == ASSUME CompileInv, UNCHANGED compiled PROVE CompileInv'
BY DEF CompileInv, DefaultsEnforced, JoinsGoverned

LEMMA ServiceStays == ASSUME ServiceInv, UNCHANGED prediction PROVE ServiceInv'
BY DEF ServiceInv, ServedAsAsked

LEMMA QueryUnmoved == ASSUME QueryInv, UNCHANGED queryVars PROVE QueryInv'
<1>1. UNCHANGED <<question, rowsCache, audited>> /\ queryClock' \in 0..QueryUntil BY DEF queryVars, QueryInv
<1> QED BY <1>1, QueryStays

LEMMA AnalyticsStep == ASSUME AnalyticsInv, [AnalyticsNext]_analyticsVars PROVE AnalyticsInv' /\ ResultsKept
<1>1. GraphInv /\ QueryInv /\ CompileInv /\ ServiceInv BY DEF AnalyticsInv
<1>2. CASE GraphNext
  <2>1. UNCHANGED queryVars /\ UNCHANGED compiled /\ UNCHANGED prediction BY <1>2 DEF GraphNext
  <2> QED BY <1>1, <1>2, <2>1, GraphKeeps, QueryUnmoved, CompileStays, ServiceStays DEF AnalyticsInv
<1>3. CASE QueryNext
  <2>1. UNCHANGED graphVars /\ UNCHANGED compiled /\ UNCHANGED prediction BY <1>3 DEF QueryNext
  <2> QED BY <1>1, <1>3, <2>1, GraphStays, QueryKeeps, CompileStays, ServiceStays DEF AnalyticsInv
<1>4. CASE CompileNext
  <2>1. UNCHANGED graphVars /\ UNCHANGED queryVars /\ UNCHANGED prediction BY <1>4 DEF CompileNext
  <2>2. CompileInv' BY <1>1, <1>4, CompileKeeps DEF CompileNext
  <2> QED BY <1>1, <2>1, <2>2, GraphStays, QueryUnmoved, ServiceStays DEF AnalyticsInv
<1>5. CASE ServiceNext
  <2>1. UNCHANGED graphVars /\ UNCHANGED queryVars /\ UNCHANGED compiled BY <1>5 DEF ServiceNext
  <2> QED BY <1>1, <1>5, <2>1, GraphStays, QueryUnmoved, CompileStays, ServiceKeeps DEF AnalyticsInv
<1>6. CASE UNCHANGED analyticsVars
  <2>1. UNCHANGED graphVars /\ UNCHANGED queryVars /\ UNCHANGED compiled /\ UNCHANGED prediction
    BY <1>6 DEF analyticsVars, graphVars, queryVars
  <2> QED BY <1>1, <2>1, GraphStays, QueryUnmoved, CompileStays, ServiceStays DEF AnalyticsInv
<1> QED BY <1>2, <1>3, <1>4, <1>5, <1>6 DEF AnalyticsNext

LEMMA AnalyticsSays ==
  ASSUME AnalyticsInv
  PROVE  /\ AnalyticsTypeOK /\ InputsPresent /\ CompletedWhole /\ KeysExclusive /\ AnswersGoverned
         /\ RowsOfTheCaller /\ PoolsBounded /\ DefaultsEnforced /\ JoinsGoverned /\ ServedAsAsked
<1>1. GraphInv /\ QueryInv /\ CompileInv /\ ServiceInv BY DEF AnalyticsInv
<1>2. AnalyticsTypeOK BY <1>1, GraphSays DEF AnalyticsTypeOK, QueryInv, CompileInv
<1> QED BY <1>1, <1>2, GraphSays, QuerySays DEF CompileInv, ServiceInv

\* Analytical work in any number of drives and processes, with crashes, conflicts and resumes (AnalyticalGraphEngine, stores.py): a
\* node finds its inputs, a completed graph is whole, a saved result stays and keys exclude each other; a
\* governed answer is its caller's and within the quota, and a pool is never exceeded (GovernedQueryExecutor); a
\* compiled query enforces every default and joins what its caller may use; a prediction is as it was asked for.
THEOREM AnalyticsIsSafe == AnalyticsSpec => AnalyticsSafe
<1>1. AnalyticsInit => AnalyticsInv BY AnalyticsStarts
<1>2. AnalyticsInv /\ [AnalyticsNext]_analyticsVars => AnalyticsInv' BY AnalyticsStep
<1>3. AnalyticsInv /\ [AnalyticsNext]_analyticsVars => [ResultsKept]_analyticsVars BY AnalyticsStep
<1>4. AnalyticsInv => (AnalyticsTypeOK /\ InputsPresent /\ CompletedWhole /\ KeysExclusive /\ AnswersGoverned
          /\ RowsOfTheCaller /\ PoolsBounded /\ DefaultsEnforced /\ JoinsGoverned /\ ServedAsAsked)
  BY AnalyticsSays
<1> QED BY <1>1, <1>2, <1>3, <1>4, PTL DEF AnalyticsSpec, AnalyticsSafe
=============================================================================
