---------------------------- MODULE MemoryStore ----------------------------
(***************************************************************************)
(* Learned memory: the tools core.memory_recall, core.memory_write and     *)
(* core.memory_delete (memory/service.py), the two stores behind them      *)
(* (memory/store.py) and the storage quotas a write is checked against     *)
(* (persistence/quotas.py).                                                *)
(*                                                                         *)
(* A record belongs to a scope (tenant, user, agent) and a key, and has a  *)
(* revision.  A write or a deletion names the revision it replaces and     *)
(* carries the idempotency key of its tool call; the store keeps what each *)
(* operation answered.  A tool call may be repeated after a crash of its   *)
(* run: the proposal, and the result of a recall, are then read back from  *)
(* the tool ledger, the policies are asked again and the store is called   *)
(* again.                                                                  *)
(*                                                                         *)
(* Left out: kind, evidence and provenance, which follow the content; the  *)
(* token estimate of a recall, which bounds its records as RecallLimit     *)
(* does; the digest that binds a recall to its execution.                  *)
(***************************************************************************)
EXTENDS Integers, FiniteSets, FiniteSetsExt, TLC

CONSTANTS
  MemoryCalls,   \* the tool calls
  ScopeOf,       \* [MemoryCalls -> [tenant, user, agent]]
  Rights,        \* [MemoryCalls -> set of the tools its agent may use]
  MemoryKeys,
  Contents,      \* what can be remembered
  Screened,      \* the policies' replacement for a content they redact
  SizeOf,        \* [content -> bytes]
  DefaultQuota,  \* [items, bytes]; Unlimited is no limit
  TenantQuota,   \* [some tenants -> [some of "items", "bytes" -> limit]]
  RecallLimit,
  MaxRetention,  \* the agent's max_retention_seconds
  MemoryUntil,   \* bound: the clock
  MaxRevision,   \* bound: the revisions a call may name
  MaxReplays     \* bound: how often calls are repeated, all together

Blank == ""          \* content None
Unlimited == -1
MemoryTools == {"recall", "write", "delete"}

ASSUME MemoryConstants ==
  /\ Blank \notin Contents /\ Screened \notin Contents \cup {Blank}
  /\ IsFiniteSet(MemoryCalls) /\ IsFiniteSet(MemoryKeys)
  /\ RecallLimit > 0 /\ MaxRetention \in Nat \ {0}
  /\ MemoryUntil \in Nat \ {0} /\ MaxRevision \in Nat
  /\ \A x \in Contents \cup {Screened} : SizeOf[x] \in Nat

VARIABLES
  memClock,     \* utc_now
  memories,     \* [scope, key -> record], the row of every key; revision 0: none
  operations,   \* [scope, operation -> what it asked for and answered]
  memCall       \* [MemoryCalls -> the tool call]

memoryVars == <<memClock, memories, operations, memCall>>

-----------------------------------------------------------------------------
MemScopes == {ScopeOf[c] : c \in MemoryCalls}
Places == MemScopes \X MemoryKeys

NoMemory == [revision |-> 0, content |-> Blank, deleted |-> FALSE, expires |-> 0, updated |-> 0]
NotApplied == [asked |-> NoMemory, key |-> Blank]
NewCall == [tool |-> Blank, stage |-> "new", key |-> Blank, expect |-> 0, content |-> Blank,
            retention |-> 0, started |-> 0, draft |-> NoMemory, why |-> Blank,
            found |-> {}, left |-> {}, since |-> {}, replays |-> 0]

MemoryInit ==
  /\ memClock = 1
  /\ memories = [p \in Places |-> NoMemory]
  /\ operations = [c \in MemoryCalls |-> NotApplied]
  /\ memCall = [c \in MemoryCalls |-> NewCall]

\* A record that holds content anyone may still see (_visible).
Visible(record) == record.revision > 0 /\ ~record.deleted /\ record.expires > memClock
                   /\ record.content # Blank

\* What a record counts toward the quota (_usage_of): expired content counts until it is purged.
Counted(record) ==
  IF record.deleted \/ record.content = Blank
  THEN [items |-> 0, bytes |-> 0]
  ELSE [items |-> 1, bytes |-> SizeOf[record.content]]

\* A tenant's sum, counted: its units are the items, or the bytes, of its places.
Units(tenant, table, dimension) ==
  UNION {{p} \X (1..Counted(table[p])[dimension]) : p \in {x \in Places : x[1].tenant = tenant}}
UsedBy(tenant, table, dimension) == Cardinality(Units(tenant, table, dimension))

Usage(tenant, table) ==
  [items |-> UsedBy(tenant, table, "items"), bytes |-> UsedBy(tenant, table, "bytes")]

\* A tenant's entry overrides the fields it sets; a field it does not set keeps the default.
QuotaFor(tenant) ==
  IF tenant \in DOMAIN TenantQuota THEN TenantQuota[tenant] @@ DefaultQuota ELSE DefaultQuota
ASSUME QuotaAssumption ==
  \A s \in MemScopes : \A d \in {"items", "bytes"} : QuotaFor(s.tenant)[d] \in Nat \cup {Unlimited}

\* StorageQuotas.check: past a limit on a dimension that the write made larger.
Exceeds(tenant, before, after) ==
  \E d \in {"items", "bytes"} :
    /\ QuotaFor(tenant)[d] # Unlimited
    /\ after[d] > QuotaFor(tenant)[d]
    /\ after[d] > before[d]

\* An error ends the call; the model sees only that.
RefuseCall(c, reason) ==
  memCall' = [memCall EXCEPT ![c] = [NewCall EXCEPT !.stage = "refused", !.why = reason,
                                               !.replays = memCall[c].replays]]

-----------------------------------------------------------------------------
(* The tools' handlers.                                                    *)

\* A write or a deletion is only proposed: the handler authorizes, validates and returns it, and
\* the tool ledger keeps it.
Propose(c) ==
  \E tool \in {"write", "delete"}, k \in MemoryKeys, e \in 0..MaxRevision,
     content \in Contents, seconds \in 1..(MaxRetention + 1) :
    /\ memCall[c].stage = "new"
    /\ tool = "delete" => e >= 1 /\ seconds = 1 /\ content = CHOOSE x \in Contents : TRUE
    /\ IF tool \in Rights[c]
       THEN memCall' = [memCall EXCEPT ![c] = [@ EXCEPT !.tool = tool, !.stage = "proposed", !.key = k,
                          !.expect = e, !.content = content, !.retention = seconds, !.started = memClock]]
       ELSE RefuseCall(c, "denied")
    /\ UNCHANGED <<memClock, memories, operations>>

\* The record a proposal makes: both its dates come from the run's start, so a repetition makes
\* the same record.
RecordOf(call, content) ==
  IF call.tool = "delete"
  THEN [revision |-> call.expect + 1, content |-> Blank, deleted |-> TRUE, expires |-> 0,
        updated |-> call.started]
  ELSE [revision |-> call.expect + 1, content |-> content, deleted |-> FALSE,
        expires |-> call.started + call.retention, updated |-> call.started]

\* _check_revision: the reason to refuse, if there is one.
RevisionError(current, record) ==
  IF current.revision # record.revision - 1 THEN "conflict"
  ELSE IF ~record.deleted /\ record.expires <= memClock THEN "expired" ELSE Blank

\* The advisory lock of the scope (PostgreSQL), or the store's lock.
ScopeFree(c) == \A d \in MemoryCalls : memCall[d].stage = "applying" => ScopeOf[d] # ScopeOf[c]

\* An operation already in the ledger: its receipt again, or a refusal when it now asks for
\* something else.
AnswerAgain(c, record) ==
  IF operations[c].asked = record
  THEN memCall' = [memCall EXCEPT ![c] = [@ EXCEPT !.stage = "answered"]]
  ELSE memCall' = [memCall EXCEPT ![c] = [NewCall EXCEPT !.stage = "refused", !.why = "reused",
                     !.draft = record, !.replays = memCall[c].replays]]

ApplyBegin(c) ==
  LET reason(record) == RevisionError(memories[<<ScopeOf[c], memCall[c].key>>], record) IN
  /\ memCall[c].stage = "proposed"
  /\ ScopeFree(c)
  /\ \E content \in IF memCall[c].tool = "write" THEN {memCall[c].content, Screened}
                    ELSE {memCall[c].content} :
       LET record == RecordOf(memCall[c], content) IN
       IF memCall[c].retention > MaxRetention THEN RefuseCall(c, "retention")
       ELSE IF operations[c] # NotApplied THEN AnswerAgain(c, record)
       ELSE IF reason(record) # Blank THEN RefuseCall(c, reason(record))
       ELSE memCall' = [memCall EXCEPT ![c] = [@ EXCEPT !.stage = "applying", !.draft = record]]
  /\ UNCHANGED <<memClock, memories, operations>>

\* Mutant: a deletion that removes the row instead of leaving its revision.
WrittenBare(c) == [memories EXCEPT ![<<ScopeOf[c], memCall[c].key>>] =
                     IF memCall[c].draft.deleted THEN NoMemory ELSE memCall[c].draft]

\* The rest of the transaction: the usage row is locked, the record and the operation are
\* written, and both are rolled back when the write passes the quota.
Written(c) == [memories EXCEPT ![<<ScopeOf[c], memCall[c].key>>] = memCall[c].draft]

ApplyCommit(c) ==
  LET tenant == ScopeOf[c].tenant IN
  /\ memCall[c].stage = "applying"
  /\ IF Exceeds(tenant, Usage(tenant, memories), Usage(tenant, Written(c)))
     THEN /\ RefuseCall(c, "quota")
          /\ UNCHANGED <<memories, operations>>
     ELSE /\ memories' = Written(c)
          /\ operations' = [operations EXCEPT ![c] = [asked |-> memCall[c].draft, key |-> memCall[c].key]]
          /\ memCall' = [memCall EXCEPT ![c] = [@ EXCEPT !.stage = "answered"]]
  /\ UNCHANGED memClock

\* A recall by key answers the row, without its content when it is no longer visible; a recall by
\* text answers the newest visible records.
Shown(record) == IF Visible(record) THEN record ELSE [record EXCEPT !.content = Blank]

RecallRows(scope, k) ==
  IF k # Blank
  THEN { {[key |-> k, record |-> Shown(memories[<<scope, k>>])] :
            i \in {x \in {1} : memories[<<scope, k>>].revision > 0}} }
  ELSE LET rows == {[key |-> x, record |-> memories[<<scope, x>>]] :
                      x \in {x \in MemoryKeys : Visible(memories[<<scope, x>>])}}
       IN {f \in SUBSET rows :
             /\ Cardinality(f) = Min({RecallLimit, Cardinality(rows)})
             /\ \A in \in f, out \in rows \ f : in.record.updated >= out.record.updated}

RecallMemory(c) ==
  /\ memCall[c].stage = "new"
  /\ IF "recall" \in Rights[c]
     THEN \E k \in MemoryKeys \cup {Blank} : \E rows \in RecallRows(ScopeOf[c], k) :
            memCall' = [memCall EXCEPT ![c] = [@ EXCEPT !.tool = "recall", !.stage = "recalled",
                                                              !.found = rows]]
     ELSE RefuseCall(c, "denied")
  /\ UNCHANGED <<memClock, memories, operations>>

\* validate_recall reads the records one by one before the model is told of them. since is not
\* read by the code: what the scope showed when the validation began.
ValidateRecall(c) ==
  /\ memCall[c].stage = "recalled"
  /\ memCall' = [memCall EXCEPT ![c] = [@ EXCEPT !.stage = "checking", !.left = memCall[c].found,
       !.since = {[key |-> k, content |-> memories[<<ScopeOf[c], k>>].content] :
                       k \in {x \in MemoryKeys : Visible(memories[<<ScopeOf[c], x>>])}}]]
  /\ UNCHANGED <<memClock, memories, operations>>

StillTrue(record, current) ==
  /\ current.revision > 0
  /\ current.revision = record.revision
  /\ current.deleted = record.deleted
  /\ current.expires = record.expires
  /\ record.content # Blank => Visible(current)

CheckRecalled(c) ==
  /\ memCall[c].stage = "checking"
  /\ \/ /\ memCall[c].left = {}
        /\ memCall' = [memCall EXCEPT ![c] = [@ EXCEPT !.stage = "told"]]
     \/ \E row \in memCall[c].left :
          IF StillTrue(row.record, memories[<<ScopeOf[c], row.key>>])
          THEN memCall' = [memCall EXCEPT ![c] = [@ EXCEPT !.left = memCall[c].left \ {row}]]
          ELSE RefuseCall(c, "changed")
  /\ UNCHANGED <<memClock, memories, operations>>

\* The process dies: the transaction rolls back, and the resumed run repeats the tool call from
\* what the tool ledger kept of it.
Repeated == MapThenSumSet(LAMBDA d : memCall[d].replays, MemoryCalls)
RepeatCall(c) ==
  /\ memCall[c].stage \in {"applying", "answered", "checking", "told"}
  /\ Repeated < MaxReplays
  /\ memCall' = [memCall EXCEPT ![c] = [@ EXCEPT
       !.stage = IF memCall[c].tool = "recall" THEN "recalled" ELSE "proposed",
       !.draft = NoMemory, !.left = {}, !.since = {}, !.replays = memCall[c].replays + 1]]
  /\ UNCHANGED <<memClock, memories, operations>>

\* purge_expired takes the content of expired rows that no transaction has locked.
PurgeMemories ==
  LET locked == {<<ScopeOf[c], memCall[c].key>> :
                   c \in {d \in MemoryCalls : memCall[d].stage = "applying"}}
      due == {p \in Places \ locked : /\ memories[p].content # Blank
                                      /\ memories[p].expires <= memClock}
  IN /\ due # {}
     /\ memories' = [p \in Places |-> IF p \in due THEN [memories[p] EXCEPT !.content = Blank]
                                      ELSE memories[p]]
     /\ UNCHANGED <<memClock, operations, memCall>>

MemoryTick ==
  /\ memClock < MemoryUntil
  /\ memClock' = memClock + 1
  /\ UNCHANGED <<memories, operations, memCall>>

MemoryNext ==
  \/ \E c \in MemoryCalls : \/ Propose(c)
                            \/ ApplyBegin(c)
                            \/ ApplyCommit(c)
                            \/ RecallMemory(c)
                            \/ ValidateRecall(c)
                            \/ CheckRecalled(c)
                            \/ RepeatCall(c)
  \/ PurgeMemories
  \/ MemoryTick

MemorySpec == MemoryInit /\ [][MemoryNext]_memoryVars

-----------------------------------------------------------------------------
\* The types of the store's tables and of the tool calls.
MemoryTypeOK ==
  /\ memClock \in 1..MemoryUntil
  /\ \A p \in Places :
       /\ memories[p].revision \in 0..(MaxRevision + 1)
       /\ memories[p].deleted => memories[p].content = Blank
       /\ memories[p].content \in Contents \cup {Screened, Blank}
  /\ \A c \in MemoryCalls :
       /\ memCall[c].stage \in {"new", "proposed", "applying", "answered", "recalled", "checking",
                                "told", "refused"}
       /\ memCall[c].left \subseteq memCall[c].found

\* Concurrent writers, deletions, repetitions after a crash and purges never make two operations
\* answer the same revision of a key, nor lose one: a key's revision counts the operations that
\* were answered for it, and their revisions are 1, 2, ... (PostgresLearnedMemoryStore.apply).
Done(p) == {c \in MemoryCalls : /\ ScopeOf[c] = p[1]
                                /\ operations[c] # NotApplied /\ operations[c].key = p[2]}
RevisionsCounted ==
  \A p \in Places :
    /\ memories[p].revision = Cardinality(Done(p))
    /\ {operations[c].asked.revision : c \in Done(p)} = 1..Cardinality(Done(p))

\* A write that was applied is never refused when its run repeats it with the same content,
\* whatever happened to the record, its expiry or the quota meanwhile; only other content under
\* the same operation is (LearnedMemoryStore.apply: the ledger is read first).
AppliedStaysAnswered ==
  \A c \in MemoryCalls :
    operations[c] # NotApplied /\ memCall[c].stage = "refused" =>
      memCall[c].why = "reused" /\ memCall[c].draft.content # operations[c].asked.content

\* The model is never told a content that was deleted, replaced or expired before the validation
\* of its recall began, also when the recall is read back from the ledger long after it was made
\* (LearnedMemoryService.validate_recall): a deleted key keeps its revision, so a key written anew
\* does not look like the one that was recalled.
ToldWasThere ==
  \A c \in MemoryCalls :
    memCall[c].stage = "told" =>
      \A row \in memCall[c].found :
        row.record.content # Blank =>
          [key |-> row.key, content |-> row.record.content] \in memCall[c].since

\* No interleaving of writes takes a tenant past its quota, the tenant's entry included
\* (StorageQuotas.check, lock_usage).
QuotaKept ==
  \A s \in MemScopes : \A d \in {"items", "bytes"} :
    QuotaFor(s.tenant)[d] # Unlimited => UsedBy(s.tenant, memories, d) <= QuotaFor(s.tenant)[d]

\* Overlapping and repeated memory calls count each revision once, keep their answers, tell the model
\* nothing that was gone, and stay within the quota.
MemorySafe == MemoryTypeOK /\ RevisionsCounted /\ AppliedStaysAnswered /\ ToldWasThere /\ QuotaKept
=============================================================================
