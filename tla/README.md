# Verification of the agent runtime

TLA+ modules of the parts of `algen_agent_runtime` that keep state over time, the TLC
configurations that check them on small instances, and TLAPS proofs for every instance. Paths
below are relative to `src/src/algen_agent_runtime/`, those beginning with `docs/` to `src/`.
`PROJECT.json` lists for each definition the source lines it stands for, and for each hazard of the
code the line where it bites and the properties that cover it.

## 1. The system

A host starts a **container** (`orchestration/`) with stores (memory or PostgreSQL), models,
tools, policies and agents. Callers reach it through an HTTP API, a conversation, a workflow or a
work queue. In the end everything becomes **runs** of agents that call **models** and **tools**.
One process is an asyncio loop, so code interleaves at every `await`; several processes may share
the stores.

| Component | State it keeps | Operations | Correct when |
|---|---|---|---|
| Runs (`runtime/`) | a versioned checkpoint per run; drives, steering queues and outage marks in memory | start, resume, cancel, steer, expire, continue, recover, shutdown | an ended run stays ended; status follows the table; the run does what was decided; a resumed run is driven; waits cost nothing |
| Run content (`runtime/runtime.py`, `guards.py`, `planning/`) | transcript, counters, limits, pending and late steering | call a model, run a batch of tools, ask for an approval, extend a limit, steer | every call has its result; a call runs as it was approved; limits and usage are kept; no message is lost unseen |
| Approvals (`approvals/`) | a request per pause | create, decide, expire, list | one verdict, never changed; pages are complete |
| Tool executions (`tools/executor.py`, `persistence/tool_executions.py`, `runtime/reconciliation.py`) | a ledger record per call | execute, replay, resolve, auto-reconcile, compensate | a call takes effect once; the ledger tells the truth; decisions are kept |
| Work queue (`distributed/`) | items with leases, a deduplication index | enqueue, claim, renew, complete, fail, purge | fencing; one item per key; completion is final; every item settles |
| Workflows (`workflows/`) | a versioned checkpoint with node states and one pause; a child's checkpoint beside its parent's | start, decide, answer, expire, recover, drain | gated tools follow approvals; nodes follow dependencies; done stays done; waits can end; parent and child agree |
| Conversations (`conversations/`) | messages with a status, one task per conversation | submit, respond, cancel, recover, reconcile | one turn asks at a time; an outcome stands; a paused turn is answered, ended or followed |
| Events (`events/`) | a numbered history, queues of subscribers | publish, subscribe | gap-free numbers; a subscriber sees every event once, in order |
| Models (`models/`) | provider health, rate windows, meter tickets | rank, generate, stream, reserve, settle | every reservation is settled or released; only capable, admitted providers are called |
| Wire (`models/providers/`) | the parts of a streamed reply | name, parse, filter, order turns | a reply is its stream; names invert; reasoning stays back |
| Cache (`cache/`) | entries with tags, loads in flight | get-or-load, invalidate | one load per key; entries and tag index agree; nothing crosses scopes |
| API (`api/`) | token buckets and in-flight counts per tenant and route class | admit, check, serve, release | slots come back; owners only; one answer |
| MCP (`mcp/`) | tokens, pending authorizations, sessions | authorize, call back, refresh, disconnect, call | a state works once; one refresh in a process; a call on its own session |
| Authentication (`auth/`) | key cache, revocations, failure windows | verify, refresh, revoke, purge | a revoked token is refused while it lives; fetches are spaced |
| Policies (`policies/`) | loaded bundles | load, evaluate at a boundary | a denial comes before an approval; a redaction is kept; mandatory policies ran |
| Tools (`tools/`) | registry, listed servers, toolkits' clients | register, list, page, read | a listing is whole or absent; pages in order; one client |
| Container (`orchestration/`, `plugins/`) | phase, open resources, sweeps, registered plugins | build, start, ready, sweep, drain, close; sign, verify, load | reports are honest; nothing is left open; a plugin is what was signed |
| Analytics, semantics, governance | checkpoints of graphs, pooled and cached queries | run, resume, compile, execute | inputs are there; answers are governed and the caller's |
| Context (`context/`, `skills/`, `artifacts/`) | archives, packed evidence, session memory, offloaded text | compact, pack, page, select | history is recoverable; exchanges are whole; limits hold |
| Memory (`memory/`, `persistence/quotas.py`) | revised records and answers to operations | recall, write, delete, purge | one revision per write; an answer is kept; quota holds |
| Retrieval (`retrieval/`) | chunks, vectors, index files | chunk, ingest, delete, query | versions are whole; vectors match; words are covered |
| Persistence (`persistence/`) | objects and rows, Redis counters, applied migrations | put, scan, delete, trim, migrate | a row has its object; counters tell; a migration runs once |
| Outbound HTTP (`security/`) | pinned addresses, kept connections | resolve, connect, redirect | every peer was vetted; pins hold |

How they interact. A drive of a run calls the model router, and the tool executor, which asks the
policies and reserves the call in the ledger; an indeterminate call pauses the run, an operator's
decision on the ledger continues it. A paused run creates an approval request; deciding it resumes
the run. A workflow node calls the runtime, the tool executor or another workflow, and a
conversation turn follows a run, each from checkpoints of its own. Every step publishes events that
clients stream. The maintenance loop sweeps expired runs, workflow pauses, pending turns and old
rows. Start recovers runs, then conversations, then workflows.

What makes it hard: copies of a checkpoint held across calls and written back with a
compare-and-set; rows written without a version (messages); requests, sweeps, drives and recoveries
of the same object that overlap; crashes and store failures between two writes, or after a write
that did commit; timeouts of work that still takes effect; pauses that become visible before the
drive that wrote them has ended; checks before an `await` relied on after it.

## 2. Modules

A component's specification is a module of its own; theorems about it are in its `Proofs` module:
those about the two ends of the Runtime, its clients and the model providers, in BoundaryProofs, those
about the tool ledger and the other parts of `services` in ServicesProofs, those about a run (RunLoop
and RunLifecycle) in RunProofs, those about what an agent works with (Retrieval, Storage, Analytics)
in DataProofs, those about the other parts of `platform`, the work queue among them, in
PlatformProofs, and TurnContract's in itself.
`MC` modules give TLC its instances. Every component module has one type invariant and safety
properties under their own names.

### The core

**WorkQueue** (`distributed/queue.py`, `worker.py`). The fields of the stored item, the
deduplication index, and the location of each `run_once` call with the item it claimed and which
claim that was (`token`, not in the code). Every queue operation is atomic in both implementations
(a lock, one SQL statement) and is one action; `run_once` awaits between them and has a location
per await. The environment lets leases expire and items become due, kills workers, and loses the
reply of a `complete` that committed. The claim order is left open.

**ToolLedger** (`tools/executor.py`, both ledger stores, `runtime/reconciliation.py`). One call (one
idempotency key): its record, the executions that try it, and the operator requests that settle or
compensate it. The world is `effect`: an attempt's effect may come at once, late, or never, also
after its timeout or its process's death. Reads and compare-and-sets are separate steps wherever
the code awaits between them. Operators and hooks tell the truth at the moment they are asked.
Constants choose the deployment: one process per database (`SingleNode`), decisions one at a time
(`Serialized`), retries within a call (`Retries`), a reconcile hook (`HasHook`).

**RunLifecycle** (`runtime/runtime.py`, `state_machine.py`, `approvals/service.py`, `_continue_run`
of `reconciliation.py`). One run: its stored status, its latest approval, its deadline; a drive per
process; slots for handlers (start, cancel, resume, steer, expiry sweep, continuation, recovery,
outage retry). Versions are only compared for equality, so a writer's copy is `fresh` or stale for
good. A drive's work is one checkpoint per action, from the tables `LoopStep`, `ModelStep`,
`ToolStep`, ...; at any point it may raise, be cancelled, time out or meet a store outage, before
or after the write took hold. What a model or tool returns appears as the choice of the next
status.

**RunLoop** (`runtime/runtime.py`, `guards.py`, `planning/planners.py`). The content RunLifecycle
abstracts from: the transcript, replies with several calls, the guards that hold a call back, the
batch that runs reads together, approvals of one call, limits and their extension, retries of
transitions, and steering queued while the drive awaits. A crash or an exception takes the drive
back to its last checkpoint.

**Workflow** (`workflows/engine.py`, `service.py`, `store.py`, `contracts.py`). One run of a
manifest: the stored checkpoint, the copy each background task works on, the batch of nodes each
drive has in flight, and the replicas that host the tasks. A node is "work" (an agent, a handler, a
free tool), "gated" (a tool that requires approval), an approval or a join. Every event of the
engine saves the whole copy first, so an event is one action. A stale save raises through the
drive: its other nodes go on as orphans that save nothing. `granted` records, beside the code,
which approvals a person gave.

**ChildWorkflow** (`workflows/engine.py`, `persistence/retention.py`). A parent whose node is
another workflow: two checkpoints, no transaction across them, tasks of several replicas, crashes
between any two saves, and the retention sweep over both.

**Conversation** (`conversations/service.py`, `stores.py`). The turns of a conversation over an
abstract run: messages (written without a version), the task of a turn, the lock, submits,
responses, cancels, sweeps, restarts. Code between two awaits is one action. **TurnContract** is
what the user is promised, without any of that machinery; `Conversation` instantiates it as `Turn`
with `stage <- StageOf` and the run checks `ContractKept`, that every step is a step of the contract
or leaves it alone.

### Around a run

| Module | Source | State and actions |
|---|---|---|
| EventStream | `events/bus.py`, `conversations/stores.py`, `streaming.py` | a writer takes a number, inserts under it, fans out to the queues of its own process; a subscriber reads history, then its queue, then polls |
| ModelRouter | `models/base.py`, `metering.py` | calls work through candidates ranked once; shared circuits, rate windows and reservations; a clock |
| ProviderWire | `models/providers/` | tool names made acceptable and inverted, a reply put together from chunks, the filter over leaked reasoning, merged turns |
| ResponseCache | `cache/service.py`, `stores.py` | callers of scopes, one future per key, an LRU of entries with a tag index, invalidation, cancelled waiters |
| TokenTrust | `auth/oidc.py`, `jwks.py`, `revocation.py`, `audit.py` | requests at the lock, the issuer and the revocation store; rotated keys, revocations with ends, the window of failures |
| ApiGateway | `api/app.py` and the routes, `rate_limiting.py`, `body_limit.py` | buckets and slots per tenant and class of routes, a slot returned when the response starts; what a route demands and does; a thing that goes away between check and call |
| McpConnections | `mcp/oauth.py`, `tokens.py`, `client.py` | pending states, token versions, one refresh lock per key and process, answers lost on the way, sessions opened and evicted, calls and callbacks between them |
| PolicyGate | `policies/engine.py`, `bundles.py` | bundles loaded in order, a selection of policies per boundary, decisions merged, payloads redacted on the way |
| ToolCatalog | `tools/registry.py`, `authoring.py`, `http_api.py`, `starter/fs.py`, `mcp/client.py` | listings by several listers, registered names, a toolkit's client, paged HTTP tools, a file read in windows |
| Deployment | `orchestration/container.py`, `readiness.py`, `maintenance.py` | phases of a container, resources opened and closed with faults, turns and runs under way, sweeps, reports |
| Analytics | `analytics/engine.py`, `governance/`, `semantics/` | a graph driven by two processes; a governed query through its pools and cache; the compiler over filters and joins |
| RunContext | `context/`, `skills/`, `runtime/attachments.py` | compaction and its archive, packing by size, session memory, paged texts, attached files, skills |
| MemoryStore | `memory/service.py`, `store.py`, `persistence/quotas.py` | scoped revisions, answers kept by idempotency key, replayed calls, purges, quotas |
| Chunking, Retrieval | `retrieval/` | words, sections and blocks cut with overlap; ingestions and deletions in five kinds of store with their locks, transactions or lack of them |
| Storage | `persistence/s3.py`, `redis.py`, `postgres.py`, `artifacts/service.py` | objects and rows in two steps, scans, Redis counters and trimming, migrations of several replicas |
| Outbound | `security/network.py`, `outbound.py` | resolution, vetting, connection, redirects, proxies, pinned certificates, names that change meanwhile |
| Approvals | `approvals/service.py` | both services: create, decide in one or three steps, list by pages |
| PluginTrust | `plugins/` | packages edited, signed and copied while a start verifies and loads them |

**MCServices** and **MCPlatform** check these modules on their own instances in one run each. The
modules share no state, so the initial state picks the `part` that moves and the others stay as
they began: the state space is the sum of the parts, not their product, and an invariant of a part
sees exactly the behaviours of that part alone.

A run checks the conjunction of a module's parts under one name: `LoopSafe` is `LoopTypeOK`,
`TranscriptPaired`, `ApprovedAsAsked` and the others, each defined and explained above it; a TLC
counterexample shows which part fails. `CacheSafe`, `TrustSafe`, `CatalogSafe`, `AnalyticsSafe`,
`TextsSafe`, `StorageSafe` and `SettledOnce` contain action properties besides invariants.
`TextsSafe` joins what Chunking and RunContext say of the texts a model reads; `ClientsSafe`, `ModelCallsSafe`,
`DecisionsSafe` and `HostSafe` do so in the modules **Boundary** (ApiGateway with EventStream, ModelRouter
with ProviderWire), **Decisions** (PolicyGate, Approvals) and **Deployment**, which EXTENDS PluginTrust; each pair has a specification of its own to prove it of. **OrderedTable** has the table ordered by use that
ResponseCache and McpConnections keep, and `sorted`: `InOrder` puts a set in an order that is given as
a set of pairs, so that proofs can be about what the router, the wire and the event stream sort.

## 3. Runs

| Run | Instance | Distinct states | Shows |
|---|---|---|---|
| `tool_ledger_single_node` | 3 executions, 3 operator requests, one process, decisions one at a time | 152,232 | a call takes effect once; "failed" means it never comes, "completed" that it came; decisions are kept |
| `tool_ledger_concurrent` | 2 executions, 3 requests, several processes, retries, a hook | 626,538 | a settled call stays settled, whatever arrives late |
| `run_lifecycle_safety` | 1 process, 2 handlers; crashes, outages, cancels | 2,383,745 | no stale copy is written, legal history with finality, one decision and the run follows it |
| `run_lifecycle_deadline` | the same with deadlines and crashes | 110,841 | waits are free, a resumed run is driven |
| `run_lifecycle_stranded` (violated) | 2 handlers, no faults | 374 | an approval is decided and nobody takes the decision up |
| `workflow_safety` | 4 manifests of 3 nodes, 2 replicas, 2 tasks, 1 stop, cancels | 292,177 | approvals gate tools, waits can end, dependencies hold, ended runs and done nodes stay |
| `workflow_undecided` (violated) | an approval beside two pieces of work, one of which asks | 21,125 | a run completes with an approval nobody decided |
| `conversation_safety` | 2 turns, 2 requests or sweeps, 1 process, 1 restart, every way a run stops | 1,583,418 | one turn waits at most, what is told as completed is, an outcome stands, the contract is implemented |
| `progress` | a queue of 2 items and 2 workers; a conversation of 1 turn, 2 calls, 1 restart | 43,535 | every item settles; a turn does not stay waiting when its run goes on or ends |
| `services` | RunLoop, EventStream, ModelRouter, ProviderWire, ResponseCache, TokenTrust, ApiGateway, McpConnections, each on its instance | 1,210,767 | `LoopSafe`, `ClientsSafe`, `ModelCallsSafe`, `McpSafe`, `CacheSafe`, `TrustSafe` |
| `platform` | WorkQueue (3 items, 2 of one key, 2 workers, 2 attempts) and PolicyGate, ToolCatalog, Deployment, Analytics, RunContext, MemoryStore, ChildWorkflow, Chunking, Retrieval, Storage, Outbound, Approvals, PluginTrust | 510,655 | the parts' properties, `QueueSafe` and `SettledOnce` among them |
| `retrieval_tenants` (violated) | 2 tenants with a document of one id, 2 chunks each | 322 | a deletion drops another tenant's chunks |

What the parts of `services` and `platform` say:

| Property | In short |
|---|---|
| `LoopSafe` | the model is never called beside an unanswered call; a call that needed an approval runs as it was approved; a repeated read reaches the transcript again only after a change; call, step and model limits hold over batches, retries and extensions; the checkpoint is never behind the provider by more than what is in flight; a steering message is in one place and delivered once |
| `ClientsSafe` | slots in use are the requests whose response has not started, within the limit of their class; only owners are served, also while a conversation is deleted; one answer per request. Events are numbered without gaps, a client sees them once and in order, and the text sent and held back is the text received |
| `ModelCallsSafe` | every way out of a dispatch closes its reservation; a window lets no more than its limit through; a closed circuit has seen fewer failures in a row than open it; only capable models are called. Aliases invert; a reply is what its stream says, wherever it is cut; reasoning is held back; results follow in one turn |
| `McpSafe` | an authorization is used once; a call runs on a session of its own caller; no session is open that the table does not have; a connection is given up only without a refresh token, after the provider ended it, or when its version was rotated for a lost answer or another process: not because two calls of one process refreshed with one token |
| `CacheSafe` | index and entries agree; a value answers only within its scope; one load per key; nobody waits for a load that is over; what was stored before an invalidation is gone after it |
| `TrustSafe` | every failure is logged, reported as suppressed or counted; keys are fetched at most once in an interval; a revocation stands until its last end |
| `DecisionsSafe` | a person is asked only about a call no policy refuses; nothing that was redacted comes back; mandatory policies looked at every tool call; a tool runs with the arguments planned and approved; only verified bundles are in force. An approval gets one verdict, a listing shows every request, what was told stands |
| `HostSafe` | every store has its client; nothing stays open after a close but by a probe still out; a sweep reaches every task though others fail, and turns after the runs they follow; a report of ready is true of what is declared and required; agents name what exists. Plugins: nothing is imported before the whole set was verified; a signature is for this very package; a Runtime that is up is complete |
| `MemorySafe` | a key's revisions count the operations answered for it; an applied write answers the same when repeated; the model is never told what was deleted or replaced before its recall was validated; quotas hold |
| `ChildSafe` | the sweep keeps rows that recovery or an operator needs; a child's work begins once unless it may be retried; a parent completes only on a completed child |
| `RetrievalSafe` | a store holds one whole version of a document; a vector is of its chunk's text; configured documents are lost only with a cancelled query; FAISS answers with the record of its vector |
| `NetSafe` | a client talks only to allowed, vetted peers, and to a pinned host only after it showed its certificate, also over redirects, kept connections and a changing DNS |
| `CatalogSafe` | a server that counts as listed has all its tools registered; a name keeps its tool; reads are trusted only on a trusted word; a credential stays at its origin; pages come in order; one client; a file is read to its end |
| `AnalyticsSafe` | a node that runs has its inputs; a completed graph is whole; a concurrency key excludes; a stored result stays. Answers are within quota, audited and of the caller's authorization, from bounded pools; compiled queries keep every default and join only what the caller may; predictions come from the newest enabled version |
| `TextsSafe` | no word is lost by cutting, paths are the headings that enclose, chunks fit. All that was said is retained or archived; what a model reads is a valid exchange that fits; dropping an archived prefix changes nothing it sees; pages are whole; files and skills are allowed at the call |
| `StorageSafe` | a row has its object; an artifact is released only on recorded evidence, by one scan; Redis counts what it holds; a migration is applied once and in order |

**Bounds.** The smallest with every interesting meeting: a claimant, its successor and a key used
again after a purge; a crash, a replay and a second replay around a decision and its repetition; a
drive and two overlapping handlers; two drives of one workflow, of which one is stale; two turns
around a restart. Three nodes give a workflow a gate behind a dependency, two gates before one step,
a person's question beside an approval, and a join of two branches. In `services` and `platform`
two actors of each kind meet (four callers of the cache: one twice, one of another tenant, one
without a tenant), and every limit is one or two above what is needed to reach it: a bucket of one,
a queue of two, four events, a circuit that opens at two failures, a page of two, two revisions.
Clocks end at the first moment after the last deadline. Every bound is a constant of its module and
has its value in the `.cfg`. Symmetry is used only over interchangeable model values and in runs
without liveness; `Alike` in MCServices names users and callbacks by the order in which they come, for the
same reason.

**Fairness.** Only `progress` uses any.
- Queue: a worker process that lives keeps calling `run_once` and its handler ends (weak fairness
  of `RunOnce`), and time passes (weak fairness of lease expiry and due dates). The worker's loop and
  the clock justify both. Crashes and lost replies are excluded, since an item whose worker dies on
  its last attempt never settles (section 5).
- Conversation: a request that got its turn at the lock goes on (strong fairness of `CallStep`: the
  lock is taken and given back in between, and asyncio's lock is first come, first served); a task
  and a start go on; the maintenance loop sweeps again and again (strong fairness of `Reconcile`);
  an abstract run stops sooner or later. No person is assumed to answer: `PendingFollowsRun` is about
  the message once the run itself no longer waits.

**Deadlock** is checked for the run lifecycle, where some request can always be served. Elsewhere
a behaviour may end: every item purged, every execution done, the workflow over.

## 4. Proofs

The theorems hold for every value of the constants under the named assumptions of the modules and,
where the
table says so, in the deployment it names.

### The core

| Theorem | Argument |
|---|---|
| `PlatformProofs!DedupCorrect`, `Fencing`, `QueueIsSafe` | the index's injectivity; the holder of a lease is the runner with the latest token. Needs `DistinctWorkers`: the queue knows claimants by worker id alone |
| `PlatformProofs!SettledForGood` | the same invariant for each step: the runner that settles an item is its latest claimant, since it passes the owner check, and no operation but the purge is open to a completed item |
| `ServicesProofs!CompletedIsTrue`, `LateChangesNothing` | for any deployment; a pending "completed" decision already rests on an effect; a decision under way fits the record it is compared with |
| `ServicesProofs!AtMostOnce`, `LedgerIsTruthful` | under `SingleNode`, `Serialized`, `~Retries`: `LedgerInv` adds that at most one execution is open, that a record which may be reserved again has no effect to come, and that the record stays as it was read while a decision is under way |
| `ServicesProofs!DecisionsAreCarried` | under `SingleNode` alone, decisions may overlap: `begin`, `complete` and `fail` replace the whole record, so `CopiesCarry` says that the copy an execution writes has every decision of the record |
| `RunProofs!Coherent`, `LegalHistory`, `TerminalRunStays`, `FollowsDecision`, `DecisionIsKept` | `LifecycleInv`: a fresh copy shows the stored status, and each handler's target is legal from its copy (`OnCourse`); any number of processes and handlers |
| `RunProofs!PauseIsFree` | `PauseInv`, for `OnRejection = "fail"`: a call that is declined while the run goes on does not get its deadline restored (section 5) |
| `RunProofs!ResumeDrives` | `DrivenInv`, for one process and no outages: one handler schedules at a time, and while a resume works on its copy no drive is left |
| `RunProofs!LoopIsSafe` | for every set of tools, arguments and replies and every limit. `LoopInv` says at each place of the drive what the transcript, the checkpoint, the batch and the counters have to do with each other (`Checkpointed`, `Placed`, `Budgeted`, `Messages`, `Content`, `Asked`, `BatchSound`); a checkpoint satisfies all that the copy does, so a crash may go back to it. A read a person approved is no repeated read: the person may have changed its arguments |
| `WorkflowProofs!ApprovalGate`, `WaitsCanEnd`, `EndIsFinal`, `DoneIsKept` | `WorkflowInv`: `Coherent` (a fresh copy is the stored checkpoint, up to the one change a loaded task is about to commit), `Decided` (an approval node that is completed, in the store or in a copy that can still be written, was granted), `Waits` (a paused checkpoint names its node), `NoneAfterEnd` (no fresh drive on an ended run); any acyclic manifests, replicas and tasks |
| `WorkflowProofs!RunsAfterItsDependencies` | `BatchReady`: in the copy a drive works on, every dependency of a node of its batch has an outcome that lets the node run, and outcomes in a copy stay |
| `ConversationProofs!TurnsAreSound` | `ConvInv`, for one process: turns are numbered without gaps, only the newest waits, a living task works on the newest turn and knows its status, the lock is held by the call inside it, and what a call inside the lock knows of its turn stays true (`Knows`) |
| `ConversationProofs!OutcomeIsKept` | the same invariant where events can be published: after a failed publish a cancel may write over "failed" |
| `ConversationProofs!ContractIsKept`, `TurnContract!OneAsksAtATime` | each write of a message is a step of the contract: `Written` and `AppendMessage` are all there are. By the contract turns are accepted in order and a turn behind the newest never waits, so two waiting turns would both be the newest |

The conversation's theorems are about one process on the stores, which is what the service is
written for: messages are saved without a version, and the lock and the table of tasks belong to a
process. Section 5 says what two processes do.

### Around a run

| Theorem | For | Argument |
|---|---|---|
| `BoundaryProofs!ClientsAreServed` | any requests, principals, tenants, limits; any writers, readers and queue sizes | `GateInv`: the slots of a tenant and class are the requests that hold one until their response starts. `StreamInv`: the history is 1..n in order, what a reader yielded rises and ends at its cursor, and the queue of a reader nothing was dropped for ends where the fan-out stands. Assumes `GateThings`: the runs of a conversation are its user's (`conversations/service.py:152`) |
| `BoundaryProofs!ModelCallsAreSafe` | any providers, profiles, limits, windows and calls under way; any names, indexes, chunks and scripts | `RouterInv`: every candidate of a call can answer it, a reservation is held from the dispatch to its end, and the moments in a provider's window are the last of all it let through, each `Limit` of them a window apart. `WireInv`, by what the wire carries: the two tables of names invert each other and a hashed alias is its name's own; what is put together is the reply of the chunks said so far (`Assembled`); the filter has shown what is left of the text that arrived, up to what it holds (`Filtered`); the turns rendered so far pay out every call but the last turn's (`Answered`). Assumes `WireAssumption`: a hash is no runtime name |
| `ServicesProofs!McpIsSafe` | any calls, users, callbacks, connections and token versions, both scopes | `McpInv`: the table and the open sessions agree, refreshes of a key follow each other under its lock, and each version of a token that a call or a callback uses is one the provider takes, has ended, or has rotated for an answer that was lost or for another process |
| `ServicesProofs!TrustIsSafe` | any requests, tokens, signing keys, revocations and limits | `TrustInv`: the cache remembers the last fetch there was, the store has every revocation that has not ended, and each failure is in one of the counts |
| `ServicesProofs!CacheIsSafe` | any callers, keys and entries, every scope | `CacheInv`: `StoreInv` (every key once, index and entries agree, an entry reaches all callers of its key), `AsksInv` (a waiter's owner has a future), `InflightInv` (a load in flight is its owner's until it is released) |
| `PlatformProofs!MemoryIsSafe` | any calls, scopes, keys, contents and quotas | `MemInv`: a transaction has its scope to itself and drafts the next revision, an answer is one its call would ask for again, a recalled row shows its content as long as its revision stands. What counts towards a quota is the cardinality of a set, so that the quota needs no induction |
| `PlatformProofs!ChildIsSafe` | any tasks, crashes, identities, both recovery policies | `FlowInv`: what each copy of the parent and of the child says about the two rows |
| `PlatformProofs!NetIsSafe` | any hosts, addresses, allowlists, pins and changes of the DNS | `NetInv`: the addresses a request may still open were vetted for its host, and what holds of a connection that is kept holds of every request that uses it again |
| `PlatformProofs!DecisionsAreSafe` | any policies in any order, bundles and payloads; any approvers, readers, page sizes, both stores | `PolicyInv`: every policy of the selection that was passed has looked, and is content with what the payload is now; the key lemma `VerdictStands` says that what a policy lets through it lets through when less is left of it. `ApprovalInv`: decisions and pages under way rest on the stored requests (lemma `PageIs`) |
| `PlatformProofs!HostIsSafe` | any deployments (stores, caches, MCP servers, toolkits, strictness) and faults; any plugins, packages, publishers, keys and edits | `DeployInv`: what each stage has settled. Every store has its client among the resources from the moment it is built (`BuiltInv`), a report of ready has seen what it rests on, one probe after the other, what is open is a resource, a sweep has passed the tasks that are not left to it (`SweepInv`), and from the draining on less and less can still open a pool: workflows, turns, runs, then the resources from the last (`EndInv`). `PluginInv`: a reference keeps its verdict once it has one, the imported plugins are the first of the list, and what is registered so far has its declarer as owner. Assumes of a deployment that only artifacts are kept in S3, that MCP servers have distinct names, no component a reserved one, and that there are plugins, each listed once |
| `PlatformProofs!CatalogIsSafe` | any listers, servers, tools, names and origins; any toolkits, files and directories | `CatalogInv`: every tool of a server that counts as listed is in the table as that server's (`ListingInv`; what is added before a clash is never taken away); the pages collected rise, and a page the caller's credential goes to is at the home origin (`HttpInv`); only the call that holds the lock opens a client, and only when there is none (`KitInv`); what was read of a file ends at the offset (`FilesInv`) |
| `DataProofs!RetrievalIsSafe` | any sources, tasks, crashes and sets of backends; if the in-memory store is one of them, `UniqueDocuments`: no document id belongs to two tenants. `retrieval_tenants` shows what happens without | `RetrievalInv`: what is stored of an owner is one whole version (`WholeInv`), what is pending, under way or lost with a cancelled query makes up for a configured document that is not stored (`KeptInv`), FAISS's index and records are the same or about to be written again (`FaissInv`), and tasks that may write one owner exclude each other where the store makes them (`ApartInv`) |
| `DataProofs!StorageIsSafe` | any tasks, ids, quotas and crashes; any sessions, limits and batches; any replicas of any releases | `ArtifactsInv`: an upload without a row belongs to one put, and a publication follows its evidence; `RedisInv`: the count is the cardinality of the counted places, a list has no more than was counted for it, and a session without a score has no list any more; `MigrationInv`: the replica that migrates holds the lock and read what is applied under it |
| `DataProofs!AnalyticsIsSafe` | any graphs, drives and processes; any questions, policies, semantic models, joins and callers; any services | `GraphInv`: a drive's copy is sound, its active nodes found their inputs, and a copy that passes the version check has every stored result; `QueryInv`: a cached row is of the caller its key names; `CompileInv` and `ServiceInv` relate an outcome to its request. `AnalyticsAssumption` says that a dimension has one governed default, which the layer's definition checks (`semantics/contracts.py:203`, and `layer.py` for the dimensions of two models) |

An invariant alone is not inductive: whether a write is right depends on what the writer read,
so each proof carries a relation between the fresh copies and the store, and the version check (or
the lock, or the transaction) is used exactly where a stale copy would break it. Each proof has one
lemma or step per action of the next-state relation.

The library's induction theorems take an operator as parameter and cannot be used. Where a property
rests on induction all the same it is carried out over a set of naturals with a least element
(`RunProofs!Induction`, for the recursive functions `Settled` and `Admitted`; the order of a
history and the turns of a transcript in `BoundaryProofs`), or the recursion is replaced by a set and its cardinality.

Only model-checked: liveness (`EveryItemSettles`, `PendingFollowsRun`) and ENABLED; `TextsSafe`, which
rests on what folds and recursive functions over the lines of a document and the messages of a
history compute, an induction over data that takes the fold's operator as a parameter; and
everything the violation runs show.

## 5. Where the code and its descriptions disagree

Shown by runs, quoted in `PROJECT.json`:
- `run_lifecycle_stranded`: a steering message between a decision and its transition strands the
  run; neither a second decision nor the expiry sweep can move it.
- `workflow_undecided`: an approval and a clarification of one batch share one pause.
- `retrieval_tenants`: the in-memory store deletes by a chunk id that does not name the tenant.

Met while modelling; the modules describe the behaviour, and the checked instances or properties are
chosen beside it.

*Runs and tools*
- Work queue: `claim` passes by an expired lease with no attempts left, so an item whose worker
  died on its last attempt stays leased (`distributed/queue.py:43`; `docs/analytical-runtime.md:115`
  promises stale-lease recovery).
- Tool ledger: with `Serialized = FALSE` two operators' decisions around a retry both pass the
  status comparison (`runtime/reconciliation.py:457`), and `AtMostOneEffect` and `DecisionsKept`
  fail: the one drops the other's. `tool_ledger_single_node` is about decisions that come one at a time;
  without that, executions still drop none (`DecisionsAreCarried`). With `Retries = TRUE` a retry that is refused before it starts records `failed`, although
  the attempt before it timed out (`tools/executor.py:276`, against its comment at line 273).
- Run lifecycle: the clause that ends a run at its deadline transitions to `timed_out`, which is no
  legal successor of several statuses a deadline can interrupt, so the run keeps its status
  (`runtime/runtime.py:1050`). With `OnRejection = "continue"` a declined call does not restore the
  deadline (`runtime/runtime.py:670`; `docs/operations.md:687`), and `WaitIsFree` fails.
  `_continue_run` schedules without waiting for the pausing drive
  (`runtime/reconciliation.py:587`); recovery in a second process rewinds a run the first is driving
  (`runtime/runtime.py:919`).
- Run loop: steering taken into the drive's copy is lost when the drive is cancelled or raises
  before it saves (a completion and its checkpoint are one step here, the gap is the crash's); the usage of a completion whose transition is refused is lost; a drive may make
  `max_attempts - 1` more model calls than its limit; a parallel batch is measured against the
  agent's step limit, not the extended one; an approval costs two steps.
- Run context: the latest user message is not pinned when the kept tail holds a repair request
  (`context/history.py:47`; `docs/artifacts.md:216`), and a turn whose question was archived does
  not write its tool steps to memory. A crash between the memory append and the completed
  checkpoint writes the turn twice.

*Workflows and conversations*
- A decision while siblings of the batch still run starts them a second time
  (`workflows/engine.py:935`): the new drive takes every node saved as running for one to start.
- After a crash with the parent waiting and the child answered, recovery passes the parent by; its
  expiry then fails the parent while the child runs on (`workflows/service.py:222`).
- A cancel before the `try` of `_respond_observed`, or a title conflict in `submit`, leaves a
  message accepted or streaming without a task until a restart. With two processes, `recover` fails
  messages another replica is writing and two followers may write one message. An event that fails
  after the result was stored, or a cancel, overwrites completed (`conversations/service.py`). The
  checked instance has one process and `PublishFails = FALSE`.
- An event reader that meets a later number first never sees an earlier one that another process
  inserts afterwards; a full queue drops its oldest event.

*Models, cache, API*
- The router leaks a reservation when `settle` raises or is cancelled, ranks once, so that a circuit
  opened meanwhile is still called, and takes a stream that closes without its end mark for
  complete. A name the model writes as `a__b` reaches the tool that owns this alias. The filter
  shows reasoning when the first piece is only whitespace and there are no tools.
- A value loaded before an invalidation is stored after it; a cancelled owner cancels its waiters;
  the Redis store's invalidation is three calls.
- A streamed response holds no slot: the middleware returns it when the response starts
  (`api/app.py:296`).
- OAuth refreshes are single in a process only, and every refusal, a 401 of the client too, deletes the
  stored connection (`mcp/oauth.py:549`): so do a rotation whose answer was lost and one of another process
  that is not stored yet. The check that the stored version is still the refused one and the deletion
  are two steps (`mcp/oauth.py:532`).
- A revocation ends at the expiry it was given while verification grants some leeway after it. A
  refresh under way stores a connection again that was just revoked; two first connections leak a
  session; a conflict in the midst of a listing leaves names behind, so that every later one
  conflicts.
- Readiness declares no token-revocation store (`orchestration/readiness.py:280`), so it may report ready
  with that store's client down when another dependency on this client is optional. It may report ready
  while the container is still starting; a probe that outlasts `aclose` may open a pool again; and a start that raises leaves
  it in that phase; a resource that raises in `aclose` keeps later ones open.

*Data*
- A query that is cancelled, or ended by its drive's timeout, while the configured documents are embedded
  loses them: only an `Exception` puts them back (`retrieval/memory.py:181`).
- A rule, or the closing line of a fence, above a rule is made a heading (`retrieval/ingestion.py:80`).
- The compiler keeps the first filter of a field; a join path may be walked against its direction
  while the SQL joins the right model again; the fan-out check ignores the direction.
- A graph node cancelled or failing at different points stays running (and is retried) or failed
  (and blocks every resume); a resume in another process reruns a node that is running.
- An ingestion under way when its document is deleted stores it again; an older version that
  embeds longer replaces the newer one; overlapping ingestions into Chroma or Qdrant leave mixed
  versions; a FAISS crash between its two files misaligns them.
- A put that fails after its upload leaves an object that blocks its id, a lost commit answer
  deletes the object of a committed row, and a deletion that stops halfway leaves a row without
  one. Expired sessions beyond one batch are counted still.
- A PostgreSQL approval is judged by the clock before it is saved; paging by status can miss a
  request that is decided between two pages.

## 6. Not modelled

- Telemetry, command line, user interface, scaffolds, framework adapters, email and the offline
  evaluation runner: no state the system acts on.
- Planning prompts, verification texts, statistical methods, SQL text, JSON-schema dialects, vendor
  payloads, ranking scores, tokenizers, certificates and signatures: values or verdicts, present
  only as the outcomes they lead to.
- Field validation of settings and request bodies; the SQL of the stores, whose statements are
  atomic actions.
- Within modelled parts: token, cost and event limits of a run; attachments and webhooks of a
  workflow; deletion, feedback and charts of a conversation; filters of listings; sweeps of tables
  nothing refers to. `PROJECT.json` gives the details for each component.
- More than one process in `Conversation` and `RunLifecycle` runs: the modules allow them, and the
  proofs about RunLifecycle, but for `ResumeDrives`, hold for any number; the disagreements above are
  what more processes
  show.

## 7. Plan

1. The parts of `TextsSafe` that need no induction over texts (`PagesWhole`, `FilesVetted`,
   `SkillsCurrent`).
2. The conversation on several processes: an invariant for the deployment in which each conversation
   is served by one process at a time, which the code does not enforce.
3. Further composition: a workflow node over RunLifecycle instead of its abstract call, a
   conversation over RunLifecycle's pauses.
