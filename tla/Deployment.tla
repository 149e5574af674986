----------------------------- MODULE Deployment -----------------------------
(***************************************************************************)
(* One container from its settings to its end: build_container chooses the *)
(* clients the configured stores need and checks the names its agents use, *)
(* astart opens the resources, lists the MCP servers and recovers          *)
(* interrupted work, the maintenance loop sweeps, /health/ready reports,   *)
(* and aclose drains the work and closes the resources                     *)
(* (orchestration/container.py, readiness.py, maintenance.py,              *)
(* validation.py).                                                         *)
(*                                                                         *)
(* A PostgreSQL pool opens itself on the first call that needs it, also    *)
(* after it was closed (persistence/postgres.py, transaction and           *)
(* _pool_call), so whatever still works when the resources are closed      *)
(* leaves a pool behind.  That is why the order of aclose matters.         *)
(*                                                                         *)
(* Which plugins a container may load is PluginTrust, whose state it       *)
(* shares with nothing; HostSafe is about the two.                         *)
(***************************************************************************)
EXTENDS PluginTrust

CONSTANTS
    Deployments,   \* the settings a container may be built from
    Handles,       \* every resource a container can own
    MaxFaults      \* how many dependencies a probe finds down, and tasks a sweep sees fail

(***************************************************************************)
(* A deployment says which backend each store uses (backend), whether      *)
(* token revocation is on, where the response cache lives and whether its  *)
(* Redis has the storage's URL, the MCP servers (each a name, whether it   *)
(* is required, whether it is connected per user and the tools agents may  *)
(* see under its prefix), the toolkits of the plugins, the names its       *)
(* agents use and the names registered without MCP, and how strict the     *)
(* component check and the readiness report are.                           *)
(*                                                                         *)
(* Only artifacts are kept in S3, and no two MCP servers have one name     *)
(* (config/settings.py, StorageSettings and AppSettings).                  *)
(***************************************************************************)
ASSUME DeploymentAssumption ==
    \A d \in Deployments :
        /\ \A k \in DOMAIN d.backend : d.backend[k] \in {"memory", "postgres", "redis", "s3"}
        /\ {"artifact", "token_revocation"} \subseteq DOMAIN d.backend
        /\ \A k \in DOMAIN d.backend : d.backend[k] = "s3" => k = "artifact"
        /\ \A s, other \in d.mcp : s.name = other.name => s = other
        /\ d.cache \in {"none", "memory", "redis"}
        /\ {"database", "redis", "cache_redis", "artifacts", "http",
            "provider_client", "mcp"} \subseteq Handles
        /\ d.providers \cap (Handles \cup {"process", "none"}) = {}
        /\ IsFiniteSet(d.toolkits) /\ {t.name : t \in d.toolkits} \subseteq Handles
        /\ d.adapter \in Handles \cup {"none"}

VARIABLES
    settings,      \* the AppSettings this container is built from
    stage,         \* where build_container, astart or aclose is
    lifePhase,     \* ContainerLifecycle.phase
    backing,       \* the client each store was given, "none" for a missing one
    resources,     \* Container.resources, in their order
    openNow,       \* the resources that hold connections
    names,         \* the registered component names
    degraded,      \* degraded_dependencies
    listed,        \* the MCP servers whose tools are registered
    recovered,     \* what astart has recovered
    work,          \* the kinds of work under way in this process
    sweepLeft,     \* the maintenance tasks of the sweep under way
    sweepDone,     \* the tasks that ended well, of the last sweep
    sweepErrors,   \* MaintenanceReport.errors of the last sweep
    sweeping,      \* "off", "idle" (waiting for the interval) or "busy"
    overdue,       \* a paused run past its wait: none, its run, or only its turn is left
    toClose,       \* how many of the resources aclose has still to close
    report         \* the answer of /health/ready while its probes are out

builtVars == <<settings, backing, resources>>
startVars == <<names, degraded, listed, recovered>>
sweepVars == <<sweepLeft, sweepDone, sweepErrors, sweeping, overdue>>
deployVars == <<settings, stage, lifePhase, backing, resources, openNow, names, degraded, listed,
                recovered, work, sweepLeft, sweepDone, sweepErrors, sweeping, overdue, toClose,
                report>>

LifePhases == {"created", "starting", "ready", "draining", "stopped"}

\* Nothing is probed, or ("late") something was when aclose began.
NoReport == [at |-> "no", ready |-> FALSE, down |-> {}, degraded |-> {}]

DeployInit ==
    /\ settings \in Deployments
    /\ stage = "select"
    /\ lifePhase = "created"
    /\ backing = [k \in DOMAIN settings.backend |-> "none"]
    /\ resources = <<>>
    /\ openNow = {} /\ names = {} /\ degraded = {} /\ listed = {} /\ recovered = {}
    /\ work = {}
    /\ sweepLeft = <<>> /\ sweepDone = {} /\ sweepErrors = {}
    /\ sweeping = "off"
    /\ overdue = "none"
    /\ toClose = 0
    /\ report = NoReport

(***************************************************************************)
(* Building.                                                               *)
(***************************************************************************)

\* selected_backends: the token store counts only when revocation is on, and
\* artifacts in S3 keep their records in PostgreSQL.
Selected(d) ==
    {d.backend[k] : k \in DOMAIN d.backend \ {"token_revocation"}}
    \cup (IF d.revocation THEN {d.backend["token_revocation"]} ELSE {})
    \cup (IF d.backend["artifact"] = "s3" THEN {"postgres"} ELSE {})

\* The database and the storage Redis exist when a store selects them; a
\* reference that resolves to nothing ends the build.
Clients(d) ==
    (IF "postgres" \in Selected(d) THEN <<"database">> ELSE <<>>)
    \o (IF "redis" \in Selected(d) THEN <<"redis">> ELSE <<>>)

BuildClients ==
    /\ stage = "select"
    /\ names' = settings.builtin
    /\ \/ /\ stage' = "caches"
          /\ resources' = Clients(settings)
       \/ /\ stage' = "failed"
          /\ UNCHANGED resources
    /\ UNCHANGED <<sweepVars, settings, lifePhase, backing, openNow, degraded, listed, recovered,
                   work, toClose, report>>

\* The cache shares the storage's Redis client when both have one URL.
CacheClient(d, built) ==
    IF d.cache # "redis" \/ (d.sameUrl /\ \E i \in 1..Len(built) : built[i] = "redis")
    THEN <<>>
    ELSE <<"cache_redis">>

BuildCache ==
    /\ stage = "caches"
    /\ stage' = "stores"
    /\ resources' = resources \o CacheClient(settings, resources)
    /\ UNCHANGED <<startVars, sweepVars, settings, lifePhase, backing, openNow, work, toClose,
                   report>>

\* Every store gets the client of its backend, whatever that client is.
ClientOf(backend, built) ==
    LET given(client) == IF \E i \in 1..Len(built) : built[i] = client THEN client ELSE "none" IN
    CASE backend = "memory"   -> "process"
      [] backend = "redis"    -> given("redis")
      [] OTHER                -> given("database")

BuildStores ==
    /\ stage = "stores"
    /\ stage' = "registries"
    /\ backing' = [k \in DOMAIN settings.backend |->
                     IF k = "token_revocation" /\ ~settings.revocation
                     THEN "process"
                     ELSE ClientOf(settings.backend[k], resources)]
    /\ resources' = resources
                    \o (IF settings.backend["artifact"] = "s3" THEN <<"artifacts">> ELSE <<>>)
                    \o <<"http">>
    /\ UNCHANGED <<startVars, sweepVars, settings, lifePhase, openNow, work, toClose, report>>

\* Model providers register their names, each with a client of its own when
\* the deployment has an egress proxy.
BuildProviders ==
    /\ stage = "registries"
    /\ stage' = "retrievers"
    /\ names' = names \cup settings.providers
    /\ resources' = resources \o (IF settings.outbound THEN <<"provider_client">> ELSE <<>>)
    /\ UNCHANGED <<sweepVars, settings, lifePhase, backing, openNow, degraded, listed, recovered,
                   work, toClose, report>>

\* Each retriever brings a context builder; a persistent one with documents
\* in the settings, or with an unset reference, ends the build.
BuildRetrievers ==
    /\ stage = "retrievers"
    /\ \/ /\ stage' = "plugins"
          /\ names' = names \cup settings.retrievers
       \/ /\ settings.retrievers # {}
          /\ stage' = "failed"
          /\ UNCHANGED names
    /\ UNCHANGED <<builtVars, sweepVars, lifePhase, openNow, degraded, listed, recovered, work,
                   toClose, report>>

\* Plugins register names and resources (toolkits) after the MCP manager's
\* place in the resources.
SeqOfNames(toolkits) ==
    LET order == CHOOSE s \in [1..Cardinality(toolkits) -> {t.name : t \in toolkits}] :
                     {s[i] : i \in DOMAIN s} = {t.name : t \in toolkits}
    IN order

BuildPlugins ==
    /\ stage = "plugins"
    /\ stage' = "check"
    /\ names' = names \cup settings.pluginNames
    /\ resources' = resources
                    \o (IF settings.mcp # {} THEN <<"mcp">> ELSE <<>>)
                    \o SeqOfNames(settings.toolkits)
    /\ UNCHANGED <<sweepVars, settings, lifePhase, backing, openNow, degraded, listed, recovered,
                   work, toClose, report>>

\* A tool under an MCP server's prefix is checked when the server is listed.
Deferred(d) == UNION {s.tools : s \in d.mcp}

UnknownNames(d, registered) == (d.uses \ registered) \ Deferred(d)

CheckComponents ==
    /\ stage = "check"
    /\ stage' = IF UnknownNames(settings, names) # {} /\ settings.strict THEN "failed" ELSE "assemble"
    /\ UNCHANGED <<builtVars, startVars, sweepVars, lifePhase, openNow, work, toClose, report>>

\* The conversations and the maintenance are put together, and a framework
\* adapter that is not yet a resource becomes the last one.
Assemble ==
    /\ stage = "assemble"
    /\ stage' = "built"
    /\ resources' = resources \o (IF settings.adapter = "none"
                                     \/ \E i \in 1..Len(resources) : resources[i] = settings.adapter
                                  THEN <<>> ELSE <<settings.adapter>>)
    /\ UNCHANGED <<startVars, sweepVars, settings, lifePhase, backing, openNow, work, toClose,
                   report>>

(***************************************************************************)
(* Starting.                                                               *)
(***************************************************************************)

StartContainer ==
    /\ stage = "built"
    /\ stage' = "opening"
    /\ lifePhase' = "starting"
    /\ UNCHANGED <<builtVars, startVars, sweepVars, openNow, work, toClose, report>>

\* The resources with a start method, in their order; a toolkit that is not
\* required degrades, any other failure ends astart.
Startable(d) == {"database"} \cup {t.name : t \in d.toolkits}

ToStart ==
    LET waiting == {i \in 1..Len(resources) :
                      /\ resources[i] \in Startable(settings) \ openNow
                      /\ resources[i] \notin degraded}
    IN IF waiting = {} THEN "none" ELSE resources[CHOOSE i \in waiting : \A j \in waiting : i <= j]

MayDegrade(r) == \E t \in settings.toolkits : t.name = r /\ ~t.required

OpenResource ==
    /\ stage = "opening"
    /\ IF ToStart = "none"
       THEN stage' = "listing" /\ UNCHANGED <<openNow, degraded>>
       ELSE \/ /\ openNow' = openNow \cup {ToStart}
               /\ UNCHANGED <<stage, degraded>>
            \/ /\ MayDegrade(ToStart)
               /\ degraded' = degraded \cup {ToStart}
               /\ UNCHANGED <<stage, openNow>>
            \/ /\ ~MayDegrade(ToStart)
               /\ stage' = "broken"
               /\ UNCHANGED <<openNow, degraded>>
    /\ UNCHANGED <<builtVars, sweepVars, lifePhase, names, listed, recovered, work, toClose,
                   report>>

\* One MCP server: its listing registers what it offers and then checks the
\* agents' names under its prefix; a failure of a server that is required
\* and does not merely wait for a user to connect ends astart.
Listed(s) == s.name \in degraded \cup listed

UnknownTools(d, s, offered) == (d.uses \cap s.tools) \ offered

ListServer ==
    /\ stage = "listing"
    /\ \E s \in {x \in settings.mcp : ~Listed(x)} :
          \/ \E offered \in SUBSET s.tools :
                /\ names' = names \cup offered
                /\ listed' = listed \cup {s.name}
                /\ stage' = IF UnknownTools(settings, s, offered) # {} /\ settings.strict
                            THEN "broken" ELSE "listing"
                /\ UNCHANGED degraded
          \/ \E unconnected \in {FALSE, s.oauth} :
                /\ stage' = IF s.required /\ ~unconnected THEN "broken" ELSE "listing"
                /\ degraded' = IF s.required /\ ~unconnected THEN degraded
                               ELSE degraded \cup {s.name}
                /\ UNCHANGED <<names, listed>>
    /\ UNCHANGED <<builtVars, sweepVars, lifePhase, openNow, recovered, work, toClose, report>>

\* Work reaches its stores: a pool that is closed opens again.
Pools(d) == {"database", "redis"} \cap {backing[k] : k \in DOMAIN d.backend}

\* runtime.recover, conversations.recover and the service's workflows, whose
\* failure only degrades.
RecoverWork ==
    /\ stage = "listing"
    /\ \A s \in settings.mcp : Listed(s)
    /\ stage' = "recovered"
    /\ openNow' = openNow \cup Pools(settings)
    /\ \/ /\ recovered' = recovered \cup {"runs", "turns", "workflows"}
          /\ work' \in SUBSET {"run", "turn", "workflow"}
          /\ UNCHANGED degraded
       \/ /\ recovered' = recovered \cup {"runs", "turns"}
          /\ work' \in SUBSET {"run", "turn"}
          /\ degraded' = degraded \cup {"workflow.recovery"}
    /\ UNCHANGED <<builtVars, sweepVars, lifePhase, names, listed, toClose, report>>

\* maintenance.start, then the phase.
BecomeReady ==
    /\ stage = "recovered"
    /\ stage' = "serving"
    /\ lifePhase' = "ready"
    /\ sweeping' = IF settings.maintenance THEN "idle" ELSE "off"
    /\ UNCHANGED <<builtVars, startVars, openNow, work, sweepLeft, sweepDone, sweepErrors, overdue,
                   toClose, report>>

(***************************************************************************)
(* Serving.                                                                *)
(***************************************************************************)

\* A request starts work while the container serves; a workflow step or a
\* turn starts a run as long as it lives.
StartWork ==
    /\ \/ stage = "serving" /\ \E k \in {"run", "turn", "workflow"} : work' = work \cup {k}
       \/ {"turn", "workflow"} \cap work # {} /\ work' = work \cup {"run"}
    /\ work' # work
    /\ openNow' = openNow \cup Pools(settings)
    /\ UNCHANGED <<builtVars, startVars, sweepVars, stage, lifePhase, toClose, report>>

\* Work under way saves, and ends.
UseStores ==
    /\ work # {}
    /\ openNow' = openNow \cup Pools(settings)
    /\ \E k \in work : work' \in {work, work \ {k}}
    /\ UNCHANGED <<builtVars, startVars, sweepVars, stage, lifePhase, toClose, report>>

\* A run that waits for an answer passes its deadline, its turn still pending.
PauseRunsOut ==
    /\ stage = "serving"
    /\ overdue = "none"
    /\ overdue' = "run"
    /\ UNCHANGED <<builtVars, startVars, stage, lifePhase, openNow, work, sweepLeft, sweepDone,
                   sweepErrors, sweeping, toClose, report>>

(***************************************************************************)
(* Maintenance: the tasks of run_once in their order, each under _guard.   *)
(***************************************************************************)

SweepTasks ==
    <<"paused_runs", "pending_turns", "paused_workflows", "artifacts", "learned_memory",
      "retention">>

BeginSweep ==
    /\ sweeping = "idle"
    /\ sweeping' = "busy"
    /\ sweepLeft' = SweepTasks
    /\ sweepDone' = {} /\ sweepErrors' = {}
    /\ UNCHANGED <<builtVars, startVars, stage, lifePhase, openNow, work, overdue, toClose,
                   report>>

\* A failure is recorded and the next task goes on.
AfterFailure(left) == Tail(left)

SweepTask ==
    /\ sweeping = "busy"
    /\ sweepLeft # <<>>
    /\ openNow' = openNow \cup Pools(settings)
    /\ \/ /\ sweepDone' = sweepDone \cup {Head(sweepLeft)}
          /\ sweepLeft' = Tail(sweepLeft)
          /\ overdue' = CASE Head(sweepLeft) = "paused_runs" /\ overdue = "run" -> "turn"
                          [] Head(sweepLeft) = "pending_turns" /\ overdue = "turn" -> "none"
                          [] OTHER -> overdue
          /\ UNCHANGED sweepErrors
       \/ /\ Cardinality(sweepErrors) < MaxFaults
          /\ sweepErrors' = sweepErrors \cup {Head(sweepLeft)}
          /\ sweepLeft' = AfterFailure(sweepLeft)
          /\ UNCHANGED <<sweepDone, overdue>>
    /\ UNCHANGED <<builtVars, startVars, stage, lifePhase, work, sweeping, toClose, report>>

EndSweep ==
    /\ sweeping = "busy"
    /\ sweepLeft = <<>>
    /\ sweeping' = "idle"
    /\ UNCHANGED <<builtVars, startVars, stage, lifePhase, openNow, work, sweepLeft, sweepDone,
                   sweepErrors, overdue, toClose, report>>

(***************************************************************************)
(* Readiness.                                                              *)
(***************************************************************************)

\* _required: the settings' own lists before the default.
IsRequired(d, name, default) == name \in d.requiredNames \/ (name \notin d.optionalNames /\ default)

\* declare_dependencies: the stores in use and a Redis cache, but no store of
\* token revocations.
StoresDeclared(d) ==
    DOMAIN d.backend \ ({"token_revocation"}
                        \cup (IF d.distributed THEN {} ELSE {"work_queue"})
                        \cup (IF d.mcp = {} THEN {"mcp_oauth_token"} ELSE {}))

Declared(d) == StoresDeclared(d) \cup (IF d.cache = "redis" THEN {"cache.redis"} ELSE {})

\* The resource a declared dependency is probed through, and all that has to
\* be up for it: artifacts in S3 ask the bucket and then the database.
ResourceOf(d, n) ==
    CASE n = "cache.redis" ->
             IF \E i \in 1..Len(resources) : resources[i] = "cache_redis" THEN "cache_redis" ELSE "redis"
      [] n # "cache.redis" /\ d.backend[n] = "s3" -> "artifacts"
      [] OTHER -> backing[n]

Needs(d, n) == {ResourceOf(d, n)} \cup (IF n \in DOMAIN backing THEN {backing[n]} ELSE {})

\* A resource with a health() or ping() that no declared dependency covers is
\* an entry of its own, here under the resource's name.
Probed == {"database", "redis", "cache_redis", "artifacts"} \cap {resources[i] : i \in 1..Len(resources)}

Uncovered(d) == Probed \ {ResourceOf(d, n) : n \in Declared(d)}

Entries(d) == Declared(d) \cup Uncovered(d) \cup d.providers \cup d.retrievers
              \cup {s.name : s \in d.mcp} \cup degraded

EntriesDown(d, down) ==
    {n \in Declared(d) : Needs(d, n) \cap down # {}}
    \cup (down \cap (Uncovered(d) \cup d.providers))
    \cup degraded
    \cup (d.requiredNames \ Entries(d))

DefaultRequired(d, name) ==
    \/ name \in StoresDeclared(d) \cup Uncovered(d) /\ d.requireDurable
    \/ name \in d.providers /\ d.providerRule = "all"
    \/ \E s \in d.mcp : s.name = name /\ s.required /\ ~s.oauth

Failing(d, down) ==
    {n \in EntriesDown(d, down) : IsRequired(d, n, DefaultRequired(d, n))}
    \cup (IF d.providerRule = "any" /\ d.providers # {} /\ d.providers \subseteq down
          THEN {"provider.*"} ELSE {})

\* At most MaxFaults of the probed dependencies are down at a time.
FewDown(probed) == {down \in SUBSET probed : Cardinality(down) <= MaxFaults}

\* The phase is read first: nothing is probed once the container drains, since
\* a probe opens a pool.
ReadinessReport ==
    /\ stage \notin {"select", "caches", "stores", "registries", "retrievers", "plugins", "check",
                   "assemble", "failed"}
    /\ lifePhase \notin {"draining", "stopped"}
    /\ report.at = "no"
    /\ \E down \in FewDown(Probed \cup settings.providers) :
          report' = [at |-> "probing", ready |-> Failing(settings, down) = {}, down |-> down,
                     degraded |-> degraded]
    /\ UNCHANGED <<builtVars, startVars, sweepVars, stage, lifePhase, openNow, work, toClose>>

\* The report is told when its probes have answered.  aclose does not wait for
\* them, and artifacts in S3 ask the database only after the bucket.
ProbesAnswer ==
    /\ report.at = "probing"
    /\ report' = [NoReport EXCEPT !.at = IF lifePhase \in {"draining", "stopped"} THEN "late" ELSE "no"]
    /\ openNow' \in {openNow, openNow \cup (Pools(settings) \ report.down)}
    /\ UNCHANGED <<builtVars, startVars, sweepVars, stage, lifePhase, work, toClose>>

(***************************************************************************)
(* Closing: also after an astart that raised (the API's lifespan).         *)
(***************************************************************************)

\* aclose: the phase, then the maintenance task is cancelled and awaited.
BeginClose ==
    /\ stage \in {"serving", "broken"}
    /\ stage' = "drain workflow"
    /\ lifePhase' = "draining"
    /\ toClose' = Len(resources)
    /\ sweeping' = "off"
    /\ sweepLeft' = <<>>
    /\ UNCHANGED <<builtVars, startVars, openNow, work, sweepDone, sweepErrors, overdue,
                   report>>

\* Mutant: the runs are drained before the workflows and turns that start them.
RunsFirst == <<"run", "workflow", "turn">>

\* Each kind of work gets its grace and is then cancelled; workflows and
\* turns before the runs they start.
DrainOrder == <<"workflow", "turn", "run">>

DrainWork ==
    /\ \E i \in 1..3 :
          /\ stage = <<"drain workflow", "drain turn", "drain run">>[i]
          /\ work' = work \ {DrainOrder[i]}
          /\ stage' = <<"drain turn", "drain run", "closing">>[i]
    /\ openNow' = openNow \cup Pools(settings)
    /\ UNCHANGED <<builtVars, startVars, sweepVars, lifePhase, toClose, report>>

\* The resources in reverse order, then the phase; a close that raises ends
\* aclose with the rest open.
CloseResources ==
    /\ stage = "closing"
    /\ IF toClose = 0
       THEN stage' = "over" /\ lifePhase' = "stopped" /\ UNCHANGED <<openNow, toClose>>
       ELSE /\ UNCHANGED lifePhase
            /\ \/ /\ openNow' = openNow \ {resources[toClose]}
                  /\ toClose' = toClose - 1
                  /\ UNCHANGED stage
               \/ /\ stage' = "unclean"
                  /\ UNCHANGED <<openNow, toClose>>
    /\ UNCHANGED <<builtVars, startVars, sweepVars, work, report>>

DeployNext ==
    \/ BuildClients
    \/ BuildCache
    \/ BuildStores
    \/ BuildProviders
    \/ BuildRetrievers
    \/ BuildPlugins
    \/ CheckComponents
    \/ Assemble
    \/ StartContainer
    \/ OpenResource
    \/ ListServer
    \/ RecoverWork
    \/ BecomeReady
    \/ StartWork
    \/ UseStores
    \/ PauseRunsOut
    \/ BeginSweep
    \/ SweepTask
    \/ EndSweep
    \/ ReadinessReport
    \/ ProbesAnswer
    \/ BeginClose
    \/ DrainWork
    \/ CloseResources

DeploySpec == DeployInit /\ [][DeployNext]_deployVars

-----------------------------------------------------------------------------

DeployTypeOK ==
    /\ settings \in Deployments
    /\ lifePhase \in LifePhases
    /\ \A k \in DOMAIN backing : backing[k] \in Handles \cup {"process", "none"}
    /\ \A i \in 1..Len(resources) : resources[i] \in Handles
    /\ openNow \subseteq Handles
    /\ work \subseteq {"run", "turn", "workflow"}
    /\ recovered \subseteq {"runs", "turns", "workflows"}
    /\ sweeping \in {"off", "idle", "busy"}
    /\ overdue \in {"none", "run", "turn"}
    /\ toClose \in 0..Len(resources)
    /\ report.at \in {"no", "probing", "late"}

(***************************************************************************)
(* build_container lists in selected_backends, by hand, every setting that *)
(* names a backend, and hands each store its client without asking whether *)
(* it exists: when the container recovers or serves work, every store has  *)
(* the client of its backend, among the resources that aclose closes.      *)
(***************************************************************************)
StoresBacked ==
    lifePhase \in {"starting", "ready"} =>
        \A k \in DOMAIN backing :
            /\ backing[k] # "none"
            /\ backing[k] = "process" \/ \E i \in 1..Len(resources) : resources[i] = backing[k]

(***************************************************************************)
(* aclose stops maintenance, drains workflows and turns before the runs    *)
(* they start and closes the resources last: no work survives it and,      *)
(* since a pool reopens on use, no pool does, unless a probe of            *)
(* /health/ready was still out when it began.                              *)
(***************************************************************************)
NothingLeftOpen ==
    lifePhase = "stopped" => work = {} /\ (openNow = {} \/ report.at # "no")

(***************************************************************************)
(* _guard isolates the tasks of a sweep: when a sweep has ended, every     *)
(* task has run or is in the report's errors, however many failed.         *)
(***************************************************************************)
SweepReachesAll ==
    sweeping = "idle" =>
        sweepDone \cup sweepErrors \in {{}, {SweepTasks[i] : i \in 1..Len(SweepTasks)}}

(***************************************************************************)
(* run_once reconciles the pending turns after it has expired paused runs: *)
(* a sweep that reconciled leaves no turn pending whose run it expired.    *)
(***************************************************************************)
TurnsFollowRuns ==
    sweeping = "idle" /\ "pending_turns" \in sweepDone => overdue # "turn"

(***************************************************************************)
(* report never says ready with a required dependency down: not what a     *)
(* declared store needs that the settings do not exempt, not the client of *)
(* any store, the undeclared one of token revocations included, unless an  *)
(* exempted dependency stands for it, not a name they require that         *)
(* degraded at the start or that nothing registers.                        *)
(***************************************************************************)
Exempt(n) == n \in settings.optionalNames \/ n = "cache.redis"

ReportHonest ==
    report.ready =>
        /\ settings.requireDurable =>
             /\ \A k \in StoresDeclared(settings) :
                  Needs(settings, k) \cap report.down # {} => Exempt(k)
             /\ \A k \in DOMAIN backing :
                  backing[k] \in report.down =>
                      \/ Exempt(backing[k])
                      \/ \E n \in Declared(settings) : ResourceOf(settings, n) = backing[k] /\ Exempt(n)
        /\ settings.requiredNames \subseteq Entries(settings) \ report.degraded

(***************************************************************************)
(* A strict component check has two halves, one when the container is      *)
(* built and one when an MCP server is listed: a container that serves     *)
(* knows every name its agents use, but for the tools of the servers it    *)
(* reports as degraded.                                                    *)
(***************************************************************************)
NamesKnown ==
    lifePhase = "ready" /\ settings.strict =>
        settings.uses
            \subseteq names \cup UNION {s.tools : s \in {x \in settings.mcp : x.name \in degraded}}

\* A deployment is built with what its stores need, knows its tools, reports itself honestly, reaches
\* every sweep in order and leaves nothing open.
DeploySafe ==
    /\ DeployTypeOK
    /\ StoresBacked
    /\ NothingLeftOpen
    /\ SweepReachesAll
    /\ TurnsFollowRuns
    /\ ReportHonest
    /\ NamesKnown

HostSpec == DeploySpec /\ PluginSpec

\* A deployment is built, started, swept, reported and closed soundly, with plugins it may trust
\* (orchestration/, plugins/).
HostSafe == DeploySafe /\ PluginSafe
=============================================================================
